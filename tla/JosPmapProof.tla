---------------------------- MODULE JosPmapProof ----------------------------
(***************************************************************************)
(* Physical memory is safe for any number of environments, processors,     *)
(* pages and addresses: the counts cover the page tables, a free page is   *)
(* reachable from nowhere, no TLB is stale and page tables are private.    *)
(*                                                                         *)
(* First what one memory m must satisfy, Good(m), and that the operators   *)
(* of pmap.c keep it, also in the states between them; then the actions.   *)
(***************************************************************************)
EXTENDS JosPmap, FiniteSetTheorems, TLAPS

Dirs(m, es, p)   == {e \in es : m.pgdir[e] = p}
Tables(m, es, p) == {x \in es \X Pdx : m.pde[x[1]][x[2]] = p}
Maps(m, es, p)   == {x \in es \X Va : m.pte[x[1]][x[2]] = p}

Ptrs(m, p) == Entries(m, Envs, p)

IsTable(m, p) == \E e \in Envs : m.pgdir[e] = p \/ \E d \in Pdx : m.pde[e][d] = p

\* What holds of the memory after every operator of pmap.c.
Good(m) ==
  /\ m \in Memory
  /\ \A p \in Pages :
       /\ m.ref[p] >= Ptrs(m, p)
       /\ m.free[p] > 0 => m.free[p] = 1 /\ Ptrs(m, p) = 0
       /\ IsTable(m, p) => Ptrs(m, p) = 1

\* Page p is in use, is no table, and has a count nobody uses yet: it may be
\* mapped once more.
Held(m, p) == m.free[p] = 0 /\ m.ref[p] >= Ptrs(m, p) + 1 /\ ~ IsTable(m, p)

-----------------------------------------------------------------------------
(***************************************************************************)
(* Counting entries.                                                       *)
(***************************************************************************)

LEMMA EntriesFinite ==
  ASSUME NEW m, NEW es \in SUBSET Envs, NEW p
  PROVE  /\ IsFiniteSet(Dirs(m, es, p)) /\ IsFiniteSet(Tables(m, es, p))
         /\ IsFiniteSet(Maps(m, es, p))
         /\ Entries(m, es, p)
              = Cardinality(Dirs(m, es, p)) + Cardinality(Tables(m, es, p))
                  + Cardinality(Maps(m, es, p))
         /\ Cardinality(Dirs(m, es, p)) \in Nat /\ Cardinality(Tables(m, es, p)) \in Nat
         /\ Cardinality(Maps(m, es, p)) \in Nat
         /\ Entries(m, es, p) \in Nat
<1>1. IsFiniteSet(es)
  BY FS_Subset, PmapAssumption
<1>2. IsFiniteSet(es \X Pdx) /\ IsFiniteSet(Va)
  BY <1>1, FS_Product, PmapAssumption DEF Va
<1>3. IsFiniteSet(es \X Va)
  BY <1>1, <1>2, FS_Product
<1>4. Dirs(m, es, p) \in SUBSET es /\ Tables(m, es, p) \in SUBSET (es \X Pdx)
      /\ Maps(m, es, p) \in SUBSET (es \X Va)
  BY DEF Dirs, Tables, Maps
<1>5. IsFiniteSet(Dirs(m, es, p)) /\ IsFiniteSet(Tables(m, es, p)) /\ IsFiniteSet(Maps(m, es, p))
  BY <1>1, <1>2, <1>3, <1>4, FS_Subset
<1>6. /\ Cardinality(Dirs(m, es, p)) \in Nat /\ Cardinality(Tables(m, es, p)) \in Nat
      /\ Cardinality(Maps(m, es, p)) \in Nat
  BY <1>5, FS_CardinalityType
<1>7. Entries(m, es, p) = Cardinality(Dirs(m, es, p)) + Cardinality(Tables(m, es, p))
                            + Cardinality(Maps(m, es, p))
  BY DEF Entries, Dirs, Tables, Maps
<1> QED BY <1>5, <1>6, <1>7

\* A page that no entry counts is pointed to by none, and the other way.
LEMMA EntriesZero ==
  ASSUME NEW m, NEW es \in SUBSET Envs, NEW p
  PROVE  Entries(m, es, p) = 0 <=>
           /\ \A e \in es : m.pgdir[e] # p
           /\ \A e \in es, d \in Pdx : m.pde[e][d] # p
           /\ \A e \in es, va \in Va : m.pte[e][va] # p
<1>2. Entries(m, es, p) = 0 <=>
        /\ Cardinality(Dirs(m, es, p)) = 0 /\ Cardinality(Tables(m, es, p)) = 0
        /\ Cardinality(Maps(m, es, p)) = 0
  BY EntriesFinite
<1>3. Entries(m, es, p) = 0 <=> Dirs(m, es, p) = {} /\ Tables(m, es, p) = {} /\ Maps(m, es, p) = {}
  BY <1>2, EntriesFinite, FS_EmptySet
<1>4. Dirs(m, es, p) = {} <=> \A e \in es : m.pgdir[e] # p
  BY DEF Dirs
<1>5. Tables(m, es, p) = {} <=> \A e \in es, d \in Pdx : m.pde[e][d] # p
  <2>1. \A e \in es, d \in Pdx : m.pde[e][d] = p <=> <<e, d>> \in Tables(m, es, p)
    BY DEF Tables
  <2>2. \A x \in Tables(m, es, p) : \E e \in es, d \in Pdx : m.pde[e][d] = p
    BY DEF Tables
  <2> QED BY <2>1, <2>2
<1>6. Maps(m, es, p) = {} <=> \A e \in es, va \in Va : m.pte[e][va] # p
  <2>1. \A e \in es, va \in Va : m.pte[e][va] = p <=> <<e, va>> \in Maps(m, es, p)
    BY DEF Maps
  <2>2. \A x \in Maps(m, es, p) : \E e \in es, va \in Va : m.pte[e][va] = p
    BY DEF Maps
  <2> QED BY <2>1, <2>2
<1> QED BY <1>3, <1>4, <1>5, <1>6

LEMMA PtrsZero ==
  ASSUME NEW m, NEW p
  PROVE  /\ Ptrs(m, p) \in Nat
         /\ Ptrs(m, p) = 0 <=>
              /\ \A e \in Envs : m.pgdir[e] # p
              /\ \A e \in Envs, d \in Pdx : m.pde[e][d] # p
              /\ \A e \in Envs, va \in Va : m.pte[e][va] # p
<1>1. Envs \in SUBSET Envs
  OBVIOUS
<1> QED BY <1>1, EntriesZero, EntriesFinite DEF Ptrs

\* Counts depend on the page tables only.
LEMMA EntriesSame ==
  ASSUME NEW m, NEW n, n.pgdir = m.pgdir, n.pde = m.pde, n.pte = m.pte
  PROVE  /\ \A es, p : Entries(n, es, p) = Entries(m, es, p)
         /\ \A p : Ptrs(n, p) = Ptrs(m, p) /\ (IsTable(n, p) <=> IsTable(m, p))
BY DEF Entries, Ptrs, IsTable

\* One more page table entry is one more pointer to its page.
LEMMA AddPte ==
  ASSUME NEW m, NEW n, NEW e \in Envs, NEW va \in Va, NEW p \in Pages, NEW q \in Pages,
         n.pgdir = m.pgdir, n.pde = m.pde, m.pte[e][va] = Null, n.pte[e][va] = p,
         \A f \in Envs, w \in Va : f # e \/ w # va => n.pte[f][w] = m.pte[f][w]
  PROVE  Ptrs(n, q) = IF q = p THEN Ptrs(m, q) + 1 ELSE Ptrs(m, q)
<1>1. Dirs(n, Envs, q) = Dirs(m, Envs, q) /\ Tables(n, Envs, q) = Tables(m, Envs, q)
  BY DEF Dirs, Tables
<1>2. Maps(n, Envs, q) = IF q = p THEN Maps(m, Envs, q) \cup {<<e, va>>} ELSE Maps(m, Envs, q)
  BY PmapAssumption DEF Maps
<1>3. <<e, va>> \notin Maps(m, Envs, q)
  BY PmapAssumption DEF Maps
<1>4. Envs \in SUBSET Envs
  OBVIOUS
<1>5. Cardinality(Maps(n, Envs, q))
        = IF q = p THEN Cardinality(Maps(m, Envs, q)) + 1 ELSE Cardinality(Maps(m, Envs, q))
  BY <1>2, <1>3, <1>4, EntriesFinite, FS_AddElement
<1> QED BY <1>1, <1>4, <1>5, EntriesFinite DEF Ptrs

LEMMA AddPde ==
  ASSUME NEW m, NEW n, NEW e \in Envs, NEW d \in Pdx, NEW p \in Pages, NEW q \in Pages,
         n.pgdir = m.pgdir, n.pte = m.pte, m.pde[e][d] = Null, n.pde[e][d] = p,
         \A f \in Envs, c \in Pdx : f # e \/ c # d => n.pde[f][c] = m.pde[f][c]
  PROVE  Ptrs(n, q) = IF q = p THEN Ptrs(m, q) + 1 ELSE Ptrs(m, q)
<1>1. Dirs(n, Envs, q) = Dirs(m, Envs, q) /\ Maps(n, Envs, q) = Maps(m, Envs, q)
  BY DEF Dirs, Maps
<1>2. Tables(n, Envs, q) = IF q = p THEN Tables(m, Envs, q) \cup {<<e, d>>} ELSE Tables(m, Envs, q)
  BY PmapAssumption DEF Tables
<1>3. <<e, d>> \notin Tables(m, Envs, q)
  BY PmapAssumption DEF Tables
<1>4. Envs \in SUBSET Envs
  OBVIOUS
<1>5. Cardinality(Tables(n, Envs, q))
        = IF q = p THEN Cardinality(Tables(m, Envs, q)) + 1 ELSE Cardinality(Tables(m, Envs, q))
  <2>1. IsFiniteSet(Tables(m, Envs, q))
    BY <1>4, EntriesFinite
  <2>2. Cardinality(Tables(m, Envs, q) \cup {<<e, d>>}) = Cardinality(Tables(m, Envs, q)) + 1
    BY <1>3, <2>1, FS_AddElement
  <2> QED BY <1>2, <2>2
<1> QED BY <1>1, <1>4, <1>5, EntriesFinite DEF Ptrs

LEMMA AddPgdir ==
  ASSUME NEW m, NEW n, NEW e \in Envs, NEW p \in Pages, NEW q \in Pages,
         n.pde = m.pde, n.pte = m.pte, m.pgdir[e] = Null, n.pgdir[e] = p,
         \A f \in Envs : f # e => n.pgdir[f] = m.pgdir[f]
  PROVE  Ptrs(n, q) = IF q = p THEN Ptrs(m, q) + 1 ELSE Ptrs(m, q)
<1>1. Tables(n, Envs, q) = Tables(m, Envs, q) /\ Maps(n, Envs, q) = Maps(m, Envs, q)
  BY DEF Tables, Maps
<1>2. Dirs(n, Envs, q) = IF q = p THEN Dirs(m, Envs, q) \cup {e} ELSE Dirs(m, Envs, q)
  BY PmapAssumption DEF Dirs
<1>3. e \notin Dirs(m, Envs, q)
  BY PmapAssumption DEF Dirs
<1>4. Envs \in SUBSET Envs
  OBVIOUS
<1>5. Cardinality(Dirs(n, Envs, q))
        = IF q = p THEN Cardinality(Dirs(m, Envs, q)) + 1 ELSE Cardinality(Dirs(m, Envs, q))
  <2>1. IsFiniteSet(Dirs(m, Envs, q))
    BY <1>4, EntriesFinite
  <2>2. Cardinality(Dirs(m, Envs, q) \cup {e}) = Cardinality(Dirs(m, Envs, q)) + 1
    BY <1>3, <2>1, FS_AddElement
  <2> QED BY <1>2, <2>2
<1> QED BY <1>1, <1>4, <1>5, EntriesFinite DEF Ptrs

LEMMA DisjointCount ==
  ASSUME NEW A, NEW B, IsFiniteSet(A), IsFiniteSet(B), A \cap B = {}
  PROVE  Cardinality(A \cup B) = Cardinality(A) + Cardinality(B)
<1>1. Cardinality(A \cup B) = Cardinality(A) + Cardinality(B) - Cardinality(A \cap B)
  BY FS_Union
<1>2. Cardinality(A \cap B) = 0 /\ Cardinality(A) \in Nat /\ Cardinality(B) \in Nat
  BY FS_EmptySet, FS_CardinalityType
<1> QED BY <1>1, <1>2

\* The entries of an environment are those of all without those of the rest.
LEMMA EntriesSplit ==
  ASSUME NEW m, NEW e \in Envs, NEW p
  PROVE  Ptrs(m, p) = Entries(m, Envs \ {e}, p) + Entries(m, {e}, p)
<1> DEFINE R == Envs \ {e}
<1>1. Envs \in SUBSET Envs /\ R \in SUBSET Envs /\ {e} \in SUBSET Envs
  OBVIOUS
<1>2. /\ Dirs(m, Envs, p) = Dirs(m, R, p) \cup Dirs(m, {e}, p)
      /\ Dirs(m, R, p) \cap Dirs(m, {e}, p) = {}
  BY DEF Dirs
<1>3. /\ Tables(m, Envs, p) = Tables(m, R, p) \cup Tables(m, {e}, p)
      /\ Tables(m, R, p) \cap Tables(m, {e}, p) = {}
  BY DEF Tables
<1>4. /\ Maps(m, Envs, p) = Maps(m, R, p) \cup Maps(m, {e}, p)
      /\ Maps(m, R, p) \cap Maps(m, {e}, p) = {}
  BY DEF Maps
<1> HIDE DEF R
<1>5. Cardinality(Dirs(m, Envs, p)) = Cardinality(Dirs(m, R, p)) + Cardinality(Dirs(m, {e}, p))
  BY <1>1, <1>2, EntriesFinite, DisjointCount
<1>6. Cardinality(Tables(m, Envs, p))
        = Cardinality(Tables(m, R, p)) + Cardinality(Tables(m, {e}, p))
  BY <1>1, <1>3, EntriesFinite, DisjointCount
<1>7. Cardinality(Maps(m, Envs, p)) = Cardinality(Maps(m, R, p)) + Cardinality(Maps(m, {e}, p))
  BY <1>1, <1>4, EntriesFinite, DisjointCount
<1>8. Ptrs(m, p) = Entries(m, R, p) + Entries(m, {e}, p)
  BY <1>1, <1>5, <1>6, <1>7, EntriesFinite DEF Ptrs
<1> QED BY <1>8 DEF R

-----------------------------------------------------------------------------
(***************************************************************************)
(* The operators of pmap.c.                                                *)
(***************************************************************************)

LEMMA ModSmall ==
  ASSUME NEW a \in Int, 0 <= a, a < REFMOD
  PROVE  a % REFMOD = a
BY PmapAssumption

\* A memory with the page tables of a good one, and counts that still cover
\* them, is good.
LEMMA SameTablesGood ==
  ASSUME NEW m, Good(m), NEW n \in Memory,
         n.pgdir = m.pgdir, n.pde = m.pde, n.pte = m.pte,
         \A p \in Pages : n.ref[p] >= m.ref[p] /\ n.free[p] <= m.free[p]
  PROVE  Good(n)
<1>1. \A p \in Pages : Ptrs(n, p) = Ptrs(m, p) /\ (IsTable(n, p) <=> IsTable(m, p))
  BY EntriesSame
<1>2. \A p \in Pages : m.ref[p] \in Int /\ n.ref[p] \in Int /\ n.free[p] \in 0 .. 2 /\ Ptrs(m, p) \in Nat
  BY EntriesFinite DEF Good, Memory, Ptrs
<1>3. ASSUME NEW p \in Pages
      PROVE  /\ n.ref[p] >= Ptrs(n, p)
             /\ n.free[p] > 0 => n.free[p] = 1 /\ Ptrs(n, p) = 0
             /\ IsTable(n, p) => Ptrs(n, p) = 1
  BY <1>1, <1>2, <1>3 DEF Good, Memory
<1> QED BY <1>3 DEF Good

LEMMA AllocGood ==
  ASSUME NEW m, Good(m), NEW p \in Available(m), NEW n, n = page_alloc(m, p)
  PROVE  /\ Good(n) /\ n.free[p] = 0 /\ Ptrs(m, p) = 0
         /\ n.ref = m.ref /\ n.pgdir = m.pgdir /\ n.pde = m.pde /\ n.pte = m.pte
         /\ \A q \in Pages : q # p => n.free[q] = m.free[q]
<1>1. p \in Pages /\ m.free[p] = 1 /\ Ptrs(m, p) = 0
  BY DEF Available, Good
<1> DEFINE F == [m.free EXCEPT ![p] = @ - 1]
<1>11. n = [ref |-> m.ref, free |-> F, pgdir |-> m.pgdir, pde |-> m.pde, pte |-> m.pte]
  BY <1>1 DEF page_alloc, Good, Memory
<1>12. F \in [Pages -> 0 .. 2] /\ F[p] = 0 /\ \A q \in Pages : q # p => F[q] = m.free[q]
  BY <1>1 DEF Good, Memory
<1> HIDE DEF F
<1>2. /\ n \in Memory /\ n.free[p] = 0
      /\ n.ref = m.ref /\ n.pgdir = m.pgdir /\ n.pde = m.pde /\ n.pte = m.pte
      /\ \A q \in Pages : q # p => n.free[q] = m.free[q]
  BY <1>11, <1>12 DEF Good, Memory
<1>3. \A q \in Pages : n.ref[q] >= m.ref[q] /\ n.free[q] <= m.free[q]
  BY <1>1, <1>2 DEF Good, Memory
<1> QED BY <1>1, <1>2, <1>3, SameTablesGood

LEMMA IncGood ==
  ASSUME NEW m, Good(m), NEW p \in Pages, m.ref[p] + 1 < REFMOD, NEW n, n = incref(m, p)
  PROVE  /\ Good(n) /\ n.ref[p] = m.ref[p] + 1
         /\ n.free = m.free /\ n.pgdir = m.pgdir /\ n.pde = m.pde /\ n.pte = m.pte
         /\ \A q \in Pages : q # p => n.ref[q] = m.ref[q]
<1>1. (m.ref[p] + 1) % REFMOD = m.ref[p] + 1
  BY ModSmall, PmapAssumption DEF Good, Memory
<1> DEFINE R == [m.ref EXCEPT ![p] = m.ref[p] + 1]
<1>11. n = [ref |-> R, free |-> m.free, pgdir |-> m.pgdir, pde |-> m.pde, pte |-> m.pte]
  BY <1>1 DEF incref, Good, Memory
<1>12. R \in [Pages -> 0 .. REFMOD - 1] /\ R[p] = m.ref[p] + 1
      /\ \A q \in Pages : q # p => R[q] = m.ref[q]
  BY PmapAssumption DEF Good, Memory
<1> HIDE DEF R
<1>2. /\ n \in Memory /\ n.ref[p] = m.ref[p] + 1
      /\ n.free = m.free /\ n.pgdir = m.pgdir /\ n.pde = m.pde /\ n.pte = m.pte
      /\ \A q \in Pages : q # p => n.ref[q] = m.ref[q]
  BY <1>11, <1>12 DEF Good, Memory
<1>3. \A q \in Pages : n.ref[q] >= m.ref[q] /\ n.free[q] <= m.free[q]
  BY <1>1, <1>2 DEF Good, Memory
<1> QED BY <1>2, <1>3, SameTablesGood

\* A page taken from the list and counted once may be put to use.
LEMMA TakeGood ==
  ASSUME NEW m, Good(m), NEW p \in Available(m), m.ref[p] + 1 < REFMOD,
         NEW n, n = incref(page_alloc(m, p), p)
  PROVE  /\ p \in Pages /\ Good(n) /\ Held(n, p) /\ Ptrs(n, p) = 0
         /\ n.pgdir = m.pgdir /\ n.pde = m.pde /\ n.pte = m.pte
         /\ n.ref[p] = m.ref[p] + 1
         /\ \A q \in Pages : q # p => n.ref[q] = m.ref[q] /\ n.free[q] = m.free[q]
<1> DEFINE k == page_alloc(m, p)
<1>1. p \in Pages /\ Ptrs(m, p) = 0
  BY AllocGood DEF Available
<1>2. /\ Good(k) /\ k.free[p] = 0
      /\ k.ref = m.ref /\ k.pgdir = m.pgdir /\ k.pde = m.pde /\ k.pte = m.pte
      /\ \A q \in Pages : q # p => k.free[q] = m.free[q]
  BY AllocGood
<1> HIDE DEF k
<1>3. /\ Good(n) /\ n.ref[p] = m.ref[p] + 1
      /\ n.free = k.free /\ n.pgdir = k.pgdir /\ n.pde = k.pde /\ n.pte = k.pte
      /\ \A q \in Pages : q # p => n.ref[q] = k.ref[q]
  BY <1>1, <1>2, IncGood DEF k
<1>4. Ptrs(n, p) = 0 /\ ~ IsTable(n, p)
  <2>1. Ptrs(n, p) = 0
    BY <1>1, <1>2, <1>3, EntriesSame
  <2> QED BY <2>1, PtrsZero DEF IsTable
<1>5. Held(n, p)
  BY <1>1, <1>2, <1>3, <1>4 DEF Held, Good, Memory
<1> QED BY <1>1, <1>2, <1>3, <1>4, <1>5

LEMMA MemoryRecord ==
  ASSUME NEW R \in [Pages -> 0 .. REFMOD - 1], NEW F \in [Pages -> 0 .. 2],
         NEW D \in [Envs -> Pages \cup {Null}],
         NEW T \in [Envs -> [Pdx -> Pages \cup {Null}]],
         NEW M \in [Envs -> [Va -> Pages \cup {Null}]]
  PROVE  [ref |-> R, free |-> F, pgdir |-> D, pde |-> T, pte |-> M] \in Memory
BY DEF Memory

LEMMA MemoryFields ==
  ASSUME NEW m \in Memory
  PROVE  /\ m.ref \in [Pages -> 0 .. REFMOD - 1] /\ m.free \in [Pages -> 0 .. 2]
         /\ m.pgdir \in [Envs -> Pages \cup {Null}]
         /\ m.pde \in [Envs -> [Pdx -> Pages \cup {Null}]]
         /\ m.pte \in [Envs -> [Va -> Pages \cup {Null}]]
BY DEF Memory

\* One more pointer to a page that has a count to spare.
LEMMA PointGood ==
  ASSUME NEW m, Good(m), NEW n \in Memory, NEW p \in Pages, Held(m, p),
         n.ref = m.ref, n.free = m.free,
         \A q \in Pages : Ptrs(n, q) = IF q = p THEN Ptrs(m, q) + 1 ELSE Ptrs(m, q),
         \A q \in Pages : IsTable(n, q) => IF q = p THEN Ptrs(m, q) = 0 ELSE IsTable(m, q)
  PROVE  Good(n)
<1>1. ASSUME NEW q \in Pages
      PROVE  /\ n.ref[q] >= Ptrs(n, q)
             /\ n.free[q] > 0 => n.free[q] = 1 /\ Ptrs(n, q) = 0
             /\ IsTable(n, q) => Ptrs(n, q) = 1
  <2>1. CASE q = p
    BY <2>1 DEF Held, Good, Memory
  <2>2. CASE q # p
    BY <2>2 DEF Good
  <2> QED BY <2>1, <2>2
<1> QED BY <1>1 DEF Good

SetPte(m, e, va, p) == [m EXCEPT !.pte[e][va] = p]

LEMMA SetPteGood ==
  ASSUME NEW m, Good(m), NEW p \in Pages, Held(m, p), NEW e \in Envs, NEW va \in Va,
         m.pte[e][va] = Null, NEW n
  PROVE  n = SetPte(m, e, va, p) =>
         /\ Good(n) /\ n.pgdir = m.pgdir
         /\ n.pte = [m.pte EXCEPT ![e] = [m.pte[e] EXCEPT ![va] = p]]
<1>0. HAVE n = SetPte(m, e, va, p)
<1> DEFINE T == [m.pte EXCEPT ![e] = [m.pte[e] EXCEPT ![va] = p]]
<1>1. n = [ref |-> m.ref, free |-> m.free, pgdir |-> m.pgdir, pde |-> m.pde, pte |-> T]
  BY <1>0 DEF SetPte, Good, Memory
<1>2. /\ T \in [Envs -> [Va -> Pages \cup {Null}]] /\ T[e][va] = p
      /\ \A f \in Envs, w \in Va : f # e \/ w # va => T[f][w] = m.pte[f][w]
  BY DEF Good, Memory
<1> HIDE DEF T
<1>3. /\ n \in Memory /\ n.ref = m.ref /\ n.free = m.free /\ n.pgdir = m.pgdir /\ n.pde = m.pde
      /\ n.pte[e][va] = p
      /\ \A f \in Envs, w \in Va : f # e \/ w # va => n.pte[f][w] = m.pte[f][w]
  <2>1. n \in Memory
    BY <1>1, <1>2, MemoryRecord, MemoryFields DEF Good
  <2> QED BY <1>1, <1>2, <2>1
<1>4. ASSUME NEW q \in Pages
      PROVE  Ptrs(n, q) = IF q = p THEN Ptrs(m, q) + 1 ELSE Ptrs(m, q)
  BY <1>3, AddPte
<1>5. \A q \in Pages : IsTable(n, q) => q # p /\ IsTable(m, q)
  BY <1>3 DEF IsTable, Held
<1>6. Good(n)
  BY <1>3, <1>4, <1>5, PointGood
<1> QED BY <1>1, <1>6 DEF T

LEMMA SetPdeGood ==
  ASSUME NEW m, Good(m), NEW p \in Pages, Held(m, p), Ptrs(m, p) = 0,
         NEW e \in Envs, NEW d \in Pdx,
         m.pde[e][d] = Null, NEW n
  PROVE  n = [m EXCEPT !.pde[e][d] = p] =>
         /\ Good(n) /\ n.ref = m.ref /\ n.free = m.free /\ n.pgdir = m.pgdir /\ n.pte = m.pte
         /\ \A q \in Pages : q # p => Ptrs(n, q) = Ptrs(m, q) /\ (IsTable(n, q) => IsTable(m, q))
<1>0. HAVE n = [m EXCEPT !.pde[e][d] = p]
<1> DEFINE T == [m.pde EXCEPT ![e] = [m.pde[e] EXCEPT ![d] = p]]
<1>1. n = [ref |-> m.ref, free |-> m.free, pgdir |-> m.pgdir, pde |-> T, pte |-> m.pte]
  BY <1>0 DEF Good, Memory
<1>2. /\ T \in [Envs -> [Pdx -> Pages \cup {Null}]] /\ T[e][d] = p
      /\ \A f \in Envs, c \in Pdx : f # e \/ c # d => T[f][c] = m.pde[f][c]
  BY DEF Good, Memory
<1> HIDE DEF T
<1>3. /\ n \in Memory /\ n.ref = m.ref /\ n.free = m.free /\ n.pgdir = m.pgdir /\ n.pte = m.pte
      /\ n.pde[e][d] = p
      /\ \A f \in Envs, c \in Pdx : f # e \/ c # d => n.pde[f][c] = m.pde[f][c]
  <2>1. n \in Memory
    BY <1>1, <1>2, MemoryRecord, MemoryFields DEF Good
  <2> QED BY <1>1, <1>2, <2>1
<1>4. ASSUME NEW q \in Pages
      PROVE  Ptrs(n, q) = IF q = p THEN Ptrs(m, q) + 1 ELSE Ptrs(m, q)
  BY <1>3, AddPde
<1>5. \A q \in Pages : IsTable(n, q) => q = p \/ IsTable(m, q)
  BY <1>3 DEF IsTable
<1>6. Good(n)
  BY <1>3, <1>4, <1>5, PointGood
<1> QED BY <1>3, <1>4, <1>5, <1>6

\* env_setup_vm: a page from the list becomes the directory of e.
LEMMA SetupGood ==
  ASSUME NEW m, Good(m), NEW p \in Available(m), m.ref[p] + 1 < REFMOD, NEW e \in Envs,
         m.pgdir[e] = Null, NEW n, n = env_setup_vm(m, e, p)
  PROVE  /\ Good(n) /\ n.pte = m.pte /\ n.free[p] = 0
         /\ \A q \in Pages : q # p => n.ref[q] = m.ref[q]
<1> DEFINE k == incref(page_alloc(m, p), p)
           D == [k.pgdir EXCEPT ![e] = p]
<1>1. /\ p \in Pages /\ Good(k) /\ Held(k, p) /\ Ptrs(k, p) = 0
      /\ k.pgdir = m.pgdir /\ k.pde = m.pde /\ k.pte = m.pte
      /\ k.ref[p] = m.ref[p] + 1
      /\ \A q \in Pages : q # p => k.ref[q] = m.ref[q] /\ k.free[q] = m.free[q]
  BY TakeGood
<1>2. n = [k EXCEPT !.pgdir[e] = p]
  BY DEF env_setup_vm
<1> HIDE DEF k
<1>3. n = [ref |-> k.ref, free |-> k.free, pgdir |-> D, pde |-> k.pde, pte |-> k.pte]
  BY <1>1, <1>2 DEF Good, Memory
<1>4. /\ D \in [Envs -> Pages \cup {Null}] /\ D[e] = p
      /\ \A f \in Envs : f # e => D[f] = k.pgdir[f]
  BY <1>1 DEF Good, Memory
<1> HIDE DEF D
<1>5. /\ n \in Memory /\ n.ref = k.ref /\ n.free = k.free /\ n.pde = k.pde /\ n.pte = k.pte
      /\ n.pgdir[e] = p
      /\ \A f \in Envs : f # e => n.pgdir[f] = k.pgdir[f]
  BY <1>1, <1>3, <1>4 DEF Good, Memory
<1>6. \A q \in Pages : Ptrs(n, q) = IF q = p THEN Ptrs(k, q) + 1 ELSE Ptrs(k, q)
  BY <1>1, <1>5, AddPgdir
<1>7. \A q \in Pages : IsTable(n, q) => q = p \/ IsTable(k, q)
  BY <1>5 DEF IsTable
<1>8. Good(n)
  BY <1>1, <1>5, <1>6, <1>7, PointGood
<1> QED BY <1>1, <1>5, <1>8 DEF Held

\* pgdir_walk, with or without a new page table, disturbs no page in use.
LEMMA WalkGood ==
  ASSUME NEW m, Good(m), \A q \in Available(m) : m.ref[q] + 1 < REFMOD,
         NEW e \in Envs, NEW va \in Va, NEW w \in pgdir_walk(m, e, va)
  PROVE  /\ Good(w) /\ w.pgdir = m.pgdir /\ w.pte = m.pte
         /\ \A q \in Pages : m.free[q] = 0 =>
              /\ w.free[q] = 0 /\ w.ref[q] = m.ref[q] /\ Ptrs(w, q) = Ptrs(m, q)
              /\ IsTable(w, q) => IsTable(m, q)
<1>1. CASE m.pde[e][va[1]] # Null
  BY <1>1 DEF pgdir_walk
<1>2. CASE m.pde[e][va[1]] = Null
  <2>1. PICK p \in Available(m) :
          w = [incref(page_alloc(m, p), p) EXCEPT !.pde[e][va[1]] = p]
    BY <1>2 DEF pgdir_walk
  <2> DEFINE k == incref(page_alloc(m, p), p)
  <2>2. p \in Pages /\ m.ref[p] + 1 < REFMOD /\ m.free[p] # 0
    BY <2>1 DEF Available
  <2>3. /\ Good(k) /\ Held(k, p) /\ Ptrs(k, p) = 0
        /\ k.pgdir = m.pgdir /\ k.pde = m.pde /\ k.pte = m.pte
        /\ \A q \in Pages : q # p => k.ref[q] = m.ref[q] /\ k.free[q] = m.free[q]
    BY <2>2, TakeGood
  <2>4. w = [k EXCEPT !.pde[e][va[1]] = p]
    BY <2>1
  <2> HIDE DEF k
  <2>5. va[1] \in Pdx
    BY DEF Va
  <2>6. /\ Good(w) /\ w.ref = k.ref /\ w.free = k.free /\ w.pgdir = k.pgdir /\ w.pte = k.pte
        /\ \A q \in Pages : q # p => Ptrs(w, q) = Ptrs(k, q) /\ (IsTable(w, q) => IsTable(k, q))
    <3>1. k.pde[e][va[1]] = Null
      BY <1>2, <2>3
    <3> QED BY <2>2, <2>3, <2>4, <2>5, <3>1, SetPdeGood
  <2>7. \A q \in Pages : Ptrs(k, q) = Ptrs(m, q) /\ (IsTable(k, q) <=> IsTable(m, q))
    BY <2>3, EntriesSame
  <2>8. ASSUME NEW q \in Pages, m.free[q] = 0
        PROVE  /\ w.free[q] = 0 /\ w.ref[q] = m.ref[q] /\ Ptrs(w, q) = Ptrs(m, q)
               /\ IsTable(w, q) => IsTable(m, q)
    BY <2>2, <2>3, <2>6, <2>7, <2>8
  <2> QED BY <2>3, <2>6, <2>8
<1> QED BY <1>1, <1>2

\* page_remove takes one count with the entry; a page that is held for one
\* more use stays held, also if it is the page that is removed here.
LEMMA RemoveGood ==
  ASSUME NEW m, Good(m), NEW e \in Envs, NEW va \in Va, NEW n
  PROVE  n = page_remove(m, e, va) =>
         /\ Good(n) /\ n.pgdir = m.pgdir
         /\ n.pte = [m.pte EXCEPT ![e] = [m.pte[e] EXCEPT ![va] = Null]]
         /\ \A p \in Pages : Held(m, p) => Held(n, p)
<1>0. HAVE n = page_remove(m, e, va)
<1> DEFINE T == [m.pte EXCEPT ![e] = [m.pte[e] EXCEPT ![va] = Null]]
<1>1. CASE m.pte[e][va] = Null
  <2>1. n = m /\ T = m.pte
    BY <1>0, <1>1, MemoryFields DEF page_remove, Good
  <2> QED BY <2>1
<1>2. CASE m.pte[e][va] # Null
  <2> DEFINE r == m.pte[e][va]
             R == [m.ref EXCEPT ![r] = m.ref[r] - 1]
             F == [m.free EXCEPT ![r] = IF m.ref[r] = 1 THEN 1 ELSE 0]
  <2>1. r \in Pages
    BY <1>2, MemoryFields DEF Good
  <2>2. Ptrs(m, r) # 0 /\ Ptrs(m, r) \in Nat
    BY PtrsZero, EntriesFinite DEF Ptrs
  <2>3. m.free[r] = 0 /\ m.ref[r] >= 1 /\ m.ref[r] \in 0 .. REFMOD - 1 /\ m.ref[r] >= Ptrs(m, r)
    BY <2>1, <2>2, MemoryFields DEF Good
  <2>4. (m.ref[r] - 1) % REFMOD = m.ref[r] - 1
    BY <2>3, ModSmall, PmapAssumption
  <2>5. page_decref(m, r) = [ref |-> R, free |-> F, pgdir |-> m.pgdir, pde |-> m.pde, pte |-> m.pte]
    <3> DEFINE l == [m EXCEPT !.ref[r] = (@ - 1) % REFMOD]
    <3>1. l = [ref |-> R, free |-> m.free, pgdir |-> m.pgdir, pde |-> m.pde, pte |-> m.pte]
      <4> HIDE DEF r
      <4>1. l = [m EXCEPT !.ref = [m.ref EXCEPT ![r] = (m.ref[r] - 1) % REFMOD]]
        BY <2>1 DEF Good, Memory
      <4>2. l = [m EXCEPT !.ref = R]
        BY <2>4, <4>1
      <4> HIDE DEF l, R
      <4> QED BY <4>2 DEF Good, Memory
    <3>2. page_decref(m, r) = IF l.ref[r] = 0 THEN [l EXCEPT !.free[r] = @ + 1] ELSE l
      BY DEF page_decref, page_free
    <3>3. l.ref[r] = m.ref[r] - 1
      BY <2>1, <3>1, MemoryFields DEF Good
    <3> HIDE DEF l
    <3>4. CASE m.ref[r] = 1
      <4>1. page_decref(m, r) = [l EXCEPT !.free[r] = @ + 1]
        BY <3>2, <3>3, <3>4
      <4>2. F = [m.free EXCEPT ![r] = @ + 1]
        BY <2>1, <2>3, <3>4, MemoryFields DEF Good
      <4> QED BY <3>1, <4>1, <4>2
    <3>5. CASE m.ref[r] # 1
      <4>1. page_decref(m, r) = l
        BY <2>3, <3>2, <3>3, <3>5
      <4>2. F = m.free
        BY <2>1, <2>3, <3>5, MemoryFields DEF Good
      <4> QED BY <3>1, <4>1, <4>2
    <3> QED BY <3>4, <3>5
  <2>6. n = [ref |-> R, free |-> F, pgdir |-> m.pgdir, pde |-> m.pde, pte |-> T]
    <3>1. n = [page_decref(m, r) EXCEPT !.pte[e][va] = Null]
      BY <1>0, <1>2 DEF page_remove
    <3> DEFINE o == page_decref(m, r)
    <3>2. /\ o = [ref |-> R, free |-> F, pgdir |-> m.pgdir, pde |-> m.pde, pte |-> m.pte]
          /\ n = [o EXCEPT !.pte[e][va] = Null]
      BY <2>5, <3>1
    <3> HIDE DEF o, R, F
    <3> QED BY <3>2
  <2>7. /\ R \in [Pages -> 0 .. REFMOD - 1] /\ F \in [Pages -> 0 .. 2]
        /\ T \in [Envs -> [Va -> Pages \cup {Null}]]
    <3>1. R \in [Pages -> 0 .. REFMOD - 1] /\ F \in [Pages -> 0 .. 2]
      BY <2>1, <2>3, PmapAssumption, MemoryFields DEF Good
    <3>2. T \in [Envs -> [Va -> Pages \cup {Null}]]
      BY MemoryFields DEF Good
    <3> QED BY <3>1, <3>2
  <2>8. n \in Memory
    <3> HIDE DEF R, F, T
    <3> QED BY <2>6, <2>7, MemoryRecord, MemoryFields DEF Good
  <2>9. /\ n.pgdir = m.pgdir /\ n.pde = m.pde /\ n.pte = T
        /\ n.ref[r] = m.ref[r] - 1 /\ n.free[r] = IF m.ref[r] = 1 THEN 1 ELSE 0
        /\ \A q \in Pages : q # r => n.ref[q] = m.ref[q] /\ n.free[q] = m.free[q]
    BY <2>1, <2>6, MemoryFields DEF Good
  <2>10. /\ n.pte[e][va] = Null
         /\ \A f \in Envs, w \in Va : f # e \/ w # va => n.pte[f][w] = m.pte[f][w]
    BY <2>9, MemoryFields DEF Good
  <2> HIDE DEF R, F, T
  <2>11. ASSUME NEW q \in Pages
         PROVE  Ptrs(m, q) = IF q = r THEN Ptrs(n, q) + 1 ELSE Ptrs(n, q)
    <3>1. r = m.pte[e][va]
      OBVIOUS
    <3> HIDE DEF r
    <3> QED BY <2>1, <2>9, <2>10, <3>1, AddPte
  <2>12. \A q \in Pages : IsTable(n, q) <=> IsTable(m, q)
    BY <2>9 DEF IsTable
  <2>13. \A q \in Pages : Ptrs(n, q) \in Nat
    BY EntriesFinite DEF Ptrs
  <2> HIDE DEF r
  <2>14. ASSUME NEW q \in Pages
         PROVE  /\ n.ref[q] >= Ptrs(n, q)
                /\ n.free[q] > 0 => n.free[q] = 1 /\ Ptrs(n, q) = 0
                /\ IsTable(n, q) => Ptrs(n, q) = 1
                /\ Held(m, q) => Held(n, q)
    <3>1. CASE q = r
      <4>1. ~ IsTable(m, r)
        <5>1. SUFFICES ASSUME IsTable(m, r) PROVE FALSE
          OBVIOUS
        <5>2. Ptrs(n, r) = 0
          BY <2>1, <2>11, <2>13, <5>1 DEF Good
        <5>3. ~ IsTable(n, r)
          BY <5>2, PtrsZero DEF IsTable
        <5> QED BY <2>1, <2>12, <5>1, <5>3
      <4> QED BY <2>1, <2>3, <2>9, <2>11, <2>12, <2>13, <3>1, <4>1 DEF Held
    <3>2. CASE q # r
      BY <2>9, <2>11, <2>12, <3>2 DEF Held, Good
    <3> QED BY <3>1, <3>2
  <2> QED BY <2>8, <2>9, <2>14 DEF Good, T
<1> QED BY <1>1, <1>2

\* page_insert of a page in use that is no table: one more mapping of it.
LEMMA InsertGood ==
  ASSUME NEW m, Good(m), \A q \in Available(m) : m.ref[q] + 1 < REFMOD,
         NEW p \in Pages, m.ref[p] + 1 < REFMOD, m.free[p] = 0, ~ IsTable(m, p),
         NEW e \in Envs, NEW va \in Va, NEW n \in page_insert(m, e, p, va)
  PROVE  /\ Good(n) /\ n.pgdir = m.pgdir
         /\ n.pte = [m.pte EXCEPT ![e] = [m.pte[e] EXCEPT ![va] = p]]
<1>1. PICK w \in pgdir_walk(m, e, va) :
        n = [page_remove(incref(w, p), e, va) EXCEPT !.pte[e][va] = p]
  BY DEF page_insert
<1> DEFINE i == incref(w, p)
           r == page_remove(i, e, va)
<1>2. /\ Good(w) /\ w.pgdir = m.pgdir /\ w.pte = m.pte
      /\ w.free[p] = 0 /\ w.ref[p] = m.ref[p] /\ ~ IsTable(w, p)
  BY WalkGood
<1>3. /\ Good(i) /\ i.ref[p] = w.ref[p] + 1
      /\ i.free = w.free /\ i.pgdir = w.pgdir /\ i.pde = w.pde /\ i.pte = w.pte
  BY <1>2, IncGood
<1>4. n = SetPte(r, e, va, p)
  BY <1>1 DEF SetPte
<1>5. /\ Good(r) /\ r.pgdir = i.pgdir
      /\ r.pte = [i.pte EXCEPT ![e] = [i.pte[e] EXCEPT ![va] = Null]]
      /\ Held(i, p) => Held(r, p)
  BY <1>3, RemoveGood
<1> HIDE DEF i, r
<1>6. Held(i, p)
  <2>1. Ptrs(i, p) = Ptrs(w, p) /\ ~ IsTable(i, p)
    BY <1>2, <1>3, EntriesSame
  <2>2. w.ref[p] >= Ptrs(w, p) /\ w.ref[p] \in Int /\ Ptrs(w, p) \in Nat
    BY <1>2, EntriesFinite, MemoryFields DEF Good, Ptrs
  <2> QED BY <1>2, <1>3, <2>1, <2>2 DEF Held
<1>7. r.pte[e][va] = Null
  BY <1>3, <1>5, MemoryFields DEF Good
<1>8. /\ Good(n) /\ n.pgdir = r.pgdir
      /\ n.pte = [r.pte EXCEPT ![e] = [r.pte[e] EXCEPT ![va] = p]]
  <2>1. Good(r) /\ Held(r, p)
    BY <1>5, <1>6
  <2> QED BY <1>4, <1>7, <2>1, SetPteGood
<1>9. [r.pte EXCEPT ![e] = [r.pte[e] EXCEPT ![va] = p]]
        = [m.pte EXCEPT ![e] = [m.pte[e] EXCEPT ![va] = p]]
  <2>1. m.pte \in [Envs -> [Va -> Pages \cup {Null}]]
    BY MemoryFields DEF Good
  <2>2. r.pte = [m.pte EXCEPT ![e] = [m.pte[e] EXCEPT ![va] = Null]]
    BY <1>2, <1>3, <1>5
  <2>3. [r.pte[e] EXCEPT ![va] = p] = [m.pte[e] EXCEPT ![va] = p]
    BY <2>1, <2>2
  <2> QED BY <2>1, <2>2, <2>3
<1> QED BY <1>2, <1>3, <1>5, <1>8, <1>9

\* A page that is mapped for the user is neither free nor a table.
LEMMA MappedUse ==
  ASSUME NEW m, Good(m), NEW e \in Envs, NEW va \in Va, m.pte[e][va] # Null
  PROVE  m.pte[e][va] \in Pages /\ m.free[m.pte[e][va]] = 0 /\ ~ IsTable(m, m.pte[e][va])
<1> DEFINE p == m.pte[e][va]
<1>1. p \in Pages
  BY MemoryFields DEF Good
<1>2. Ptrs(m, p) # 0
  BY PtrsZero
<1>3. m.free[p] = 0
  BY <1>1, <1>2, MemoryFields DEF Good
<1>4. ASSUME IsTable(m, p) PROVE FALSE
  <2>1. Envs \in SUBSET Envs
    OBVIOUS
  <2>2. Maps(m, Envs, p) # {}
    <3>1. <<e, va>> \in Maps(m, Envs, p)
      BY DEF Maps
    <3> QED BY <3>1
  <2>3. Dirs(m, Envs, p) # {} \/ Tables(m, Envs, p) # {}
    <3>1. PICK f \in Envs : m.pgdir[f] = p \/ \E d \in Pdx : m.pde[f][d] = p
      BY <1>4 DEF IsTable
    <3>2. m.pgdir[f] = p => f \in Dirs(m, Envs, p)
      BY DEF Dirs
    <3>3. \A d \in Pdx : m.pde[f][d] = p => <<f, d>> \in Tables(m, Envs, p)
      BY DEF Tables
    <3> QED BY <3>1, <3>2, <3>3
  <2> HIDE DEF p
  <2>4. Cardinality(Maps(m, Envs, p)) # 0
    BY <2>1, <2>2, EntriesFinite, FS_EmptySet
  <2>5. Cardinality(Dirs(m, Envs, p)) # 0 \/ Cardinality(Tables(m, Envs, p)) # 0
    BY <2>1, <2>3, EntriesFinite, FS_EmptySet
  <2>6. Ptrs(m, p) >= 2
    BY <2>1, <2>4, <2>5, EntriesFinite DEF Ptrs
  <2> QED BY <1>1, <1>4, <2>6 DEF Good
<1> QED BY <1>1, <1>3, <1>4

\* env_free takes the counts of all entries of e, and frees exactly the pages
\* that nobody else points to.
LEMMA FreeGood ==
  ASSUME NEW m, Good(m), NEW e \in Envs, NEW n
  PROVE  n = env_free(m, e) =>
           Good(n) /\ n.pte = [m.pte EXCEPT ![e] = [va \in Va |-> Null]]
<1>0. HAVE n = env_free(m, e)
<1> DEFINE k(p) == Entries(m, {e}, p)
           zeros(p) == {i \in 1 .. k(p) : (m.ref[p] - i) % REFMOD = 0}
           R == [p \in Pages |-> (m.ref[p] - k(p)) % REFMOD]
           F == [p \in Pages |-> m.free[p] + Cardinality(zeros(p))]
           D == [m.pgdir EXCEPT ![e] = Null]
           T == [m.pde EXCEPT ![e] = [d \in Pdx |-> Null]]
           M == [m.pte EXCEPT ![e] = [va \in Va |-> Null]]
<1>1. n = [ref |-> R, free |-> F, pgdir |-> D, pde |-> T, pte |-> M]
  BY <1>0 DEF env_free, Good, Memory
<1>2. /\ D \in [Envs -> Pages \cup {Null}] /\ T \in [Envs -> [Pdx -> Pages \cup {Null}]]
      /\ M \in [Envs -> [Va -> Pages \cup {Null}]]
  BY MemoryFields DEF Good
<1>3. /\ n.pgdir[e] = Null /\ \A f \in Envs \ {e} : n.pgdir[f] = m.pgdir[f]
      /\ \A d \in Pdx : n.pde[e][d] = Null
      /\ \A f \in Envs \ {e}, d \in Pdx : n.pde[f][d] = m.pde[f][d]
      /\ \A va \in Va : n.pte[e][va] = Null
      /\ \A f \in Envs \ {e}, va \in Va : n.pte[f][va] = m.pte[f][va]
  BY <1>1, MemoryFields DEF Good
<1>4. {e} \in SUBSET Envs /\ Envs \ {e} \in SUBSET Envs
  OBVIOUS
<1>5. ASSUME NEW p \in Pages
      PROVE  Ptrs(m, p) = Ptrs(n, p) + k(p) /\ Ptrs(n, p) \in Nat /\ k(p) \in Nat
  <2>1. Entries(n, {e}, p) = 0
    <3>1. p # Null
      BY PmapAssumption
    <3>2. /\ \A f \in {e} : n.pgdir[f] # p
          /\ \A f \in {e}, d \in Pdx : n.pde[f][d] # p
          /\ \A f \in {e}, va \in Va : n.pte[f][va] # p
      BY <1>3, <3>1
    <3> QED BY <1>4, <3>2, EntriesZero
  <2>2. Entries(n, Envs \ {e}, p) = Entries(m, Envs \ {e}, p)
    <3>1. /\ Dirs(n, Envs \ {e}, p) = Dirs(m, Envs \ {e}, p)
          /\ Tables(n, Envs \ {e}, p) = Tables(m, Envs \ {e}, p)
          /\ Maps(n, Envs \ {e}, p) = Maps(m, Envs \ {e}, p)
      BY <1>3 DEF Dirs, Tables, Maps
    <3> QED BY <1>4, <3>1, EntriesFinite
  <2>3. /\ Ptrs(m, p) = Entries(m, Envs \ {e}, p) + k(p)
        /\ Ptrs(n, p) = Entries(n, Envs \ {e}, p) + Entries(n, {e}, p)
    BY EntriesSplit
  <2>4. Entries(m, Envs \ {e}, p) \in Nat /\ k(p) \in Nat
    BY <1>4, EntriesFinite
  <2> HIDE DEF k
  <2> QED BY <2>1, <2>2, <2>3, <2>4
<1>6. ASSUME NEW p \in Pages
      PROVE  /\ m.ref[p] \in 0 .. REFMOD - 1 /\ m.ref[p] >= Ptrs(m, p)
             /\ R[p] = m.ref[p] - k(p)
             /\ F[p] = IF k(p) > 0 /\ m.ref[p] = k(p) THEN m.free[p] + 1 ELSE m.free[p]
  <2> HIDE DEF k
  <2>1. m.ref[p] \in 0 .. REFMOD - 1 /\ m.ref[p] >= Ptrs(m, p) /\ m.free[p] \in Nat
    BY MemoryFields DEF Good
  <2>2. m.ref[p] - k(p) \in Int /\ 0 <= m.ref[p] - k(p) /\ m.ref[p] - k(p) < REFMOD
    BY <1>5, <2>1, PmapAssumption
  <2>3. R[p] = m.ref[p] - k(p)
    BY <2>2, ModSmall
  <2>4. \A i \in 1 .. k(p) : (m.ref[p] - i) % REFMOD = m.ref[p] - i
    <3>1. ASSUME NEW i \in 1 .. k(p)
          PROVE  m.ref[p] - i \in Int /\ 0 <= m.ref[p] - i /\ m.ref[p] - i < REFMOD
      BY <1>5, <2>1, PmapAssumption
    <3> QED BY <3>1, ModSmall
  <2>5. zeros(p) = IF k(p) > 0 /\ m.ref[p] = k(p) THEN {k(p)} ELSE {}
    BY <1>5, <2>1, <2>2, <2>4
  <2>6. Cardinality(zeros(p)) = IF k(p) > 0 /\ m.ref[p] = k(p) THEN 1 ELSE 0
    BY <2>5, FS_EmptySet, FS_Singleton
  <2>7. F[p] = m.free[p] + Cardinality(zeros(p))
    OBVIOUS
  <2> HIDE DEF zeros, F
  <2> QED BY <2>1, <2>3, <2>6, <2>7
<1> HIDE DEF k, zeros
<1>7. R \in [Pages -> 0 .. REFMOD - 1]
  <2>1. \A p \in Pages : R[p] \in 0 .. REFMOD - 1
    BY <1>5, <1>6, PmapAssumption
  <2> QED BY <2>1
<1>8. F \in [Pages -> 0 .. 2]
  <2>1. ASSUME NEW p \in Pages PROVE F[p] \in 0 .. 2
    <3>1. m.free[p] \in 0 .. 2 /\ (m.free[p] > 0 => m.free[p] = 1)
      BY MemoryFields DEF Good
    <3> HIDE DEF F
    <3> QED BY <1>6, <3>1
  <2>2. F = [p \in Pages |-> F[p]]
    OBVIOUS
  <2> HIDE DEF F
  <2> QED BY <2>1, <2>2
<1> HIDE DEF R, F, D, T, M
<1>9. n \in Memory
  BY <1>1, <1>2, <1>7, <1>8, MemoryRecord
<1>10. \A p \in Pages : IsTable(n, p) => IsTable(m, p) /\ Ptrs(n, p) # 0
  <2>1. \A p \in Pages : IsTable(n, p) => IsTable(m, p)
    BY <1>3, PmapAssumption DEF IsTable
  <2> QED BY <2>1, PtrsZero DEF IsTable
<1>11. ASSUME NEW p \in Pages
       PROVE  /\ n.ref[p] >= Ptrs(n, p)
              /\ n.free[p] > 0 => n.free[p] = 1 /\ Ptrs(n, p) = 0
              /\ IsTable(n, p) => Ptrs(n, p) = 1
  <2>1. n.ref[p] = R[p] /\ n.free[p] = F[p]
    BY <1>1
  <2>2. /\ m.free[p] > 0 => m.free[p] = 1 /\ Ptrs(m, p) = 0
        /\ IsTable(m, p) => Ptrs(m, p) = 1
        /\ m.free[p] \in 0 .. 2
    BY MemoryFields DEF Good
  <2> QED BY <1>5, <1>6, <1>10, <2>1, <2>2
<1>12. n.pte = [m.pte EXCEPT ![e] = [va \in Va |-> Null]]
  BY <1>1 DEF M
<1> QED BY <1>9, <1>11, <1>12 DEF Good

-----------------------------------------------------------------------------
(***************************************************************************)
(* The inductive invariant and the actions.                                *)
(***************************************************************************)

\* An environment runs on one processor, and on none while it receives.
Exclusive ==
  /\ \A c, d \in Cpus : cpu_env[c] # Null /\ cpu_env[c] = cpu_env[d] => c = d
  /\ \A c \in Cpus : cpu_env[c] # Null => env_ipc_dstva[cpu_env[c]] = {}

PmapInv == TypeOK /\ Good(mem) /\ Exclusive /\ TlbCoherent

LEMMA InitPmap == Init => PmapInv
<1> SUFFICES ASSUME Init PROVE PmapInv
  OBVIOUS
<1>1. PICK p \in Pages, va \in Va : mem \in region_alloc(env_setup_vm(Unused, Boot, p), Boot, va)
  BY DEF Init
<1>2. Good(Unused) /\ Unused.pgdir[Boot] = Null /\ p \in Available(Unused) /\ Unused.ref[p] = 0
      /\ \A q \in Pages : Unused.ref[q] = 0
  <2>1. Unused \in Memory
    BY PmapAssumption DEF Unused, Memory
  <2>2. ASSUME NEW q \in Pages PROVE Ptrs(Unused, q) = 0
    <3>1. /\ \A e \in Envs : Unused.pgdir[e] # q
          /\ \A e \in Envs, d \in Pdx : Unused.pde[e][d] # q
          /\ \A e \in Envs, w \in Va : Unused.pte[e][w] # q
      BY PmapAssumption DEF Unused
    <3> QED BY <3>1, PtrsZero
  <2>3. \A q \in Pages : ~ IsTable(Unused, q)
    BY <2>2, PtrsZero DEF IsTable
  <2>4. /\ \A q \in Pages : Unused.ref[q] = 0 /\ Unused.free[q] = 1
        /\ Unused.pgdir[Boot] = Null
    BY PmapAssumption DEF Unused
  <2> QED BY <2>1, <2>2, <2>3, <2>4 DEF Good, Available
<1> DEFINE s == env_setup_vm(Unused, Boot, p)
<1>3. Good(s) /\ s.free[p] = 0 /\ \A q \in Pages : q # p => s.ref[q] = 0
  BY <1>2, SetupGood, PmapAssumption
<1>4. PICK q \in Available(s) : mem \in page_insert(page_alloc(s, q), Boot, q, va)
  BY <1>1 DEF region_alloc
<1> HIDE DEF s
<1> DEFINE a == page_alloc(s, q)
<1>5. /\ Good(a) /\ a.free[q] = 0 /\ Ptrs(s, q) = 0
      /\ a.ref = s.ref /\ a.pgdir = s.pgdir /\ a.pde = s.pde /\ a.pte = s.pte
      /\ \A r \in Pages : r # q => a.free[r] = s.free[r]
  BY <1>3, <1>4, AllocGood
<1>6. mem \in page_insert(a, Boot, q, va)
  BY <1>4
<1> HIDE DEF a
<1>7. q \in Pages /\ q # p /\ s.ref[q] = 0
  BY <1>3, <1>4 DEF Available
<1>8. ~ IsTable(a, q)
  BY <1>5, EntriesSame, PtrsZero DEF IsTable
<1>9. \A r \in Available(a) : a.ref[r] + 1 < REFMOD
  BY <1>3, <1>5, <1>7, PmapAssumption DEF Available
<1>10. Good(mem)
  <2>1. a.ref[q] + 1 < REFMOD /\ Boot \in Envs
    BY <1>5, <1>7, PmapAssumption
  <2> QED BY <1>5, <1>6, <1>7, <1>8, <1>9, <2>1, InsertGood
<1>11. TypeOK /\ Exclusive /\ TlbCoherent
  BY <1>10, PmapAssumption DEF Init, TypeOK, Exclusive, TlbCoherent, Good
<1> QED BY <1>10, <1>11 DEF PmapInv

\* A change of one entry of a quiescent environment, with tlb_invalidate on
\* the processor that makes it, leaves no stale translation anywhere.
LEMMA TlbStep ==
  ASSUME PmapInv, NEW c \in Cpus, Running(c), NEW e \in Envs, Quiescent(c, e),
         NEW va \in Va, NEW p,
         mem'.pte = [mem.pte EXCEPT ![e] = [mem.pte[e] EXCEPT ![va] = p]],
         tlb' = tlb_invalidate(c, e, va), cpu_env' = cpu_env
  PROVE  TlbCoherent' /\ tlb' \in [Cpus -> SUBSET (Va \X Pages)]
<1>1. /\ tlb \in [Cpus -> SUBSET (Va \X Pages)] /\ cpu_env \in [Cpus -> Envs \cup {Null}]
      /\ mem.pte \in [Envs -> [Va -> Pages \cup {Null}]]
  BY MemoryFields DEF PmapInv, TypeOK
<1>2. \A d \in Cpus : tlb'[d] \subseteq tlb[d]
  BY <1>1 DEF tlb_invalidate
<1>3. tlb' \in [Cpus -> SUBSET (Va \X Pages)]
  BY <1>1 DEF tlb_invalidate
<1>4. ASSUME NEW d \in Cpus, NEW t \in tlb'[d]
      PROVE  Running(d)' /\ mem'.pte[cpu_env'[d]][t[1]] = t[2]
  <2>1. /\ Running(d) /\ mem.pte[cpu_env[d]][t[1]] = t[2] /\ cpu_env[d] \in Envs
        /\ t[1] \in Va /\ t[2] \in Pages
    BY <1>1, <1>2 DEF PmapInv, TlbCoherent, Running
  <2>2. CASE cpu_env[d] # e \/ t[1] # va
    BY <1>1, <2>1, <2>2 DEF Running
  <2>3. CASE cpu_env[d] = e /\ t[1] = va
    <3>1. d = c
      BY <2>1, <2>3 DEF Quiescent, OnCpu, PmapInv, Exclusive, Running
    <3>2. mem.pte[e][va] # Null
      BY <2>1, <2>3, PmapAssumption
    <3>3. tlb'[c] = {u \in tlb[c] : u[1] # va}
      BY <1>1, <2>3, <3>1, <3>2 DEF tlb_invalidate
    <3> QED BY <2>3, <3>1, <3>3
  <2> QED BY <2>2, <2>3
<1> QED BY <1>3, <1>4 DEF TlbCoherent

\* page_insert into a quiescent environment of a page in use.
LEMMA InsertPmap ==
  ASSUME PmapInv, NEW c \in Cpus, Running(c), NEW e \in Envs, Quiescent(c, e),
         NEW va \in Va, NEW m, Good(m), m.pte = mem.pte, NEW p \in Pages,
         m.free[p] = 0, ~ IsTable(m, p), \A q \in Pages : m.ref[q] + 1 < REFMOD,
         mem' \in page_insert(m, e, p, va), tlb' = tlb_invalidate(c, e, va),
         cpu_env' = cpu_env
  PROVE  Good(mem') /\ TlbCoherent' /\ tlb' \in [Cpus -> SUBSET (Va \X Pages)]
<1>1. Good(mem') /\ mem'.pte = [mem.pte EXCEPT ![e] = [mem.pte[e] EXCEPT ![va] = p]]
  BY InsertGood DEF Available
<1> QED BY <1>1, TlbStep

LEMMA AllocPmap ==
  ASSUME PmapInv, NEW c \in Cpus, NEW e \in Envs, NEW va \in Va, lib_alloc(c, e, va)
  PROVE  PmapInv'
<1>1. PICK p \in Available(mem) :
        LET m == incref(page_alloc(mem, p), p)
        IN  \/ mem' \in page_insert(m, e, p, va) /\ tlb' = tlb_invalidate(c, e, va)
            \/ page_insert(m, e, p, va) = {} /\ mem' = page_free(m, p) /\ UNCHANGED tlb
  BY DEF lib_alloc, sys_page_alloc
<1> DEFINE m == incref(page_alloc(mem, p), p)
<1>2. /\ Good(mem) /\ Running(c) /\ Quiescent(c, e)
      /\ env_parent' = env_parent /\ env_ipc_dstva' = env_ipc_dstva /\ cpu_env' = cpu_env
      /\ \A q \in Pages : mem.ref[q] + 2 < REFMOD /\ mem.ref[q] \in Int
  BY MemoryFields DEF lib_alloc, sys_page_alloc, Controls, PmapInv, Room, Good
<1>3. /\ p \in Pages /\ Good(m) /\ Held(m, p) /\ Ptrs(m, p) = 0
      /\ m.pgdir = mem.pgdir /\ m.pde = mem.pde /\ m.pte = mem.pte
      /\ m.ref[p] = mem.ref[p] + 1
      /\ \A q \in Pages : q # p => m.ref[q] = mem.ref[q] /\ m.free[q] = mem.free[q]
  <2>1. p \in Pages /\ mem.ref[p] + 1 < REFMOD
    BY <1>2, PmapAssumption DEF Available
  <2> QED BY <1>2, <2>1, TakeGood
<1>4. \/ mem' \in page_insert(m, e, p, va) /\ tlb' = tlb_invalidate(c, e, va)
      \/ mem' = page_free(m, p) /\ UNCHANGED tlb
  BY <1>1
<1> HIDE DEF m
<1>5. \A q \in Pages : m.ref[q] + 1 < REFMOD
  BY <1>2, <1>3, PmapAssumption
<1>6. Good(mem') /\ TlbCoherent' /\ tlb' \in [Cpus -> SUBSET (Va \X Pages)]
  <2>1. CASE mem' \in page_insert(m, e, p, va) /\ tlb' = tlb_invalidate(c, e, va)
    BY <1>2, <1>3, <1>5, <2>1, InsertPmap DEF Held
  <2>2. CASE mem' = page_free(m, p) /\ UNCHANGED tlb
    <3> DEFINE F == [m.free EXCEPT ![p] = 1]
    <3>1. mem' = [ref |-> m.ref, free |-> F, pgdir |-> m.pgdir, pde |-> m.pde, pte |-> m.pte]
      <4>1. m.free[p] + 1 = 1
        BY <1>3 DEF Held
      <4>2. mem' = [m EXCEPT !.free[p] = 1]
        BY <1>3, <2>2, <4>1 DEF page_free, Good, Memory
      <4> QED BY <1>3, <4>2 DEF Good, Memory
    <3>2. F \in [Pages -> 0 .. 2] /\ F[p] = 1 /\ \A q \in Pages : q # p => F[q] = m.free[q]
      BY <1>3, MemoryFields DEF Good
    <3> HIDE DEF F
    <3>3. mem' \in Memory
      BY <1>3, <3>1, <3>2, MemoryRecord, MemoryFields DEF Good
    <3>4. /\ mem'.pgdir = m.pgdir /\ mem'.pde = m.pde /\ mem'.pte = m.pte /\ mem'.ref = m.ref
          /\ mem'.free[p] = 1 /\ \A q \in Pages : q # p => mem'.free[q] = m.free[q]
      BY <3>1, <3>2
    <3>5. \A q \in Pages : Ptrs(mem', q) = Ptrs(m, q) /\ (IsTable(mem', q) <=> IsTable(m, q))
      BY <3>4, EntriesSame
    <3>6. Good(mem')
      <4>1. ASSUME NEW q \in Pages
            PROVE  /\ mem'.ref[q] >= Ptrs(mem', q)
                   /\ mem'.free[q] > 0 => mem'.free[q] = 1 /\ Ptrs(mem', q) = 0
                   /\ IsTable(mem', q) => Ptrs(mem', q) = 1
        BY <1>3, <3>4, <3>5 DEF Good
      <4> QED BY <3>3, <4>1 DEF Good
    <3>7. mem'.pte = mem.pte
      BY <1>3, <3>4
    <3>8. TlbCoherent'
      BY <1>2, <2>2, <3>7 DEF PmapInv, TlbCoherent, Running
    <3> QED BY <2>2, <3>6, <3>8 DEF PmapInv, TypeOK
  <2> QED BY <1>4, <2>1, <2>2
<1> QED BY <1>2, <1>6 DEF PmapInv, TypeOK, Good, Exclusive

LEMMA MapPmap ==
  ASSUME PmapInv, NEW c \in Cpus, NEW se \in Envs, NEW srcva \in Va, NEW e \in Envs,
         NEW va \in Va, lib_map(c, se, srcva, e, va)
  PROVE  PmapInv'
<1> DEFINE p == mem.pte[se][srcva]
<1>1. /\ Good(mem) /\ Running(c) /\ Quiescent(c, e) /\ p # Null
      /\ mem' \in page_insert(mem, e, p, va) /\ tlb' = tlb_invalidate(c, e, va)
      /\ env_parent' = env_parent /\ env_ipc_dstva' = env_ipc_dstva /\ cpu_env' = cpu_env
  BY DEF lib_map, sys_page_map, Controls, PmapInv
<1>2. \A q \in Pages : mem.ref[q] + 1 < REFMOD
  BY <1>1, MemoryFields, PmapAssumption DEF lib_map, Room, Good
<1>3. p \in Pages /\ mem.free[p] = 0 /\ ~ IsTable(mem, p)
  BY <1>1, MappedUse
<1> HIDE DEF p
<1>4. Good(mem') /\ TlbCoherent' /\ tlb' \in [Cpus -> SUBSET (Va \X Pages)]
  BY <1>1, <1>2, <1>3, InsertPmap
<1> QED BY <1>1, <1>4 DEF PmapInv, TypeOK, Good, Exclusive

LEMMA UnmapPmap ==
  ASSUME PmapInv, NEW c \in Cpus, NEW e \in Envs, NEW va \in Va, lib_unmap(c, e, va)
  PROVE  PmapInv'
<1>1. /\ Good(mem) /\ Running(c) /\ Quiescent(c, e)
      /\ mem' = page_remove(mem, e, va) /\ tlb' = tlb_invalidate(c, e, va)
      /\ env_parent' = env_parent /\ env_ipc_dstva' = env_ipc_dstva /\ cpu_env' = cpu_env
  BY DEF lib_unmap, sys_page_unmap, Controls, PmapInv
<1>2. Good(mem') /\ mem'.pte = [mem.pte EXCEPT ![e] = [mem.pte[e] EXCEPT ![va] = Null]]
  BY <1>1, RemoveGood
<1>3. TlbCoherent' /\ tlb' \in [Cpus -> SUBSET (Va \X Pages)]
  BY <1>1, <1>2, TlbStep
<1> QED BY <1>1, <1>2, <1>3 DEF PmapInv, TypeOK, Good, Exclusive

\* A receiver runs nowhere, so its address space may be changed by anybody.
LEMMA SendPmap ==
  ASSUME PmapInv, NEW c \in Cpus, NEW e \in Envs, NEW srcva \in Va \cup {Null},
         lib_send(c, e, srcva)
  PROVE  PmapInv'
<1> DEFINE cur   == cpu_env[c]
           dstva == CHOOSE va \in env_ipc_dstva[e] : TRUE
           p     == mem.pte[cur][srcva]
<1>1. /\ Good(mem) /\ Running(c) /\ env_ipc_dstva[e] # {} /\ cur \in Envs
      /\ env_parent' = env_parent /\ cpu_env' = cpu_env
      /\ env_ipc_dstva' = [env_ipc_dstva EXCEPT ![e] = {}]
  BY DEF lib_send, sys_ipc_try_send, PmapInv, TypeOK, Running
<1>2. \A q \in Pages : mem.ref[q] + 1 < REFMOD
  BY <1>1, MemoryFields, PmapAssumption DEF lib_send, Room, Good
<1>3. dstva \in Va \cup {Null}
  <2>1. PICK va \in Va \cup {Null} : env_ipc_dstva[e] = {va}
    BY <1>1 DEF PmapInv, TypeOK
  <2> QED BY <2>1
<1>4. Quiescent(c, e)
  BY <1>1, PmapAssumption DEF PmapInv, TypeOK, Exclusive, Quiescent, OnCpu
<1>5. \/ /\ srcva # Null /\ dstva # Null /\ p # Null
         /\ mem' \in page_insert(mem, e, p, dstva) /\ tlb' = tlb_invalidate(c, e, dstva)
      \/ UNCHANGED <<mem, tlb>>
  BY DEF lib_send, sys_ipc_try_send
<1>6. p # Null /\ srcva # Null => p \in Pages /\ mem.free[p] = 0 /\ ~ IsTable(mem, p)
  BY <1>1, MappedUse
<1> HIDE DEF cur, dstva, p
<1>7. Good(mem') /\ TlbCoherent' /\ tlb' \in [Cpus -> SUBSET (Va \X Pages)]
  <2>1. CASE /\ srcva # Null /\ dstva # Null /\ p # Null
             /\ mem' \in page_insert(mem, e, p, dstva) /\ tlb' = tlb_invalidate(c, e, dstva)
    <3>1. dstva \in Va
      BY <1>3, <2>1
    <3> QED BY <1>1, <1>2, <1>4, <1>6, <2>1, <3>1, InsertPmap
  <2>2. CASE UNCHANGED <<mem, tlb>>
    BY <1>1, <2>2 DEF PmapInv, TypeOK, TlbCoherent, Running
  <2> QED BY <1>5, <2>1, <2>2
<1>8. env_ipc_dstva' \in [Envs -> {{}} \cup {{va} : va \in Va \cup {Null}}]
  BY <1>1 DEF PmapInv, TypeOK
<1>9. Exclusive'
  BY <1>1 DEF PmapInv, TypeOK, Exclusive
<1> QED BY <1>1, <1>7, <1>8, <1>9 DEF PmapInv, TypeOK, Good

LEMMA ExoforkPmap ==
  ASSUME PmapInv, NEW c \in Cpus, NEW e \in Envs, lib_exofork(c, e)
  PROVE  PmapInv'
<1>1. PICK p \in Available(mem) : mem' = env_setup_vm(mem, e, p)
  BY DEF lib_exofork, sys_exofork
<1>2. /\ Good(mem) /\ mem.pgdir[e] = Null /\ Running(c)
      /\ env_parent' = [env_parent EXCEPT ![e] = cpu_env[c]]
      /\ env_ipc_dstva' = [env_ipc_dstva EXCEPT ![e] = {}]
      /\ cpu_env' = cpu_env /\ tlb' = tlb
  BY DEF lib_exofork, sys_exofork, InUse, PmapInv
<1>3. mem.ref[p] + 1 < REFMOD
  BY <1>2, MemoryFields, PmapAssumption DEF lib_exofork, Room, Available, Good
<1>4. Good(mem') /\ mem'.pte = mem.pte
  BY <1>1, <1>2, <1>3, SetupGood
<1>5. /\ env_parent' \in [Envs -> Envs \cup {Null}]
      /\ env_ipc_dstva' \in [Envs -> {{}} \cup {{va} : va \in Va \cup {Null}}]
  BY <1>2 DEF PmapInv, TypeOK, Running
<1>6. Exclusive'
  BY <1>2 DEF PmapInv, TypeOK, Exclusive
<1>7. TlbCoherent'
  BY <1>2, <1>4 DEF PmapInv, TlbCoherent, Running
<1> QED BY <1>2, <1>4, <1>5, <1>6, <1>7 DEF PmapInv, TypeOK, Good

LEMMA DestroyPmap ==
  ASSUME PmapInv, NEW c \in Cpus, NEW e \in Envs, sys_env_destroy(c, e)
  PROVE  PmapInv'
<1>1. /\ Good(mem) /\ Running(c) /\ Quiescent(c, e) /\ mem' = env_free(mem, e)
      /\ env_parent' = [x \in Envs |-> IF env_parent[x] = e THEN Null ELSE env_parent[x]]
      /\ env_ipc_dstva' = env_ipc_dstva
      /\ IF e = cpu_env[c]
         THEN cpu_env' = [cpu_env EXCEPT ![c] = Null] /\ tlb' = [tlb EXCEPT ![c] = {}]
         ELSE cpu_env' = cpu_env /\ tlb' = tlb
  BY DEF sys_env_destroy, Controls, Quiescent, PmapInv
<1>2. Good(mem') /\ mem'.pte = [mem.pte EXCEPT ![e] = [va \in Va |-> Null]]
  BY <1>1, FreeGood
<1>3. /\ env_parent' \in [Envs -> Envs \cup {Null}] /\ cpu_env' \in [Cpus -> Envs \cup {Null}]
      /\ tlb' \in [Cpus -> SUBSET (Va \X Pages)]
  BY <1>1 DEF PmapInv, TypeOK
<1>4. Exclusive'
  BY <1>1 DEF PmapInv, TypeOK, Exclusive
<1>5. ASSUME NEW d \in Cpus, NEW t \in tlb'[d]
      PROVE  Running(d)' /\ mem'.pte[cpu_env'[d]][t[1]] = t[2]
  <2>1. t \in tlb[d] /\ ~ (d = c /\ e = cpu_env[c]) /\ cpu_env'[d] = cpu_env[d]
    BY <1>1 DEF PmapInv, TypeOK
  <2>2. Running(d) /\ mem.pte[cpu_env[d]][t[1]] = t[2] /\ cpu_env[d] \in Envs
    BY <2>1 DEF PmapInv, TypeOK, TlbCoherent, Running
  <2>3. cpu_env[d] # e
    BY <1>1, <2>1, <2>2 DEF Quiescent, OnCpu, PmapInv, Exclusive, Running
  <2>4. mem'.pte[cpu_env[d]] = mem.pte[cpu_env[d]]
    BY <1>1, <1>2, <2>2, <2>3, MemoryFields DEF Good
  <2> QED BY <2>1, <2>2, <2>4 DEF Running
<1> QED BY <1>1, <1>2, <1>3, <1>4, <1>5 DEF PmapInv, TypeOK, Good, TlbCoherent

\* The steps that change no page table: each empties the TLB it loads anew,
\* or caches what the page table says.
LEMMA CpuPmap ==
  ASSUME PmapInv, NEW c \in Cpus,
         \/ halt(c)
         \/ \E e \in Envs : env_run(c, e)
         \/ \E va \in Va : access(c, va)
         \/ \E va \in Va \cup {Null} : sys_ipc_recv(c, va)
  PROVE  PmapInv'
<1>1. CASE halt(c)
  BY <1>1 DEF halt, PmapInv, TypeOK, Exclusive, TlbCoherent, Running
<1>2. ASSUME NEW e \in Envs, env_run(c, e) PROVE PmapInv'
  <2>1. TypeOK' /\ Good(mem)'
    BY <1>2 DEF env_run, PmapInv, TypeOK
  <2>2. Exclusive'
    BY <1>2 DEF env_run, OnCpu, PmapInv, TypeOK, Exclusive
  <2>3. TlbCoherent'
    BY <1>2 DEF env_run, PmapInv, TypeOK, TlbCoherent, Running
  <2> QED BY <2>1, <2>2, <2>3 DEF PmapInv
<1>3. ASSUME NEW va \in Va, access(c, va) PROVE PmapInv'
  <2>1. mem.pte[cpu_env[c]][va] \in Pages
    BY <1>3, MemoryFields DEF access, Running, PmapInv, TypeOK
  <2>2. tlb' \in [Cpus -> SUBSET (Va \X Pages)]
    BY <1>3, <2>1 DEF access, PmapInv, TypeOK
  <2>3. TlbCoherent'
    BY <1>3 DEF access, PmapInv, TypeOK, TlbCoherent, Running
  <2> QED BY <1>3, <2>2, <2>3 DEF access, PmapInv, TypeOK, Exclusive
<1>4. ASSUME NEW va \in Va \cup {Null}, sys_ipc_recv(c, va) PROVE PmapInv'
  <2>1. TypeOK' /\ Good(mem)'
    BY <1>4 DEF sys_ipc_recv, Running, PmapInv, TypeOK
  <2>2. Exclusive'
    BY <1>4 DEF sys_ipc_recv, Running, PmapInv, TypeOK, Exclusive
  <2>3. TlbCoherent'
    BY <1>4 DEF sys_ipc_recv, PmapInv, TypeOK, TlbCoherent, Running
  <2> QED BY <2>1, <2>2, <2>3 DEF PmapInv
<1> QED BY <1>1, <1>2, <1>3, <1>4

-----------------------------------------------------------------------------
LEMMA NextPmap == PmapInv /\ [Next]_vars => PmapInv'
<1> SUFFICES ASSUME PmapInv, [Next]_vars PROVE PmapInv'
  OBVIOUS
<1>1. CASE UNCHANGED vars
  BY <1>1 DEF vars, PmapInv, TypeOK, Exclusive, TlbCoherent, Running
<1>2. ASSUME NEW c \in Cpus, Machine(c) PROVE PmapInv'
  BY <1>2, CpuPmap, DestroyPmap DEF Machine
<1> QED BY <1>1, <1>2, ExoforkPmap, SendPmap, AllocPmap, UnmapPmap, MapPmap DEF Next

\* The invariant holds in every reachable state of the page system calls.
LEMMA PmapInvariant == Spec => []PmapInv
BY InitPmap, NextPmap, PTL DEF Spec

\* Whatever calls fail half way, no page is counted less often than page
\* tables point to it.
THEOREM PmapPagesCounted == Spec => []PagesCounted
<1>1. PmapInv => PagesCounted
  BY DEF PmapInv, Good, PagesCounted, RefCoversPointers, Pointers, Ptrs
<1> QED BY <1>1, PmapInvariant, PTL

\* A page on the free list is there once, and neither a page table nor a TLB
\* leads to it.
THEOREM PmapFreeIsUnreachable == Spec => []FreeIsUnreachable
<1>1. ASSUME PmapInv PROVE FreeIsUnreachable
  <2>1. ASSUME NEW p \in Pages, mem.free[p] > 0
        PROVE  mem.free[p] = 1 /\ Pointers(p) = 0
    BY <1>1, <2>1 DEF PmapInv, Good, Pointers, Ptrs
  <2>2. ASSUME NEW p \in Pages, mem.free[p] > 0, NEW c \in Cpus, NEW t \in tlb[c]
        PROVE  t[2] # p
    <3>1. cpu_env[c] \in Envs /\ t[1] \in Va /\ mem.pte[cpu_env[c]][t[1]] = t[2]
      BY <1>1 DEF PmapInv, TypeOK, TlbCoherent, Running
    <3>2. Ptrs(mem, p) = 0
      BY <2>1, <2>2 DEF Pointers, Ptrs
    <3> QED BY <3>1, <3>2, PtrsZero
  <2> QED BY <2>1, <2>2 DEF FreeIsUnreachable
<1> QED BY <1>1, PmapInvariant, PTL

\* tlb_invalidate on the caller's processor alone is enough, as the library
\* uses the calls: no processor ever has a stale translation.
THEOREM PmapTlbCoherent == Spec => []TlbCoherent
<1>1. PmapInv => TlbCoherent
  BY DEF PmapInv
<1> QED BY <1>1, PmapInvariant, PTL

\* Directories and page tables are one environment's and nobody's memory.
THEOREM PmapTablesPrivate == Spec => []TablesPrivate
<1>1. PmapInv => TablesPrivate
  BY DEF PmapInv, Good, IsTable, TablesPrivate, Pointers, Ptrs
<1> QED BY <1>1, PmapInvariant, PTL
=============================================================================
