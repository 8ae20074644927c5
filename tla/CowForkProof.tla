---------------------------- MODULE CowForkProof ----------------------------
(***************************************************************************)
(* Copy-on-write fork is sound for any number of environments, pages and   *)
(* addresses: nobody writes to a page somebody else sees, no write of a    *)
(* program is fatal, and a child starts with a copy of its parent's pages. *)
(*                                                                         *)
(* First pages as the places that map them, Share and Val, and what the    *)
(* system calls do to these two; then the invariant and the actions.       *)
(***************************************************************************)
EXTENDS CowFork, TLAPS

\* The page of set P that is mapped at place l, where else it is mapped, and
\* its contents.
Pg(P, l)    == CHOOSE p \in P : l \in p.at
Share(P, l) == Pg(P, l).at
Val(P, l)   == Pg(P, l).value

On(m, l) == m[l[1]][l[2]] # "none"

\* The pages of P are what the page tables m map: every place with an entry
\* has one page, and every page has a place.
WellFormed(P, m) ==
  /\ P \subseteq Pages
  /\ \A p \in P : p.at # {}
  /\ \A p, q \in P : \A l \in Places : l \in p.at /\ l \in q.at => p = q
  /\ \A l \in Places : On(m, l) <=> \E p \in P : l \in p.at

\* The places in fork at which there is a child.
Forking == {"loop", "dup_child", "dup_self", "dup_ro", "xstack", "child_upcall", "set_status"}

\* A slot that does not run has no page, or is where sys_exofork left it.
Idle ==
  \A e \in Envs :
    /\ status[e] = "free" => pc[e] = "run" /\ \A x \in Addrs : perm[e][x] = "none"
    /\ status[e] = "not_runnable" => pc[e] = "child"
    /\ status[e] # "runnable" => fault[e] = Null

\* A child that is being made does not run and has one parent.
Parents ==
  /\ \A e \in Envs : pc[e] \in Forking => child[e] \in Envs /\ status[child[e]] = "not_runnable"
  /\ \A e, f \in Envs : pc[e] \in Forking /\ pc[f] \in Forking /\ child[e] = child[f] => e = f

\* PFTEMP is in use in the handler only, which works on a page that stays
\* copy-on-write until it is replaced; in fork that is the stack.
Handling ==
  \A e \in Envs :
    /\ fault[e] = Null /\ pc[e] # "panic" => perm[e][PFTEMP] = "none"
    /\ fault[e] # Null =>
         /\ perm[e][fault[e].va] = IF fault[e].step = "unmap" THEN "w" ELSE "cow"
         /\ fault[e].step # "alloc" => perm[e][PFTEMP] = "w"
         /\ pc[e] \in Forking => fault[e].va = Stack

\* What the test in the loop of fork found still holds in duppage.
Duplicating ==
  \A e \in Envs :
    /\ pc[e] \in {"dup_child", "dup_self"} => addr[e] \in Va /\ perm[e][addr[e]] \in {"w", "cow"}
    /\ pc[e] = "dup_ro" => addr[e] \in Va /\ perm[e][addr[e]] = "ro"

\* Who has a copy-on-write page has an upcall and an exception stack, and the
\* pages a program may write to are writable or copy-on-write.
Prepared ==
  \A e \in Envs : status[e] = "runnable" =>
    /\ pc[e] \in Forking \cup {"exofork"} => upcall[e]
    /\ handler[e] \/ pc[e] \in Forking \cup {"install", "upcall", "exofork"}
         => perm[e][UXSTACK] = "w"
    /\ \A x \in Va : perm[e][x] = "cow" => upcall[e] /\ perm[e][UXSTACK] = "w"
    /\ \A x \in Va \ ReadOnly : perm[e][x] \in {"w", "cow"}

\* The pages below addr are in the child, and it gets what it needs to run.
Copied(e, x) ==
  \/ pc[e] \in {"loop", "dup_child", "dup_ro"} /\ x < addr[e]
  \/ pc[e] = "dup_self" /\ x <= addr[e]
  \/ pc[e] \in {"xstack", "child_upcall", "set_status"}
Copying ==
  \A e \in Envs : pc[e] \in Forking =>
    /\ \A x \in Va \ ReadOnly : Copied(e, x) => perm[child[e]][x] = "cow"
    /\ \A x \in Va : perm[child[e]][x] # "none" => perm[e][x] # "none"
    /\ pc[e] \in {"child_upcall", "set_status"} => perm[child[e]][UXSTACK] = "w"
    /\ pc[e] = "set_status" => upcall[child[e]]

\* WritableIsPrivate, in terms of Share.
Excused(e, x, l) ==
  \/ /\ fault[e] # Null /\ fault[e].step = "unmap"
     /\ \/ x = PFTEMP /\ l = <<e, fault[e].va>>
        \/ x = fault[e].va /\ l = <<e, PFTEMP>>
  \/ pc[e] = "dup_self" /\ addr[e] = x /\ l = <<child[e], x>>
Private ==
  \A e \in Envs, x \in Addrs : perm[e][x] = "w" /\ pc[e] # "panic" =>
    \A l \in Share(pages, <<e, x>>) : l = <<e, x>> \/ Excused(e, x, l)

\* What the handler maps at the address of the fault is what was there.
HandlerCopies ==
  \A e \in Envs : fault[e] # Null /\ fault[e].step = "map" =>
    Val(pages, <<e, PFTEMP>>) = Val(pages, <<e, fault[e].va>>)

\* The child has the parent's contents, but for the stack.
SameContents ==
  \A e \in Envs : pc[e] \in Forking =>
    \A x \in Va \ {Stack} : perm[child[e]][x] # "none" =>
      Val(pages, <<child[e], x>>) = Val(pages, <<e, x>>)

\* The inductive invariant: control, and what is in the pages.
Control ==
  TypeOK /\ Idle /\ Parents /\ Handling /\ Duplicating /\ Prepared /\ Copying /\ NoBadFault
CowInv == Control /\ WellFormed(pages, perm) /\ Private /\ HandlerCopies /\ SameContents

-----------------------------------------------------------------------------
(***************************************************************************)
(* Pages.                                                                  *)
(***************************************************************************)

\* The parts of a page.
LEMMA PageFields ==
  ASSUME NEW p \in Pages
  PROVE  p.at \in SUBSET Places /\ p.value \in Values /\ p = [at |-> p.at, value |-> p.value]
BY DEF Pages

\* A page made of its parts.
LEMMA PageRecord ==
  ASSUME NEW A \in SUBSET Places, NEW v \in Values
  PROVE  [at |-> A, value |-> v] \in Pages
BY DEF Pages

\* A place is in one page.
LEMMA PgUnique ==
  ASSUME NEW P, NEW m, WellFormed(P, m), NEW p \in P, NEW l \in p.at
  PROVE  Pg(P, l) = p
<1>1. l \in Places
  BY PageFields DEF WellFormed
<1>2. Pg(P, l) \in P /\ l \in Pg(P, l).at
  BY DEF Pg
<1> QED BY <1>1, <1>2 DEF WellFormed

\* A place with an entry has a page, and is one of its places.
LEMMA PgMapped ==
  ASSUME NEW P, NEW m, WellFormed(P, m), NEW l \in Places, On(m, l)
  PROVE  /\ Pg(P, l) \in P /\ l \in Share(P, l) /\ Val(P, l) \in Values
         /\ Share(P, l) \in SUBSET Places
<1>1. PICK p \in P : l \in p.at
  BY DEF WellFormed
<1>2. Pg(P, l) = p
  BY <1>1, PgUnique
<1>3. p \in Pages
  BY DEF WellFormed
<1> QED BY <1>1, <1>2, <1>3, PageFields DEF Share, Val

\* Who shares a page with l has that page.
LEMMA SameShare ==
  ASSUME NEW P, NEW m, WellFormed(P, m), NEW l \in Places, On(m, l), NEW k \in Share(P, l)
  PROVE  k \in Places /\ On(m, k) /\ Share(P, k) = Share(P, l) /\ Val(P, k) = Val(P, l)
<1>1. Pg(P, l) \in P /\ k \in Pg(P, l).at /\ k \in Places
  BY PgMapped DEF Share
<1>2. Pg(P, k) = Pg(P, l)
  BY <1>1, PgUnique
<1>3. On(m, k)
  BY <1>1 DEF WellFormed
<1> QED BY <1>1, <1>2, <1>3 DEF Share, Val

\* A write changes the contents for everybody who maps the page.
LEMMA StoreStep ==
  ASSUME WellFormed(pages, perm), NEW e \in Envs, NEW x \in Addrs, Mapped(e, x), NEW v \in Values,
         NEW P
  PROVE  P = Store(e, x, v) =>
         /\ WellFormed(P, perm)
         /\ \A l \in Places : On(perm, l) =>
              /\ Share(P, l) = Share(pages, l)
              /\ Val(P, l) = IF l \in Share(pages, <<e, x>>) THEN v ELSE Val(pages, l)
<1>0. HAVE P = Store(e, x, v)
<1> DEFINE g == PageOf(e, x)
           h == [at |-> g.at, value |-> v]
<1>1. <<e, x>> \in Places /\ On(perm, <<e, x>>) /\ g = Pg(pages, <<e, x>>)
  BY DEF Places, On, Mapped, PageOf, Pg
<1>2. g \in pages /\ <<e, x>> \in g.at /\ g \in Pages
  <2> HIDE DEF g
  <2>1. Pg(pages, <<e, x>>) \in pages /\ <<e, x>> \in Share(pages, <<e, x>>)
    BY <1>1, PgMapped
  <2>2. pages \subseteq Pages
    BY DEF WellFormed
  <2> QED BY <1>1, <2>1, <2>2 DEF Share
<1> HIDE DEF g
<1>3. P = (pages \ {g}) \cup {h}
  <2>1. [g EXCEPT !.value = v] = h
    BY <1>2 DEF Pages
  <2> QED BY <1>0, <2>1 DEF Store, g
<1>4. h \in Pages /\ h.at = g.at /\ h.value = v
  BY <1>2, PageFields, PageRecord
<1> HIDE DEF h
<1>5. WellFormed(P, perm)
  <2>1. P \subseteq Pages /\ \A p \in P : p.at # {}
    BY <1>2, <1>3, <1>4 DEF WellFormed
  <2>2. ASSUME NEW p \in P, NEW q \in P, NEW l \in Places, l \in p.at, l \in q.at
        PROVE  p = q
    BY <1>2, <1>3, <1>4, <2>2 DEF WellFormed
  <2>3. \A l \in Places : (\E p \in P : l \in p.at) <=> (\E p \in pages : l \in p.at)
    BY <1>2, <1>3, <1>4
  <2> QED BY <2>1, <2>2, <2>3 DEF WellFormed
<1>6. ASSUME NEW l \in Places, On(perm, l)
      PROVE  /\ Share(P, l) = Share(pages, l)
             /\ Val(P, l) = IF l \in Share(pages, <<e, x>>) THEN v ELSE Val(pages, l)
  <2>1. Pg(pages, l) \in pages /\ l \in Pg(pages, l).at
    BY <1>6, PgMapped DEF Share
  <2>2. l \in Share(pages, <<e, x>>) <=> Pg(pages, l) = g
    BY <1>1, <1>2, <2>1 DEF WellFormed, Share
  <2>3. CASE Pg(pages, l) = g
    <3>1. Pg(P, l) = h
      BY <1>3, <1>4, <1>5, <2>1, <2>3, PgUnique
    <3> QED BY <1>4, <2>2, <2>3, <3>1 DEF Share, Val
  <2>4. CASE Pg(pages, l) # g
    <3>1. Pg(P, l) = Pg(pages, l)
      BY <1>3, <1>5, <2>1, <2>4, PgUnique
    <3> QED BY <2>2, <2>4, <3>1 DEF Share, Val
  <2> QED BY <2>3, <2>4
<1> QED BY <1>5, <1>6

\* Entries that are cleared leave the other entries what they are.
LEMMA WithoutStep ==
  ASSUME WellFormed(pages, perm), NEW D \in SUBSET Places, NEW m,
         \A l \in Places : On(m, l) <=> l \notin D /\ On(perm, l), NEW P
  PROVE  P = Without(D) =>
         /\ WellFormed(P, m)
         /\ \A l \in Places : On(m, l) =>
              Share(P, l) = Share(pages, l) \ D /\ Val(P, l) = Val(pages, l)
<1>0. HAVE P = Without(D)
<1> DEFINE cut(q) == [at |-> q.at \ D, value |-> q.value]
<1>1. \A p : p \in P <=> p.at # {} /\ \E q \in pages : p = cut(q)
  <2>1. ASSUME NEW q \in pages PROVE [q EXCEPT !.at = @ \ D] = cut(q)
    <3>1. q \in Pages
      BY DEF WellFormed
    <3> QED BY <3>1 DEF Pages
  <2> HIDE DEF cut
  <2> QED BY <1>0, <2>1 DEF Without
<1>2. \A q \in pages : cut(q) \in Pages /\ cut(q).at = q.at \ D /\ cut(q).value = q.value
  BY PageFields, PageRecord DEF WellFormed
<1> HIDE DEF cut
<1>3. ASSUME NEW l \in Places, NEW p \in P, l \in p.at
      PROVE  l \notin D /\ \E q \in pages : l \in q.at /\ p = cut(q)
  BY <1>1, <1>2, <1>3
<1>4. ASSUME NEW l \in Places, l \notin D, NEW q \in pages, l \in q.at
      PROVE  cut(q) \in P /\ l \in cut(q).at
  BY <1>1, <1>2, <1>4
<1>5. WellFormed(P, m)
  <2>1. P \subseteq Pages /\ \A p \in P : p.at # {}
    BY <1>1, <1>2
  <2>2. ASSUME NEW p \in P, NEW q \in P, NEW l \in Places, l \in p.at, l \in q.at
        PROVE  p = q
    BY <1>3, <2>2 DEF WellFormed
  <2>3. ASSUME NEW l \in Places PROVE On(m, l) <=> \E p \in P : l \in p.at
    BY <1>3, <1>4 DEF WellFormed
  <2> QED BY <2>1, <2>2, <2>3 DEF WellFormed
<1>6. ASSUME NEW l \in Places, On(m, l)
      PROVE  Share(P, l) = Share(pages, l) \ D /\ Val(P, l) = Val(pages, l)
  <2>1. l \notin D /\ Pg(pages, l) \in pages /\ l \in Pg(pages, l).at
    BY <1>6, PgMapped DEF Share
  <2>2. Pg(P, l) = cut(Pg(pages, l))
    BY <1>4, <1>5, <2>1, PgUnique
  <2> QED BY <1>2, <2>1, <2>2 DEF Share, Val
<1> QED BY <1>5, <1>6

\* A new page at l, where there may have been one before.
Allocated(f, x) ==
  /\ pages' = Without({<<f, x>>}) \cup {[at |-> {<<f, x>>}, value |-> 0]}
  /\ perm' = [perm EXCEPT ![f][x] = "w"]

\* sys_page_alloc takes nothing from anybody but the page that was there.
LEMMA AllocStep ==
  ASSUME WellFormed(pages, perm), perm \in [Envs -> [Addrs -> Perms]],
         NEW f \in Envs, NEW x \in Addrs, Allocated(f, x)
  PROVE  /\ WellFormed(pages', perm') /\ Share(pages', <<f, x>>) = {<<f, x>>}
         /\ \A l \in Places : l # <<f, x>> /\ On(perm, l) =>
              Share(pages', l) = Share(pages, l) \ {<<f, x>>} /\ Val(pages', l) = Val(pages, l)
<1> DEFINE P == pages'
           m == perm'
           k == <<f, x>>
           W == Without({k})
           h == [at |-> {k}, value |-> 0]
           m0 == [perm EXCEPT ![f][x] = "none"]
<1>1. k \in Places
  BY DEF Places
<1>2. /\ \A l \in Places : On(m0, l) <=> l \notin {k} /\ On(perm, l)
      /\ \A l \in Places : On(m, l) <=> l = k \/ On(perm, l)
  BY DEF Allocated, On, Places, Perms
<1>3. P = W \cup {h}
  BY DEF Allocated
<1>4. h \in Pages /\ h.at = {k}
  BY <1>1, PageRecord, CowAssumption
<1> HIDE DEF P, m, k, h, m0
<1>5. /\ WellFormed(W, m0)
      /\ \A l \in Places : On(m0, l) =>
           Share(W, l) = Share(pages, l) \ {k} /\ Val(W, l) = Val(pages, l)
  <2> DEFINE D == {k}
  <2>1. D \in SUBSET Places /\ W = Without(D)
    BY <1>1
  <2>2. \A l \in Places : On(m0, l) <=> l \notin D /\ On(perm, l)
    BY <1>2
  <2> HIDE DEF W, D
  <2>3. /\ WellFormed(W, m0)
        /\ \A l \in Places : On(m0, l) =>
             Share(W, l) = Share(pages, l) \ D /\ Val(W, l) = Val(pages, l)
    BY <2>1, <2>2, WithoutStep
  <2> QED BY <2>3 DEF D
<1> HIDE DEF W
<1>6. \A p \in W : k \notin p.at
  BY <1>1, <1>2, <1>5 DEF WellFormed
<1>7. WellFormed(P, m)
  <2>1. P \subseteq Pages /\ \A p \in P : p.at # {}
    BY <1>3, <1>4, <1>5 DEF WellFormed
  <2>2. ASSUME NEW p \in P, NEW q \in P, NEW l \in Places, l \in p.at, l \in q.at
        PROVE  p = q
    BY <1>3, <1>4, <1>5, <1>6, <2>2 DEF WellFormed
  <2>3. ASSUME NEW l \in Places PROVE On(m, l) <=> \E p \in P : l \in p.at
    BY <1>2, <1>3, <1>4, <1>5, <1>6 DEF WellFormed
  <2> QED BY <2>1, <2>2, <2>3 DEF WellFormed
<1>8. Pg(P, k) = h
  BY <1>3, <1>4, <1>7, PgUnique
<1>9. ASSUME NEW l \in Places, l # k, On(perm, l)
      PROVE  Share(P, l) = Share(pages, l) \ {k} /\ Val(P, l) = Val(pages, l)
  <2>1. On(m0, l)
    BY <1>2, <1>9
  <2>2. Pg(W, l) \in W /\ l \in Pg(W, l).at
    BY <1>5, <2>1, PgMapped DEF Share
  <2>3. Pg(P, l) = Pg(W, l)
    BY <1>3, <1>7, <2>2, PgUnique
  <2> QED BY <1>5, <2>1, <2>3 DEF Share, Val
<1> QED BY <1>4, <1>7, <1>8, <1>9 DEF P, m, k, Share

\* The page at l is mapped at k too; what was there loses a place.
LEMMA MapStep ==
  ASSUME WellFormed(pages, perm), perm \in [Envs -> [Addrs -> Perms]],
         NEW e \in Envs, NEW x \in Addrs, Mapped(e, x),
         NEW f \in Envs, NEW y \in Addrs, NEW p \in Perms \ {"none"},
         sys_page_map(e, x, f, y, p)
  PROVE  /\ WellFormed(pages', perm') /\ perm' = [perm EXCEPT ![f][y] = p]
         /\ Share(pages', <<f, y>>) = Share(pages, <<e, x>>) \cup {<<f, y>>}
         /\ Val(pages', <<f, y>>) = Val(pages, <<e, x>>)
         /\ \A l \in Places : l # <<f, y>> /\ On(perm, l) =>
              /\ Val(pages', l) = Val(pages, l)
              /\ Share(pages', l) = IF <<e, x>> \in Share(pages, l)
                                    THEN Share(pages, l) \cup {<<f, y>>}
                                    ELSE Share(pages, l) \ {<<f, y>>}
<1> DEFINE s == <<e, x>>
           k == <<f, y>>
           new(q) == [at |-> IF s \in q.at THEN q.at \cup {k} ELSE q.at \ {k}, value |-> q.value]
<1>1. s \in Places /\ k \in Places /\ On(perm, s)
  BY DEF Places, On, Mapped
<1>2. perm' = [perm EXCEPT ![f][y] = p] /\ \A l \in Places : On(perm', l) <=> l = k \/ On(perm, l)
  BY DEF sys_page_map, On, Places, Perms
<1>3. \A q : q \in pages' <=> q.at # {} /\ \E r \in pages : q = new(r)
  <2>1. ASSUME NEW r \in pages
        PROVE  (IF <<e, x>> \in r.at THEN [r EXCEPT !.at = @ \cup {<<f, y>>}]
                                     ELSE [r EXCEPT !.at = @ \ {<<f, y>>}]) = new(r)
    <3>1. r \in Pages
      BY DEF WellFormed
    <3> QED BY <3>1 DEF Pages
  <2> HIDE DEF new
  <2> QED BY <2>1 DEF sys_page_map
<1>4. ASSUME NEW q \in pages
      PROVE  /\ new(q) \in Pages /\ new(q).value = q.value
             /\ new(q).at = IF s \in q.at THEN q.at \cup {k} ELSE q.at \ {k}
  <2>1. q \in Pages
    BY DEF WellFormed
  <2>2. (IF s \in q.at THEN q.at \cup {k} ELSE q.at \ {k}) \in SUBSET Places
    BY <1>1, <2>1, PageFields
  <2> QED BY <2>1, <2>2, PageFields, PageRecord
<1> HIDE DEF s, k, new
<1>5. PICK g \in pages : s \in g.at /\ g = Pg(pages, s)
  BY <1>1, PgMapped DEF Share
<1>6. \A q \in pages : s \in q.at <=> q = g
  BY <1>1, <1>5 DEF WellFormed
<1>7. \A q \in pages' : \E r \in pages : q = new(r)
  BY <1>3
<1>8. WellFormed(pages', perm')
  <2>1. pages' \subseteq Pages /\ \A q \in pages' : q.at # {}
    <3>1. ASSUME NEW q \in pages' PROVE q \in Pages
      BY <1>4, <1>7
    <3>2. \A q \in pages' : q.at # {}
      BY <1>3
    <3> QED BY <3>1, <3>2
  <2>2. ASSUME NEW q \in pages', NEW r \in pages', NEW l \in Places, l \in q.at, l \in r.at
        PROVE  q = r
    <3>1. PICK a \in pages : q = new(a)
      BY <1>7
    <3>2. PICK b \in pages : r = new(b)
      BY <1>7
    <3>3. CASE l = k
      BY <1>4, <1>6, <2>2, <3>1, <3>2, <3>3
    <3>4. CASE l # k
      <4>1. l \in a.at /\ l \in b.at
        BY <1>4, <2>2, <3>1, <3>2, <3>4
      <4> QED BY <3>1, <3>2, <4>1 DEF WellFormed
    <3> QED BY <3>3, <3>4
  <2>3. ASSUME NEW l \in Places PROVE On(perm', l) <=> \E q \in pages' : l \in q.at
    <3>1. CASE l = k
      <4>1. new(g) \in pages' /\ l \in new(g).at
        BY <1>3, <1>4, <1>5, <3>1
      <4> QED BY <1>2, <3>1, <4>1
    <3>2. CASE l # k
      <4>1. ASSUME NEW q \in pages', l \in q.at PROVE \E r \in pages : l \in r.at
        <5>1. PICK r \in pages : q = new(r)
          BY <1>7
        <5> QED BY <1>4, <3>2, <4>1, <5>1
      <4>2. ASSUME NEW r \in pages, l \in r.at PROVE \E q \in pages' : l \in q.at
        <5>1. l \in new(r).at
          BY <1>4, <3>2, <4>2
        <5> QED BY <1>3, <5>1
      <4> QED BY <1>2, <3>2, <4>1, <4>2 DEF WellFormed
    <3> QED BY <3>1, <3>2
  <2> QED BY <2>1, <2>2, <2>3 DEF WellFormed
<1>9. Share(pages', k) = Share(pages, s) \cup {k} /\ Val(pages', k) = Val(pages, s)
  <2>1. new(g) \in pages' /\ k \in new(g).at
    BY <1>3, <1>4, <1>5
  <2>2. Pg(pages', k) = new(g)
    BY <1>8, <2>1, PgUnique
  <2> QED BY <1>4, <1>5, <2>2 DEF Share, Val
<1>10. ASSUME NEW l \in Places, l # k, On(perm, l)
       PROVE  /\ Val(pages', l) = Val(pages, l)
              /\ Share(pages', l) = IF s \in Share(pages, l)
                                    THEN Share(pages, l) \cup {k} ELSE Share(pages, l) \ {k}
  <2>1. Pg(pages, l) \in pages /\ l \in Pg(pages, l).at
    BY <1>10, PgMapped DEF Share
  <2>2. l \in new(Pg(pages, l)).at
    BY <1>4, <1>10, <2>1
  <2>3. new(Pg(pages, l)) \in pages'
    BY <1>3, <2>1, <2>2
  <2>4. Pg(pages', l) = new(Pg(pages, l))
    BY <1>8, <2>2, <2>3, PgUnique
  <2> QED BY <1>4, <2>1, <2>4 DEF Share, Val
<1> QED BY <1>2, <1>8, <1>9, <1>10 DEF s, k

-----------------------------------------------------------------------------
(***************************************************************************)
(* The steps that change no page.                                          *)
(***************************************************************************)

\* PFTEMP and the exception stack are not addresses of the program.
LEMMA Addresses ==
  /\ PFTEMP \in Addrs /\ UXSTACK \in Addrs /\ Va \subseteq Addrs
  /\ PFTEMP \notin Va /\ UXSTACK \notin Va /\ UXSTACK # PFTEMP
  /\ Stack \in Va \ ReadOnly /\ Globals \in Va \ ReadOnly
BY CowAssumption DEF PFTEMP, UXSTACK, Addrs, Va, Stack, Globals

\* The first program: its pages are private, nobody forks.
LEMMA InitCow == Init => CowInv
<1> SUFFICES ASSUME Init PROVE CowInv
  OBVIOUS
<1>1. TypeOK
  <2>1. pages \subseteq Pages
    BY CowAssumption, Addresses DEF Init, Pages, Places
  <2>2. perm \in [Envs -> [Addrs -> Perms]]
    BY DEF Init, Unmapped, Perms
  <2>3. addr \in [Envs -> 0 .. NVA]
    BY CowAssumption DEF Init
  <2> QED BY <2>1, <2>2, <2>3 DEF Init, TypeOK, Pc
<1>2. /\ \A e \in Envs, x \in Addrs : perm[e][x] # "none" <=> e = Boot /\ x \in Va
      /\ \A x \in Va \ ReadOnly : perm[Boot][x] = "w"
      /\ \A x \in Addrs, e \in Envs : perm[e][x] # "cow"
  BY CowAssumption, Addresses DEF Init, Unmapped
<1>3. Idle /\ Parents /\ Handling /\ Duplicating /\ Prepared /\ Copying /\ NoBadFault
  BY <1>2, Addresses, CowAssumption
     DEF Init, Idle, Parents, Handling, Duplicating, Prepared, Copying, NoBadFault, Forking
<1>4. WellFormed(pages, perm)
  <2> DEFINE page(x) == [at |-> {<<Boot, x>>}, value |-> 0]
  <2>0. pages = {page(x) : x \in Va} /\ \A x \in Va : page(x).at = {<<Boot, x>>}
    BY DEF Init
  <2> HIDE DEF page
  <2>1. pages \subseteq Pages /\ \A p \in pages : p.at # {}
    <3>1. pages \subseteq Pages
      BY <1>1 DEF TypeOK
    <3>2. ASSUME NEW p \in pages PROVE p.at # {}
      <4>1. PICK x \in Va : p = page(x)
        BY <2>0
      <4>2. <<Boot, x>> \in p.at
        BY <2>0, <4>1
      <4> QED BY <4>2
    <3> QED BY <3>1, <3>2
  <2>2. ASSUME NEW p \in pages, NEW q \in pages, NEW l \in Places, l \in p.at, l \in q.at
        PROVE  p = q
    <3>1. PICK x \in Va : p = page(x)
      BY <2>0
    <3>2. PICK y \in Va : q = page(y)
      BY <2>0
    <3>3. l = <<Boot, x>> /\ l = <<Boot, y>>
      BY <2>0, <2>2, <3>1, <3>2
    <3> QED BY <3>1, <3>2, <3>3
  <2>3. ASSUME NEW l \in Places PROVE On(perm, l) <=> \E p \in pages : l \in p.at
    <3>1. PICK e \in Envs, x \in Addrs : l = <<e, x>>
      BY DEF Places
    <3>2. On(perm, l) <=> e = Boot /\ x \in Va
      BY <1>2, <3>1 DEF On
    <3>3. (\E p \in pages : l \in p.at) <=> \E y \in Va : l = <<Boot, y>>
      BY <2>0
    <3> QED BY <3>1, <3>2, <3>3
  <2> QED BY <2>1, <2>2, <2>3 DEF WellFormed
<1>5. Private
  <2>1. ASSUME NEW e \in Envs, NEW x \in Addrs, perm[e][x] = "w",
               NEW l \in Share(pages, <<e, x>>)
        PROVE  l = <<e, x>>
    <3>1. e = Boot /\ x \in Va
      BY <1>2, <2>1
    <3> DEFINE p == [at |-> {<<e, x>>}, value |-> 0]
    <3>2. p \in pages /\ <<e, x>> \in p.at
      BY <3>1 DEF Init
    <3>3. Pg(pages, <<e, x>>) = p
      BY <1>4, <3>2, PgUnique
    <3> QED BY <2>1, <3>3 DEF Share
  <2> QED BY <2>1 DEF Private
<1>6. HandlerCopies /\ SameContents
  BY DEF Init, HandlerCopies, SameContents, Forking
<1> QED BY <1>1, <1>3, <1>4, <1>5, <1>6 DEF CowInv, Control

\* A fault of a running environment finds the handler and a page to copy.
LEMMA FaultIsGood ==
  ASSUME CowInv, NEW e \in Envs, NEW x \in Va, AtUser(e), Touches(e, x), perm[e][x] # "w"
  PROVE  HasUpcall(e) /\ perm[e][x] = "cow" /\ (pc[e] \in Forking => x = Stack)
<1>1. x \in Va \ ReadOnly
  BY Addresses DEF Touches
<1> QED BY <1>1 DEF CowInv, Control, Prepared, AtUser, HasUpcall, Touches, Forking

\* page_fault_handler always enters the handler, never destroys.
LEMMA FaultCow ==
  ASSUME CowInv, NEW e \in Envs, NEW x \in Va, page_fault(e, x) PROVE CowInv'
<1>1. HasUpcall(e) /\ perm[e][x] = "cow" /\ (pc[e] \in Forking => x = Stack)
  BY FaultIsGood DEF page_fault
<1>2. /\ fault' = [fault EXCEPT ![e] = [step |-> "alloc", va |-> x]]
      /\ UNCHANGED <<pages, perm, status, upcall, handler, pc, addr, child>>
      /\ status[e] = "runnable" /\ fault[e] = Null
  BY <1>1 DEF page_fault, pgfault_check, AtUser
<1>3. /\ fault' \in [Envs -> {Null} \cup [step : Steps, va : Va]]
      /\ fault'[e] # Null /\ fault'[e].step = "alloc" /\ fault'[e].va = x
      /\ \A f \in Envs : f # e => fault'[f] = fault[f]
  BY <1>2, CowAssumption DEF CowInv, Control, TypeOK, Steps
<1>4. Control'
  BY <1>1, <1>2, <1>3
     DEF CowInv, Control, TypeOK, Idle, Parents, Handling, Duplicating, Prepared, Copying,
         Copied, NoBadFault
<1>5. WellFormed(pages, perm)' /\ SameContents'
  BY <1>2 DEF CowInv, SameContents
<1>6. Private' /\ HandlerCopies'
  BY <1>2, <1>3 DEF CowInv, Private, Excused, HandlerCopies
<1> QED BY <1>4, <1>5, <1>6 DEF CowInv

\* A step of e that changes no page table, slot or fault, and arrives at a
\* place for which everything is ready.
Ready(e) ==
  /\ pc[e] # "bad_fault" /\ pc[e] # "dup_self"
  /\ fault[e] = Null \/ pc[e] = "panic"
  /\ pc[e] = "dup_child" => addr[e] \in Va /\ perm[e][addr[e]] \in {"w", "cow"}
  /\ pc[e] = "dup_ro" => addr[e] \in Va /\ perm[e][addr[e]] = "ro"
  /\ pc[e] \in Forking \cup {"exofork"} => upcall[e]
  /\ handler[e] \/ pc[e] \in Forking \cup {"install", "upcall", "exofork"}
       => perm[e][UXSTACK] = "w"
  /\ pc[e] \in Forking =>
       /\ \A x \in Va \ ReadOnly : Copied(e, x) => perm[child[e]][x] = "cow"
       /\ pc[e] \in {"child_upcall", "set_status"} => perm[child[e]][UXSTACK] = "w"
       /\ pc[e] = "set_status" => upcall[child[e]]

\* Such a step keeps the invariant.
LEMMA QuietCow ==
  ASSUME CowInv, NEW e \in Envs, status[e] = "runnable", pc[e] # "panic",
         UNCHANGED <<pages, perm, status, fault, child>>,
         pc' \in [Envs -> Pc], addr' \in [Envs -> 0 .. NVA],
         upcall' \in [Envs -> BOOLEAN], handler' \in [Envs -> BOOLEAN],
         \A f \in Envs : f # e => pc'[f] = pc[f] /\ addr'[f] = addr[f] /\ handler'[f] = handler[f],
         \A f \in Envs : upcall[f] => upcall'[f],
         pc'[e] \in Forking => pc[e] \in Forking,
         pc[e] = "dup_self" => pc'[e] = "panic",
         Ready(e)'
  PROVE  CowInv'
<1>1. TypeOK'
  BY DEF CowInv, Control, TypeOK
<1>2. Idle'
  BY DEF CowInv, Control, Idle
<1>3. Parents'
  BY DEF CowInv, Control, Parents
<1>4. Handling'
  <2>1. fault'[e] # Null => pc'[e] \notin Forking
    BY DEF Ready, Forking
  <2> QED BY <2>1 DEF CowInv, Control, Handling
<1>5. Duplicating'
  BY DEF CowInv, Control, Duplicating, Ready
<1>6. Prepared'
  BY DEF CowInv, Control, Prepared, Ready
<1>7. Copying'
  BY DEF CowInv, Control, Copying, Copied, Parents, Ready
<1>8. NoBadFault'
  BY DEF CowInv, Control, NoBadFault, Ready
<1>9. WellFormed(pages, perm)' /\ HandlerCopies'
  BY DEF CowInv, HandlerCopies
<1>10. Private'
  BY DEF CowInv, Private, Excused
<1>11. SameContents'
  BY DEF CowInv, SameContents
<1> QED BY <1>1, <1>2, <1>3, <1>4, <1>5, <1>6, <1>7, <1>8, <1>9, <1>10, <1>11 DEF CowInv, Control

\* A panic leaves everything as it is; the child stays where it is for ever.
LEMMA PanicCow ==
  ASSUME CowInv, NEW e \in Envs, status[e] = "runnable", pc[e] # "panic",
         pc' = [pc EXCEPT ![e] = "panic"],
         UNCHANGED <<pages, perm, status, upcall, handler, fault, child>>,
         addr' \in [Envs -> 0 .. NVA], \A f \in Envs : f # e => addr'[f] = addr[f]
  PROVE  CowInv'
<1>1. /\ pc' \in [Envs -> Pc] /\ pc'[e] = "panic" /\ \A f \in Envs : f # e => pc'[f] = pc[f]
      /\ upcall' \in [Envs -> BOOLEAN] /\ handler' \in [Envs -> BOOLEAN]
  BY DEF CowInv, Control, TypeOK, Pc
<1>2. Ready(e)'
  BY <1>1 DEF Ready, CowInv, Control, Prepared, Forking
<1>3. pc'[e] \notin Forking
  BY <1>1 DEF Forking
<1> QED BY <1>1, <1>2, <1>3, QuietCow

\* set_pgfault_handler, when there is an exception stack.
LEMMA InstallCow ==
  ASSUME CowInv, NEW e \in Envs,
         \/ /\ At(e, "run") /\ handler[e]
            /\ Goto(e, "install")
            /\ UNCHANGED <<pages, perm, status, upcall, handler, fault, addr, child>>
         \/ /\ At(e, "install") /\ perm[e][Globals] = "w"
            /\ handler' = [handler EXCEPT ![e] = TRUE]
            /\ Goto(e, "upcall")
            /\ UNCHANGED <<pages, perm, status, upcall, fault, addr, child>>
         \/ /\ At(e, "upcall")
            /\ sys_env_set_pgfault_upcall(e)
            /\ Goto(e, "exofork")
            /\ UNCHANGED <<pages, perm, status, handler, fault, addr, child>>
  PROVE  CowInv'
<1>1. /\ status[e] = "runnable" /\ fault[e] = Null /\ pc[e] \in {"run", "install", "upcall"}
      /\ UNCHANGED <<pages, perm, status, fault, addr, child>>
  BY DEF At, AtUser
<1>2. /\ pc' \in [Envs -> Pc] /\ pc'[e] \in {"install", "upcall", "exofork"}
      /\ \A f \in Envs : f # e => pc'[f] = pc[f]
  BY DEF Goto, CowInv, Control, TypeOK, Pc
<1>3. /\ upcall' \in [Envs -> BOOLEAN] /\ handler' \in [Envs -> BOOLEAN]
      /\ \A f \in Envs : upcall[f] => upcall'[f]
      /\ \A f \in Envs : f # e => handler'[f] = handler[f]
  BY DEF sys_env_set_pgfault_upcall, CowInv, Control, TypeOK
<1>4. pc'[e] = "exofork" => upcall'[e]
  BY DEF At, Goto, sys_env_set_pgfault_upcall, CowInv, Control, TypeOK
<1>5. perm[e][UXSTACK] = "w"
  BY <1>1 DEF At, CowInv, Control, Prepared
<1>6. Ready(e)'
  BY <1>1, <1>2, <1>4, <1>5 DEF Ready, Forking
<1>7. pc'[e] \notin Forking /\ pc[e] \notin Forking \cup {"panic"} /\ addr' \in [Envs -> 0 .. NVA]
  BY <1>1, <1>2 DEF Forking, CowInv, Control, TypeOK
<1> QED BY <1>1, <1>2, <1>3, <1>6, <1>7, QuietCow DEF Forking

\* sys_exofork: the new child has no page yet.
LEMMA ExoforkCow ==
  ASSUME CowInv, NEW e \in Envs, fork_exofork(e) PROVE CowInv'
<1>1. /\ status[e] = "runnable" /\ fault[e] = Null /\ pc[e] = "exofork"
      /\ addr' = [addr EXCEPT ![e] = 0] /\ UNCHANGED <<pages, perm, fault>>
      /\ addr' \in [Envs -> 0 .. NVA] /\ addr'[e] = 0 /\ \A f \in Envs : f # e => addr'[f] = addr[f]
  BY CowAssumption DEF fork_exofork, At, AtUser, CowInv, Control, TypeOK
<1>2. CASE Goto(e, "panic") /\ UNCHANGED <<status, upcall, handler, child>>
  BY <1>1, <1>2, PanicCow DEF Goto
<1>3. ASSUME NEW c \in Envs,
             status[c] = "free",
             status' = [status EXCEPT ![c] = "not_runnable"],
             upcall' = [upcall EXCEPT ![c] = FALSE],
             handler' = [handler EXCEPT ![c] = handler[e]],
             pc' = [pc EXCEPT ![e] = "loop", ![c] = "child"],
             child' = [child EXCEPT ![e] = c, ![c] = Null]
      PROVE  CowInv'
  <2>1. /\ c # e /\ \A x \in Addrs : perm[c][x] = "none"
        /\ \A f \in Envs : pc[f] \in Forking => child[f] # c
    BY <1>1, <1>3 DEF CowInv, Control, Idle, Parents
  <2>2. TypeOK'
    BY <1>1, <1>3 DEF CowInv, Control, TypeOK, Pc
  <2>3. Idle' /\ Parents' /\ Handling' /\ Duplicating' /\ Prepared' /\ NoBadFault'
    <3>1. /\ pc'[e] = "loop" /\ pc'[c] = "child" /\ \A f \in Envs \ {e, c} : pc'[f] = pc[f]
          /\ child'[e] = c /\ \A f \in Envs \ {e, c} : child'[f] = child[f]
          /\ status'[c] = "not_runnable" /\ \A f \in Envs \ {c} : status'[f] = status[f]
          /\ \A f \in Envs \ {c} : upcall'[f] = upcall[f] /\ handler'[f] = handler[f]
      BY <1>3, <2>1 DEF CowInv, Control, TypeOK
    <3>2. Idle'
      <4>1. /\ status'[e] = "runnable" /\ fault[c] = Null
        BY <1>1, <1>3, <2>1, <3>1 DEF CowInv, Control, Idle
      <4>2. ASSUME NEW f \in Envs
            PROVE  /\ status'[f] = "free" => pc'[f] = "run" /\ \A x \in Addrs : perm'[f][x] = "none"
                   /\ status'[f] = "not_runnable" => pc'[f] = "child"
                   /\ status'[f] # "runnable" => fault'[f] = Null
        <5>1. CASE f = e
          BY <4>1, <5>1
        <5>2. CASE f = c
          BY <1>1, <3>1, <4>1, <5>2
        <5>3. CASE f \in Envs \ {e, c}
          <6>1. status'[f] = status[f] /\ pc'[f] = pc[f] /\ perm' = perm /\ fault' = fault
            BY <1>1, <3>1, <5>3
          <6> QED BY <6>1 DEF CowInv, Control, Idle
        <5> QED BY <5>1, <5>2, <5>3
      <4> QED BY <4>2 DEF Idle
    <3>3. Parents'
      BY <2>1, <3>1 DEF CowInv, Control, Parents, Forking
    <3>4. Handling'
      BY <1>1, <2>1, <3>1, Addresses DEF CowInv, Control, Handling, Idle, Forking
    <3>5. Duplicating'
      BY <1>1, <3>1 DEF CowInv, Control, Duplicating
    <3>6. Prepared' /\ NoBadFault'
      BY <1>1, <3>1 DEF CowInv, Control, Prepared, NoBadFault, Forking
    <3> QED BY <3>2, <3>3, <3>4, <3>5, <3>6
  <2>4. Copying'
    <3>1. ASSUME NEW f \in Envs, f # e, pc'[f] \in Forking
          PROVE  /\ f # c /\ pc'[f] = pc[f] /\ child'[f] = child[f] /\ child[f] # c
                 /\ addr'[f] = addr[f] /\ upcall'[child[f]] = upcall[child[f]]
      BY <1>1, <1>3, <2>1, <3>1 DEF CowInv, Control, TypeOK, Parents, Forking
    <3>2. pc'[e] = "loop" /\ child'[e] = c
      BY <1>3, <2>1 DEF CowInv, Control, TypeOK
    <3>3. \A x \in Va : ~ (x < 0)
      BY CowAssumption DEF Va
    <3> QED BY <1>1, <2>1, <3>1, <3>2, <3>3, Addresses
            DEF CowInv, Control, Copying, Copied, Forking
  <2>5. WellFormed(pages, perm)' /\ HandlerCopies'
    BY <1>1 DEF CowInv, HandlerCopies
  <2>6. Private' /\ SameContents'
    BY <1>1, <1>3, <2>1, Addresses
       DEF CowInv, Control, TypeOK, Private, Excused, SameContents, Forking
  <2> QED BY <2>2, <2>3, <2>4, <2>5, <2>6 DEF CowInv, Control
<1> QED BY <1>1, <1>2, <1>3 DEF fork_exofork

\* The next address: everything below it is in the child now.
LEMMA AdvanceCow ==
  ASSUME CowInv, NEW e \in Envs, pc[e] \in Forking, advance(e),
         \A x \in Va \ ReadOnly : x <= addr[e] => perm'[child[e]][x] = "cow"
  PROVE  /\ addr' \in [Envs -> 0 .. NVA] /\ pc' \in [Envs -> Pc]
         /\ \A f \in Envs : f # e => addr'[f] = addr[f] /\ pc'[f] = pc[f]
         /\ pc'[e] \in {"loop", "xstack"}
         /\ \A x \in Va \ ReadOnly :
              pc'[e] = "xstack" \/ x < addr'[e] => perm'[child[e]][x] = "cow"
<1>1. addr[e] \in 0 .. NVA
  BY DEF CowInv, Control, TypeOK
<1>2. CASE addr[e] = NVA
  <2>1. pc' = [pc EXCEPT ![e] = "xstack"] /\ addr' = [addr EXCEPT ![e] = 0]
    BY <1>2 DEF advance, Goto
  <2>2. \A x \in Va : x <= addr[e]
    BY <1>2, CowAssumption DEF Va
  <2> QED BY <2>1, <2>2, CowAssumption DEF CowInv, Control, TypeOK, Pc
<1>3. CASE addr[e] # NVA
  <2>1. pc' = [pc EXCEPT ![e] = "loop"] /\ addr' = [addr EXCEPT ![e] = addr[e] + 1]
    BY <1>3 DEF advance, Goto
  <2>2. addr[e] + 1 \in 0 .. NVA
    BY <1>1, <1>3, CowAssumption
  <2>3. pc' \in [Envs -> Pc] /\ addr' \in [Envs -> 0 .. NVA]
    BY <2>1, <2>2 DEF CowInv, Control, TypeOK, Pc
  <2>4. /\ pc'[e] = "loop" /\ addr'[e] = addr[e] + 1
        /\ \A f \in Envs : f # e => addr'[f] = addr[f] /\ pc'[f] = pc[f]
    BY <2>1 DEF CowInv, Control, TypeOK
  <2>5. \A x \in Va : x < addr[e] + 1 => x <= addr[e]
    BY <1>1, CowAssumption DEF Va
  <2> QED BY <2>3, <2>4, <2>5
<1> QED BY <1>2, <1>3

\* The loop of fork: nothing to do at an address without a page, which is no
\* page the program writes to.
LEMMA LoopCow ==
  ASSUME CowInv, NEW e \in Envs, fork_loop(e) PROVE CowInv'
<1>1. /\ status[e] = "runnable" /\ fault[e] = Null /\ pc[e] = "loop"
      /\ UNCHANGED <<pages, perm, status, upcall, handler, fault, child>>
  BY DEF fork_loop, At, AtUser
<1>2. /\ addr[e] \in 0 .. NVA /\ perm[e][PFTEMP] = "none" /\ upcall[e] /\ perm[e][UXSTACK] = "w"
      /\ pc[e] \in Forking
  BY <1>1 DEF CowInv, Control, TypeOK, Handling, Prepared, Forking
<1>3. /\ upcall' \in [Envs -> BOOLEAN] /\ handler' \in [Envs -> BOOLEAN]
      /\ \A f \in Envs : upcall[f] => upcall'[f]
      /\ \A f \in Envs : handler'[f] = handler[f]
  BY <1>1 DEF CowInv, Control, TypeOK
<1>4. CASE perm[e][addr[e]] = "none" /\ advance(e)
  <2>1. \A x \in Va \ ReadOnly : x <= addr[e] => x < addr[e]
    <3>1. \A x \in Va \ ReadOnly : x # addr[e]
      BY <1>1, <1>4 DEF CowInv, Control, Prepared
    <3> QED BY <1>2, <3>1, CowAssumption DEF Va
  <2>2. \A x \in Va \ ReadOnly : x <= addr[e] => perm'[child[e]][x] = "cow"
    BY <1>1, <1>2, <2>1 DEF CowInv, Control, Copying, Copied
  <2>3. /\ addr' \in [Envs -> 0 .. NVA] /\ pc' \in [Envs -> Pc]
        /\ \A f \in Envs : f # e => addr'[f] = addr[f] /\ pc'[f] = pc[f]
        /\ pc'[e] \in {"loop", "xstack"}
        /\ \A x \in Va \ ReadOnly :
             pc'[e] = "xstack" \/ x < addr'[e] => perm'[child[e]][x] = "cow"
    BY <1>2, <1>4, <2>2, AdvanceCow
  <2>4. Ready(e)'
    BY <1>1, <1>2, <2>3 DEF Ready, Copied, Forking
  <2> QED BY <1>1, <1>2, <1>3, <2>3, <2>4, QuietCow
<1>5. CASE \/ perm[e][addr[e]] \in {"w", "cow"} /\ Goto(e, "dup_child") /\ UNCHANGED addr
           \/ perm[e][addr[e]] = "ro" /\ Goto(e, "dup_ro") /\ UNCHANGED addr
  <2>1. /\ pc' \in [Envs -> Pc] /\ addr' \in [Envs -> 0 .. NVA]
        /\ \A f \in Envs : f # e => addr'[f] = addr[f] /\ pc'[f] = pc[f]
        /\ addr' = addr
        /\ \/ pc'[e] = "dup_child" /\ perm[e][addr[e]] \in {"w", "cow"}
           \/ pc'[e] = "dup_ro" /\ perm[e][addr[e]] = "ro"
    BY <1>5 DEF Goto, CowInv, Control, TypeOK, Pc
  <2>2. addr[e] \in Va
    <3>1. addr[e] # PFTEMP
      BY <1>2, <1>5
    <3> QED BY <1>2, <3>1, CowAssumption DEF PFTEMP, Va
  <2>3. \A x \in Va \ ReadOnly : x < addr[e] => perm[child[e]][x] = "cow"
    BY <1>1, <1>2 DEF CowInv, Control, Copying, Copied
  <2>4. Ready(e)'
    BY <1>1, <1>2, <2>1, <2>2, <2>3 DEF Ready, Copied, Forking
  <2> QED BY <1>1, <1>2, <1>3, <2>1, <2>4, QuietCow
<1> QED BY <1>4, <1>5 DEF fork_loop

\* A read-only page the child does without.
LEMMA SkipCow ==
  ASSUME CowInv, NEW e \in Envs, At(e, "dup_ro"), advance(e),
         UNCHANGED <<pages, perm, status, upcall, handler, fault, child>>
  PROVE  CowInv'
<1>1. status[e] = "runnable" /\ fault[e] = Null /\ pc[e] = "dup_ro"
  BY DEF At, AtUser
<1>2. addr[e] \in Va /\ perm[e][addr[e]] = "ro" /\ upcall[e] /\ perm[e][UXSTACK] = "w" /\ pc[e] \in Forking
  BY <1>1 DEF CowInv, Control, Duplicating, Prepared, Forking
<1>3. \A x \in Va \ ReadOnly : x <= addr[e] => x < addr[e]
  <2>1. \A x \in Va \ ReadOnly : x # addr[e]
    BY <1>1, <1>2 DEF CowInv, Control, Prepared
  <2> QED BY <1>2, <2>1, CowAssumption DEF Va
<1>4. \A x \in Va \ ReadOnly : x <= addr[e] => perm'[child[e]][x] = "cow"
  BY <1>1, <1>2, <1>3 DEF CowInv, Control, Copying, Copied
<1>5. /\ addr' \in [Envs -> 0 .. NVA] /\ pc' \in [Envs -> Pc]
      /\ \A f \in Envs : f # e => addr'[f] = addr[f] /\ pc'[f] = pc[f]
      /\ pc'[e] \in {"loop", "xstack"}
      /\ \A x \in Va \ ReadOnly :
           pc'[e] = "xstack" \/ x < addr'[e] => perm'[child[e]][x] = "cow"
  BY <1>2, <1>4, AdvanceCow
<1>6. Ready(e)'
  BY <1>1, <1>2, <1>5 DEF Ready, Copied, Forking
<1>7. upcall' \in [Envs -> BOOLEAN] /\ handler' \in [Envs -> BOOLEAN]
  BY DEF CowInv, Control, TypeOK
<1> QED BY <1>1, <1>2, <1>5, <1>6, <1>7, QuietCow

\* The child gets its upcall before it can run.
LEMMA UpcallCow ==
  ASSUME CowInv, NEW e \in Envs, fork_upcall(e) PROVE CowInv'
<1>1. /\ status[e] = "runnable" /\ fault[e] = Null /\ pc[e] = "child_upcall"
      /\ UNCHANGED <<pages, perm, status, handler, fault, addr, child>>
  BY DEF fork_upcall, At, AtUser
<1>2. /\ upcall[e] /\ perm[e][UXSTACK] = "w" /\ pc[e] \in Forking /\ child[e] \in Envs
      /\ \A x \in Va \ ReadOnly : perm[child[e]][x] = "cow"
      /\ perm[child[e]][UXSTACK] = "w"
  BY <1>1 DEF CowInv, Control, Prepared, Parents, Copying, Copied, Forking
<1>3. /\ upcall' \in [Envs -> BOOLEAN] /\ handler' \in [Envs -> BOOLEAN]
      /\ addr' \in [Envs -> 0 .. NVA] /\ pc' \in [Envs -> Pc] /\ pc'[e] = "set_status"
      /\ \A f \in Envs : f # e => pc'[f] = pc[f]
      /\ upcall'[child[e]] /\ \A f \in Envs : upcall[f] => upcall'[f]
  BY <1>1, <1>2 DEF fork_upcall, sys_env_set_pgfault_upcall, Goto, CowInv, Control, TypeOK, Pc
<1>4. Ready(e)'
  BY <1>1, <1>2, <1>3 DEF Ready, Forking
<1> QED BY <1>1, <1>2, <1>3, <1>4, QuietCow

\* The child returns from fork.
LEMMA ChildCow ==
  ASSUME CowInv, NEW e \in Envs, fork_child(e) PROVE CowInv'
<1>1. /\ status[e] = "runnable" /\ fault[e] = Null /\ pc[e] = "child"
      /\ UNCHANGED <<pages, perm, status, upcall, handler, fault, addr, child>>
  BY DEF fork_child, At, AtUser
<1>2. /\ upcall' \in [Envs -> BOOLEAN] /\ handler' \in [Envs -> BOOLEAN]
      /\ addr' \in [Envs -> 0 .. NVA] /\ pc' \in [Envs -> Pc] /\ pc'[e] = "run"
      /\ \A f \in Envs : f # e => pc'[f] = pc[f]
  BY <1>1 DEF fork_child, Goto, CowInv, Control, TypeOK, Pc
<1>3. Ready(e)' /\ pc'[e] \notin Forking
  BY <1>1, <1>2 DEF Ready, Forking, CowInv, Control, Prepared
<1> QED BY <1>1, <1>2, <1>3, QuietCow

\* The child starts with all it needs.
LEMMA StartCow ==
  ASSUME CowInv, NEW e \in Envs, fork_start(e) PROVE CowInv'
<1> DEFINE c == child[e]
<1>1. /\ status[e] = "runnable" /\ fault[e] = Null /\ pc[e] = "set_status" /\ pc[e] \in Forking
      /\ UNCHANGED <<pages, perm, upcall, handler, fault, addr>>
  BY DEF fork_start, At, AtUser, Forking
<1>2. /\ c \in Envs /\ status[c] = "not_runnable" /\ pc[c] = "child" /\ c # e /\ fault[c] = Null
      /\ upcall[c] /\ perm[c][UXSTACK] = "w" /\ \A x \in Va \ ReadOnly : perm[c][x] = "cow"
      /\ \A f \in Envs : f # e /\ pc[f] \in Forking => child[f] # c
  BY <1>1 DEF CowInv, Control, Idle, Parents, Copying, Copied
<1> HIDE DEF c
<1>3. /\ status'[c] = "runnable" /\ \A f \in Envs \ {c} : status'[f] = status[f]
      /\ pc'[e] = "run" /\ \A f \in Envs \ {e} : pc'[f] = pc[f]
      /\ \A f \in Envs \ {e} : child'[f] = child[f]
  BY <1>2 DEF fork_start, Goto, CowInv, Control, TypeOK, c
<1>4. pc'[e] \notin Forking
  BY <1>3 DEF Forking
<1>5. TypeOK'
  BY <1>1, <1>2 DEF fork_start, Goto, CowInv, Control, TypeOK, Pc
<1>6. Idle' /\ Parents'
  BY <1>1, <1>2, <1>3, <1>4 DEF CowInv, Control, Idle, Parents
<1>7. Handling' /\ Duplicating' /\ NoBadFault'
  BY <1>1, <1>3, <1>4 DEF CowInv, Control, Handling, Duplicating, NoBadFault
<1>8. Prepared'
  BY <1>1, <1>2, <1>3 DEF CowInv, Control, Prepared, Forking
<1>9. Copying'
  BY <1>1, <1>3, <1>4 DEF CowInv, Control, Copying, Copied
<1>10. WellFormed(pages, perm)' /\ HandlerCopies'
  BY <1>1 DEF CowInv, HandlerCopies
<1>11. Private' /\ SameContents'
  BY <1>1, <1>3, <1>4 DEF CowInv, Private, Excused, SameContents
<1> QED BY <1>5, <1>6, <1>7, <1>8, <1>9, <1>10, <1>11 DEF CowInv, Control

-----------------------------------------------------------------------------
(***************************************************************************)
(* The steps that change pages.                                            *)
(***************************************************************************)

\* A running environment keeps the pages of its program and their contents.
Undisturbed ==
  \A f \in Envs, y \in Va :
    status[f] = "runnable" /\ status'[f] = "runnable" /\ perm[f][y] # "none"
      => perm'[f][y] # "none" /\ Val(pages', <<f, y>>) = Val(pages, <<f, y>>)

\* Places as pairs.
LEMMA PairOn ==
  ASSUME NEW f \in Envs, NEW y \in Addrs, NEW m
  PROVE  <<f, y>> \in Places /\ (On(m, <<f, y>>) <=> m[f][y] # "none")
BY DEF Places, On

\* A step of the handler keeps the address of the fault.
LEMMA ThenStep ==
  ASSUME TypeOK, NEW e \in Envs, fault[e] # Null, NEW s \in Steps, Then(e, s)
  PROVE  /\ fault' \in [Envs -> {Null} \cup [step : Steps, va : Va]]
         /\ fault[e].va \in Va
         /\ fault'[e] # Null /\ fault'[e].step = s /\ fault'[e].va = fault[e].va
         /\ \A f \in Envs : f # e => fault'[f] = fault[f]
<1>1. fault[e] \in [step : Steps, va : Va]
  BY DEF TypeOK
<1>2. [fault[e] EXCEPT !.step = s] \in [step : Steps, va : Va]
  BY <1>1
<1>3. fault' = [fault EXCEPT ![e] = [fault[e] EXCEPT !.step = s]]
  BY DEF Then
<1> QED BY <1>1, <1>2, <1>3, CowAssumption DEF TypeOK

\* A new page at an address that is not the program's.
LEMMA AllocPages ==
  ASSUME CowInv, NEW f \in Envs, NEW x \in {PFTEMP, UXSTACK},
         Allocated(f, x), \A g \in Envs : pc'[g] # "panic" => pc[g] # "panic",
         \A g \in Envs, y \in Addrs, l \in Places : Excused(g, y, l) => Excused(g, y, l)',
         \A g \in Envs : fault'[g] # Null /\ fault'[g].step = "map" =>
           fault'[g] = fault[g] /\ <<f, x>> # <<g, PFTEMP>>,
         \A g \in Envs : pc'[g] \in Forking => pc[g] \in Forking /\ child'[g] = child[g]
  PROVE  WellFormed(pages, perm)' /\ Private' /\ HandlerCopies' /\ SameContents' /\ Undisturbed
<1> DEFINE k == <<f, x>>
<1>1. x \in Addrs /\ x \notin Va /\ perm \in [Envs -> [Addrs -> Perms]] /\ WellFormed(pages, perm)
  BY Addresses DEF CowInv, Control, TypeOK
<1>2. /\ WellFormed(pages', perm') /\ Share(pages', k) = {k}
      /\ \A l \in Places : l # k /\ On(perm, l) =>
           Share(pages', l) = Share(pages, l) \ {k} /\ Val(pages', l) = Val(pages, l)
  BY <1>1, AllocStep
<1>3. \A g \in Envs, y \in Addrs : <<g, y>> # k => perm'[g][y] = perm[g][y]
  BY <1>1 DEF Allocated
<1>4. \A g \in Envs, y \in Addrs :
        <<g, y>> \in Places /\ (perm[g][y] # "none" => On(perm, <<g, y>>))
  BY PairOn
<1> HIDE DEF k
<1>5. \A g \in Envs, y \in Va : <<g, y>> # k /\ y \in Addrs
  BY <1>1, Addresses DEF k
<1>6. Private'
  <2>1. ASSUME NEW g \in Envs, NEW y \in Addrs, perm'[g][y] = "w", pc'[g] # "panic",
               NEW l \in Share(pages', <<g, y>>)
        PROVE  l = <<g, y>> \/ Excused(g, y, l)'
    <3>1. CASE <<g, y>> = k
      BY <1>2, <2>1, <3>1
    <3>2. CASE <<g, y>> # k
      <4>1. perm[g][y] = "w" /\ pc[g] # "panic" /\ On(perm, <<g, y>>) /\ <<g, y>> \in Places
        BY <1>3, <1>4, <2>1, <3>2
      <4>2. l \in Share(pages, <<g, y>>)
        BY <1>2, <2>1, <3>2, <4>1
      <4>3. l \in Places
        BY <1>1, <4>1, <4>2, SameShare
      <4>4. l = <<g, y>> \/ Excused(g, y, l)
        BY <4>1, <4>2 DEF CowInv, Private
      <4> QED BY <4>3, <4>4
    <3> QED BY <3>1, <3>2
  <2> QED BY <2>1 DEF Private
<1>7. HandlerCopies'
  <2>1. ASSUME NEW g \in Envs, fault'[g] # Null, fault'[g].step = "map"
        PROVE  Val(pages', <<g, PFTEMP>>) = Val(pages', <<g, fault'[g].va>>)
    <3>1. fault'[g] = fault[g] /\ k # <<g, PFTEMP>>
      BY <2>1 DEF k
    <3>2. fault[g].va \in Va /\ perm[g][PFTEMP] = "w" /\ perm[g][fault[g].va] = "cow"
      BY <2>1, <3>1 DEF CowInv, Control, TypeOK, Handling
    <3>3. Val(pages, <<g, PFTEMP>>) = Val(pages, <<g, fault[g].va>>)
      BY <2>1, <3>1 DEF CowInv, HandlerCopies
    <3>4. Val(pages', <<g, PFTEMP>>) = Val(pages, <<g, PFTEMP>>)
      BY <1>2, <1>4, <3>1, <3>2, Addresses
    <3>5. Val(pages', <<g, fault[g].va>>) = Val(pages, <<g, fault[g].va>>)
      BY <1>2, <1>4, <1>5, <3>2
    <3> QED BY <3>1, <3>3, <3>4, <3>5
  <2> QED BY <2>1 DEF HandlerCopies
<1>8. \A g \in Envs, y \in Va : perm[g][y] # "none" => Val(pages', <<g, y>>) = Val(pages, <<g, y>>)
  BY <1>2, <1>4, <1>5
<1>9. \A g \in Envs, y \in Va : perm'[g][y] = perm[g][y]
  BY <1>3, <1>5
<1>10. SameContents'
  <2>1. ASSUME NEW g \in Envs, pc'[g] \in Forking, NEW y \in Va \ {Stack},
               perm'[child'[g]][y] # "none"
        PROVE  Val(pages', <<child'[g], y>>) = Val(pages', <<g, y>>)
    <3>1. pc[g] \in Forking /\ child'[g] = child[g] /\ child[g] \in Envs
      BY <2>1 DEF CowInv, Control, Parents
    <3>2. perm[child[g]][y] # "none" /\ perm[g][y] # "none"
      BY <1>9, <2>1, <3>1 DEF CowInv, Control, Copying
    <3>3. Val(pages, <<child[g], y>>) = Val(pages, <<g, y>>)
      BY <3>1, <3>2 DEF CowInv, SameContents
    <3> QED BY <1>8, <3>1, <3>2, <3>3
  <2> QED BY <2>1 DEF SameContents
<1>11. Undisturbed
  BY <1>8, <1>9 DEF Undisturbed
<1> QED BY <1>2, <1>6, <1>7, <1>10, <1>11

\* Steps that touch no page disturb nobody.
LEMMA StillUndisturbed ==
  ASSUME UNCHANGED <<pages, perm>> PROVE Undisturbed
BY DEF Undisturbed

\* The handler gets a page, at PFTEMP, or panics.
LEMMA HandlerAllocCow ==
  ASSUME CowInv, NEW e \in Envs, pgfault_alloc(e) PROVE CowInv' /\ Undisturbed
<1>1. /\ status[e] = "runnable" /\ fault[e] # Null /\ fault[e].step = "alloc" /\ pc[e] # "panic"
      /\ UNCHANGED <<status, upcall, handler, addr, child>> /\ "copy" \in Steps
  BY DEF pgfault_alloc, InHandler, Steps
<1>2. CASE Goto(e, "panic") /\ UNCHANGED <<pages, perm, fault>>
  BY <1>1, <1>2, PanicCow, StillUndisturbed DEF Goto, CowInv, Control, TypeOK
<1>3. CASE Allocated(e, PFTEMP) /\ Then(e, "copy") /\ UNCHANGED pc
  <2>1. /\ fault' \in [Envs -> {Null} \cup [step : Steps, va : Va]] /\ fault[e].va \in Va
        /\ fault'[e] # Null /\ fault'[e].step = "copy" /\ fault'[e].va = fault[e].va
        /\ \A f \in Envs : f # e => fault'[f] = fault[f]
    BY <1>1, <1>3, ThenStep DEF CowInv, Control
  <2>2. /\ \A g \in Envs : pc'[g] # "panic" => pc[g] # "panic"
        /\ \A g \in Envs, y \in Addrs, l \in Places : Excused(g, y, l) => Excused(g, y, l)'
        /\ \A g \in Envs : fault'[g] # Null /\ fault'[g].step = "map" =>
             fault'[g] = fault[g] /\ <<e, PFTEMP>> # <<g, PFTEMP>>
        /\ \A g \in Envs : pc'[g] \in Forking => pc[g] \in Forking /\ child'[g] = child[g]
    BY <1>1, <1>3, <2>1 DEF Excused
  <2>3. WellFormed(pages, perm)' /\ Private' /\ HandlerCopies' /\ SameContents' /\ Undisturbed
    BY <1>3, <2>2, AllocPages
  <2>4. /\ perm' \in [Envs -> [Addrs -> Perms]] /\ perm'[e][PFTEMP] = "w"
        /\ \A f \in Envs, y \in Addrs : f # e \/ y # PFTEMP => perm'[f][y] = perm[f][y]
    BY <1>3, Addresses DEF Allocated, CowInv, Control, TypeOK, Perms
  <2>5. /\ \A f \in Envs, y \in Va : perm'[f][y] = perm[f][y]
        /\ \A f \in Envs : perm'[f][UXSTACK] = perm[f][UXSTACK]
    BY <2>4, Addresses
  <2>6. TypeOK'
    BY <1>1, <1>3, <2>1, <2>3, <2>4 DEF CowInv, Control, TypeOK, WellFormed
  <2>7. Idle' /\ Parents' /\ NoBadFault'
    BY <1>1, <1>3, <2>1, <2>4 DEF CowInv, Control, Idle, Parents, NoBadFault
  <2>8. Handling'
    <3>1. \A f \in Envs : fault[f] # Null => fault[f].va \in Va
      BY DEF CowInv, Control, TypeOK
    <3> QED BY <1>1, <1>3, <2>1, <2>4, <2>5, <3>1, Addresses DEF CowInv, Control, Handling
  <2>9. Duplicating' /\ Prepared'
    BY <1>1, <1>3, <2>5 DEF CowInv, Control, Duplicating, Prepared
  <2>10. Copying'
    BY <1>1, <1>3, <2>5 DEF CowInv, Control, Copying, Copied, Parents
  <2> QED BY <2>3, <2>6, <2>7, <2>8, <2>9, <2>10 DEF CowInv, Control
<1> QED BY <1>2, <1>3 DEF pgfault_alloc, sys_page_alloc, Allocated

\* The first call of set_pgfault_handler.
LEMMA FirstStackCow ==
  ASSUME CowInv, NEW e \in Envs, At(e, "run"),
         sys_page_alloc(e, e, UXSTACK, Goto(e, "install") /\ UNCHANGED fault),
         UNCHANGED <<status, upcall, handler, addr, child>>
  PROVE  CowInv' /\ Undisturbed
<1>1. status[e] = "runnable" /\ fault[e] = Null /\ pc[e] = "run"
  BY DEF At, AtUser
<1>2. CASE Goto(e, "panic") /\ UNCHANGED <<pages, perm, fault>>
  BY <1>1, <1>2, PanicCow, StillUndisturbed DEF Goto, CowInv, Control, TypeOK
<1>3. CASE Allocated(e, UXSTACK) /\ Goto(e, "install") /\ UNCHANGED fault
  <2>1. /\ pc' \in [Envs -> Pc] /\ pc'[e] = "install" /\ pc'[e] \notin Forking
        /\ \A f \in Envs : f # e => pc'[f] = pc[f]
    BY <1>3 DEF Goto, CowInv, Control, TypeOK, Pc, Forking
  <2>2. /\ \A g \in Envs : pc'[g] # "panic" => pc[g] # "panic"
        /\ \A g \in Envs, y \in Addrs, l \in Places : Excused(g, y, l) => Excused(g, y, l)'
        /\ \A g \in Envs : fault'[g] # Null /\ fault'[g].step = "map" =>
             fault'[g] = fault[g] /\ <<e, UXSTACK>> # <<g, PFTEMP>>
        /\ \A g \in Envs : pc'[g] \in Forking => pc[g] \in Forking /\ child'[g] = child[g]
    BY <1>1, <1>3, <2>1, Addresses DEF Excused
  <2>3. WellFormed(pages, perm)' /\ Private' /\ HandlerCopies' /\ SameContents' /\ Undisturbed
    BY <1>3, <2>2, AllocPages
  <2>4. /\ perm' \in [Envs -> [Addrs -> Perms]] /\ perm'[e][UXSTACK] = "w"
        /\ \A f \in Envs, y \in Addrs : f # e \/ y # UXSTACK => perm'[f][y] = perm[f][y]
    BY <1>3, Addresses DEF Allocated, CowInv, Control, TypeOK, Perms
  <2>5. /\ \A f \in Envs, y \in Va : perm'[f][y] = perm[f][y]
        /\ \A f \in Envs : perm'[f][PFTEMP] = perm[f][PFTEMP]
    BY <2>4, Addresses
  <2>6. TypeOK'
    BY <1>1, <1>3, <2>1, <2>3, <2>4 DEF CowInv, Control, TypeOK, WellFormed
  <2>7. Idle' /\ Parents' /\ NoBadFault'
    BY <1>1, <1>3, <2>1, <2>4 DEF CowInv, Control, Idle, Parents, NoBadFault
  <2>8. Handling'
    <3>1. \A f \in Envs : fault[f] # Null => fault[f].va \in Va
      BY DEF CowInv, Control, TypeOK
    <3> QED BY <1>1, <1>3, <2>1, <2>5, <3>1 DEF CowInv, Control, Handling
  <2>9. Duplicating'
    BY <1>1, <1>3, <2>1, <2>5 DEF CowInv, Control, Duplicating
  <2>10. Prepared'
    <3>1. \A f \in Envs : f # e => perm'[f][UXSTACK] = perm[f][UXSTACK]
      BY <2>4, Addresses
    <3>2. pc'[e] \notin Forking \cup {"exofork"}
      BY <2>1
    <3> QED BY <1>1, <2>1, <2>4, <2>5, <3>1, <3>2 DEF CowInv, Control, Prepared
  <2>11. Copying'
    <3>1. \A f \in Envs : pc[f] \in Forking => child[f] # e /\ child[f] \in Envs
      BY <1>1 DEF CowInv, Control, Parents
    <3> QED BY <1>1, <2>1, <2>4, <2>5, <3>1, Addresses DEF CowInv, Control, Copying, Copied
  <2> QED BY <2>3, <2>6, <2>7, <2>8, <2>9, <2>10, <2>11 DEF CowInv, Control
<1> QED BY <1>2, <1>3 DEF sys_page_alloc, Allocated

\* The exception stack of the child.
LEMMA XstackCow ==
  ASSUME CowInv, NEW e \in Envs, fork_xstack(e) PROVE CowInv' /\ Undisturbed
<1> DEFINE c == child[e]
<1>1. /\ status[e] = "runnable" /\ fault[e] = Null /\ pc[e] = "xstack" /\ pc[e] \in Forking
      /\ UNCHANGED <<status, upcall, handler, addr, child>>
  BY DEF fork_xstack, At, AtUser, Forking
<1>2. CASE Goto(e, "panic") /\ UNCHANGED <<pages, perm, fault>>
  BY <1>1, <1>2, PanicCow, StillUndisturbed DEF Goto, CowInv, Control, TypeOK
<1>3. CASE Allocated(c, UXSTACK) /\ Goto(e, "child_upcall") /\ UNCHANGED fault
  <2>0. /\ c \in Envs /\ status[c] = "not_runnable" /\ c # e
        /\ \A f \in Envs : f # e /\ pc[f] \in Forking => child[f] # c
        /\ upcall[e] /\ perm[e][UXSTACK] = "w"
        /\ \A x \in Va \ ReadOnly : perm[c][x] = "cow"
    BY <1>1 DEF CowInv, Control, Parents, Prepared, Copying, Copied
  <2> HIDE DEF c
  <2>1. /\ pc' \in [Envs -> Pc] /\ pc'[e] = "child_upcall"
        /\ \A f \in Envs : f # e => pc'[f] = pc[f]
    BY <1>3 DEF Goto, CowInv, Control, TypeOK, Pc
  <2>2. /\ \A g \in Envs : pc'[g] # "panic" => pc[g] # "panic"
        /\ \A g \in Envs, y \in Addrs, l \in Places : Excused(g, y, l) => Excused(g, y, l)'
        /\ \A g \in Envs : fault'[g] # Null /\ fault'[g].step = "map" =>
             fault'[g] = fault[g] /\ <<c, UXSTACK>> # <<g, PFTEMP>>
        /\ \A g \in Envs : pc'[g] \in Forking => pc[g] \in Forking /\ child'[g] = child[g]
    BY <1>1, <1>3, <2>1, Addresses DEF Excused
  <2>3. WellFormed(pages, perm)' /\ Private' /\ HandlerCopies' /\ SameContents' /\ Undisturbed
    BY <1>3, <2>0, <2>2, AllocPages
  <2>4. /\ perm' \in [Envs -> [Addrs -> Perms]] /\ perm'[c][UXSTACK] = "w"
        /\ \A f \in Envs, y \in Addrs : f # c \/ y # UXSTACK => perm'[f][y] = perm[f][y]
    BY <1>3, <2>0, Addresses DEF Allocated, CowInv, Control, TypeOK, Perms
  <2>5. /\ \A f \in Envs, y \in Va : perm'[f][y] = perm[f][y]
        /\ \A f \in Envs : perm'[f][PFTEMP] = perm[f][PFTEMP]
    BY <2>4, Addresses
  <2>6. TypeOK'
    BY <1>1, <1>3, <2>1, <2>3, <2>4 DEF CowInv, Control, TypeOK, WellFormed
  <2>7. Idle' /\ Parents' /\ NoBadFault'
    <3>1. \A f \in Envs : f # c => \A y \in Addrs : perm'[f][y] = perm[f][y]
      BY <2>4
    <3>2. Idle'
      BY <1>1, <1>3, <2>0, <2>1, <3>1 DEF CowInv, Control, Idle
    <3>3. Parents'
      BY <1>1, <2>1 DEF CowInv, Control, Parents
    <3>4. NoBadFault'
      BY <2>1 DEF CowInv, Control, NoBadFault
    <3> QED BY <3>2, <3>3, <3>4
  <2>8. Handling'
    <3>1. \A f \in Envs : fault[f] # Null => fault[f].va \in Va
      BY DEF CowInv, Control, TypeOK
    <3> QED BY <1>1, <1>3, <2>1, <2>5, <3>1 DEF CowInv, Control, Handling
  <2>9. Duplicating'
    BY <1>1, <1>3, <2>1, <2>5 DEF CowInv, Control, Duplicating
  <2>10. Prepared'
    <3>1. \A f \in Envs : f # c => perm'[f][UXSTACK] = perm[f][UXSTACK]
      BY <2>4, Addresses
    <3> QED BY <1>1, <2>0, <2>1, <2>5, <3>1 DEF CowInv, Control, Prepared
  <2>11. Copying'
    <3>1. \A f \in Envs : pc[f] \in Forking => child[f] \in Envs
      BY DEF CowInv, Control, Parents
    <3>2. \A f \in Envs : f # c => perm'[f][UXSTACK] = perm[f][UXSTACK]
      BY <2>4, Addresses
    <3>3. ASSUME NEW f \in Envs, f # e, pc'[f] \in Forking
          PROVE  pc[f] = pc'[f] /\ child[f] \in Envs /\ child[f] # c
      BY <2>0, <2>1, <3>1, <3>3
    <3> QED BY <1>1, <2>0, <2>1, <2>4, <2>5, <3>2, <3>3 DEF CowInv, Control, Copying, Copied, c
  <2> QED BY <2>3, <2>6, <2>7, <2>8, <2>9, <2>10, <2>11 DEF CowInv, Control
<1> QED BY <1>2, <1>3 DEF fork_xstack, sys_page_alloc, Allocated

\* The page at PFTEMP is the handler's alone until it is mapped.
LEMMA TempAlone ==
  ASSUME CowInv, NEW e \in Envs, fault[e] # Null, fault[e].step \in {"copy", "map"}, pc[e] # "panic"
  PROVE  /\ Share(pages, <<e, PFTEMP>>) = {<<e, PFTEMP>>}
         /\ perm[e][PFTEMP] = "w" /\ fault[e].va \in Va /\ perm[e][fault[e].va] = "cow"
<1>1. perm[e][PFTEMP] = "w" /\ fault[e].va \in Va /\ perm[e][fault[e].va] = "cow"
  BY DEF CowInv, Control, TypeOK, Handling
<1>2. ~ (pc[e] = "dup_self" /\ addr[e] = PFTEMP)
  BY Addresses DEF CowInv, Control, Duplicating
<1>3. \A l \in Share(pages, <<e, PFTEMP>>) : l = <<e, PFTEMP>>
  BY <1>1, <1>2, Addresses DEF CowInv, Private, Excused
<1>4. <<e, PFTEMP>> \in Share(pages, <<e, PFTEMP>>)
  BY <1>1, PairOn, PgMapped, Addresses DEF CowInv
<1> QED BY <1>1, <1>3, <1>4

\* Contents that stay where they are stay the same for parent and child.
LEMMA ValuesKept ==
  ASSUME CowInv,
         \A g \in Envs, y \in Va : perm[g][y] # "none" =>
           perm'[g][y] # "none" /\ Val(pages', <<g, y>>) = Val(pages, <<g, y>>),
         \A g \in Envs, y \in Va : status'[g] # "free" /\ perm'[g][y] # "none" => perm[g][y] # "none",
         \A g \in Envs : pc'[g] \in Forking => pc[g] \in Forking /\ child'[g] = child[g],
         status' = status
  PROVE  SameContents' /\ Undisturbed
<1>1. ASSUME NEW g \in Envs, pc'[g] \in Forking, NEW y \in Va \ {Stack}, perm'[child'[g]][y] # "none"
      PROVE  Val(pages', <<child'[g], y>>) = Val(pages', <<g, y>>)
  <2>1. pc[g] \in Forking /\ child'[g] = child[g] /\ child[g] \in Envs /\ status[child[g]] # "free"
    BY <1>1 DEF CowInv, Control, Parents
  <2>2. perm[child[g]][y] # "none" /\ perm[g][y] # "none"
    BY <1>1, <2>1 DEF CowInv, Control, Copying
  <2>3. Val(pages, <<child[g], y>>) = Val(pages, <<g, y>>)
    BY <2>1, <2>2 DEF CowInv, SameContents
  <2> QED BY <2>1, <2>2, <2>3
<1> QED BY <1>1 DEF SameContents, Undisturbed

\* memmove writes to the page at PFTEMP only.
LEMMA HandlerCopyCow ==
  ASSUME CowInv, NEW e \in Envs, pgfault_copy(e) PROVE CowInv' /\ Undisturbed
<1> DEFINE t == <<e, PFTEMP>>
           a == fault[e].va
           v == Content(e, a)
<1>1. /\ status[e] = "runnable" /\ fault[e] # Null /\ fault[e].step = "copy" /\ pc[e] # "panic"
      /\ UNCHANGED <<perm, status, upcall, handler, pc, addr, child>>
      /\ pages' = Store(e, PFTEMP, v) /\ Then(e, "map") /\ "map" \in Steps
  BY DEF pgfault_copy, InHandler, Steps
<1>2. Share(pages, t) = {t} /\ perm[e][PFTEMP] = "w" /\ a \in Va /\ perm[e][a] = "cow"
  BY <1>1, TempAlone
<1>3. /\ fault' \in [Envs -> {Null} \cup [step : Steps, va : Va]]
      /\ fault'[e] # Null /\ fault'[e].step = "map" /\ fault'[e].va = a
      /\ \A f \in Envs : f # e => fault'[f] = fault[f]
  BY <1>1, ThenStep DEF CowInv, Control
<1>4. v = Val(pages, <<e, a>>) /\ v \in Values
  <2>1. On(perm, <<e, a>>) /\ <<e, a>> \in Places
    BY <1>2, PairOn, Addresses
  <2>2. Val(pages, <<e, a>>) \in Values
    BY <2>1, PgMapped DEF CowInv
  <2> QED BY <2>2 DEF Content, PageOf, Val, Pg
<1> HIDE DEF v, a
<1>5. /\ WellFormed(pages', perm)
      /\ \A l \in Places : On(perm, l) =>
           /\ Share(pages', l) = Share(pages, l)
           /\ Val(pages', l) = IF l \in Share(pages, t) THEN v ELSE Val(pages, l)
  BY <1>1, <1>2, <1>4, StoreStep, Addresses DEF CowInv, Mapped
<1>6. \A g \in Envs, y \in Addrs : perm[g][y] # "none" =>
        /\ Share(pages', <<g, y>>) = Share(pages, <<g, y>>)
        /\ Val(pages', <<g, y>>) = IF <<g, y>> = t THEN v ELSE Val(pages, <<g, y>>)
  BY <1>2, <1>5, PairOn
<1>7. SameContents' /\ Undisturbed
  <2>1. \A g \in Envs, y \in Va : perm[g][y] # "none" => Val(pages', <<g, y>>) = Val(pages, <<g, y>>)
    BY <1>6, Addresses
  <2> QED BY <1>1, <2>1, ValuesKept
<1>8. HandlerCopies'
  <2>1. ASSUME NEW g \in Envs, fault'[g] # Null, fault'[g].step = "map"
        PROVE  Val(pages', <<g, PFTEMP>>) = Val(pages', <<g, fault'[g].va>>)
    <3>1. CASE g = e
      BY <1>2, <1>3, <1>4, <1>6, <3>1, Addresses
    <3>2. CASE g # e
      <4>1. /\ fault'[g] = fault[g] /\ fault[g].va \in Va
            /\ perm[g][PFTEMP] = "w" /\ perm[g][fault[g].va] = "cow"
        BY <1>3, <2>1, <3>2 DEF CowInv, Control, TypeOK, Handling
      <4>2. Val(pages, <<g, PFTEMP>>) = Val(pages, <<g, fault[g].va>>)
        BY <2>1, <4>1 DEF CowInv, HandlerCopies
      <4> QED BY <1>6, <3>2, <4>1, <4>2, Addresses
    <3> QED BY <3>1, <3>2
  <2> QED BY <2>1 DEF HandlerCopies
<1>9. Private'
  <2>1. \A g \in Envs, y \in Addrs : \A l : Excused(g, y, l) => Excused(g, y, l)'
    BY <1>1, <1>3 DEF Excused
  <2>2. ASSUME NEW g \in Envs, NEW y \in Addrs, perm'[g][y] = "w", pc'[g] # "panic",
               NEW l \in Share(pages', <<g, y>>)
        PROVE  l = <<g, y>> \/ Excused(g, y, l)'
    <3>1. l \in Share(pages, <<g, y>>) /\ perm[g][y] = "w" /\ pc[g] # "panic"
      BY <1>1, <1>6, <2>2
    <3> QED BY <2>1, <3>1 DEF CowInv, Private
  <2> QED BY <2>2 DEF Private
<1>10. TypeOK'
  BY <1>1, <1>3, <1>5 DEF CowInv, Control, TypeOK, WellFormed
<1>11. Idle' /\ Parents' /\ Duplicating' /\ Prepared' /\ NoBadFault'
  BY <1>1, <1>3 DEF CowInv, Control, Idle, Parents, Duplicating, Prepared, NoBadFault
<1>12. Handling'
  BY <1>1, <1>2, <1>3 DEF CowInv, Control, Handling, a
<1>13. Copying'
  BY <1>1 DEF CowInv, Control, Copying, Copied
<1> QED BY <1>1, <1>5, <1>7, <1>8, <1>9, <1>10, <1>11, <1>12, <1>13 DEF CowInv, Control

\* The copy replaces the page of the fault; nobody sees a difference.
LEMMA HandlerMapCow ==
  ASSUME CowInv, NEW e \in Envs, pgfault_map(e) PROVE CowInv' /\ Undisturbed
<1> DEFINE t == <<e, PFTEMP>>
           a == fault[e].va
           k == <<e, a>>
<1>1. /\ status[e] = "runnable" /\ fault[e] # Null /\ fault[e].step = "map" /\ pc[e] # "panic"
      /\ UNCHANGED <<status, upcall, handler, pc, addr, child>>
      /\ sys_page_map(e, PFTEMP, e, a, "w") /\ Then(e, "unmap") /\ "unmap" \in Steps
  BY DEF pgfault_map, InHandler, Steps
<1>2. Share(pages, t) = {t} /\ perm[e][PFTEMP] = "w" /\ a \in Va /\ perm[e][a] = "cow"
  BY <1>1, TempAlone
<1>3. /\ fault' \in [Envs -> {Null} \cup [step : Steps, va : Va]]
      /\ fault'[e] # Null /\ fault'[e].step = "unmap" /\ fault'[e].va = a
      /\ \A f \in Envs : f # e => fault'[f] = fault[f]
  BY <1>1, ThenStep DEF CowInv, Control
<1>4. Val(pages, t) = Val(pages, k) /\ k # t /\ a \in Addrs /\ PFTEMP \in Addrs
  BY <1>1, <1>2, Addresses DEF CowInv, HandlerCopies
<1> HIDE DEF a
<1>5. /\ WellFormed(pages', perm') /\ perm' = [perm EXCEPT ![e][a] = "w"]
      /\ Share(pages', k) = Share(pages, t) \cup {k}
      /\ Val(pages', k) = Val(pages, t)
      /\ \A l \in Places : l # k /\ On(perm, l) =>
           /\ Val(pages', l) = Val(pages, l)
           /\ Share(pages', l) = IF t \in Share(pages, l)
                                 THEN Share(pages, l) \cup {k} ELSE Share(pages, l) \ {k}
  <2>1. "w" \in Perms \ {"none"} /\ Mapped(e, PFTEMP) /\ perm \in [Envs -> [Addrs -> Perms]]
    BY <1>2 DEF Perms, Mapped, CowInv, Control, TypeOK
  <2> QED BY <1>1, <1>4, <2>1, MapStep DEF CowInv
<1>6. /\ perm' \in [Envs -> [Addrs -> Perms]] /\ perm'[e][a] = "w"
      /\ \A f \in Envs, y \in Addrs : f # e \/ y # a => perm'[f][y] = perm[f][y]
  BY <1>4, <1>5 DEF CowInv, Control, TypeOK, Perms
<1>7. ASSUME NEW g \in Envs, NEW y \in Addrs, perm[g][y] # "none"
      PROVE  /\ Val(pages', <<g, y>>) = Val(pages, <<g, y>>)
             /\ <<g, y>> # k /\ <<g, y>> # t => Share(pages', <<g, y>>) \subseteq Share(pages, <<g, y>>)
  <2>1. On(perm, <<g, y>>) /\ <<g, y>> \in Places
    BY <1>7, PairOn
  <2>2. CASE <<g, y>> = k
    BY <1>4, <1>5, <2>2
  <2>3. CASE <<g, y>> # k
    <3>1. ASSUME <<g, y>> # t PROVE t \notin Share(pages, <<g, y>>)
      <4>1. SUFFICES ASSUME t \in Share(pages, <<g, y>>) PROVE FALSE
        OBVIOUS
      <4>2. Share(pages, t) = Share(pages, <<g, y>>)
        BY <2>1, <4>1, SameShare DEF CowInv
      <4>3. <<g, y>> \in Share(pages, <<g, y>>)
        BY <2>1, PgMapped DEF CowInv
      <4> QED BY <1>2, <3>1, <4>2, <4>3
    <3> QED BY <1>5, <2>1, <2>3, <3>1
  <2> QED BY <2>2, <2>3
<1>8. Share(pages', k) = {t, k} /\ Share(pages', t) = {t, k}
  <2>1. On(perm, t) /\ t \in Places
    BY <1>2, <1>4, PairOn
  <2> QED BY <1>2, <1>4, <1>5, <2>1
<1>9. SameContents' /\ Undisturbed
  <2>1. \A g \in Envs, y \in Va : perm[g][y] # "none" =>
           perm'[g][y] # "none" /\ Val(pages', <<g, y>>) = Val(pages, <<g, y>>)
    BY <1>6, <1>7, Addresses
  <2>2. \A g \in Envs, y \in Va : perm'[g][y] # "none" => perm[g][y] # "none"
    BY <1>2, <1>6, Addresses
  <2> QED BY <1>1, <2>1, <2>2, ValuesKept
<1>10. HandlerCopies'
  <2>1. ASSUME NEW g \in Envs, fault'[g] # Null, fault'[g].step = "map"
        PROVE  Val(pages', <<g, PFTEMP>>) = Val(pages', <<g, fault'[g].va>>)
    <3>1. g # e
      BY <1>3, <2>1
    <3>2. /\ fault'[g] = fault[g] /\ fault[g].va \in Va
          /\ perm[g][PFTEMP] = "w" /\ perm[g][fault[g].va] = "cow"
      BY <1>3, <2>1, <3>1 DEF CowInv, Control, TypeOK, Handling
    <3>3. Val(pages, <<g, PFTEMP>>) = Val(pages, <<g, fault[g].va>>)
      BY <2>1, <3>2 DEF CowInv, HandlerCopies
    <3> QED BY <1>7, <3>2, <3>3, Addresses
  <2> QED BY <2>1 DEF HandlerCopies
<1>11. Private'
  <2>1. \A g \in Envs, y \in Addrs : \A l : Excused(g, y, l) => Excused(g, y, l)'
    BY <1>1, <1>3 DEF Excused
  <2>2. ASSUME NEW g \in Envs, NEW y \in Addrs, perm'[g][y] = "w", pc'[g] # "panic",
               NEW l \in Share(pages', <<g, y>>)
        PROVE  l = <<g, y>> \/ Excused(g, y, l)'
    <3>1. CASE <<g, y>> = k \/ <<g, y>> = t
      <4>1. g = e /\ (l = k \/ l = t) /\ (y = a \/ y = PFTEMP)
        BY <1>8, <2>2, <3>1
      <4>2. (y = a /\ l = t) \/ (y = PFTEMP /\ l = k) \/ l = <<g, y>>
        BY <4>1
      <4> QED BY <1>3, <4>1, <4>2 DEF Excused
    <3>2. CASE <<g, y>> # k /\ <<g, y>> # t
      <4>1. perm[g][y] = "w" /\ pc[g] # "panic"
        BY <1>1, <1>6, <2>2, <3>2
      <4>2. l \in Share(pages, <<g, y>>)
        BY <1>7, <2>2, <3>2, <4>1
      <4> QED BY <2>1, <4>1, <4>2 DEF CowInv, Private
    <3> QED BY <3>1, <3>2
  <2> QED BY <2>2 DEF Private
<1>12. TypeOK'
  BY <1>1, <1>3, <1>5, <1>6 DEF CowInv, Control, TypeOK, WellFormed
<1>13. Idle' /\ Parents' /\ NoBadFault'
  <2>1. \A f \in Envs : status[f] = "free" => \A y \in Addrs : perm'[f][y] = perm[f][y]
    BY <1>1, <1>6
  <2> QED BY <1>1, <1>3, <2>1 DEF CowInv, Control, Idle, Parents, NoBadFault
<1>14. /\ \A f \in Envs : perm'[f][PFTEMP] = perm[f][PFTEMP] /\ perm'[f][UXSTACK] = perm[f][UXSTACK]
       /\ \A f \in Envs, y \in Va : f # e \/ y # a => perm'[f][y] = perm[f][y]
  BY <1>2, <1>6, Addresses
<1>15. Handling'
  <2>1. \A f \in Envs : fault[f] # Null => fault[f].va \in Va
    BY DEF CowInv, Control, TypeOK
  <2> QED BY <1>1, <1>2, <1>3, <1>6, <1>14, <2>1 DEF CowInv, Control, Handling, a
<1>16. Duplicating'
  BY <1>1, <1>2, <1>6, <1>14 DEF CowInv, Control, Duplicating
<1>17. Prepared'
  BY <1>1, <1>6, <1>14 DEF CowInv, Control, Prepared
<1>18. Copying'
  <2>1. \A f \in Envs : pc[f] \in Forking => child[f] \in Envs /\ child[f] # e
    BY <1>1 DEF CowInv, Control, Parents
  <2>2. \A f \in Envs, y \in Va : perm[f][y] # "none" => perm'[f][y] # "none"
    BY <1>2, <1>6, <1>14
  <2> QED BY <1>1, <1>14, <2>1, <2>2 DEF CowInv, Control, Copying, Copied
<1> QED BY <1>1, <1>5, <1>9, <1>10, <1>11, <1>12, <1>13, <1>15, <1>16, <1>17, <1>18
        DEF CowInv, Control

\* The second mapping of the copy goes away, and the fault is over.
LEMMA HandlerUnmapCow ==
  ASSUME CowInv, NEW e \in Envs, pgfault_unmap(e) PROVE CowInv' /\ Undisturbed
<1> DEFINE t == <<e, PFTEMP>>
<1>1. /\ status[e] = "runnable" /\ fault[e] # Null /\ fault[e].step = "unmap" /\ pc[e] # "panic"
      /\ UNCHANGED <<status, upcall, handler, pc, addr, child>>
      /\ pages' = Without({t}) /\ perm' = [perm EXCEPT ![e][PFTEMP] = "none"]
  BY DEF pgfault_unmap, InHandler
<1>2. /\ fault' \in [Envs -> {Null} \cup [step : Steps, va : Va]] /\ fault'[e] = Null
      /\ \A f \in Envs : f # e => fault'[f] = fault[f]
  BY DEF pgfault_unmap, CowInv, Control, TypeOK
<1>3. /\ perm' \in [Envs -> [Addrs -> Perms]] /\ perm'[e][PFTEMP] = "none"
      /\ \A f \in Envs, y \in Addrs : f # e \/ y # PFTEMP => perm'[f][y] = perm[f][y]
  BY <1>1, Addresses DEF CowInv, Control, TypeOK, Perms
<1>4. /\ WellFormed(pages', perm')
      /\ \A l \in Places : On(perm', l) =>
           Share(pages', l) = Share(pages, l) \ {t} /\ Val(pages', l) = Val(pages, l)
  <2> DEFINE D == {t}
  <2>1. D \in SUBSET Places
    BY PairOn, Addresses
  <2>2. \A l \in Places : On(perm', l) <=> l \notin D /\ On(perm, l)
    BY <1>3 DEF On, Places
  <2>3. pages' = Without(D)
    BY <1>1
  <2> HIDE DEF D
  <2>4. /\ WellFormed(pages', perm')
        /\ \A l \in Places : On(perm', l) =>
             Share(pages', l) = Share(pages, l) \ D /\ Val(pages', l) = Val(pages, l)
    BY <2>1, <2>2, <2>3, WithoutStep DEF CowInv
  <2> QED BY <2>4 DEF D
<1>5. \A g \in Envs, y \in Addrs : perm'[g][y] # "none" =>
        /\ Share(pages', <<g, y>>) = Share(pages, <<g, y>>) \ {t}
        /\ Val(pages', <<g, y>>) = Val(pages, <<g, y>>)
  BY <1>4, PairOn
<1>6. /\ \A f \in Envs : f # e => perm'[f][PFTEMP] = perm[f][PFTEMP]
      /\ \A f \in Envs : perm'[f][UXSTACK] = perm[f][UXSTACK]
      /\ \A f \in Envs, y \in Va : perm'[f][y] = perm[f][y]
  BY <1>3, Addresses
<1>7. SameContents' /\ Undisturbed
  <2>1. \A g \in Envs, y \in Va : perm[g][y] # "none" =>
           perm'[g][y] # "none" /\ Val(pages', <<g, y>>) = Val(pages, <<g, y>>)
    BY <1>5, <1>6, Addresses
  <2> QED BY <1>1, <1>6, <2>1, ValuesKept
<1>8. HandlerCopies'
  <2>1. ASSUME NEW g \in Envs, fault'[g] # Null, fault'[g].step = "map"
        PROVE  Val(pages', <<g, PFTEMP>>) = Val(pages', <<g, fault'[g].va>>)
    <3>1. g # e
      BY <1>2, <2>1
    <3>2. /\ fault'[g] = fault[g] /\ fault[g].va \in Va
          /\ perm[g][PFTEMP] = "w" /\ perm[g][fault[g].va] = "cow"
      BY <1>2, <2>1, <3>1 DEF CowInv, Control, TypeOK, Handling
    <3>3. Val(pages, <<g, PFTEMP>>) = Val(pages, <<g, fault[g].va>>)
      BY <2>1, <3>2 DEF CowInv, HandlerCopies
    <3> QED BY <1>5, <1>6, <3>1, <3>2, <3>3, Addresses
  <2> QED BY <2>1 DEF HandlerCopies
<1>9. Private'
  <2>1. ASSUME NEW g \in Envs, NEW y \in Addrs, perm'[g][y] = "w", pc'[g] # "panic",
               NEW l \in Share(pages', <<g, y>>)
        PROVE  l = <<g, y>> \/ Excused(g, y, l)'
    <3>1. perm[g][y] = "w" /\ pc[g] # "panic" /\ <<g, y>> # t
      BY <1>1, <1>3, <2>1
    <3>2. l \in Share(pages, <<g, y>>) /\ l # t
      BY <1>5, <2>1
    <3>3. l = <<g, y>> \/ Excused(g, y, l)
      BY <3>1, <3>2 DEF CowInv, Private
    <3> QED BY <1>1, <1>2, <3>1, <3>2, <3>3 DEF Excused
  <2> QED BY <2>1 DEF Private
<1>10. TypeOK'
  BY <1>1, <1>2, <1>3, <1>4 DEF CowInv, Control, TypeOK, WellFormed
<1>11. Idle' /\ Parents' /\ NoBadFault'
  <2>1. \A f \in Envs : status[f] = "free" => \A y \in Addrs : perm'[f][y] = perm[f][y]
    BY <1>1, <1>3
  <2> QED BY <1>1, <1>2, <2>1 DEF CowInv, Control, Idle, Parents, NoBadFault
<1>12. Handling'
  <2>1. \A f \in Envs : fault[f] # Null => fault[f].va \in Va
    BY DEF CowInv, Control, TypeOK
  <2> QED BY <1>1, <1>2, <1>3, <1>6, <2>1 DEF CowInv, Control, Handling
<1>13. Duplicating' /\ Prepared'
  BY <1>1, <1>6 DEF CowInv, Control, Duplicating, Prepared
<1>14. Copying'
  BY <1>1, <1>6 DEF CowInv, Control, Copying, Copied, Parents
<1> QED BY <1>4, <1>7, <1>8, <1>9, <1>10, <1>11, <1>12, <1>13, <1>14 DEF CowInv, Control

\* The parent has no fault in duppage, and its page is seen by nobody else if
\* it may write to it.
LEMMA ParentAlone ==
  ASSUME CowInv, NEW e \in Envs, status[e] = "runnable", fault[e] = Null,
         NEW g \in Envs, NEW y \in Addrs, perm[g][y] = "w", pc[g] # "panic",
         NEW x, <<e, x>> \in Share(pages, <<g, y>>)
  PROVE  g = e /\ y = x
<1>1. <<e, x>> = <<g, y>> \/ Excused(g, y, <<e, x>>)
  BY DEF CowInv, Private
<1>2. pc[g] = "dup_self" => child[g] # e
  BY DEF CowInv, Control, Parents, Forking
<1>3. ~ Excused(g, y, <<e, x>>)
  BY <1>2 DEF Excused
<1> QED BY <1>1, <1>3

\* What duppage does to the pages when it maps one into the child.
LEMMA DupPages ==
  ASSUME CowInv, NEW e \in Envs, status[e] = "runnable", fault[e] = Null,
         pc[e] \in {"dup_child", "dup_ro"}, NEW p \in {"cow", "ro"}, map_child(e, p),
         UNCHANGED <<status, fault, child>>,
         \A f \in Envs : f # e => pc'[f] = pc[f] /\ addr'[f] = addr[f],
         perm[e][addr[e]] = "w" => pc'[e] = "dup_self" /\ addr'[e] = addr[e]
  PROVE  /\ WellFormed(pages, perm)' /\ Private' /\ HandlerCopies' /\ SameContents' /\ Undisturbed
         /\ perm' \in [Envs -> [Addrs -> Perms]] /\ perm'[child[e]][addr[e]] = p
         /\ \A f \in Envs, y \in Addrs : f # child[e] \/ y # addr[e] => perm'[f][y] = perm[f][y]
<1> DEFINE a == addr[e]
           c == child[e]
           s == <<e, a>>
           k == <<c, a>>
<1>1. /\ a \in Va /\ a \in Addrs /\ perm[e][a] # "none" /\ pc[e] \in Forking
      /\ c \in Envs /\ status[c] = "not_runnable" /\ pc[c] = "child" /\ fault[c] = Null /\ c # e
      /\ \A f \in Envs : f # e /\ pc[f] \in Forking => child[f] # c
  BY Addresses DEF CowInv, Control, Duplicating, Parents, Idle, Forking
<1>2. sys_page_map(e, a, c, a, p)
  BY DEF map_child
<1> HIDE DEF a, c
<1>3. /\ WellFormed(pages', perm') /\ perm' = [perm EXCEPT ![c][a] = p]
      /\ Val(pages', k) = Val(pages, s)
      /\ \A l \in Places : l # k /\ On(perm, l) =>
           /\ Val(pages', l) = Val(pages, l)
           /\ Share(pages', l) = IF s \in Share(pages, l)
                                 THEN Share(pages, l) \cup {k} ELSE Share(pages, l) \ {k}
  <2>1. p \in Perms \ {"none"} /\ Mapped(e, a) /\ perm \in [Envs -> [Addrs -> Perms]]
    BY <1>1 DEF Perms, Mapped, CowInv, Control, TypeOK
  <2> QED BY <1>1, <1>2, <2>1, MapStep DEF CowInv
<1>4. /\ perm' \in [Envs -> [Addrs -> Perms]] /\ perm'[c][a] = p
      /\ \A f \in Envs, y \in Addrs : f # c \/ y # a => perm'[f][y] = perm[f][y]
  BY <1>1, <1>3 DEF CowInv, Control, TypeOK, Perms
<1>5. \A g \in Envs, y \in Addrs : perm[g][y] # "none" /\ <<g, y>> # k =>
        /\ Val(pages', <<g, y>>) = Val(pages, <<g, y>>)
        /\ Share(pages', <<g, y>>) = IF s \in Share(pages, <<g, y>>)
             THEN Share(pages, <<g, y>>) \cup {k} ELSE Share(pages, <<g, y>>) \ {k}
  BY <1>3, PairOn
<1>6. Private'
  <2>1. ASSUME NEW g \in Envs, NEW y \in Addrs, perm'[g][y] = "w", pc'[g] # "panic",
               NEW l \in Share(pages', <<g, y>>)
        PROVE  l = <<g, y>> \/ Excused(g, y, l)'
    <3>1. perm[g][y] = "w" /\ pc[g] # "panic" /\ <<g, y>> # k
      BY <1>4, <2>1
    <3>2. CASE l \in Share(pages, <<g, y>>)
      <4>1. l = <<g, y>> \/ Excused(g, y, l)
        BY <3>1, <3>2 DEF CowInv, Private
      <4> QED BY <4>1 DEF Excused
    <3>3. CASE l \notin Share(pages, <<g, y>>)
      <4>1. s \in Share(pages, <<g, y>>) /\ l = k
        BY <1>5, <2>1, <3>1, <3>3
      <4>2. g = e /\ y = a
        BY <3>1, <4>1, ParentAlone
      <4>3. pc'[e] = "dup_self" /\ addr'[e] = a
        BY <3>1, <4>2 DEF a
      <4> QED BY <4>1, <4>2, <4>3 DEF Excused, c
    <3> QED BY <3>2, <3>3
  <2> QED BY <2>1 DEF Private
<1>7. HandlerCopies'
  <2>1. ASSUME NEW g \in Envs, fault'[g] # Null, fault'[g].step = "map"
        PROVE  Val(pages', <<g, PFTEMP>>) = Val(pages', <<g, fault'[g].va>>)
    <3>1. g # c /\ fault'[g] = fault[g]
      BY <1>1, <2>1
    <3>2. fault[g].va \in Va /\ perm[g][PFTEMP] = "w" /\ perm[g][fault[g].va] = "cow"
      BY <2>1, <3>1 DEF CowInv, Control, TypeOK, Handling
    <3>3. Val(pages, <<g, PFTEMP>>) = Val(pages, <<g, fault[g].va>>)
      BY <2>1, <3>1 DEF CowInv, HandlerCopies
    <3> QED BY <1>5, <3>1, <3>2, <3>3, Addresses
  <2> QED BY <2>1 DEF HandlerCopies
<1>8. SameContents'
  <2>1. ASSUME NEW g \in Envs, pc'[g] \in Forking, NEW y \in Va \ {Stack},
               perm'[child'[g]][y] # "none"
        PROVE  Val(pages', <<child'[g], y>>) = Val(pages', <<g, y>>)
    <3>1. pc[g] \in Forking /\ child'[g] = child[g] /\ child[g] \in Envs /\ g # c /\ y \in Addrs
      <4>1. pc[g] \in Forking
        BY <1>1, <2>1
      <4> QED BY <1>1, <4>1, <2>1, Addresses DEF CowInv, Control, Parents, Forking
    <3>2. CASE g = e /\ y = a
      <4>1. Val(pages', s) = Val(pages, s)
        BY <1>1, <1>5
      <4> QED BY <1>3, <3>1, <3>2, <4>1 DEF c
    <3>3. CASE ~ (g = e /\ y = a)
      <4>1. <<child[g], y>> # k
        BY <1>1, <3>1, <3>3
      <4>2. perm[child[g]][y] # "none"
        BY <1>4, <2>1, <3>1, <4>1
      <4>3. perm[g][y] # "none" /\ Val(pages, <<child[g], y>>) = Val(pages, <<g, y>>)
        BY <2>1, <3>1, <4>2 DEF CowInv, Control, Copying, SameContents
      <4> QED BY <1>5, <3>1, <4>1, <4>2, <4>3
    <3> QED BY <3>2, <3>3
  <2> QED BY <2>1 DEF SameContents
<1>9. Undisturbed
  <2>1. \A f \in Envs, y \in Va : status[f] = "runnable" => f # c /\ y \in Addrs
    BY <1>1, Addresses
  <2> QED BY <1>4, <1>5, <2>1 DEF Undisturbed
<1> QED BY <1>3, <1>4, <1>6, <1>7, <1>8, <1>9 DEF a, c

\* The tables and the control of fork when the page at addr is in the child.
LEMMA DupControl ==
  ASSUME CowInv, NEW e \in Envs, status[e] = "runnable", fault[e] = Null,
         pc[e] \in {"dup_child", "dup_ro"}, NEW p \in {"cow", "ro"},
         perm[e][addr[e]] = "ro" \/ p = "cow",
         UNCHANGED <<status, upcall, handler, fault, child>>,
         WellFormed(pages, perm)',
         perm' \in [Envs -> [Addrs -> Perms]], perm'[child[e]][addr[e]] = p,
         \A f \in Envs, y \in Addrs : f # child[e] \/ y # addr[e] => perm'[f][y] = perm[f][y],
         addr' \in [Envs -> 0 .. NVA], pc' \in [Envs -> Pc],
         \A f \in Envs : f # e => addr'[f] = addr[f] /\ pc'[f] = pc[f],
         \/ pc'[e] = "dup_self" /\ addr'[e] = addr[e] /\ pc[e] = "dup_child" /\ p = "cow"
         \/ pc'[e] \in {"loop", "xstack"},
         \A x \in Va \ ReadOnly : Copied(e, x)' => perm'[child[e]][x] = "cow"
  PROVE  Control'
<1> DEFINE a == addr[e]
           c == child[e]
<1>1. /\ a \in Va /\ a \in Addrs /\ perm[e][a] # "none" /\ pc[e] \in Forking
      /\ c \in Envs /\ status[c] = "not_runnable" /\ pc[c] = "child" /\ c # e
      /\ \A f \in Envs : f # e /\ pc[f] \in Forking => child[f] # c
      /\ upcall[e] /\ perm[e][UXSTACK] = "w" /\ pc'[e] \in Forking
      /\ pc[e] = "dup_child" => perm[e][a] \in {"w", "cow"}
  BY Addresses DEF CowInv, Control, Duplicating, Parents, Idle, Prepared, Forking
<1> HIDE DEF a, c
<1>2. /\ perm'[c][a] = p
      /\ \A f \in Envs, y \in Addrs : f # c \/ y # a => perm'[f][y] = perm[f][y]
  BY DEF a, c
<1>3. /\ \A f \in Envs, y \in Addrs : f # c => perm'[f][y] = perm[f][y]
      /\ \A f \in Envs, y \in Va : f # c => perm'[f][y] = perm[f][y]
      /\ \A f \in Envs : perm'[f][PFTEMP] = perm[f][PFTEMP] /\ perm'[f][UXSTACK] = perm[f][UXSTACK]
  BY <1>1, <1>2, Addresses
<1>4. TypeOK'
  BY DEF CowInv, Control, TypeOK, WellFormed
<1>5. Idle'
  <2>1. /\ \A f \in Envs : status[f] = "free" =>
             f # c /\ pc[f] = "run" /\ \A x \in Addrs : perm[f][x] = "none"
        /\ \A f \in Envs : status[f] = "not_runnable" => pc[f] = "child"
        /\ \A f \in Envs : status[f] # "runnable" => fault[f] = Null
    BY <1>1 DEF CowInv, Control, Idle
  <2>2. \A f \in Envs : pc[f] \in {"run", "child"} => pc'[f] = pc[f]
    BY <1>1 DEF Forking
  <2>3. ASSUME NEW f \in Envs, status'[f] = "free"
        PROVE  pc'[f] = "run" /\ \A x \in Addrs : perm'[f][x] = "none"
    <3>1. status[f] = "free"
      BY <2>3
    <3>2. f # c /\ pc'[f] = "run" /\ \A x \in Addrs : perm[f][x] = "none"
      BY <2>1, <2>2, <3>1
    <3> QED BY <1>3, <3>2
  <2> QED BY <2>1, <2>2, <2>3 DEF Idle
<1>6. Parents' /\ NoBadFault'
  <2>1. \A f \in Envs : pc'[f] \in Forking => pc[f] \in Forking
    BY <1>1
  <2>2. \A f \in Envs : pc'[f] # "bad_fault"
    BY <1>1 DEF CowInv, Control, NoBadFault, Forking
  <2>3. Parents'
    <3>1. ASSUME NEW f \in Envs, pc'[f] \in Forking
          PROVE  child'[f] = child[f] /\ child[f] \in Envs /\ status'[child[f]] = "not_runnable"
      BY <2>1, <3>1 DEF CowInv, Control, Parents
    <3>2. ASSUME NEW f \in Envs, NEW g \in Envs, pc'[f] \in Forking, pc'[g] \in Forking,
                 child'[f] = child'[g]
          PROVE  f = g
      <4>1. pc[f] \in Forking /\ pc[g] \in Forking /\ child[f] = child[g]
        BY <2>1, <3>2
      <4> QED BY <4>1 DEF CowInv, Control, Parents
    <3> QED BY <3>1, <3>2 DEF Parents
  <2> QED BY <2>2, <2>3 DEF NoBadFault
<1>7. Handling'
  <2>1. \A f \in Envs : fault[f] # Null => fault[f].va \in Va /\ f # c
    BY <1>1 DEF CowInv, Control, TypeOK, Idle
  <2> QED BY <1>3, <2>1 DEF CowInv, Control, Handling
<1>8. Duplicating'
  <2>1. \A f \in Envs : f # e /\ f # c => pc'[f] = pc[f] /\ addr'[f] = addr[f] /\
          \A y \in Va : perm'[f][y] = perm[f][y]
    BY <1>3
  <2>2. pc'[e] = "dup_self" => addr'[e] = a /\ perm'[e][a] \in {"w", "cow"}
    BY <1>1, <1>3 DEF a
  <2>3. pc'[c] = "child"
    BY <1>1
  <2>4. ASSUME NEW f \in Envs
        PROVE  /\ pc'[f] \in {"dup_child", "dup_self"} =>
                    addr'[f] \in Va /\ perm'[f][addr'[f]] \in {"w", "cow"}
               /\ pc'[f] = "dup_ro" => addr'[f] \in Va /\ perm'[f][addr'[f]] = "ro"
    <3>1. CASE f = e
      BY <1>1, <2>2, <3>1
    <3>2. CASE f = c
      BY <2>3, <3>2
    <3>3. CASE f # e /\ f # c
      BY <2>1, <3>3 DEF CowInv, Control, Duplicating
    <3> QED BY <3>1, <3>2, <3>3
  <2> QED BY <2>4 DEF Duplicating
<1>9. Prepared'
  BY <1>1, <1>3 DEF CowInv, Control, Prepared
<1>10. Copying'
  <2>1. ASSUME NEW f \in Envs, f # e, pc'[f] \in Forking
        PROVE  /\ pc'[f] = pc[f] /\ addr'[f] = addr[f] /\ f # c /\ child[f] # c /\ child[f] \in Envs
               /\ \A y \in Va : perm'[child[f]][y] = perm[child[f]][y] /\ perm'[f][y] = perm[f][y]
    <3>1. pc'[f] = pc[f] /\ addr'[f] = addr[f] /\ child[f] \in Envs
      BY <2>1 DEF CowInv, Control, Parents
    <3>2. f # c /\ child[f] # c
      BY <1>1, <2>1, <3>1 DEF Forking
    <3> QED BY <1>3, <3>1, <3>2
  <2>2. \A y \in Va : perm'[c][y] # "none" => perm'[e][y] # "none"
    <3>1. \A y \in Va : perm[c][y] # "none" => perm[e][y] # "none"
      BY <1>1 DEF CowInv, Control, Copying, c
    <3> QED BY <1>1, <1>2, <1>3, <3>1, Addresses
  <2>3. pc'[e] \notin {"child_upcall", "set_status"}
    OBVIOUS
  <2>4. ASSUME NEW f \in Envs, pc'[f] \in Forking
        PROVE  /\ \A x \in Va \ ReadOnly : Copied(f, x)' => perm'[child'[f]][x] = "cow"
               /\ \A x \in Va : perm'[child'[f]][x] # "none" => perm'[f][x] # "none"
               /\ pc'[f] \in {"child_upcall", "set_status"} => perm'[child'[f]][UXSTACK] = "w"
               /\ pc'[f] = "set_status" => upcall'[child'[f]]
    <3>1. CASE f = e
      <4>1. child'[f] = c
        BY <3>1 DEF c
      <4> QED BY <2>2, <2>3, <3>1, <4>1 DEF c
    <3>2. CASE f # e
      <4>1. /\ child'[f] = child[f] /\ pc'[f] = pc[f] /\ addr'[f] = addr[f] /\ child[f] \in Envs
            /\ \A y \in Va : perm'[child[f]][y] = perm[child[f]][y] /\ perm'[f][y] = perm[f][y]
            /\ perm'[child[f]][UXSTACK] = perm[child[f]][UXSTACK]
        BY <1>3, <2>1, <2>4, <3>2
      <4>2. \A x \in Va : Copied(f, x)' => Copied(f, x)
        BY <4>1 DEF Copied
      <4>3. /\ \A x \in Va \ ReadOnly : Copied(f, x) => perm[child[f]][x] = "cow"
            /\ \A x \in Va : perm[child[f]][x] # "none" => perm[f][x] # "none"
            /\ pc[f] \in {"child_upcall", "set_status"} => perm[child[f]][UXSTACK] = "w"
            /\ pc[f] = "set_status" => upcall[child[f]]
        BY <2>4, <4>1 DEF CowInv, Control, Copying
      <4>4. \A x \in Va \ ReadOnly : Copied(f, x)' => perm'[child'[f]][x] = "cow"
        BY <4>1, <4>2, <4>3
      <4> QED BY <4>1, <4>3, <4>4
    <3> QED BY <3>1, <3>2
  <2> QED BY <2>4 DEF Copying
<1> QED BY <1>4, <1>5, <1>6, <1>7, <1>8, <1>9, <1>10 DEF Control

\* duppage, the call for the child; the parent may still write.
LEMMA DupChildCow ==
  ASSUME CowInv, NEW e \in Envs, At(e, "dup_child"), map_child(e, "cow"), Goto(e, "dup_self"),
         UNCHANGED <<addr, status, upcall, handler, fault, child>>
  PROVE  CowInv' /\ Undisturbed
<1>1. status[e] = "runnable" /\ fault[e] = Null /\ pc[e] = "dup_child" /\ pc[e] \in Forking
  BY DEF At, AtUser, Forking
<1>2. /\ pc' \in [Envs -> Pc] /\ pc'[e] = "dup_self" /\ \A f \in Envs : f # e => pc'[f] = pc[f]
      /\ addr' \in [Envs -> 0 .. NVA] /\ addr' = addr
  BY DEF Goto, CowInv, Control, TypeOK, Pc
<1>3. /\ WellFormed(pages, perm)' /\ Private' /\ HandlerCopies' /\ SameContents' /\ Undisturbed
      /\ perm' \in [Envs -> [Addrs -> Perms]] /\ perm'[child[e]][addr[e]] = "cow"
      /\ \A f \in Envs, y \in Addrs : f # child[e] \/ y # addr[e] => perm'[f][y] = perm[f][y]
  BY <1>1, <1>2, DupPages
<1>4. \A x \in Va \ ReadOnly : Copied(e, x)' => perm'[child[e]][x] = "cow"
  <2>1. addr[e] \in Va /\ child[e] \in Envs
    BY <1>1 DEF CowInv, Control, Duplicating, Parents
  <2>2. \A x \in Va \ ReadOnly : x < addr[e] => perm[child[e]][x] = "cow"
    BY <1>1 DEF CowInv, Control, Copying, Copied
  <2>3. \A x \in Va : x <= addr[e] => x < addr[e] \/ x = addr[e]
    BY <2>1, CowAssumption DEF Va
  <2>4. \A x \in Va \ ReadOnly : x <= addr[e] => perm'[child[e]][x] = "cow"
    BY <1>3, <2>1, <2>2, <2>3, Addresses
  <2> QED BY <1>2, <2>4 DEF Copied
<1>5. Control'
  BY <1>1, <1>2, <1>3, <1>4, DupControl
<1> QED BY <1>3, <1>5 DEF CowInv

\* duppage for a read-only page.
LEMMA DupRoCow ==
  ASSUME CowInv, NEW e \in Envs, At(e, "dup_ro"), map_child(e, "ro"), advance(e),
         UNCHANGED <<status, upcall, handler, fault, child>>
  PROVE  CowInv' /\ Undisturbed
<1>1. /\ status[e] = "runnable" /\ fault[e] = Null /\ pc[e] = "dup_ro" /\ pc[e] \in Forking
      /\ addr[e] \in Va /\ perm[e][addr[e]] = "ro" /\ child[e] \in Envs /\ child[e] # e
  BY DEF At, AtUser, Forking, CowInv, Control, Duplicating, Parents
<1>2. \A f \in Envs : f # e => pc'[f] = pc[f] /\ addr'[f] = addr[f]
  BY DEF advance, Goto, CowInv, Control, TypeOK
<1>3. /\ WellFormed(pages, perm)' /\ Private' /\ HandlerCopies' /\ SameContents' /\ Undisturbed
      /\ perm' \in [Envs -> [Addrs -> Perms]] /\ perm'[child[e]][addr[e]] = "ro"
      /\ \A f \in Envs, y \in Addrs : f # child[e] \/ y # addr[e] => perm'[f][y] = perm[f][y]
  BY <1>1, <1>2, DupPages
<1>4. \A x \in Va \ ReadOnly : x <= addr[e] => perm'[child[e]][x] = "cow"
  <2>1. \A x \in Va \ ReadOnly : x # addr[e]
    BY <1>1 DEF CowInv, Control, Prepared
  <2>2. \A x \in Va \ ReadOnly : x <= addr[e] => x < addr[e]
    BY <1>1, <2>1, CowAssumption DEF Va
  <2>3. \A x \in Va \ ReadOnly : x <= addr[e] => perm[child[e]][x] = "cow"
    BY <1>1, <2>2 DEF CowInv, Control, Copying, Copied
  <2> QED BY <1>1, <1>3, <2>1, <2>3, Addresses
<1>5. /\ addr' \in [Envs -> 0 .. NVA] /\ pc' \in [Envs -> Pc]
      /\ pc'[e] \in {"loop", "xstack"}
      /\ \A x \in Va \ ReadOnly :
           pc'[e] = "xstack" \/ x < addr'[e] => perm'[child[e]][x] = "cow"
  BY <1>1, <1>4, AdvanceCow
<1>6. \A x \in Va \ ReadOnly : Copied(e, x)' => perm'[child[e]][x] = "cow"
  BY <1>5 DEF Copied
<1>7. Control'
  BY <1>1, <1>2, <1>3, <1>5, <1>6, DupControl
<1> QED BY <1>3, <1>7 DEF CowInv

\* The parent's own mapping becomes copy-on-write; pages stay as they are.
LEMMA DupSelfCow ==
  ASSUME CowInv, NEW e \in Envs, At(e, "dup_self"), map_self(e), advance(e),
         UNCHANGED <<status, upcall, handler, fault, child>>
  PROVE  CowInv' /\ Undisturbed
<1> DEFINE a == addr[e]
           k == <<e, a>>
<1>1. /\ status[e] = "runnable" /\ fault[e] = Null /\ pc[e] = "dup_self" /\ pc[e] \in Forking
      /\ a \in Va /\ a \in Addrs /\ perm[e][a] \in {"w", "cow"}
      /\ child[e] \in Envs /\ child[e] # e /\ upcall[e] /\ perm[e][UXSTACK] = "w"
      /\ \A f \in Envs : pc[f] \in Forking => child[f] # e
  BY Addresses DEF At, AtUser, Forking, CowInv, Control, Duplicating, Parents, Prepared
<1>2. sys_page_map(e, a, e, a, "cow")
  BY DEF map_self
<1> HIDE DEF a
<1>3. /\ WellFormed(pages', perm') /\ perm' = [perm EXCEPT ![e][a] = "cow"]
      /\ Share(pages', k) = Share(pages, k) \cup {k} /\ Val(pages', k) = Val(pages, k)
      /\ \A l \in Places : l # k /\ On(perm, l) =>
           /\ Val(pages', l) = Val(pages, l)
           /\ Share(pages', l) = IF k \in Share(pages, l)
                                 THEN Share(pages, l) \cup {k} ELSE Share(pages, l) \ {k}
  <2>1. "cow" \in Perms \ {"none"} /\ Mapped(e, a) /\ perm \in [Envs -> [Addrs -> Perms]]
    BY <1>1 DEF Perms, Mapped, CowInv, Control, TypeOK
  <2> QED BY <1>1, <1>2, <2>1, MapStep DEF CowInv
<1>4. /\ perm' \in [Envs -> [Addrs -> Perms]] /\ perm'[e][a] = "cow"
      /\ \A f \in Envs, y \in Addrs : f # e \/ y # a => perm'[f][y] = perm[f][y]
  BY <1>1, <1>3 DEF CowInv, Control, TypeOK, Perms
<1>5. \A g \in Envs, y \in Addrs : perm[g][y] # "none" =>
        /\ Val(pages', <<g, y>>) = Val(pages, <<g, y>>)
        /\ <<g, y>> # k => Share(pages', <<g, y>>) = Share(pages, <<g, y>>)
  <2> HIDE DEF k
  <2>1. ASSUME NEW l \in Places, On(perm, l)
        PROVE  Val(pages', l) = Val(pages, l) /\ (l # k => Share(pages', l) = Share(pages, l))
    <3>1. CASE l = k
      BY <1>3, <3>1
    <3>2. CASE l # k
      <4>1. /\ Val(pages', l) = Val(pages, l)
            /\ Share(pages', l) = IF k \in Share(pages, l)
                                  THEN Share(pages, l) \cup {k} ELSE Share(pages, l) \ {k}
        BY <1>3, <2>1, <3>2
      <4> QED BY <4>1
    <3> QED BY <3>1, <3>2
  <2> QED BY <2>1, PairOn
<1>6. /\ \A f \in Envs : perm'[f][PFTEMP] = perm[f][PFTEMP] /\ perm'[f][UXSTACK] = perm[f][UXSTACK]
      /\ \A f \in Envs, y \in Va : f # e \/ y # a => perm'[f][y] = perm[f][y]
      /\ \A f \in Envs, y \in Addrs : f # e => perm'[f][y] = perm[f][y]
  BY <1>1, <1>4, Addresses
<1>7. \A x \in Va \ ReadOnly : x <= a => perm'[child[e]][x] = "cow"
  BY <1>1, <1>6 DEF CowInv, Control, Copying, Copied, a
<1>8. /\ addr' \in [Envs -> 0 .. NVA] /\ pc' \in [Envs -> Pc]
      /\ \A f \in Envs : f # e => addr'[f] = addr[f] /\ pc'[f] = pc[f]
      /\ pc'[e] \in {"loop", "xstack"} /\ pc'[e] \in Forking
      /\ \A x \in Va \ ReadOnly :
           pc'[e] = "xstack" \/ x < addr'[e] => perm'[child[e]][x] = "cow"
  BY <1>1, <1>7, AdvanceCow DEF a, Forking
<1>9. SameContents' /\ Undisturbed
  <2>1. \A g \in Envs, y \in Va : perm[g][y] # "none" =>
           perm'[g][y] # "none" /\ Val(pages', <<g, y>>) = Val(pages, <<g, y>>)
    BY <1>4, <1>5, <1>6, Addresses
  <2>2. \A g \in Envs, y \in Va : perm'[g][y] # "none" => perm[g][y] # "none"
    BY <1>1, <1>6
  <2>3. \A g \in Envs : pc'[g] \in Forking => pc[g] \in Forking /\ child'[g] = child[g]
    BY <1>1, <1>8
  <2> QED BY <2>1, <2>2, <2>3, ValuesKept
<1>10. HandlerCopies'
  <2>1. \A g \in Envs : fault[g] # Null /\ fault[g].step = "map" =>
          fault[g].va \in Va /\ perm[g][PFTEMP] = "w" /\ perm[g][fault[g].va] = "cow"
    BY DEF CowInv, Control, TypeOK, Handling
  <2> QED BY <1>5, <2>1, Addresses DEF CowInv, HandlerCopies
<1>11. Private'
  <2>1. ASSUME NEW g \in Envs, NEW y \in Addrs, perm'[g][y] = "w", pc'[g] # "panic",
               NEW l \in Share(pages', <<g, y>>)
        PROVE  l = <<g, y>> \/ Excused(g, y, l)'
    <3>1. perm[g][y] = "w" /\ pc[g] # "panic" /\ <<g, y>> # k
      BY <1>1, <1>4, <1>8, <2>1
    <3>2. l = <<g, y>> \/ Excused(g, y, l)
      BY <1>5, <2>1, <3>1 DEF CowInv, Private
    <3>3. g = e => ~ Excused(g, y, l)
      BY <1>1, <3>1 DEF Excused, a
    <3> QED BY <1>8, <3>2, <3>3 DEF Excused
  <2> QED BY <2>1 DEF Private
<1>12. TypeOK'
  BY <1>3, <1>4, <1>8 DEF CowInv, Control, TypeOK, WellFormed
<1>13. Idle'
  BY <1>1, <1>6, <1>8 DEF CowInv, Control, Idle
<1>14. Parents' /\ NoBadFault'
  <2>1. \A f \in Envs : pc'[f] \in Forking => pc[f] \in Forking
    BY <1>1, <1>8
  <2>2. \A f \in Envs : pc'[f] # "bad_fault"
    BY <1>8 DEF CowInv, Control, NoBadFault
  <2> QED BY <2>1, <2>2 DEF CowInv, Control, Parents, NoBadFault
<1>15. Handling'
  <2>1. \A f \in Envs : fault[f] # Null => fault[f].va \in Va /\ f # e
    BY <1>1 DEF CowInv, Control, TypeOK
  <2> QED BY <1>1, <1>6, <1>8, <2>1 DEF CowInv, Control, Handling
<1>16. Duplicating'
  <2>1. ASSUME NEW f \in Envs, f # e
        PROVE  pc'[f] = pc[f] /\ addr'[f] = addr[f] /\ \A y \in Va : perm'[f][y] = perm[f][y]
    BY <1>6, <1>8, <2>1
  <2>2. pc'[e] \notin {"dup_child", "dup_self", "dup_ro"}
    BY <1>8
  <2> QED BY <2>1, <2>2 DEF CowInv, Control, Duplicating
<1>17. Prepared'
  <2>1. upcall'[e] /\ perm'[e][UXSTACK] = "w"
    BY <1>1, <1>6
  <2>2. ASSUME NEW f \in Envs, status'[f] = "runnable"
        PROVE  /\ pc'[f] \in Forking \cup {"exofork"} => upcall'[f]
               /\ handler'[f] \/ pc'[f] \in Forking \cup {"install", "upcall", "exofork"}
                    => perm'[f][UXSTACK] = "w"
               /\ \A x \in Va : perm'[f][x] = "cow" => upcall'[f] /\ perm'[f][UXSTACK] = "w"
               /\ \A x \in Va \ ReadOnly : perm'[f][x] \in {"w", "cow"}
    <3>1. CASE f = e
      <4>1. \A x \in Va \ ReadOnly : perm'[e][x] \in {"w", "cow"}
        BY <1>1, <1>4, <1>6 DEF CowInv, Control, Prepared
      <4> QED BY <2>1, <3>1, <4>1
    <3>2. CASE f # e
      <4>1. /\ pc'[f] = pc[f] /\ upcall'[f] = upcall[f] /\ handler'[f] = handler[f]
            /\ perm'[f][UXSTACK] = perm[f][UXSTACK] /\ \A x \in Va : perm'[f][x] = perm[f][x]
            /\ status[f] = "runnable"
        BY <1>6, <1>8, <2>2, <3>2
      <4> QED BY <4>1 DEF CowInv, Control, Prepared
    <3> QED BY <3>1, <3>2
  <2> QED BY <2>2 DEF Prepared
<1>18. Copying'
  <2>1. ASSUME NEW f \in Envs, pc'[f] \in Forking
        PROVE  /\ \A x \in Va \ ReadOnly : Copied(f, x)' => perm'[child'[f]][x] = "cow"
               /\ \A x \in Va : perm'[child'[f]][x] # "none" => perm'[f][x] # "none"
               /\ pc'[f] \in {"child_upcall", "set_status"} => perm'[child'[f]][UXSTACK] = "w"
               /\ pc'[f] = "set_status" => upcall'[child'[f]]
    <3>1. pc[f] \in Forking /\ child'[f] = child[f] /\ child[f] \in Envs /\ child[f] # e
      BY <1>1, <1>8, <2>1 DEF CowInv, Control, Parents
    <3>2. \A x \in Va : perm'[child[f]][x] = perm[child[f]][x]
      BY <1>6, <3>1
    <3>3. \A x \in Va : perm[f][x] # "none" => perm'[f][x] # "none"
      BY <1>4, <1>6
    <3>4. \A x \in Va : perm'[child'[f]][x] # "none" => perm'[f][x] # "none"
      BY <3>1, <3>2, <3>3 DEF CowInv, Control, Copying
    <3>5. CASE f = e
      <4>1. \A x \in Va \ ReadOnly : Copied(e, x)' => perm'[child[e]][x] = "cow"
        BY <1>8 DEF Copied
      <4> QED BY <1>8, <3>1, <3>4, <3>5, <4>1 DEF Copied
    <3>6. CASE f # e
      <4>1. \A x \in Va : Copied(f, x)' => Copied(f, x)
        BY <1>8, <3>6 DEF Copied
      <4>2. /\ \A x \in Va \ ReadOnly : Copied(f, x) => perm[child[f]][x] = "cow"
            /\ pc[f] \in {"child_upcall", "set_status"} => perm[child[f]][UXSTACK] = "w"
            /\ pc[f] = "set_status" => upcall[child[f]]
        BY <3>1 DEF CowInv, Control, Copying
      <4>3. \A x \in Va \ ReadOnly : Copied(f, x)' => perm'[child'[f]][x] = "cow"
        BY <3>1, <3>2, <4>1, <4>2
      <4> QED BY <1>6, <1>8, <3>1, <3>4, <3>6, <4>2, <4>3
    <3> QED BY <3>5, <3>6
  <2> QED BY <2>1 DEF Copying
<1> QED BY <1>3, <1>9, <1>10, <1>11, <1>12, <1>13, <1>14, <1>15, <1>16, <1>17, <1>18
        DEF CowInv, Control

\* Who exits has no child in the making and is no child in the making.
LEMMA ExitCow ==
  ASSUME CowInv, NEW e \in Envs, exit(e) PROVE CowInv' /\ Undisturbed
<1> DEFINE D == {e} \X Addrs
<1>1. /\ status[e] = "runnable" /\ fault[e] = Null /\ pc[e] = "run" /\ pc[e] \notin Forking
      /\ UNCHANGED <<pc, fault, addr, child>> /\ pages' = Without(D)
  BY DEF exit, At, AtUser, Forking
<1>2. /\ status' \in [Envs -> {"free", "not_runnable", "runnable"}]
      /\ upcall' \in [Envs -> BOOLEAN] /\ handler' \in [Envs -> BOOLEAN]
      /\ perm' \in [Envs -> [Addrs -> Perms]]
      /\ status'[e] = "free" /\ \A y \in Addrs : perm'[e][y] = "none"
      /\ \A f \in Envs : f # e => /\ status'[f] = status[f] /\ upcall'[f] = upcall[f]
                                  /\ handler'[f] = handler[f] /\ perm'[f] = perm[f]
  BY DEF exit, Unmapped, Perms, CowInv, Control, TypeOK
<1>3. /\ WellFormed(pages', perm')
      /\ \A l \in Places : On(perm', l) =>
           Share(pages', l) = Share(pages, l) \ D /\ Val(pages', l) = Val(pages, l)
  <2>1. D \in SUBSET Places
    BY DEF Places
  <2>2. \A l \in Places : On(perm', l) <=> l \notin D /\ On(perm, l)
    BY <1>2 DEF On, Places
  <2> HIDE DEF D
  <2> QED BY <1>1, <2>1, <2>2, WithoutStep DEF CowInv
<1>4. \A g \in Envs, y \in Addrs : g # e /\ perm[g][y] # "none" =>
        /\ Share(pages', <<g, y>>) \subseteq Share(pages, <<g, y>>)
        /\ Val(pages', <<g, y>>) = Val(pages, <<g, y>>)
  <2>1. ASSUME NEW g \in Envs, NEW y \in Addrs, g # e, perm[g][y] # "none"
        PROVE  On(perm', <<g, y>>) /\ <<g, y>> \in Places
    BY <1>2, <2>1, PairOn
  <2> QED BY <1>3, <2>1
<1>5. \A f \in Envs : pc[f] \in Forking => f # e /\ child[f] \in Envs /\ child[f] # e
  BY <1>1 DEF CowInv, Control, Parents
<1>6. TypeOK'
  BY <1>1, <1>2, <1>3 DEF CowInv, Control, TypeOK, WellFormed
<1>7. Idle' /\ Parents' /\ NoBadFault'
  BY <1>1, <1>2, <1>5 DEF CowInv, Control, Idle, Parents, NoBadFault
<1>8. Handling' /\ Duplicating' /\ Prepared'
  <2>1. Handling'
    BY <1>1, <1>2, Addresses DEF CowInv, Control, Handling
  <2>2. Duplicating'
    BY <1>1, <1>2 DEF CowInv, Control, Duplicating
  <2>3. Prepared'
    BY <1>1, <1>2 DEF CowInv, Control, Prepared
  <2> QED BY <2>1, <2>2, <2>3
<1>9. Copying'
  BY <1>1, <1>2, <1>5 DEF CowInv, Control, Copying, Copied
<1>10. Private'
  <2>1. ASSUME NEW g \in Envs, NEW y \in Addrs, perm'[g][y] = "w", pc'[g] # "panic",
               NEW l \in Share(pages', <<g, y>>)
        PROVE  l = <<g, y>> \/ Excused(g, y, l)'
    <3>1. g # e /\ perm[g][y] = "w" /\ pc[g] # "panic" /\ l \in Share(pages, <<g, y>>)
      BY <1>1, <1>2, <1>4, <2>1
    <3>2. l = <<g, y>> \/ Excused(g, y, l)
      BY <3>1 DEF CowInv, Private
    <3> QED BY <1>1, <3>2 DEF Excused
  <2> QED BY <2>1 DEF Private
<1>11. HandlerCopies'
  <2>1. \A g \in Envs : fault[g] # Null /\ fault[g].step = "map" =>
          /\ fault[g].va \in Va /\ perm[g][PFTEMP] = "w" /\ perm[g][fault[g].va] = "cow" /\ g # e
    BY <1>1 DEF CowInv, Control, TypeOK, Handling
  <2> QED BY <1>1, <1>4, <2>1, Addresses DEF CowInv, HandlerCopies
<1>12. SameContents'
  <2>1. ASSUME NEW g \in Envs, pc'[g] \in Forking, NEW y \in Va \ {Stack},
               perm'[child'[g]][y] # "none"
        PROVE  Val(pages', <<child'[g], y>>) = Val(pages', <<g, y>>)
    <3>1. pc[g] \in Forking /\ child'[g] = child[g] /\ child[g] \in Envs /\ g # e /\ child[g] # e
      BY <1>1, <1>5, <2>1
    <3>2. /\ perm[child[g]][y] # "none" /\ perm[g][y] # "none"
          /\ Val(pages, <<child[g], y>>) = Val(pages, <<g, y>>)
      BY <1>2, <2>1, <3>1 DEF CowInv, Control, Copying, SameContents
    <3> QED BY <1>4, <3>1, <3>2, Addresses
  <2> QED BY <2>1 DEF SameContents
<1>13. Undisturbed
  BY <1>2, <1>4, Addresses DEF Undisturbed
<1> QED BY <1>3, <1>6, <1>7, <1>8, <1>9, <1>10, <1>11, <1>12, <1>13 DEF CowInv, Control

\* A write: the writer alone sees it, but for a child whose duppage is not
\* complete, and in fork that is a write to the stack.
LEMMA WriteCow ==
  ASSUME CowInv, NEW e \in Envs, NEW x \in Va, NEW v \in Values, write(e, x, v)
  PROVE  /\ CowInv'
         /\ \A f \in Envs, y \in Va :
              status[f] = "runnable" /\ perm[f][y] # "none" /\ <<f, y>> # <<e, x>>
                => perm'[f][y] # "none" /\ Val(pages', <<f, y>>) = Val(pages, <<f, y>>)
<1> DEFINE k == <<e, x>>
<1>1. /\ status[e] = "runnable" /\ fault[e] = Null /\ perm[e][x] = "w" /\ pc[e] # "panic"
      /\ UNCHANGED <<perm, status, upcall, handler, pc, fault, addr, child>>
      /\ pages' = Store(e, x, v) /\ x \in Addrs
  BY Addresses DEF write, AtUser
<1>2. /\ WellFormed(pages', perm)
      /\ \A l \in Places : On(perm, l) =>
           /\ Share(pages', l) = Share(pages, l)
           /\ Val(pages', l) = IF l \in Share(pages, k) THEN v ELSE Val(pages, l)
  BY <1>1, StoreStep DEF CowInv, Mapped
<1>3. \A l \in Share(pages, k) : l = k \/ (pc[e] \in Forking /\ l = <<child[e], x>>)
  BY <1>1 DEF CowInv, Private, Excused, Forking
<1>4. pc[e] \in Forking => x = Stack /\ child[e] \in Envs /\ status[child[e]] = "not_runnable"
  BY DEF write, Touches, Forking, CowInv, Control, Parents
<1>5. \A g \in Envs, y \in Addrs : perm[g][y] # "none" =>
        /\ Share(pages', <<g, y>>) = Share(pages, <<g, y>>)
        /\ <<g, y>> # k /\ ~ (pc[e] \in Forking /\ <<g, y>> = <<child[e], x>>)
             => Val(pages', <<g, y>>) = Val(pages, <<g, y>>)
  BY <1>2, <1>3, PairOn
<1>6. Control'
  <2>1. TypeOK'
    BY <1>1, <1>2 DEF CowInv, Control, TypeOK, WellFormed
  <2> QED BY <1>1, <2>1 DEF CowInv, Control, Idle, Parents, Handling, Duplicating, Prepared,
                            Copying, Copied, NoBadFault
<1>7. Private'
  BY <1>1, <1>5 DEF CowInv, Private, Excused
<1>8. HandlerCopies'
  <2>1. ASSUME NEW g \in Envs, fault[g] # Null, fault[g].step = "map"
        PROVE  Val(pages', <<g, PFTEMP>>) = Val(pages', <<g, fault[g].va>>)
    <3>1. /\ fault[g].va \in Va /\ perm[g][PFTEMP] = "w" /\ perm[g][fault[g].va] = "cow" /\ g # e
          /\ Val(pages, <<g, PFTEMP>>) = Val(pages, <<g, fault[g].va>>)
      BY <1>1, <2>1 DEF CowInv, Control, TypeOK, Handling, HandlerCopies
    <3>2. pc[e] \in Forking => g # child[e]
      BY <1>4, <2>1 DEF CowInv, Control, Idle
    <3> QED BY <1>5, <3>1, <3>2, Addresses
  <2> QED BY <1>1, <2>1 DEF HandlerCopies
<1>9. SameContents'
  <2>1. ASSUME NEW g \in Envs, pc[g] \in Forking, NEW y \in Va \ {Stack}, perm[child[g]][y] # "none"
        PROVE  Val(pages', <<child[g], y>>) = Val(pages', <<g, y>>)
    <3>1. /\ child[g] \in Envs /\ status[child[g]] = "not_runnable" /\ pc[child[g]] \notin Forking
          /\ perm[g][y] # "none" /\ Val(pages, <<child[g], y>>) = Val(pages, <<g, y>>)
      BY <2>1 DEF CowInv, Control, Parents, Idle, Copying, SameContents, Forking
    <3>2. child[g] # e /\ (pc[e] \in Forking => g # child[e]) /\ (g = e => y # x)
      BY <1>1, <1>4, <2>1, <3>1 DEF CowInv, Control, Idle, Forking
    <3>3. pc[e] \in Forking => y # x
      BY <1>4, <2>1
    <3>4. y \in Addrs
      BY Addresses
    <3>5. Val(pages', <<child[g], y>>) = Val(pages, <<child[g], y>>)
      <4>1. <<child[g], y>> # k /\ ~ (pc[e] \in Forking /\ <<child[g], y>> = <<child[e], x>>)
        BY <3>2, <3>3
      <4> QED BY <1>5, <2>1, <3>1, <3>4, <4>1
    <3>6. Val(pages', <<g, y>>) = Val(pages, <<g, y>>)
      <4>1. <<g, y>> # k /\ ~ (pc[e] \in Forking /\ <<g, y>> = <<child[e], x>>)
        BY <3>2, <3>3
      <4> QED BY <1>5, <3>1, <3>4, <4>1
    <3> QED BY <3>1, <3>5, <3>6
  <2> QED BY <1>1, <2>1 DEF SameContents
<1>10. \A f \in Envs, y \in Va :
         status[f] = "runnable" /\ perm[f][y] # "none" /\ <<f, y>> # k
           => perm'[f][y] # "none" /\ Val(pages', <<f, y>>) = Val(pages, <<f, y>>)
  BY <1>1, <1>4, <1>5, Addresses
<1> QED BY <1>1, <1>2, <1>6, <1>7, <1>8, <1>9, <1>10 DEF CowInv

-----------------------------------------------------------------------------
(***************************************************************************)
(* The theorems.                                                           *)
(***************************************************************************)

\* Every step keeps the invariant, and what it changes of a running program
\* is what a write of that program changes.
LEMMA NextCow ==
  ASSUME CowInv, Next
  PROVE  CowInv' /\ (Undisturbed \/ \E e \in Envs, x \in Va, v \in Values : write(e, x, v))
<1>1. PICK e \in Envs :
        \/ fork(e) \/ pgfault(e) \/ exit(e)
        \/ \E x \in Va : page_fault(e, x) \/ \E v \in Values : write(e, x, v)
  BY DEF Next
<1>2. CASE set_pgfault_handler(e)
  <2>1. CASE /\ At(e, "run") /\ ~ handler[e]
             /\ sys_page_alloc(e, e, UXSTACK, Goto(e, "install") /\ UNCHANGED fault)
             /\ UNCHANGED <<status, upcall, handler, addr, child>>
    BY <2>1, FirstStackCow
  <2>2. CASE \/ /\ At(e, "run") /\ handler[e]
                /\ Goto(e, "install")
                /\ UNCHANGED <<pages, perm, status, upcall, handler, fault, addr, child>>
             \/ /\ At(e, "install") /\ perm[e][Globals] = "w"
                /\ handler' = [handler EXCEPT ![e] = TRUE]
                /\ Goto(e, "upcall")
                /\ UNCHANGED <<pages, perm, status, upcall, fault, addr, child>>
             \/ /\ At(e, "upcall")
                /\ sys_env_set_pgfault_upcall(e)
                /\ Goto(e, "exofork")
                /\ UNCHANGED <<pages, perm, status, handler, fault, addr, child>>
    BY <2>2, InstallCow, StillUndisturbed
  <2> QED BY <1>2, <2>1, <2>2 DEF set_pgfault_handler
<1>3. CASE fork_exofork(e)
  BY <1>3, ExoforkCow, StillUndisturbed DEF fork_exofork
<1>4. CASE fork_loop(e)
  BY <1>4, LoopCow, StillUndisturbed DEF fork_loop
<1>5. CASE duppage(e)
  <2>0. UNCHANGED <<status, upcall, handler, fault, child>>
    BY <1>5 DEF duppage
  <2>1. CASE At(e, "dup_child") /\ map_child(e, "cow") /\ Goto(e, "dup_self") /\ UNCHANGED addr
    BY <2>0, <2>1, DupChildCow
  <2>2. CASE At(e, "dup_child") /\ Goto(e, "panic") /\ UNCHANGED <<pages, perm, addr>>
    BY <2>0, <2>2, PanicCow, StillUndisturbed DEF At, AtUser, Goto, CowInv, Control, TypeOK
  <2>3. CASE At(e, "dup_self") /\ map_self(e) /\ advance(e)
    BY <2>0, <2>3, DupSelfCow
  <2>4. CASE At(e, "dup_ro") /\ map_child(e, "ro") /\ advance(e)
    BY <2>0, <2>4, DupRoCow
  <2>5. CASE At(e, "dup_ro") /\ advance(e) /\ UNCHANGED <<pages, perm>>
    BY <2>0, <2>5, SkipCow, StillUndisturbed
  <2> QED BY <1>5, <2>1, <2>2, <2>3, <2>4, <2>5 DEF duppage
<1>6. CASE fork_xstack(e)
  BY <1>6, XstackCow
<1>7. CASE fork_upcall(e)
  BY <1>7, UpcallCow, StillUndisturbed DEF fork_upcall
<1>8. CASE fork_start(e)
  BY <1>8, StartCow, StillUndisturbed DEF fork_start
<1>9. CASE fork_child(e)
  BY <1>9, ChildCow, StillUndisturbed DEF fork_child
<1>10. CASE pgfault(e)
  BY <1>10, HandlerAllocCow, HandlerCopyCow, HandlerMapCow, HandlerUnmapCow DEF pgfault
<1>11. CASE exit(e)
  BY <1>11, ExitCow
<1>12. ASSUME NEW x \in Va, page_fault(e, x) PROVE CowInv' /\ Undisturbed
  BY <1>12, FaultCow, StillUndisturbed DEF page_fault
<1>13. ASSUME NEW x \in Va, NEW v \in Values, write(e, x, v) PROVE CowInv'
  BY <1>13, WriteCow
<1> QED BY <1>1, <1>2, <1>3, <1>4, <1>5, <1>6, <1>7, <1>8, <1>9, <1>10, <1>11, <1>12, <1>13 DEF fork

\* The invariant holds in every reachable state: fork, pgfault, exit and the
\* writes of programs keep it in any interleaving and whatever call fails.
THEOREM CowInvariant == Spec => []CowInv
<1>1. Init => CowInv
  BY InitCow
<1>2. CowInv /\ [Next]_vars => CowInv'
  <2> SUFFICES ASSUME CowInv, [Next]_vars PROVE CowInv'
    OBVIOUS
  <2>1. CASE Next
    BY <2>1, NextCow
  <2>2. CASE UNCHANGED vars
    BY <2>2 DEF vars, CowInv, Control, TypeOK, Idle, Parents, Handling, Duplicating, Prepared,
                Copying, Copied, NoBadFault, WellFormed, On, Private, Excused, HandlerCopies,
                SameContents
  <2> QED BY <2>1, <2>2
<1> QED BY <1>1, <1>2, PTL DEF Spec

\* Whatever system call of fork or of the fault handler fails, and however
\* the faults on the stack fall between the steps of fork, the tables stay
\* well formed and a page that somebody may write to is mapped once, but for
\* the two moments WritableIsPrivate names.
THEOREM CowSharingSound == Spec => []SharingSound
<1>1. CowInv => SharingSound
  <2> SUFFICES ASSUME CowInv PROVE SharingSound
    OBVIOUS
  <2>1. ASSUME NEW e \in Envs, NEW x \in Addrs, perm[e][x] = "w", pc[e] # "panic",
               NEW place \in PageOf(e, x).at \ {<<e, x>>}
        PROVE  \/ /\ fault[e] # Null /\ fault[e].step = "unmap"
                  /\ {place[2], x} = {PFTEMP, fault[e].va} /\ place[1] = e
               \/ pc[e] = "dup_self" /\ addr[e] = x /\ place = <<child[e], x>>
    <3>1. place \in Share(pages, <<e, x>>) /\ place # <<e, x>>
      BY DEF PageOf, Share, Pg
    <3>2. Excused(e, x, place)
      BY <2>1, <3>1 DEF CowInv, Private
    <3> QED BY <3>2 DEF Excused
  <2> QED BY <2>1 DEF SharingSound, WritableIsPrivate, CowInv, Control
<1> QED BY <1>1, CowInvariant, PTL

\* When sys_env_set_status starts the child it has every writable page of its
\* parent, and what it has is the same but for the stack.
THEOREM CowChildIsCopy == Spec => []ChildIsCopy
<1>1. CowInv => ChildIsCopy
  <2> SUFFICES ASSUME CowInv, NEW e \in Envs, pc[e] = "set_status"
               PROVE  /\ \A x \in Va \ ReadOnly : Mapped(child[e], x)
                      /\ \A x \in Va \ {Stack} : Mapped(child[e], x) =>
                           Content(child[e], x) = Content(e, x)
    BY DEF ChildIsCopy
  <2>1. pc[e] \in Forking
    BY DEF Forking
  <2>2. \A x \in Va \ ReadOnly : perm[child[e]][x] = "cow"
    BY <2>1 DEF CowInv, Control, Copying, Copied
  <2>3. \A x \in Va \ {Stack} : perm[child[e]][x] # "none" =>
          Val(pages, <<child[e], x>>) = Val(pages, <<e, x>>)
    BY <2>1 DEF CowInv, SameContents
  <2> QED BY <2>2, <2>3 DEF Mapped, Content, PageOf, Val, Pg
<1> QED BY <1>1, CowInvariant, PTL

\* No write of a program to a page of its own ends in page_fault_handler
\* destroying it or in the panic of pgfault for a page that is not
\* copy-on-write.
THEOREM CowNoBadFault == Spec => []NoBadFault
<1>1. CowInv => NoBadFault
  BY DEF CowInv, Control
<1> QED BY <1>1, CowInvariant, PTL

\* What a running environment has in its pages changes only when it writes
\* there itself.
THEOREM CowPrivateMemory == Spec => PrivateMemory
<1>1. CowInv /\ [Next]_vars =>
        [\A e \in Envs, x \in Va :
           /\ status[e] = "runnable" /\ status'[e] = "runnable"
           /\ Mapped(e, x)
           /\ Mapped(e, x)' => Content(e, x)' # Content(e, x)
           => \E v \in Values : write(e, x, v)]_vars
  <2> SUFFICES ASSUME CowInv, Next, NEW f \in Envs, NEW y \in Va,
                      status[f] = "runnable", status'[f] = "runnable", Mapped(f, y),
                      Mapped(f, y)' => Content(f, y)' # Content(f, y)
               PROVE  \E v \in Values : write(f, y, v)
    OBVIOUS
  <2>1. /\ perm[f][y] # "none"
        /\ ~ (perm'[f][y] # "none" /\ Val(pages', <<f, y>>) = Val(pages, <<f, y>>))
    BY DEF Mapped, Content, PageOf, Val, Pg
  <2>2. ~ Undisturbed
    BY <2>1 DEF Undisturbed
  <2>3. PICK e \in Envs, x \in Va, v \in Values : write(e, x, v)
    BY <2>2, NextCow
  <2>4. e = f /\ x = y
    BY <2>1, <2>3, WriteCow
  <2> QED BY <2>3, <2>4
<1> QED BY <1>1, CowInvariant, PTL DEF Spec, PrivateMemory
=============================================================================
