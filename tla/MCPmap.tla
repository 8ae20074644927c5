------------------------------- MODULE MCPmap -------------------------------
(* Instances of JosPmap for TLC.                                           *)
EXTENDS JosPmap, FiniteSetsExt, TLC

\* Pages are only ever compared, and so are processors.
PageSymmetry == Permutations(Pages) \cup Permutations(Cpus)

\* env_free as the loops of env.c: one decrement after the other, in the
\* order of the code.
decrement(m, p) ==
  LET r == (m.ref[p] - 1) % REFMOD
  IN  [m EXCEPT !.ref[p] = r, !.free[p] = @ + IF r = 0 THEN 1 ELSE 0]

env_free_loop(m, e) ==
  LET page(va, n)  == IF n.pte[e][va] = Null THEN n
                      ELSE [decrement(n, n.pte[e][va]) EXCEPT !.pte[e][va] = Null]
      pages(d, n)  == FoldSet(page, n, {d} \X Ptx)
      table(d, n)  == IF n.pde[e][d] = Null THEN n
                      ELSE LET k == pages(d, n)
                           IN  decrement([k EXCEPT !.pde[e][d] = Null], k.pde[e][d])
      tables       == FoldSet(table, m, Pdx)
  IN  decrement([tables EXCEPT !.pgdir[e] = Null], tables.pgdir[e])

\* env_free of the model does the same to every page, whatever the counts:
\* the ones of a page that was counted too often or wrapped around too.
ASSUME EnvFreeIsLoop ==
  \A r \in 0 .. REFMOD - 1, dir \in Pages,
    pde \in [Pdx -> Pages \cup {Null}], pte \in [Va -> Pages \cup {Null}] :
    (\A va \in Va : pde[va[1]] = Null => pte[va] = Null) =>
      LET m == [Unused EXCEPT !.ref = [p \in Pages |-> r], !.free = [p \in Pages |-> 0],
                              !.pgdir[Boot] = dir, !.pde[Boot] = pde, !.pte[Boot] = pte]
      IN  env_free(m, Boot) = env_free_loop(m, Boot)
=============================================================================
