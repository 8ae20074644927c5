------------------------------ MODULE MpConfig ------------------------------
(***************************************************************************)
(* kern/mpconfig.c and the command line of kern/monitor.c: two parsers of  *)
(* tables of a bounded size.  An entry of the MP table is a processor, one *)
(* of the other known types, or unknown; its bytes and the checksums are   *)
(* left out.                                                               *)
(***************************************************************************)
EXTENDS Integers, Sequences, FiniteSets, FiniteSetsExt, SequencesExt

CONSTANTS NCPUS,    \* NCPU
          MAXARGS

\* Mutant: the bound is checked with the processor counted.
mp_entry_bound(t, e) ==
  CASE t.stop \/ e = "other" -> t
    [] ~t.stop /\ e \in {"proc", "boot"} ->
         [t EXCEPT !.bootcpu = IF e = "boot" THEN t.ncpu ELSE @,
                   !.cpus = IF t.ncpu <= NCPUS THEN Append(@, t.ncpu) ELSE @,
                   !.ncpu = IF t.ncpu <= NCPUS THEN @ + 1 ELSE @]
    [] ~t.stop /\ e = "unknown" -> [t EXCEPT !.ismp = FALSE, !.stop = TRUE]

\* One entry: cpus holds the cpu_id of each CpuInfo that is filled in.
mp_entry(t, e) ==
  CASE t.stop \/ e = "other" -> t
    [] ~t.stop /\ e \in {"proc", "boot"} ->
         [t EXCEPT !.bootcpu = IF e = "boot" THEN t.ncpu ELSE @,
                   !.cpus = IF t.ncpu < NCPUS THEN Append(@, t.ncpu) ELSE @,
                   !.ncpu = IF t.ncpu < NCPUS THEN @ + 1 ELSE @]
    [] ~t.stop /\ e = "unknown" -> [t EXCEPT !.ismp = FALSE, !.stop = TRUE]

\* mp_init; conf is FALSE if mpconfig found no table.
mp_init(conf, entries) ==
  LET none == [ismp |-> FALSE, stop |-> FALSE, ncpu |-> 0, bootcpu |-> 0, cpus |-> <<>>]
      t == FoldLeft(mp_entry, [none EXCEPT !.ismp = TRUE], entries)
  IN IF ~conf THEN none ELSE IF t.ismp THEN t ELSE [t EXCEPT !.ncpu = 1]

(***************************************************************************)
(* runcmd of the monitor: a line of words and blanks.                      *)
(***************************************************************************)
\* Mutant: room for the terminating 0 is forgotten.
runcmd_char_full(p, c) ==
  CASE p.toomany -> p
    [] ~p.toomany /\ c = "blank" -> [p EXCEPT !.in = FALSE]
    [] ~p.toomany /\ c # "blank" /\ p.in -> [p EXCEPT !.argv[Len(p.argv)] = Append(@, c)]
    [] OTHER -> IF Len(p.argv) = MAXARGS THEN [p EXCEPT !.toomany = TRUE]
                ELSE [p EXCEPT !.in = TRUE, !.argv = Append(@, <<c>>)]

\* One character of the loop: blanks end a word, anything else begins one or
\* belongs to it.
runcmd_char(p, c) ==
  CASE p.toomany -> p
    [] ~p.toomany /\ c = "blank" -> [p EXCEPT !.in = FALSE]
    [] ~p.toomany /\ c # "blank" /\ p.in -> [p EXCEPT !.argv[Len(p.argv)] = Append(@, c)]
    [] OTHER -> IF Len(p.argv) = MAXARGS - 1 THEN [p EXCEPT !.toomany = TRUE]
                ELSE [p EXCEPT !.in = TRUE, !.argv = Append(@, <<c>>)]

runcmd(buf) == FoldLeft(runcmd_char, [toomany |-> FALSE, in |-> FALSE, argv |-> <<>>], buf)

-----------------------------------------------------------------------------
\* The processors of the table are numbered from 0 in its order, no more
\* than the arrays hold; the boot processor is the one the table says, as
\* long as it is among those; and one unknown entry means one processor.
NumbersCpus(entries) ==
  LET t == mp_init(TRUE, entries)
      unknown == \E k \in DOMAIN entries : entries[k] = "unknown"
      procs == SelectSeq(entries, LAMBDA e : e \in {"proc", "boot"})
      boots == {k \in DOMAIN procs : procs[k] = "boot"}
  IN /\ Len(t.cpus) <= NCPUS /\ \A k \in DOMAIN t.cpus : t.cpus[k] = k - 1
     /\ IF unknown THEN t.ncpu = 1 /\ ~t.ismp
        ELSE /\ t.ismp /\ t.ncpu = Min({Len(procs), NCPUS})
             /\ (boots # {} /\ Max(boots) <= NCPUS) => t.bootcpu = Max(boots) - 1

\* The command line is split into its words, all of them if argv has room
\* for them and the 0 that ends it, and none is accepted otherwise.
SplitsLine(buf) ==
  LET p == runcmd(buf)
      starts == {k \in DOMAIN buf : buf[k] # "blank" /\ (k = 1 \/ buf[k - 1] = "blank")}
  IN /\ Len(p.argv) < MAXARGS
     /\ p.toomany = (Cardinality(starts) > MAXARGS - 1)
     /\ ~p.toomany => FlattenSeq(p.argv) = SelectSeq(buf, LAMBDA c : c # "blank")
=============================================================================
