------------------------------- MODULE Kdebug -------------------------------
(***************************************************************************)
(* kern/kdebug.c: stab_binsearch and debuginfo_eip, which find the source  *)
(* line of an address for the backtrace.  A stab has a type, an address    *)
(* and a description (its line or its name); stabs are numbered from 0.    *)
(***************************************************************************)
EXTENDS Integers, Sequences, FiniteSets, FiniteSetsExt, Functions

\* The earliest m, from true_m down to l, of the type; l - 1 if there is none.
Down1(stabs, l, m, type) ==
  Max({l - 1} \cup {k \in l .. m : stabs[k].type = type})

\* The loop of stab_binsearch; x is its local state.
RECURSIVE search(_, _, _)
search(stabs, type, x) ==
  LET true_m == (x.l + x.r) \div 2
      m == Down1(stabs, x.l, true_m, type)
  IN IF x.l > x.r THEN x
     ELSE search(stabs, type,
       CASE m < x.l -> [x EXCEPT !.l = true_m + 1]
         [] m >= x.l /\ stabs[m].value < x.addr ->
              [x EXCEPT !.any = TRUE, !.left = m, !.l = true_m + 1]
         [] m >= x.l /\ stabs[m].value > x.addr ->
              [x EXCEPT !.any = TRUE, !.right = m - 1, !.r = m - 1]
         [] m >= x.l /\ stabs[m].value = x.addr ->
              [x EXCEPT !.any = TRUE, !.left = m, !.l = m, !.addr = @ + 1])

\* Mutant: the region is not cut down to its last matching stab.
stab_binsearch_wide(stabs, left, right, type, addr) ==
  LET x == search(stabs, type, [l |-> left, r |-> right, left |-> left, right |-> right,
                                any |-> FALSE, addr |-> addr])
  IN IF ~x.any THEN [left |-> left, right |-> left - 1]
     ELSE [left |-> left, right |-> x.right]

\* The region it leaves in *region_left and *region_right.
stab_binsearch(stabs, left, right, type, addr) ==
  LET x == search(stabs, type, [l |-> left, r |-> right, left |-> left, right |-> right,
                                any |-> FALSE, addr |-> addr])
  IN IF ~x.any THEN [left |-> left, right |-> left - 1]
     ELSE [left |-> IF x.right <= x.left THEN x.right
                    ELSE Down1(stabs, x.left + 1, x.right, type),
           right |-> x.right]

\* Mutant: the address is not made relative to the function.
line_stab_abs(stabs, file, fun, addr) ==
  IF fun.left <= fun.right
  THEN stab_binsearch(stabs, fun.left, fun.right, "SLINE", addr).left
  ELSE stab_binsearch(stabs, file.left, file.right, "SLINE", addr).left

\* The stab of the line, in the function if there is one.
line_stab(stabs, file, fun, addr) ==
  IF fun.left <= fun.right
  THEN stab_binsearch(stabs, fun.left, fun.right, "SLINE", addr - stabs[fun.left].value).left
  ELSE stab_binsearch(stabs, file.left, file.right, "SLINE", addr).left

\* The source file, the function and the line.  valid: the stabs are the
\* kernel's, or user_mem_check accepts the tables of the program; and the
\* string table is not empty and ends with a 0.
debuginfo_eip(stabs, addr, valid) ==
  LET file == stab_binsearch(stabs, 0, Max(DOMAIN stabs), "SO", addr)
      fun == stab_binsearch(stabs, file.left, file.right, "FUN", addr)
  IN IF ~valid \/ file.left = 0 THEN [found |-> FALSE]
     ELSE [found |-> TRUE,
           fn |-> IF fun.left <= fun.right THEN stabs[fun.left].desc ELSE "unknown",
           line |-> stabs[line_stab(stabs, file, fun, addr)].desc]

-----------------------------------------------------------------------------
\* If some stab of the type in the region begins at or before the address,
\* the search ends with the last such stab, and with the end of the stabs
\* that belong to it: just before the next one of the type, or the region's.
\* Behind an exact match the code searches for addr + 1, so a stab right there
\* would be taken for a match too: such regions are left out.
Brackets(stabs, left, right, type, addr) ==
  LET at == {k \in left .. right : stabs[k].type = type}
      below == {k \in at : stabs[k].value <= addr}
      above == {k \in at : stabs[k].value > addr}
      r == stab_binsearch(stabs, left, right, type, addr)
      adjacent == \E j, k \in at : stabs[j].value = addr /\ stabs[k].value = addr + 1
  IN /\ (at = {} => r.left > r.right)
     /\ (below # {} /\ ~adjacent => /\ r.left = Max(below)
                                      /\ r.right = IF above = {} THEN right ELSE Min(above) - 1)

\* For the stabs the compiler writes (files, their functions, their lines
\* relative to the function) the function and the line are those of the
\* last function and line that begin at or before the address, if stabs of
\* one type are at least two bytes apart.  Tables that are not valid are not
\* searched.
FindsLine(stabs, addr, valid) ==
  LET funs == {k \in DOMAIN stabs : stabs[k].type = "FUN" /\ stabs[k].value <= addr}
      f == Max(funs)
      next == Min({Max(DOMAIN stabs) + 1} \cup {k \in DOMAIN stabs : k > f /\ stabs[k].type \in {"FUN", "SO"}})
      lines == {k \in f + 1 .. next - 1 : stabs[k].type = "SLINE" /\ stabs[f].value + stabs[k].value <= addr}
      d == debuginfo_eip(stabs, addr, valid)
  IN IF ~valid THEN ~d.found
     ELSE (funs # {} /\ lines # {}) => /\ d.found /\ d.fn = stabs[f].desc
                                       /\ d.line = stabs[Max(lines)].desc
=============================================================================
