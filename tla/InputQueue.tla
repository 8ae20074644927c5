------------------------------ MODULE InputQueue ------------------------------
(***************************************************************************)
(* What the ring buffer of kern/console.c is to its users: a queue of      *)
(* input characters that holds fewer than Size.  One character too many,   *)
(* and everything that waited is lost, that character too.                 *)
(***************************************************************************)
EXTENDS Integers, Sequences

CONSTANT Size

VARIABLE queue

Init == queue = <<>>

\* A device has c.
Put(c) == queue' = IF Len(queue) = Size - 1 THEN <<>> ELSE Append(queue, c)

\* A call of cons_getc returns c, or 0 because nothing waits.
Take(c) == queue # <<>> /\ c = Head(queue) /\ queue' = Tail(queue)
Empty == queue = <<>> /\ UNCHANGED queue
=============================================================================
