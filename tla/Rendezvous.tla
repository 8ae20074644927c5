------------------------------ MODULE Rendezvous ------------------------------
(***************************************************************************)
(* What lib/ipc.c promises a program: ipc_send and ipc_recv meet.  A       *)
(* message goes to one receive, of the environment it is for (its field    *)
(* to), whole, and its send ends in that moment.                           *)
(* A send that fails instead is the last thing its sender does (panic).    *)
(***************************************************************************)
CONSTANTS Envs, Messages, None, Dead

VARIABLES
  sending,  \* the message each environment is sending, None or Dead
  waiting,  \* whether it is in ipc_recv and has not met a send yet
  box,      \* the message it met and has not returned with yet, or None
  got       \* what its last ipc_recv returned, None if that failed or goes on

vars == <<sending, waiting, box, got>>

Init ==
  /\ sending = [e \in Envs |-> None]
  /\ waiting = [e \in Envs |-> FALSE]
  /\ box = [e \in Envs |-> None]
  /\ got = [e \in Envs |-> None]

Idle(e) == sending[e] = None /\ ~waiting[e] /\ box[e] = None

Send(s, m) ==
  /\ Idle(s)
  /\ sending' = [sending EXCEPT ![s] = m]
  /\ UNCHANGED <<waiting, box, got>>

Wait(r) ==
  /\ Idle(r)
  /\ waiting' = [waiting EXCEPT ![r] = TRUE]
  /\ got' = [got EXCEPT ![r] = None]
  /\ UNCHANGED <<sending, box>>

Fail(r) ==
  /\ Idle(r)
  /\ got' = [got EXCEPT ![r] = None]
  /\ UNCHANGED <<sending, waiting, box>>

Meet(s, r) ==
  /\ sending[s] \in Messages /\ sending[s].to = r /\ waiting[r]
  /\ sending' = [sending EXCEPT ![s] = None]
  /\ waiting' = [waiting EXCEPT ![r] = FALSE]
  /\ box' = [box EXCEPT ![r] = sending[s]]
  /\ UNCHANGED got

Return(r) ==
  /\ box[r] # None
  /\ got' = [got EXCEPT ![r] = box[r]]
  /\ box' = [box EXCEPT ![r] = None]
  /\ UNCHANGED <<sending, waiting>>

GiveUp(s) ==
  /\ sending[s] \in Messages
  /\ sending' = [sending EXCEPT ![s] = Dead]
  /\ UNCHANGED <<waiting, box, got>>

Next ==
  \E e \in Envs :
    \/ Wait(e) \/ Fail(e) \/ Return(e) \/ GiveUp(e)
    \/ \E m \in Messages : Send(e, m)
    \/ \E r \in Envs : Meet(e, r)

Spec == Init /\ [][Next]_vars
=============================================================================
