----------------------------- MODULE JosIpcProof -----------------------------
(***************************************************************************)
(* The message library implements the rendezvous, for any environments,    *)
(* messages and pages.  An environment that is in ipc_recv goes through    *)
(* two phases, waiting and reading; the invariant says what its fields     *)
(* hold in each.                                                           *)
(***************************************************************************)
EXTENDS JosIpc, TLAPS

Reading(r) == Receiving(r) /\ ~env_ipc_recving[r]

\* Whoever is open to a send is blocked in front of its first read.
WaitingIsBlocked ==
  \A r \in Envs : env_ipc_recving[r] => env_status[r] = "not_runnable" /\ pc[r] = "from"

\* The fields that are read hold a message, and what has been read is of it.
ReadsOneMessage ==
  \A r \in Envs :
    /\ Receiving(r) => got[r].value = NoValue
    /\ Reading(r) => env_ipc_from[r] \in Envs /\ env_ipc_value[r] \in Values
    /\ pc[r] \in {"perm", "value"} => got[r].from = env_ipc_from[r]

\* A send in progress has a receiver and a message.
SendsMessage ==
  \A s \in Envs : pc[s] \in {"send", "yield"} =>
    args[s].to \in Envs /\ args[s].value \in Values

IpcInv == TypeOK /\ WaitingIsBlocked /\ ReadsOneMessage /\ SendsMessage

LEMMA InitIpc == Init => IpcInv
BY IpcAssumption
   DEF Init, IpcInv, TypeOK, WaitingIsBlocked, ReadsOneMessage, SendsMessage, Receiving,
       Reading, NoResult, Pc

\* One lemma for each step of the library and of a program.
LEMMA ExitInv == ASSUME IpcInv, NEW e \in Envs, exit(e) PROVE IpcInv'
BY DEF exit, At, IpcInv, TypeOK, WaitingIsBlocked, ReadsOneMessage, SendsMessage, Receiving,
       Reading

LEMMA SendInv ==
  ASSUME IpcInv, NEW e \in Envs, NEW to \in Envs, NEW pg \in Pages, ipc_send(e, to, pg)
  PROVE  IpcInv'
<1> DEFINE v == [id |-> <<e, nsent[e] + 1>>, page |-> pg]
           m == [to |-> to, value |-> v]
<1> USE DEF IpcInv
<1>1. nsent[e] + 1 \in 1 .. NMSG
  BY IpcAssumption DEF ipc_send, TypeOK
<1>2. v \in Values
  BY <1>1 DEF Values
<1>3. /\ args' = [args EXCEPT ![e] = m]
      /\ nsent' = [nsent EXCEPT ![e] = @ + 1]
      /\ pc' = [pc EXCEPT ![e] = "send"]
      /\ pc[e] = "user"
      /\ UNCHANGED <<kernel, got>>
  BY DEF ipc_send, Goto, At
<1>4. m \in [to : Envs \cup {NoEnv}, value : Values \cup {NoValue}]
  BY <1>2
<1>5. m.to = to /\ m.value = v
  OBVIOUS
<1> HIDE DEF v, m
<1>6. TypeOK'
  BY <1>1, <1>3, <1>4 DEF TypeOK, kernel, Pc
<1>7. WaitingIsBlocked' /\ ReadsOneMessage'
  BY <1>3 DEF TypeOK, WaitingIsBlocked, ReadsOneMessage, Receiving, Reading, kernel
<1>8. SendsMessage'
  BY <1>2, <1>3, <1>5 DEF TypeOK, SendsMessage
<1> QED
  BY <1>6, <1>7, <1>8

LEMMA RecvInv ==
  ASSUME IpcInv, NEW e \in Envs, NEW dstva \in Dstva, ipc_recv(e, dstva)
  PROVE  IpcInv'
<1> USE DEF IpcInv
<1>1. NoResult \in [from : Envs \cup {NoEnv}, perm : SUBSET Bits, value : Values \cup {NoValue}]
  BY DEF NoResult
<1>2. NoResult.value = NoValue
  BY DEF NoResult
<1>3. CASE dstva = "unaligned"
  BY <1>1, <1>2, <1>3
     DEF ipc_recv, At, kernel, TypeOK, WaitingIsBlocked, ReadsOneMessage, SendsMessage,
         Receiving, Reading
<1>4. CASE dstva # "unaligned"
  <2>1. /\ sys_ipc_recv(e, dstva)
        /\ pc' = [pc EXCEPT ![e] = "from"]
        /\ got' = [got EXCEPT ![e] = NoResult]
        /\ UNCHANGED <<args, nsent>>
        /\ dstva \in {"page", "none"}
    BY <1>4 DEF ipc_recv, Goto, Dstva
  <2>2. TypeOK'
    BY <1>1, <2>1 DEF sys_ipc_recv, TypeOK, Pc
  <2>3. WaitingIsBlocked' /\ ReadsOneMessage' /\ SendsMessage'
    BY <1>2, <2>1
       DEF sys_ipc_recv, TypeOK, WaitingIsBlocked, ReadsOneMessage, SendsMessage,
           Receiving, Reading
  <2> QED
    BY <2>2, <2>3
<1> QED
  BY <1>3, <1>4

LEMMA YieldInv == ASSUME IpcInv, NEW e \in Envs, sys_yield(e) PROVE IpcInv'
BY DEF sys_yield, At, Goto, kernel, IpcInv, TypeOK, WaitingIsBlocked, ReadsOneMessage,
       SendsMessage, Receiving, Reading, Pc

LEMMA ReadsInv ==
  ASSUME IpcInv, NEW e \in Envs, ipc_recv_from(e) \/ ipc_recv_perm(e) \/ ipc_recv_value(e)
  PROVE  IpcInv'
<1> USE DEF IpcInv, At, Goto, kernel, TypeOK, Pc
<1>1. CASE ipc_recv_from(e)
  BY <1>1 DEF ipc_recv_from, WaitingIsBlocked, ReadsOneMessage, SendsMessage, Receiving,
              Reading
<1>2. CASE ipc_recv_perm(e)
  BY <1>2 DEF ipc_recv_perm, WaitingIsBlocked, ReadsOneMessage, SendsMessage, Receiving,
              Reading
<1>3. CASE ipc_recv_value(e)
  BY <1>3 DEF ipc_recv_value, WaitingIsBlocked, ReadsOneMessage, SendsMessage, Receiving,
              Reading
<1> QED
  BY <1>1, <1>2, <1>3

\* A successful call: sender s has met receiver r.
LEMMA DeliverInv ==
  ASSUME IpcInv, NEW s \in Envs, NEW r \in Envs, NEW v \in Values,
         pc[s] = "send", env_ipc_recving[r], deliver(s, r, v),
         pc' = [pc EXCEPT ![s] = "user"], UNCHANGED <<args, got, nsent>>
  PROVE  IpcInv'
<1> USE DEF IpcInv
<1>1. v.page \in [src : Srcva, pte : SUBSET Bits, perm : SUBSET Bits]
  BY IpcAssumption DEF Values
<1>2. TypeOK'
  BY <1>1 DEF deliver, TypeOK, Pc
<1>3. WaitingIsBlocked' /\ ReadsOneMessage' /\ SendsMessage'
  BY DEF deliver, TypeOK, WaitingIsBlocked, ReadsOneMessage, SendsMessage, Receiving,
         Reading
<1> QED
  BY <1>2, <1>3

\* The three outcomes of a call of sys_ipc_try_send.
LEMMA TrySendCases ==
  ASSUME IpcInv, NEW s \in Envs, sys_ipc_try_send(s)
  PROVE  \E r \in Envs, v \in Values :
           /\ r = args[s].to /\ v = args[s].value
           /\ pc[s] = "send" /\ UNCHANGED <<args, got, nsent>>
           /\ \/ pc' = [pc EXCEPT ![s] = "yield"] /\ UNCHANGED kernel
              \/ pc' = [pc EXCEPT ![s] = "panic"] /\ UNCHANGED kernel
              \/ /\ env_ipc_recving[r] /\ ~Invalid(v.page)
                 /\ pc' = [pc EXCEPT ![s] = "user"] /\ deliver(s, r, v)
BY DEF sys_ipc_try_send, try_send, try_send_panic, Goto, At, IpcInv, SendsMessage

LEMMA TrySendInv == ASSUME IpcInv, NEW s \in Envs, sys_ipc_try_send(s) PROVE IpcInv'
<1>1. PICK r \in Envs, v \in Values :
           /\ r = args[s].to /\ v = args[s].value
           /\ pc[s] = "send" /\ UNCHANGED <<args, got, nsent>>
           /\ \/ pc' = [pc EXCEPT ![s] = "yield"] /\ UNCHANGED kernel
              \/ pc' = [pc EXCEPT ![s] = "panic"] /\ UNCHANGED kernel
              \/ /\ env_ipc_recving[r] /\ ~Invalid(v.page)
                 /\ pc' = [pc EXCEPT ![s] = "user"] /\ deliver(s, r, v)
  BY TrySendCases
<1>2. CASE pc' = [pc EXCEPT ![s] = "yield"] /\ UNCHANGED kernel
  BY <1>1, <1>2 DEF kernel, IpcInv, TypeOK, WaitingIsBlocked, ReadsOneMessage,
                    SendsMessage, Receiving, Reading, Pc
<1>3. CASE pc' = [pc EXCEPT ![s] = "panic"] /\ UNCHANGED kernel
  BY <1>1, <1>3 DEF kernel, IpcInv, TypeOK, WaitingIsBlocked, ReadsOneMessage,
                    SendsMessage, Receiving, Reading, Pc
<1>4. CASE env_ipc_recving[r] /\ pc' = [pc EXCEPT ![s] = "user"] /\ deliver(s, r, v)
  BY <1>1, <1>4, DeliverInv
<1> QED
  BY <1>1, <1>2, <1>3, <1>4

LEMMA NextIpc == IpcInv /\ [Next]_vars => IpcInv'
<1> SUFFICES ASSUME IpcInv, [Next]_vars PROVE IpcInv'
  OBVIOUS
<1>1. CASE UNCHANGED vars
  BY <1>1 DEF vars, kernel, IpcInv, TypeOK, WaitingIsBlocked, ReadsOneMessage, SendsMessage,
              Receiving, Reading
<1>2. CASE Next
  BY <1>2, ExitInv, SendInv, RecvInv, YieldInv, ReadsInv, TrySendInv DEF Next, Library
<1> QED
  BY <1>1, <1>2

\* Every reachable state has its types, and every send and receive is in one
\* of the phases lib/ipc.c and kern/syscall.c take it through.
THEOREM IpcTypeCorrect == Spec => []TypeOK
<1>1. Spec => []IpcInv
  BY InitIpc, NextIpc, PTL DEF Spec
<1> QED
  BY <1>1, PTL DEF IpcInv

-----------------------------------------------------------------------------
\* The refinement: each step is a step of Rendezvous, or none.
LEMMA InitRendezvous == Init => Abstract!Init
BY IpcAssumption DEF Init, Abstract!Init, sending, box, Receiving, returned, NoResult

\* sending, box and returned depend on these only.
LEMMA SameAbstract ==
  ASSUME UNCHANGED <<env_ipc_recving, env_ipc_from, env_ipc_value, pc, args, got>>
  PROVE  UNCHANGED Abstract!vars
BY DEF Abstract!vars, sending, box, Receiving, returned

LEMMA ExitStep == ASSUME NEW e \in Envs, exit(e) PROVE UNCHANGED Abstract!vars
BY SameAbstract DEF exit

\* Whoever executes its program takes part in nothing.
LEMMA IdleInUser ==
  ASSUME IpcInv, NEW e \in Envs, env_status[e] = "runnable", pc[e] = "user"
  PROVE  Abstract!Idle(e)
BY DEF Abstract!Idle, IpcInv, WaitingIsBlocked, sending, box, Receiving

LEMMA SendStep ==
  ASSUME IpcInv, NEW e \in Envs, NEW to \in Envs, NEW pg \in Pages, ipc_send(e, to, pg)
  PROVE  \E m \in Messages : Abstract!Send(e, m)
<1> DEFINE v == [id |-> <<e, nsent[e] + 1>>, page |-> pg]
           m == [from |-> e, to |-> to, value |-> v]
<1>1. nsent[e] + 1 \in 1 .. NMSG
  BY IpcAssumption DEF ipc_send, IpcInv, TypeOK
<1>2. v \in Values
  BY <1>1 DEF Values
<1>3. m \in Messages
  BY <1>2 DEF Messages
<1>4. /\ args' = [args EXCEPT ![e] = [to |-> to, value |-> v]]
      /\ pc' = [pc EXCEPT ![e] = "send"]
      /\ pc[e] = "user" /\ env_status[e] = "runnable"
      /\ UNCHANGED <<kernel, got>>
  BY DEF ipc_send, Goto, At
<1> HIDE DEF v
<1>5. Abstract!Idle(e)
  BY <1>4, IdleInUser
<1>6. sending' = [sending EXCEPT ![e] = m]
  BY <1>4 DEF sending, IpcInv, TypeOK
<1>7. UNCHANGED <<env_ipc_recving, box, returned>>
  BY <1>4 DEF box, Receiving, returned, IpcInv, TypeOK, kernel
<1> QED
  BY <1>3, <1>5, <1>6, <1>7 DEF Abstract!Send

LEMMA RecvStep ==
  ASSUME IpcInv, NEW e \in Envs, NEW dstva \in Dstva, ipc_recv(e, dstva)
  PROVE  Abstract!Wait(e) \/ Abstract!Fail(e)
<1>1. got' = [got EXCEPT ![e] = NoResult] /\ UNCHANGED args
      /\ env_status[e] = "runnable" /\ pc[e] = "user"
  BY DEF ipc_recv, At
<1>2. Abstract!Idle(e)
  BY <1>1, IdleInUser
<1>3. returned' = [returned EXCEPT ![e] = NoValue]
  BY <1>1 DEF returned, NoResult, IpcInv, TypeOK
<1>4. CASE dstva = "unaligned"
  <2>1. UNCHANGED <<env_ipc_recving, env_ipc_from, env_ipc_value, pc>>
    BY <1>4 DEF ipc_recv, kernel
  <2>2. UNCHANGED <<sending, box>>
    BY <1>1, <2>1 DEF sending, box, Receiving
  <2> QED
    BY <1>2, <1>3, <2>1, <2>2 DEF Abstract!Fail
<1>5. CASE dstva # "unaligned"
  <2>1. pc' = [pc EXCEPT ![e] = "from"] /\ sys_ipc_recv(e, dstva)
    BY <1>5 DEF ipc_recv, Goto
  <2>2. UNCHANGED sending
    BY <1>1, <2>1 DEF sending, IpcInv, TypeOK
  <2>3. UNCHANGED box
    BY <1>1, <2>1 DEF box, Receiving, sys_ipc_recv, IpcInv, TypeOK
  <2> QED
    BY <1>2, <1>3, <2>1, <2>2, <2>3 DEF sys_ipc_recv, Abstract!Wait
<1> QED
  BY <1>4, <1>5

LEMMA YieldStep == ASSUME IpcInv, NEW e \in Envs, sys_yield(e) PROVE UNCHANGED Abstract!vars
BY DEF sys_yield, At, Goto, kernel, Abstract!vars, sending, box, Receiving, returned, IpcInv, TypeOK

\* The first two reads are of a message that can no longer change ...
LEMMA ReadStep ==
  ASSUME IpcInv, NEW e \in Envs, ipc_recv_from(e) \/ ipc_recv_perm(e)
  PROVE  UNCHANGED Abstract!vars
<1>1. /\ pc[e] \in {"from", "perm"} /\ UNCHANGED <<kernel, args>>
      /\ \E p \in {"perm", "value"} : pc' = [pc EXCEPT ![e] = p]
      /\ \A r \in Envs : r # e => got'[r] = got[r]
      /\ got'[e].value = got[e].value
  <2>1. CASE ipc_recv_from(e)
    BY <2>1 DEF ipc_recv_from, Goto, At, IpcInv, TypeOK
  <2>2. CASE ipc_recv_perm(e)
    BY <2>2 DEF ipc_recv_perm, Goto, At, IpcInv, TypeOK
  <2> QED
    BY <2>1, <2>2
<1>2. got[e].value = NoValue
  BY <1>1 DEF IpcInv, ReadsOneMessage, Receiving
<1>3. UNCHANGED <<env_ipc_recving, sending, box>>
  BY <1>1 DEF sending, box, Receiving, IpcInv, TypeOK, kernel
<1>4. UNCHANGED returned
  BY <1>1, <1>2 DEF returned
<1> QED
  BY <1>3, <1>4 DEF Abstract!vars

\* ... so that the third completes it.
LEMMA ReturnStep ==
  ASSUME IpcInv, NEW e \in Envs, ipc_recv_value(e) PROVE Abstract!Return(e)
<1> DEFINE m == [from |-> env_ipc_from[e], to |-> e, value |-> env_ipc_value[e]]
<1>1. /\ pc[e] = "value" /\ env_status[e] = "runnable" /\ UNCHANGED <<kernel, args>>
      /\ pc' = [pc EXCEPT ![e] = "user"]
      /\ got' = [got EXCEPT ![e].value = env_ipc_value[e]]
  BY DEF ipc_recv_value, At, Goto
<1>2. /\ ~env_ipc_recving[e] /\ got[e].from = env_ipc_from[e]
      /\ env_ipc_from[e] \in Envs /\ env_ipc_value[e] \in Values
  BY <1>1 DEF IpcInv, WaitingIsBlocked, ReadsOneMessage, Receiving, Reading
<1>3. m \in Messages /\ m # NoValue /\ env_ipc_value[e] # NoValue
  BY <1>2, IpcAssumption DEF Messages
<1>4. box[e] = m
  BY <1>1, <1>2 DEF box, Receiving
<1>5. box' = [box EXCEPT ![e] = NoValue]
  BY <1>1 DEF box, Receiving, kernel, IpcInv, TypeOK
<1>6. returned' = [returned EXCEPT ![e] = m]
  BY <1>1, <1>2, <1>3 DEF returned, IpcInv, TypeOK
<1>7. UNCHANGED <<sending, env_ipc_recving>>
  BY <1>1 DEF sending, kernel, IpcInv, TypeOK
<1> QED
  BY <1>3, <1>4, <1>5, <1>6, <1>7 DEF Abstract!Return

LEMMA TrySendStep ==
  ASSUME IpcInv, NEW s \in Envs, sys_ipc_try_send(s)
  PROVE  \/ UNCHANGED Abstract!vars
         \/ Abstract!GiveUp(s)
         \/ \E r \in Envs : Abstract!Meet(s, r)
<1>1. PICK r \in Envs, v \in Values :
           /\ r = args[s].to /\ v = args[s].value
           /\ pc[s] = "send" /\ UNCHANGED <<args, got, nsent>>
           /\ \/ pc' = [pc EXCEPT ![s] = "yield"] /\ UNCHANGED kernel
              \/ pc' = [pc EXCEPT ![s] = "panic"] /\ UNCHANGED kernel
              \/ /\ env_ipc_recving[r] /\ ~Invalid(v.page)
                 /\ pc' = [pc EXCEPT ![s] = "user"] /\ deliver(s, r, v)
  BY TrySendCases
<1> DEFINE m == [from |-> s, to |-> r, value |-> v]
<1>2. m \in Messages
  BY DEF Messages
<1>3. sending[s] = m
  BY <1>1 DEF sending
<1>4. UNCHANGED returned
  BY <1>1 DEF returned
<1>5. CASE pc' = [pc EXCEPT ![s] = "yield"] /\ UNCHANGED kernel
  BY <1>1, <1>5 DEF kernel, Abstract!vars, sending, box, Receiving, returned, IpcInv, TypeOK
<1>6. CASE pc' = [pc EXCEPT ![s] = "panic"] /\ UNCHANGED kernel
  <2>1. sending' = [sending EXCEPT ![s] = NoEnv]
    BY <1>1, <1>6 DEF sending, IpcInv, TypeOK
  <2>2. UNCHANGED <<env_ipc_recving, box>>
    BY <1>1, <1>6 DEF box, Receiving, kernel, IpcInv, TypeOK
  <2> QED
    BY <1>2, <1>3, <1>4, <2>1, <2>2 DEF Abstract!GiveUp
<1>7. CASE env_ipc_recving[r] /\ pc' = [pc EXCEPT ![s] = "user"] /\ deliver(s, r, v)
  <2>1. pc[r] = "from" /\ r # s
    BY <1>1, <1>7 DEF IpcInv, WaitingIsBlocked
  <2>2. sending' = [sending EXCEPT ![s] = NoValue]
    BY <1>1, <1>7 DEF sending, IpcInv, TypeOK
  <2>3. box' = [box EXCEPT ![r] = m]
    BY <1>1, <1>7, <2>1 DEF box, Receiving, deliver, IpcInv, TypeOK
  <2>4. env_ipc_recving' = [env_ipc_recving EXCEPT ![r] = FALSE]
    BY <1>7 DEF deliver
  <2>5. sending[s].to = r
    BY <1>3
  <2> HIDE DEF m
  <2> QED
    BY <1>2, <1>3, <1>4, <1>7, <2>2, <2>3, <2>4, <2>5 DEF Abstract!Meet
<1> QED
  BY <1>1, <1>5, <1>6, <1>7

LEMMA StepRendezvous == IpcInv /\ [Next]_vars => [Abstract!Next]_(Abstract!vars)
<1> SUFFICES ASSUME IpcInv, [Next]_vars PROVE [Abstract!Next]_(Abstract!vars)
  OBVIOUS
<1>1. CASE UNCHANGED vars
  BY <1>1, SameAbstract DEF vars, kernel
<1>2. CASE Next
  <2>1. PICK e \in Envs : \/ Library(e) \/ exit(e)
                          \/ \E dstva \in Dstva : ipc_recv(e, dstva)
                          \/ \E to \in Envs \ {e}, pg \in Pages : ipc_send(e, to, pg)
    BY <1>2 DEF Next
  <2>2. CASE exit(e)
    BY <2>2, ExitStep
  <2>3. CASE \E dstva \in Dstva : ipc_recv(e, dstva)
    BY <2>3, RecvStep DEF Abstract!Next
  <2>4. CASE \E to \in Envs \ {e}, pg \in Pages : ipc_send(e, to, pg)
    BY <2>4, SendStep DEF Abstract!Next
  <2>5. CASE Library(e)
    BY <2>5, TrySendStep, YieldStep, ReadStep, ReturnStep DEF Library, Abstract!Next
  <2> QED
    BY <2>1, <2>2, <2>3, <2>4, <2>5
<1> QED
  BY <1>1, <1>2

\* ipc_send and ipc_recv implement the rendezvous: every message is received
\* once and whole, although the three reads of ipc_recv are not atomic.
THEOREM IpcRefinement == Spec => ImplementsRendezvous
<1>1. Spec => []IpcInv
  BY InitIpc, NextIpc, PTL DEF Spec
<1> QED
  BY <1>1, InitRendezvous, StepRendezvous, PTL DEF Spec, ImplementsRendezvous, Abstract!Spec

-----------------------------------------------------------------------------
\* While a message is read its page is in place, with the bits that are read.
PageIsThere ==
  \A r \in Envs :
    /\ Reading(r) /\ env_ipc_dstva[r] = "page" /\ env_ipc_value[r].page.src # "none"
         => page[r] = env_ipc_value[r] /\ env_ipc_perm[r] = env_ipc_value[r].page.perm
    /\ pc[r] = "value" => got[r].perm = env_ipc_perm[r]

PageInv == MappingWasGranted /\ PageIsThere /\ PageComesAlong

LEMMA InitPage == Init => PageInv
BY DEF Init, PageInv, MappingWasGranted, PageIsThere, PageComesAlong, Reading, Receiving, NoResult

LEMMA RecvPage ==
  ASSUME IpcInv, PageInv, NEW e \in Envs, NEW dstva \in Dstva, ipc_recv(e, dstva)
  PROVE  PageInv'
<1>1. NoResult.value = NoValue
  BY DEF NoResult
<1>2. /\ got' = [got EXCEPT ![e] = NoResult] /\ pc[e] = "user"
      /\ UNCHANGED <<page, env_ipc_value, env_ipc_perm>>
      /\ \/ pc' = pc /\ UNCHANGED <<env_ipc_recving, env_ipc_dstva>>
         \/ /\ pc' = [pc EXCEPT ![e] = "from"]
            /\ env_ipc_recving' = [env_ipc_recving EXCEPT ![e] = TRUE]
            /\ env_ipc_dstva' = [env_ipc_dstva EXCEPT ![e] = dstva]
  BY DEF ipc_recv, sys_ipc_recv, At, Goto, kernel
<1> QED
  BY <1>1, <1>2 DEF PageInv, MappingWasGranted, PageIsThere, PageComesAlong, Reading,
                    Receiving, IpcInv, TypeOK

LEMMA ReadsPage ==
  ASSUME IpcInv, PageInv, NEW e \in Envs,
         ipc_recv_from(e) \/ ipc_recv_perm(e) \/ ipc_recv_value(e)
  PROVE  PageInv'
<1> USE DEF At, Goto, kernel, IpcInv, TypeOK, PageInv
<1>1. MappingWasGranted'
  BY DEF ipc_recv_from, ipc_recv_perm, ipc_recv_value, MappingWasGranted
<1>2. CASE ipc_recv_from(e)
  BY <1>1, <1>2 DEF ipc_recv_from, PageIsThere, PageComesAlong, Reading, Receiving
<1>3. CASE ipc_recv_perm(e)
  BY <1>1, <1>3 DEF ipc_recv_perm, PageIsThere, PageComesAlong, Reading, Receiving
<1>4. CASE ipc_recv_value(e)
  <2>1. ~env_ipc_recving[e]
    BY <1>4 DEF ipc_recv_value, WaitingIsBlocked
  <2> QED
    BY <1>1, <1>4, <2>1 DEF ipc_recv_value, PageIsThere, PageComesAlong, Reading, Receiving
<1> QED
  BY <1>2, <1>3, <1>4

LEMMA TrySendPage ==
  ASSUME IpcInv, PageInv, NEW s \in Envs, sys_ipc_try_send(s) PROVE PageInv'
<1>1. PICK r \in Envs, v \in Values :
           /\ r = args[s].to /\ v = args[s].value
           /\ pc[s] = "send" /\ UNCHANGED <<args, got, nsent>>
           /\ \/ pc' = [pc EXCEPT ![s] = "yield"] /\ UNCHANGED kernel
              \/ pc' = [pc EXCEPT ![s] = "panic"] /\ UNCHANGED kernel
              \/ /\ env_ipc_recving[r] /\ ~Invalid(v.page)
                 /\ pc' = [pc EXCEPT ![s] = "user"] /\ deliver(s, r, v)
  BY TrySendCases
<1> USE DEF PageInv, IpcInv, TypeOK
<1>2. CASE UNCHANGED kernel /\ \E p \in {"yield", "panic"} : pc' = [pc EXCEPT ![s] = p]
  BY <1>1, <1>2 DEF kernel, MappingWasGranted, PageIsThere, PageComesAlong, Reading, Receiving
<1>3. CASE /\ env_ipc_recving[r] /\ ~Invalid(v.page)
           /\ pc' = [pc EXCEPT ![s] = "user"] /\ deliver(s, r, v)
  <2>1. v.page.src \in Srcva
    BY IpcAssumption DEF Values
  <2>2. pc[r] = "from" /\ r # s /\ s \in Envs
    BY <1>1, <1>3 DEF WaitingIsBlocked
  <2>3. MappingWasGranted'
    BY <1>3, <2>1 DEF deliver, Transfers, Invalid, Srcva, MappingWasGranted
  <2>4. PageIsThere'
    BY <1>1, <1>3, <2>2 DEF deliver, Transfers, PageIsThere, Reading, Receiving
  <2>5. PageComesAlong'
    BY <1>1, <1>3, <2>2 DEF deliver, Transfers, PageComesAlong, Receiving
  <2> QED
    BY <2>3, <2>4, <2>5
<1> QED
  BY <1>1, <1>2, <1>3

LEMMA NextPage == IpcInv /\ PageInv /\ [Next]_vars => PageInv'
<1> SUFFICES ASSUME IpcInv, PageInv, [Next]_vars PROVE PageInv'
  OBVIOUS
<1> USE DEF PageInv, MappingWasGranted, PageIsThere, PageComesAlong, Reading, Receiving
<1>1. CASE UNCHANGED vars
  BY <1>1 DEF vars, kernel
<1>2. ASSUME NEW e \in Envs, exit(e) PROVE PageInv'
  BY <1>2 DEF exit
<1>3. ASSUME NEW e \in Envs, sys_yield(e) PROVE PageInv'
  BY <1>3 DEF sys_yield, At, Goto, kernel, IpcInv, TypeOK
<1>4. ASSUME NEW e \in Envs, NEW to, NEW pg, ipc_send(e, to, pg) PROVE PageInv'
  BY <1>4 DEF ipc_send, At, Goto, kernel, IpcInv, TypeOK
<1> HIDE DEF PageInv, MappingWasGranted, PageIsThere, PageComesAlong, Reading, Receiving
<1> QED
  BY <1>1, <1>2, <1>3, <1>4, RecvPage, ReadsPage, TrySendPage DEF Next, Library

\* A page arrives only with bits its sender had, and together with the value
\* it was sent with: sys_ipc_try_send maps it before it wakes the receiver.
THEOREM PagesTravelWithValues == Spec => [](MappingWasGranted /\ PageComesAlong)
<1>1. Spec => [](IpcInv /\ PageInv)
  BY InitIpc, NextIpc, InitPage, NextPage, PTL DEF Spec
<1> QED
  BY <1>1, PTL DEF PageInv
=============================================================================
