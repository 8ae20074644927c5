-------------------------------- MODULE JosIpc --------------------------------
(***************************************************************************)
(* Messages between environments: ipc_send and ipc_recv of lib/ipc.c over  *)
(* sys_ipc_try_send and sys_ipc_recv of kern/syscall.c.  A system call is  *)
(* one step (the big kernel lock); what the library does between two calls *)
(* is interleaved with all other environments.  ipc_recv reads the fields  *)
(* of thisenv one by one, after the kernel has made it runnable again.     *)
(*                                                                         *)
(* Environments start in user code and exit from it.  Of an address only   *)
(* this is kept: whether it is below UTOP (else no page is meant: none),   *)
(* aligned and mapped, and with which bits.                                *)
(***************************************************************************)
EXTENDS Integers

CONSTANTS
  Envs,   \* environments
  NoEnv,  \* the envid 0 that ipc_recv stores before its call
  NMSG,   \* bound: messages each environment sends
  Pages,  \* what programs give to ipc_send as srcva and perm
  NoValue \* stands for no message

Bits == {"U", "W"}
Srcva == {"none", "unmapped", "unaligned", "mapped"}
Dstva == {"page", "none", "unaligned"}

\* A value identifies its message and says which page comes with it.
Values == [id : Envs \X (1 .. NMSG), page : Pages]
Messages == [from : Envs, to : Envs, value : Values]

ASSUME IpcAssumption ==
  /\ NoEnv \notin Envs /\ NoEnv \notin Messages
  /\ NoValue # NoEnv /\ NoValue \notin Values /\ NoValue \notin Messages
  /\ NMSG \in Nat
  /\ Pages \subseteq [src : Srcva, pte : SUBSET Bits, perm : SUBSET Bits]

VARIABLES
  env_status,       \* runnable, not_runnable, or free (exited)
  env_ipc_recving, env_ipc_dstva, env_ipc_from, env_ipc_value, env_ipc_perm,
  page,             \* the message whose page is mapped at the receive address
  pc,               \* user, send, yield, from, perm, value, panic
  args,             \* of the current ipc_send
  got,              \* of the last ipc_recv: *from_env_store, *perm_store and
                    \* the value it returned (NoValue: none yet, or an error)
  nsent             \* messages sent so far

kernel == <<env_status, env_ipc_recving, env_ipc_dstva, env_ipc_from,
            env_ipc_value, env_ipc_perm, page>>
vars == <<kernel, pc, args, got, nsent>>

Pc == {"user", "send", "yield", "from", "perm", "value", "panic"}

NoResult == [from |-> NoEnv, perm |-> {}, value |-> NoValue]

Init ==
  /\ env_status = [e \in Envs |-> "runnable"]
  /\ env_ipc_recving = [e \in Envs |-> FALSE]
  /\ env_ipc_dstva = [e \in Envs |-> "none"]
  /\ env_ipc_from = [e \in Envs |-> NoEnv]
  /\ env_ipc_value = [e \in Envs |-> NoValue]
  /\ env_ipc_perm = [e \in Envs |-> {}]
  /\ page = [e \in Envs |-> NoValue]
  /\ pc = [e \in Envs |-> "user"]
  /\ args = [e \in Envs |-> [to |-> NoEnv, value |-> NoValue]]
  /\ got = [e \in Envs |-> NoResult]
  /\ nsent = [e \in Envs |-> 0]

\* Environment e executes instructions at place p.
At(e, p) == env_status[e] = "runnable" /\ pc[e] = p
Goto(e, p) == pc' = [pc EXCEPT ![e] = p]

\* env_free of an environment that exits; its ipc fields stay as they are.
exit(e) ==
  /\ At(e, "user")
  /\ env_status' = [env_status EXCEPT ![e] = "free"]
  /\ UNCHANGED <<env_ipc_recving, env_ipc_dstva, env_ipc_from, env_ipc_value,
                 env_ipc_perm, page, pc, args, got, nsent>>

\* A program calls ipc_send; a page always goes with its address.
ipc_send(s, to, pg) ==
  /\ At(s, "user") /\ nsent[s] < NMSG
  /\ nsent' = [nsent EXCEPT ![s] = @ + 1]
  /\ args' = [args EXCEPT ![s] = [to |-> to,
                                  value |-> [id |-> <<s, nsent[s] + 1>>, page |-> pg]]]
  /\ Goto(s, "send")
  /\ UNCHANGED <<kernel, got>>

\* The checks of a page that is to be sent: page_lookup, perm, alignment.
Invalid(pg) ==
  \/ pg.src \in {"unmapped", "unaligned"}
  \/ pg.src = "mapped" /\ ~ pg.perm \subseteq pg.pte

\* The page is mapped into the receiver, which asked for one.
Transfers(pg, r) == pg.src # "none" /\ env_ipc_dstva[r] = "page"

\* Mutant: the permissions are not handed over.
deliver_no_perm(s, r, v) ==
  /\ env_ipc_recving' = [env_ipc_recving EXCEPT ![r] = FALSE]
  /\ env_ipc_from' = [env_ipc_from EXCEPT ![r] = s]
  /\ env_ipc_value' = [env_ipc_value EXCEPT ![r] = v]
  /\ env_status' = [env_status EXCEPT ![r] = "runnable"]
  /\ page' = IF Transfers(v.page, r) THEN [page EXCEPT ![r] = v] ELSE page
  /\ UNCHANGED <<env_ipc_perm, env_ipc_dstva>>

\* The fields of the receiver; env_ipc_perm changes with a page only.
deliver(s, r, v) ==
  /\ env_ipc_recving' = [env_ipc_recving EXCEPT ![r] = FALSE]
  /\ env_ipc_from' = [env_ipc_from EXCEPT ![r] = s]
  /\ env_ipc_value' = [env_ipc_value EXCEPT ![r] = v]
  /\ env_status' = [env_status EXCEPT ![r] = "runnable"]
  /\ env_ipc_perm' = IF Transfers(v.page, r)
                     THEN [env_ipc_perm EXCEPT ![r] = v.page.perm] ELSE env_ipc_perm
  /\ page' = IF Transfers(v.page, r) THEN [page EXCEPT ![r] = v] ELSE page
  /\ UNCHANGED env_ipc_dstva

\* sys_ipc_try_send fails for good, and ipc_send panics.
try_send_panic(s, r, v) ==
  /\ \/ env_status[r] = "free"                             \* -E_BAD_ENV
     \/ env_ipc_recving[r] /\ Invalid(v.page)              \* -E_INVAL
     \/ env_ipc_recving[r] /\ Transfers(v.page, r)         \* -E_NO_MEM
  /\ Goto(s, "panic")
  /\ UNCHANGED kernel

\* Mutant: any error ends the loop of ipc_send.
try_send_once(s, r, v) ==
  \/ env_status[r] # "free" /\ ~env_ipc_recving[r] /\ Goto(s, "user") /\ UNCHANGED kernel
  \/ env_ipc_recving[r] /\ ~Invalid(v.page) /\ Goto(s, "user") /\ deliver(s, r, v)
  \/ try_send_panic(s, r, v)

\* Mutant: only a runnable environment can be sent to.
try_send_runnable(s, r, v) ==
  \/ env_status[r] # "free" /\ Goto(s, "yield") /\ UNCHANGED kernel
  \/ try_send_panic(s, r, v)

\* The outcomes of one call: not receiving, success, another error.
try_send(s, r, v) ==
  \/ env_status[r] # "free" /\ ~env_ipc_recving[r] /\ Goto(s, "yield") /\ UNCHANGED kernel
  \/ env_ipc_recving[r] /\ ~Invalid(v.page) /\ Goto(s, "user") /\ deliver(s, r, v)
  \/ try_send_panic(s, r, v)

\* One round of the loop of ipc_send.
sys_ipc_try_send(s) ==
  /\ At(s, "send")
  /\ try_send(s, args[s].to, args[s].value)
  /\ UNCHANGED <<args, got, nsent>>

sys_yield(s) ==
  /\ At(s, "yield")
  /\ Goto(s, "send")
  /\ UNCHANGED <<kernel, args, got, nsent>>

sys_ipc_recv(r, dstva) ==
  /\ env_ipc_recving' = [env_ipc_recving EXCEPT ![r] = TRUE]
  /\ env_status' = [env_status EXCEPT ![r] = "not_runnable"]
  /\ env_ipc_dstva' = [env_ipc_dstva EXCEPT ![r] = dstva]
  /\ UNCHANGED <<env_ipc_from, env_ipc_value, env_ipc_perm, page>>

\* The beginning of ipc_recv, until its system call blocks or fails.
ipc_recv(r, dstva) ==
  /\ At(r, "user")
  /\ got' = [got EXCEPT ![r] = NoResult]
  /\ \/ dstva = "unaligned" /\ UNCHANGED <<kernel, pc>>
     \/ dstva # "unaligned" /\ sys_ipc_recv(r, dstva) /\ Goto(r, "from")
  /\ UNCHANGED <<args, nsent>>

\* The rest of ipc_recv: three reads of thisenv.
ipc_recv_from(r) ==
  /\ At(r, "from")
  /\ got' = [got EXCEPT ![r].from = env_ipc_from[r]]
  /\ Goto(r, "perm")
  /\ UNCHANGED <<kernel, args, nsent>>

ipc_recv_perm(r) ==
  /\ At(r, "perm")
  /\ got' = [got EXCEPT ![r].perm = env_ipc_perm[r]]
  /\ Goto(r, "value")
  /\ UNCHANGED <<kernel, args, nsent>>

ipc_recv_value(r) ==
  /\ At(r, "value")
  /\ got' = [got EXCEPT ![r].value = env_ipc_value[r]]
  /\ Goto(r, "user")
  /\ UNCHANGED <<kernel, args, nsent>>

\* What an environment does without a decision of its program.
Library(e) ==
  \/ sys_ipc_try_send(e) \/ sys_yield(e)
  \/ ipc_recv_from(e) \/ ipc_recv_perm(e) \/ ipc_recv_value(e)

Next ==
  \E e \in Envs :
    \/ Library(e) \/ exit(e)
    \/ \E dstva \in Dstva : ipc_recv(e, dstva)
    \/ \E to \in Envs \ {e}, pg \in Pages : ipc_send(e, to, pg)

Spec == Init /\ [][Next]_vars

\* The clock gives every runnable environment a CPU again and again.
FairSpec == Spec /\ \A e \in Envs : WF_vars(Library(e))

-----------------------------------------------------------------------------
\* Every variable has its type.
TypeOK ==
  /\ env_status \in [Envs -> {"runnable", "not_runnable", "free"}]
  /\ env_ipc_recving \in [Envs -> BOOLEAN]
  /\ env_ipc_dstva \in [Envs -> {"page", "none"}]
  /\ env_ipc_from \in [Envs -> Envs \cup {NoEnv}]
  /\ env_ipc_value \in [Envs -> Values \cup {NoValue}]
  /\ env_ipc_perm \in [Envs -> SUBSET Bits]
  /\ page \in [Envs -> Values \cup {NoValue}]
  /\ pc \in [Envs -> Pc]
  /\ args \in [Envs -> [to : Envs \cup {NoEnv}, value : Values \cup {NoValue}]]
  /\ got \in [Envs -> [from : Envs \cup {NoEnv}, perm : SUBSET Bits,
                       value : Values \cup {NoValue}]]
  /\ nsent \in [Envs -> 0 .. NMSG]

\* The bits a page was sent with never exceed those its sender had, and a
\* mapped page was sent by a call that asked for one: the checks of
\* sys_ipc_try_send come before anything is changed.
MappingWasGranted ==
  \A r \in Envs : page[r] # NoValue =>
    page[r].page.src = "mapped" /\ page[r].page.perm \subseteq page[r].page.pte

\* Environment r is in ipc_recv.
Receiving(r) == pc[r] \in {"from", "perm", "value"}

\* "nonzero iff a page was successfully transferred" (lib/ipc.c), read from
\* left to right: the page of a message is at the receive address when
\* ipc_recv has returned with it, with the bits it reports.
PageComesAlong ==
  \A r \in Envs :
    ~Receiving(r) /\ got[r].value # NoValue /\ got[r].value.page.src # "none"
      /\ env_ipc_dstva[r] = "page"
      => page[r] = got[r].value /\ got[r].perm = got[r].value.page.perm

\* The same from right to left: a caller that is told a perm has the page.
PermMeansPage ==
  \A r \in Envs :
    ~Receiving(r) /\ got[r].perm # {} => page[r] = got[r].value

\* The abstract state: see Rendezvous.
sending ==
  [e \in Envs |-> CASE pc[e] = "panic" -> NoEnv
                    [] pc[e] \in {"send", "yield"} -> [from |-> e, to |-> args[e].to, value |-> args[e].value]
                    [] OTHER -> NoValue]
box ==
  [e \in Envs |-> IF Receiving(e) /\ ~env_ipc_recving[e]
                  THEN [from |-> env_ipc_from[e], to |-> e, value |-> env_ipc_value[e]] ELSE NoValue]
returned ==
  [e \in Envs |-> IF got[e].value = NoValue THEN NoValue
                  ELSE [from |-> got[e].from, to |-> e, value |-> got[e].value]]

Abstract == INSTANCE Rendezvous
              WITH None <- NoValue, Dead <- NoEnv, waiting <- env_ipc_recving, got <- returned

\* The library implements the rendezvous: no message is lost, delivered
\* twice or to another environment than it is for, mixed up with another between
\* the reads of ipc_recv, or dropped by its sender.
ImplementsRendezvous == Abstract!Spec

\* A receiver is not left waiting: once somebody sends it a good message, it
\* gets one, unless a panic stops the machine in the monitor.
Panicked == \E e \in Envs : pc[e] = "panic"
MessagesArrive ==
  \A r \in Envs :
    env_ipc_recving[r] /\ (\E s \in Envs : sending[s] \in Messages /\ sending[s].to = r)
      ~> ~env_ipc_recving[r] \/ Panicked
=============================================================================
