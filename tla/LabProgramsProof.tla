--------------------------- MODULE LabProgramsProof ---------------------------
(***************************************************************************)
(* Proofs about the two programs of the labs that run on Linux.            *)
(*                                                                         *)
(* The shell's promises for any number of processes and pipes: it never    *)
(* asks for a line while something of the previous one is left to it, and  *)
(* a pipe has one reader and one writer.  For the producer and the         *)
(* customer, with every TOTAL >= 3: goods stays in its range and no        *)
(* wake-up is lost.                                                        *)
(***************************************************************************)
EXTENDS MiniShell, ProducerConsumer, TLAPS

(***************************************************************************)
(* The mini shell.                                                         *)
(***************************************************************************)

\* Only the shell's own child makes a pipe and forks, and the shell has at
\* most one child, while it waits for it.
OneChild ==
  /\ parent[Shell] = Reaper
  /\ \A p \in Procs : pc[p] \in {"pipe", "fork_writer"} => parent[p] = Shell
  /\ pc[Shell] # "wait" => \A q \in Procs : parent[q] = Shell => pc[q] = "free"
  /\ \A q, r \in Procs :
       parent[q] = Shell /\ pc[q] # "free" /\ parent[r] = Shell /\ pc[r] # "free" => q = r

\* Descriptors above 1 are open between pipe and the closes, and before the
\* dup2 descriptors 0 and 1 are the terminal.
DescriptorsOK ==
  \A p \in Procs :
    /\ pc[p] \notin {"exec", "run"} => in[p] = Tty /\ out[p] = Tty
    /\ pc[p] \notin {"fork_writer", "dup_reader", "dup_writer"} => rd[p] = {} /\ wr[p] = {}

\* p has, or is going to have, pipe k as descriptor 0, or 1.
WillRead(p, k) ==
  \/ pc[p] \in {"fork_writer", "dup_reader"} /\ k \in rd[p]
  \/ pc[p] \in {"exec", "run"} /\ in[p] = k
WillWrite(p, k) ==
  \/ pc[p] \in {"fork_writer", "dup_writer"} /\ k \in wr[p]
  \/ pc[p] \in {"exec", "run"} /\ out[p] = k

\* No pipe has two readers or two writers.
OneReader == \A k \in Pipes : \A p, q \in Procs : WillRead(p, k) /\ WillRead(q, k) => p = q
OneWriter == \A k \in Pipes : \A p, q \in Procs : WillWrite(p, k) /\ WillWrite(q, k) => p = q

\* The inductive invariant.
ShellInv == TypeOK /\ OneChild /\ DescriptorsOK /\ OneReader /\ OneWriter

-----------------------------------------------------------------------------
LEMMA InitShell == Init => ShellInv
BY ShellAssumption
   DEF Init, ShellInv, TypeOK, OneChild, DescriptorsOK, OneReader, OneWriter, WillRead,
       WillWrite, Pc

LEMMA GetsShell == ASSUME ShellInv, main_gets PROVE ShellInv'
<1>1. CASE \E l \in {"fork", "fork_pipe", "wait"} : Goto(Shell, l) /\ UNCHANGED <<parent, fds>>
  BY <1>1, ShellAssumption
     DEF main_gets, Goto, ShellInv, TypeOK, OneChild, DescriptorsOK, OneReader, OneWriter,
         WillRead, WillWrite, Pc, fds
<1>2. CASE exit(Shell)
  <2>1. TypeOK'
    BY <1>2, ShellAssumption DEF main_gets, exit, ShellInv, TypeOK, OneChild, Pc
  <2>2. OneChild'
    BY <1>2, ShellAssumption DEF main_gets, exit, ShellInv, TypeOK, OneChild, Pc
  <2>3. DescriptorsOK'
    BY <1>2, ShellAssumption DEF main_gets, exit, ShellInv, TypeOK, DescriptorsOK, Pc
  <2>4. OneReader' /\ OneWriter'
    BY <1>2, ShellAssumption
       DEF main_gets, exit, ShellInv, TypeOK, OneReader, OneWriter, WillRead, WillWrite
  <2> QED BY <2>1, <2>2, <2>3, <2>4 DEF ShellInv
<1> QED BY <1>1, <1>2 DEF main_gets

\* The end of a child of the shell, or of an orphan.
LEMMA ExitShell ==
  ASSUME ShellInv, NEW p \in Procs \ {Shell}, pc[p] \in {"exec", "run"}, exit(p)
  PROVE  ShellInv'
<1>1. TypeOK'
  BY ShellAssumption DEF exit, ShellInv, TypeOK, OneChild, Pc
<1>2. OneChild'
  BY ShellAssumption DEF exit, ShellInv, TypeOK, OneChild, Pc
<1>3. DescriptorsOK'
  BY ShellAssumption DEF exit, ShellInv, TypeOK, DescriptorsOK, Pc
<1>4. OneReader' /\ OneWriter'
  BY ShellAssumption
     DEF exit, ShellInv, TypeOK, OneReader, OneWriter, WillRead, WillWrite
<1> QED BY <1>1, <1>2, <1>3, <1>4 DEF ShellInv

\* The shell forks its only child.
LEMMA MainForkShell == ASSUME ShellInv, main_fork PROVE ShellInv'
<1>1. PICK start \in {"exec", "pipe"} :
        pc[Shell] \in {"fork", "fork_pipe"} /\ fork(Shell, "wait", start)
  BY DEF main_fork
<1>2. in[Shell] = Tty /\ out[Shell] = Tty /\ rd[Shell] = {} /\ wr[Shell] = {}
  BY <1>1, ShellAssumption DEF ShellInv, DescriptorsOK
<1>3. CASE Goto(Shell, "wait") /\ UNCHANGED <<parent, fds>>
  BY <1>1, <1>3, ShellAssumption
     DEF Goto, ShellInv, TypeOK, OneChild, DescriptorsOK, OneReader, OneWriter, WillRead,
         WillWrite, Pc, fds
<1>4. ASSUME NEW c \in Procs,
             pc[c] = "free",
             pc' = [pc EXCEPT ![Shell] = "wait", ![c] = start],
             parent' = [parent EXCEPT ![c] = Shell],
             in' = [in EXCEPT ![c] = in[Shell]], out' = [out EXCEPT ![c] = out[Shell]],
             rd' = [rd EXCEPT ![c] = rd[Shell]], wr' = [wr EXCEPT ![c] = wr[Shell]]
      PROVE  ShellInv'
  <2>1. TypeOK'
    BY <1>1, <1>4, ShellAssumption DEF ShellInv, TypeOK, Pc
  <2>2. OneChild'
    BY <1>1, <1>4, ShellAssumption DEF ShellInv, TypeOK, OneChild
  <2>3. DescriptorsOK'
    BY <1>1, <1>2, <1>4, ShellAssumption DEF ShellInv, TypeOK, DescriptorsOK
  <2>4. OneReader' /\ OneWriter'
    BY <1>1, <1>2, <1>4, ShellAssumption
       DEF ShellInv, TypeOK, OneReader, OneWriter, WillRead, WillWrite
  <2> QED BY <2>1, <2>2, <2>3, <2>4 DEF ShellInv
<1> QED BY <1>1, <1>3, <1>4 DEF fork

LEMMA MainWaitShell == ASSUME ShellInv, main_wait PROVE ShellInv'
<1>1. CASE \E q \in Children(Shell) :
             pc[q] = "zombie" /\ pc' = [pc EXCEPT ![Shell] = "gets", ![q] = "free"]
  <2>1. PICK q \in Children(Shell) :
          pc[q] = "zombie" /\ pc' = [pc EXCEPT ![Shell] = "gets", ![q] = "free"]
    BY <1>1
  <2>2. /\ q \in Procs /\ q # Shell /\ parent[q] = Shell /\ pc[Shell] = "wait"
        /\ UNCHANGED <<parent, in, out, rd, wr>>
    BY <2>1, ShellAssumption DEF main_wait, Children, ShellInv, OneChild, fds
  <2>3. TypeOK'
    BY <2>1, <2>2, ShellAssumption DEF ShellInv, TypeOK, Pc
  <2>4. OneChild' /\ DescriptorsOK'
    BY <2>1, <2>2, ShellAssumption DEF ShellInv, TypeOK, OneChild, DescriptorsOK
  <2>5. OneReader' /\ OneWriter'
    BY <2>1, <2>2, ShellAssumption
       DEF ShellInv, TypeOK, OneReader, OneWriter, WillRead, WillWrite
  <2> QED BY <2>3, <2>4, <2>5 DEF ShellInv
<1>2. CASE Children(Shell) = {} /\ Goto(Shell, "gets")
  BY <1>2, ShellAssumption
     DEF main_wait, Children, Goto, ShellInv, TypeOK, OneChild, DescriptorsOK, OneReader,
         OneWriter, WillRead, WillWrite, Pc, fds
<1> QED BY <1>1, <1>2 DEF main_wait

\* A new pipe is open nowhere, so nobody has it or is going to have it.
LEMMA PipeShell ==
  ASSUME ShellInv, NEW p \in Procs \ {Shell}, excutePipe_pipe(p) PROVE ShellInv'
<1>1. PICK k \in Pipes : /\ ~ Open(k)
                         /\ rd' = [rd EXCEPT ![p] = {k}] /\ wr' = [wr EXCEPT ![p] = {k}]
  BY DEF excutePipe_pipe
<1>2. \A q \in Procs : ~ WillRead(q, k) /\ ~ WillWrite(q, k)
  BY <1>1 DEF Open, Reads, Writes, WillRead, WillWrite
<1>3. TypeOK' /\ OneChild' /\ DescriptorsOK'
  BY <1>1, ShellAssumption
     DEF excutePipe_pipe, Goto, ShellInv, TypeOK, OneChild, DescriptorsOK, Pc
<1>4. ASSUME NEW q \in Procs, NEW l \in Pipes
      PROVE  /\ WillRead(q, l)' => IF l = k THEN q = p ELSE WillRead(q, l)
             /\ WillWrite(q, l)' => IF l = k THEN q = p ELSE WillWrite(q, l)
  <2>1. CASE q = p
    BY <1>1, <2>1 DEF excutePipe_pipe, Goto, ShellInv, TypeOK, WillRead, WillWrite
  <2>2. CASE q # p
    <3>1. pc'[q] = pc[q] /\ rd'[q] = rd[q] /\ wr'[q] = wr[q] /\ in' = in /\ out' = out
      BY <1>1, <2>2 DEF excutePipe_pipe, Goto, ShellInv, TypeOK
    <3>2. (WillRead(q, l)' => WillRead(q, l)) /\ (WillWrite(q, l)' => WillWrite(q, l))
      BY <3>1 DEF WillRead, WillWrite
    <3> QED BY <3>2, <1>2
  <2> QED BY <2>1, <2>2
<1>5. OneReader' /\ OneWriter'
  BY <1>4 DEF ShellInv, OneReader, OneWriter
<1> QED BY <1>3, <1>5 DEF ShellInv

\* Of the two copies of fd[0] and fd[1] one is read and one is written.
LEMMA WriterForkShell ==
  ASSUME ShellInv, NEW p \in Procs \ {Shell}, excutePipe_fork(p) PROVE ShellInv'
<1>1. pc[p] = "fork_writer" /\ in[p] = Tty /\ out[p] = Tty
  BY DEF excutePipe_fork, ShellInv, DescriptorsOK
<1>2. CASE Goto(p, "dup_reader") /\ UNCHANGED <<parent, fds>>
  BY <1>1, <1>2, ShellAssumption
     DEF Goto, ShellInv, TypeOK, OneChild, DescriptorsOK, OneReader, OneWriter, WillRead,
         WillWrite, Pc, fds
<1>3. ASSUME NEW c \in Procs,
             pc[c] = "free",
             pc' = [pc EXCEPT ![p] = "dup_reader", ![c] = "dup_writer"],
             parent' = [parent EXCEPT ![c] = p],
             in' = [in EXCEPT ![c] = in[p]], out' = [out EXCEPT ![c] = out[p]],
             rd' = [rd EXCEPT ![c] = rd[p]], wr' = [wr EXCEPT ![c] = wr[p]]
      PROVE  ShellInv'
  <2>1. c # Shell
    BY <1>1, <1>3, ShellAssumption DEF ShellInv, TypeOK, OneChild
  <2>2. TypeOK'
    BY <1>1, <1>3, <2>1, ShellAssumption DEF ShellInv, TypeOK, Pc
  <2>3. OneChild'
    BY <1>1, <1>3, <2>1, ShellAssumption DEF ShellInv, TypeOK, OneChild
  <2>4. DescriptorsOK'
    BY <1>1, <1>3, ShellAssumption DEF ShellInv, TypeOK, DescriptorsOK
  <2>5. OneReader' /\ OneWriter'
    BY <1>1, <1>3, ShellAssumption
       DEF ShellInv, TypeOK, OneReader, OneWriter, WillRead, WillWrite
  <2> QED BY <2>2, <2>3, <2>4, <2>5 DEF ShellInv
<1> QED BY <1>1, <1>2, <1>3 DEF excutePipe_fork, fork

LEMMA WriterShell ==
  ASSUME ShellInv, NEW p \in Procs \ {Shell}, excutePipe_writer(p) PROVE ShellInv'
BY ShellAssumption
   DEF excutePipe_writer, Goto, ShellInv, TypeOK, OneChild, DescriptorsOK, OneReader,
       OneWriter, WillRead, WillWrite, Pc

LEMMA ReaderShell ==
  ASSUME ShellInv, NEW p \in Procs \ {Shell}, excutePipe_reader(p) PROVE ShellInv'
BY ShellAssumption
   DEF excutePipe_reader, Goto, ShellInv, TypeOK, OneChild, DescriptorsOK, OneReader,
       OneWriter, WillRead, WillWrite, Pc

LEMMA ExecuteShell ==
  ASSUME ShellInv, NEW p \in Procs \ {Shell}, execute(p) PROVE ShellInv'
<1>1. CASE Goto(p, "run") /\ UNCHANGED <<parent, fds>>
  BY <1>1, ShellAssumption
     DEF execute, Goto, ShellInv, TypeOK, OneChild, DescriptorsOK, OneReader, OneWriter,
         WillRead, WillWrite, Pc, fds
<1> QED BY <1>1, ExitShell DEF execute

-----------------------------------------------------------------------------
LEMMA NextShell == ShellInv /\ [Next]_vars => ShellInv'
<1> SUFFICES ASSUME ShellInv, [Next]_vars PROVE ShellInv'
  OBVIOUS
<1>1. CASE UNCHANGED vars
  BY <1>1
     DEF vars, fds, ShellInv, TypeOK, OneChild, DescriptorsOK, OneReader, OneWriter, WillRead,
         WillWrite
<1>2. ASSUME NEW p \in Procs \ {Shell}, child(p) PROVE ShellInv'
  BY <1>2, PipeShell, WriterForkShell, WriterShell, ReaderShell, ExecuteShell DEF child
<1>3. ASSUME NEW p \in Procs \ {Shell}, program_end(p) PROVE ShellInv'
  BY <1>3, ExitShell DEF program_end
<1> QED BY <1>1, <1>2, <1>3, GetsShell, MainForkShell, MainWaitShell DEF Next

\* The invariant holds in every reachable state of the shell and its children.
LEMMA ShellInvariant == Spec => []ShellInv
<1>1. Spec => Init /\ [][Next]_vars
  BY PTL DEF Spec
<1> QED BY <1>1, InitShell, NextShell, PTL

\* Every process is at a place in main.c that is its own: children never
\* become shells, and the shell never runs a child's code.
THEOREM ShellTyped == Spec => []TypeOK
<1>1. ShellInv => TypeOK
  BY DEF ShellInv
<1> QED BY <1>1, ShellInvariant, PTL

\* The shell asks for the next line only when its child has ended and has
\* been waited for.
THEOREM ShellForeground == Spec => []Foreground
<1>1. ShellInv => Foreground
  BY ShellAssumption DEF ShellInv, OneChild, Foreground, Children
<1> QED BY <1>1, ShellInvariant, PTL

\* However many pipelines run, their pipes have one reader and one writer.
THEOREM ShellPipesArePrivate == Spec => []PipesArePrivate
<1>1. ShellInv => PipesArePrivate
  BY DEF ShellInv, TypeOK, OneReader, OneWriter, WillRead, WillWrite, PipesArePrivate
<1> QED BY <1>1, ShellInvariant, PTL

(***************************************************************************)
(* The producer and the customer.                                          *)
(***************************************************************************)
\* The mutex is held exactly by the thread that is inside.
MutexHeld == \A t \in Threads : mutex = t <=> at[t] \in {"work", "signal"}

\* The inductive invariant.
GoodsInv == GoodsTypeOK /\ MutexHeld /\ LimitMeansAsleep /\ SleepsForAReason

\* main starts with goods between the limits and nobody asleep.
LEMMA GoodsStart == GoodsInit => GoodsInv
BY TotalAssumption
   DEF GoodsInit, GoodsInv, GoodsTypeOK, MutexHeld, LimitMeansAsleep, SleepsForAReason,
   Threads, Nobody, Places

\* Taking the mutex changes neither goods nor who is asleep.
LEMMA LockStep ==
  ASSUME GoodsInv, NEW t \in Threads, pthread_mutex_lock(t)
  PROVE  GoodsInv'
BY TotalAssumption
   DEF GoodsInv, GoodsTypeOK, MutexHeld, LimitMeansAsleep, SleepsForAReason,
       Threads, Nobody, Places, pthread_mutex_lock, MoveTo

\* The thread inside is awake, so goods is not at its limit and may move.
LEMMA ChangeStep ==
  ASSUME GoodsInv, produce("producer") \/ consume("customer")
  PROVE  GoodsInv'
<1>1. CASE produce("producer")
  BY <1>1, TotalAssumption
     DEF GoodsInv, GoodsTypeOK, MutexHeld, LimitMeansAsleep, SleepsForAReason,
         Threads, Nobody, Places, produce, change, MoveTo
<1>2. CASE consume("customer")
  BY <1>2, TotalAssumption
     DEF GoodsInv, GoodsTypeOK, MutexHeld, LimitMeansAsleep, SleepsForAReason,
         Threads, Nobody, Places, consume, change, MoveTo
<1> QED
  BY <1>1, <1>2

\* Whoever moved goods off a limit signals before it gives up the mutex.
LEMMA SignalStep ==
  ASSUME GoodsInv,
         \/ signal("producer", "customer", 1)
         \/ signal("customer", "producer", TOTAL - 1)
  PROVE  GoodsInv'
<1>1. CASE signal("producer", "customer", 1)
  BY <1>1, TotalAssumption
     DEF GoodsInv, GoodsTypeOK, MutexHeld, LimitMeansAsleep, SleepsForAReason,
         Threads, Nobody, Places, signal
<1>2. CASE signal("customer", "producer", TOTAL - 1)
  BY <1>2, TotalAssumption
     DEF GoodsInv, GoodsTypeOK, MutexHeld, LimitMeansAsleep, SleepsForAReason,
         Threads, Nobody, Places, signal
<1> QED
  BY <1>1, <1>2

\* Every step of the two threads keeps the invariant.
LEMMA GoodsStep == GoodsInv /\ [GoodsNext]_goods_vars => GoodsInv'
<1> SUFFICES ASSUME GoodsInv, [GoodsNext]_goods_vars PROVE GoodsInv'
  OBVIOUS
<1>1. CASE producer
  BY <1>1, LockStep, ChangeStep, SignalStep DEF producer, Threads
<1>2. CASE customer
  BY <1>2, LockStep, ChangeStep, SignalStep DEF customer, Threads
<1>3. CASE UNCHANGED goods_vars
  BY <1>3 DEF goods_vars, GoodsInv, GoodsTypeOK, MutexHeld, LimitMeansAsleep, SleepsForAReason
<1> QED
  BY <1>1, <1>2, <1>3 DEF GoodsNext

\* The counter stays within its limits for every TOTAL (main.c: "It is
\* enough! Producer sleep!", "It is none! Customer sleep!").
THEOREM GoodsStayInRange == GoodsSpec => [](GoodsTypeOK /\ LimitMeansAsleep)
<1>1. GoodsInv => GoodsTypeOK /\ LimitMeansAsleep
  BY DEF GoodsInv
<1> QED
  BY <1>1, GoodsStart, GoodsStep, PTL DEF GoodsSpec

\* No wake-up is lost between the test and pthread_cond_wait.
THEOREM NoLostWakeup == GoodsSpec => []SleepsForAReason
<1>1. GoodsInv => SleepsForAReason
  BY DEF GoodsInv
<1> QED
  BY <1>1, GoodsStart, GoodsStep, PTL DEF GoodsSpec
=============================================================================
