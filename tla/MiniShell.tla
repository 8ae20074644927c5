------------------------------ MODULE MiniShell ------------------------------
(***************************************************************************)
(* OSLab3-MiniShell/main.c: the shell and the processes it leaves behind.  *)
(* For a pipeline the child of the shell makes the pipe, forks the writer  *)
(* and becomes the reader itself, so the shell only waits for the reader.  *)
(* Processes, descriptors and wait are those of POSIX; what a program does *)
(* with its input and output is external.                                  *)
(***************************************************************************)
EXTENDS FiniteSets

CONSTANTS
  Procs,   \* process slots
  Shell,   \* the shell
  Pipes,   \* pipes of the system
  Tty,     \* the terminal
  Reaper   \* the process that inherits orphans

ASSUME ShellAssumption ==
  /\ Shell \in Procs
  /\ IsFiniteSet(Procs) /\ IsFiniteSet(Pipes)
  /\ Tty \notin Pipes /\ Reaper \notin Procs

VARIABLES
  pc,      \* free, zombie, run (an executed program), or a place in main.c
  parent,
  in,      \* descriptor 0
  out,     \* descriptor 1
  rd,      \* pipes open as fd[0]
  wr       \* pipes open as fd[1]

fds  == <<in, out, rd, wr>>
vars == <<pc, parent, fds>>

Pc == {"free", "zombie", "run", "gets", "fork", "fork_pipe", "wait",
       "pipe", "fork_writer", "dup_writer", "dup_reader", "exec"}

Goto(p, l) == pc' = [pc EXCEPT ![p] = l]

Reads(p, k)  == pc[p] \notin {"free", "zombie"} /\ (in[p] = k \/ k \in rd[p])
Writes(p, k) == pc[p] \notin {"free", "zombie"} /\ (out[p] = k \/ k \in wr[p])
Open(k)      == \E p \in Procs : Reads(p, k) \/ Writes(p, k)

Init ==
  /\ pc = [p \in Procs |-> IF p = Shell THEN "gets" ELSE "free"]
  /\ parent = [p \in Procs |-> Reaper]
  /\ in = [p \in Procs |-> Tty] /\ out = [p \in Procs |-> Tty]
  /\ rd = [p \in Procs |-> {}] /\ wr = [p \in Procs |-> {}]

\* fork: p goes on at next and the child, a copy of p, at start; or it fails
\* and p goes on all the same, since nobody looks at the result -1.
fork(p, next, start) ==
  \/ \E c \in Procs :
       /\ pc[c] = "free"
       /\ pc' = [pc EXCEPT ![p] = next, ![c] = start]
       /\ parent' = [parent EXCEPT ![c] = p]
       /\ in' = [in EXCEPT ![c] = in[p]] /\ out' = [out EXCEPT ![c] = out[p]]
       /\ rd' = [rd EXCEPT ![c] = rd[p]] /\ wr' = [wr EXCEPT ![c] = wr[p]]
  \/ Goto(p, next) /\ UNCHANGED <<parent, fds>>

\* The end of p: descriptors are closed, children are inherited, and p waits
\* for its parent as a zombie.
exit(p) ==
  /\ pc' = [q \in Procs |->
              IF q = p THEN IF parent[p] = Reaper THEN "free" ELSE "zombie"
              ELSE IF parent[q] = p /\ pc[q] = "zombie" THEN "free" ELSE pc[q]]
  /\ parent' = [q \in Procs |-> IF parent[q] = p THEN Reaper ELSE parent[q]]
  /\ in' = [in EXCEPT ![p] = Tty] /\ out' = [out EXCEPT ![p] = Tty]
  /\ rd' = [rd EXCEPT ![p] = {}] /\ wr' = [wr EXCEPT ![p] = {}]

-----------------------------------------------------------------------------
(***************************************************************************)
(* The shell.                                                              *)
(***************************************************************************)

\* A line: a command, a pipeline, cd or pwd, or exit.  An empty line ends
\* the shell too, in strcmp(NULL).
main_gets ==
  /\ pc[Shell] = "gets"
  /\ \/ \E l \in {"fork", "fork_pipe", "wait"} : Goto(Shell, l) /\ UNCHANGED <<parent, fds>>
     \/ exit(Shell)

main_fork ==
  \/ pc[Shell] = "fork" /\ fork(Shell, "wait", "exec")
  \/ pc[Shell] = "fork_pipe" /\ fork(Shell, "wait", "pipe")

Children(p) == {q \in Procs : parent[q] = p /\ pc[q] # "free"}

\* Mutant: wait does not block.
main_wait_nohang ==
  /\ pc[Shell] = "wait"
  /\ \/ \E q \in Children(Shell) :
          pc[q] = "zombie" /\ pc' = [pc EXCEPT ![Shell] = "gets", ![q] = "free"]
     \/ (\A q \in Children(Shell) : pc[q] # "zombie") /\ Goto(Shell, "gets")
  /\ UNCHANGED <<parent, fds>>

\* wait(NULL), after built-in commands too: it fails if there is no child.
main_wait ==
  /\ pc[Shell] = "wait"
  /\ \/ \E q \in Children(Shell) :
          pc[q] = "zombie" /\ pc' = [pc EXCEPT ![Shell] = "gets", ![q] = "free"]
     \/ Children(Shell) = {} /\ Goto(Shell, "gets")
  /\ UNCHANGED <<parent, fds>>

-----------------------------------------------------------------------------
(***************************************************************************)
(* Its children: excutePipe and execute.                                   *)
(***************************************************************************)

\* pipe.  Its result is not checked, and where it fails fd is uninitialized;
\* that is left out: a process waits here until a pipe is free.
excutePipe_pipe(p) ==
  /\ pc[p] = "pipe"
  /\ \E k \in Pipes :
       /\ ~ Open(k)
       /\ rd' = [rd EXCEPT ![p] = {k}] /\ wr' = [wr EXCEPT ![p] = {k}]
  /\ Goto(p, "fork_writer")
  /\ UNCHANGED <<parent, in, out>>

\* Mutant: parent and child are not told apart.
excutePipe_fork_same(p) == pc[p] = "fork_writer" /\ fork(p, "dup_reader", "dup_reader")

excutePipe_fork(p) == pc[p] = "fork_writer" /\ fork(p, "dup_reader", "dup_writer")

\* Mutant: the writer keeps fd[0].
excutePipe_writer_keep(p) ==
  /\ pc[p] = "dup_writer"
  /\ \E k \in wr[p] : out' = [out EXCEPT ![p] = k]
  /\ wr' = [wr EXCEPT ![p] = {}]
  /\ Goto(p, "exec")
  /\ UNCHANGED <<parent, in, rd>>

\* The writer: dup2(fd[1], 1) and both closes.
excutePipe_writer(p) ==
  /\ pc[p] = "dup_writer"
  /\ \E k \in wr[p] : out' = [out EXCEPT ![p] = k]
  /\ rd' = [rd EXCEPT ![p] = {}] /\ wr' = [wr EXCEPT ![p] = {}]
  /\ Goto(p, "exec")
  /\ UNCHANGED <<parent, in>>

\* Mutant: the reader keeps fd[1].
excutePipe_reader_keep(p) ==
  /\ pc[p] = "dup_reader"
  /\ \E k \in rd[p] : in' = [in EXCEPT ![p] = k]
  /\ rd' = [rd EXCEPT ![p] = {}]
  /\ Goto(p, "exec")
  /\ UNCHANGED <<parent, out, wr>>

\* The reader: dup2(fd[0], 0) and both closes.
excutePipe_reader(p) ==
  /\ pc[p] = "dup_reader"
  /\ \E k \in rd[p] : in' = [in EXCEPT ![p] = k]
  /\ rd' = [rd EXCEPT ![p] = {}] /\ wr' = [wr EXCEPT ![p] = {}]
  /\ Goto(p, "exec")
  /\ UNCHANGED <<parent, out>>

\* Mutant: after "Wrong Command!" the child goes on as a shell.
execute_return(p) ==
  /\ pc[p] = "exec"
  /\ Goto(p, "run") \/ Goto(p, "gets")
  /\ UNCHANGED <<parent, fds>>

\* execute: the program, or "Wrong Command!" and _exit.
execute(p) ==
  /\ pc[p] = "exec"
  /\ \/ Goto(p, "run") /\ UNCHANGED <<parent, fds>>
     \/ exit(p)

\* A program may end at any time.
program_end(p) == pc[p] = "run" /\ exit(p)

\* It does when its input has ended and its output is read by somebody, or
\* by nobody any more (SIGPIPE).
Finite(p) ==
  /\ in[p] # Tty => \A q \in Procs : ~ Writes(q, in[p])
  /\ out[p] # Tty => \/ \A q \in Procs : ~ Reads(q, out[p])
                     \/ \E q \in Procs \ {p} : pc[q] = "run" /\ in[q] = out[p]

child(p) ==
  \/ excutePipe_pipe(p) \/ excutePipe_fork(p) \/ excutePipe_writer(p)
  \/ excutePipe_reader(p) \/ execute(p)

Next ==
  \/ main_gets \/ main_fork \/ main_wait
  \/ \E p \in Procs \ {Shell} : child(p) \/ program_end(p)

\* Processes keep running; a user need not type, and a program need not end
\* before its input does.
Spec ==
  /\ Init /\ [][Next]_vars
  /\ WF_vars(main_fork) /\ WF_vars(main_wait)
  /\ \A p \in Procs \ {Shell} : WF_vars(child(p)) /\ WF_vars(Finite(p) /\ program_end(p))

-----------------------------------------------------------------------------
\* Every variable has its type, and every place in main.c its process.
TypeOK ==
  /\ pc \in [Procs -> Pc]
  /\ pc[Shell] \in {"gets", "fork", "fork_pipe", "wait", "free"}
  /\ \A p \in Procs \ {Shell} : pc[p] \notin {"gets", "fork", "fork_pipe", "wait"}
  /\ parent \in [Procs -> Procs \cup {Reaper}]
  /\ in \in [Procs -> Pipes \cup {Tty}] /\ out \in [Procs -> Pipes \cup {Tty}]
  /\ rd \in [Procs -> SUBSET Pipes] /\ wr \in [Procs -> SUBSET Pipes]

\* When the shell asks for a line nothing of the previous one is left to it:
\* no running foreground command and no zombie, though it calls wait once
\* per line, whatever the line was.
Foreground == pc[Shell] = "gets" => Children(Shell) = {}

\* A pipe connects one writer with one reader: two programs never read, or
\* write, the same pipe, however many pipelines are still running.
PipesArePrivate ==
  \A p, q \in Procs : pc[p] = "run" /\ pc[q] = "run" /\ p # q =>
    /\ in[p] # Tty => in[p] # in[q]
    /\ out[p] # Tty => out[p] # out[q]

\* Every command line comes to an end: the reader of a pipe meets the end of
\* its input, so the shell's wait returns.
LineEnds == pc[Shell] = "wait" ~> pc[Shell] = "gets"

\* No program hangs for ever on a pipe, those the shell no longer waits for
\* included.
ProgramsEnd == \A p \in Procs : pc[p] = "run" ~> pc[p] # "run"
=============================================================================
