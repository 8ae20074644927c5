--------------------------- MODULE ProducerConsumer ---------------------------
(***************************************************************************)
(* OSLab2-PThread/main.c: a producer and a customer share the counter      *)
(* goods under one mutex and sleep on two condition variables.  Both       *)
(* change goods first and look at it afterwards, test it for equality, and *)
(* call pthread_cond_wait under an if.                                     *)
(*                                                                         *)
(* pthread_cond_wait is taken to return only after a signal.  POSIX lets   *)
(* it return without one; then the equality tests are stepped over.        *)
(*                                                                         *)
(* Names differ from those of MiniShell: LabProgramsProof extends both.    *)
(***************************************************************************)
EXTENDS Integers

CONSTANT TOTAL  \* goods at which the producer sleeps

ASSUME TotalAssumption == TOTAL \in Nat /\ TOTAL >= 3

Threads == {"producer", "customer"}
Nobody  == "nobody"

VARIABLES
  goods,
  mutex,  \* the thread that holds the mutex
  at      \* lock, work (mutex held, goods not changed yet), wait (asleep),
          \* relock (signalled, without the mutex), signal (last test)

goods_vars == <<goods, mutex, at>>

Places == {"lock", "work", "wait", "relock", "signal"}
MoveTo(t, p) == at' = [at EXCEPT ![t] = p]

GoodsInit ==
  /\ goods = 2
  /\ mutex = Nobody
  /\ at = [t \in Threads |-> "lock"]

\* pthread_mutex_lock, and the same inside of pthread_cond_wait.
pthread_mutex_lock(t) ==
  /\ mutex = Nobody
  /\ mutex' = t
  /\ \/ at[t] = "lock" /\ MoveTo(t, "work")
     \/ at[t] = "relock" /\ MoveTo(t, "signal")
  /\ UNCHANGED goods

\* The new number of goods, and pthread_cond_wait if it is the limit.
change(t, n, limit) ==
  /\ at[t] = "work"
  /\ goods' = n
  /\ IF n = limit THEN MoveTo(t, "wait") /\ mutex' = Nobody
                  ELSE MoveTo(t, "signal") /\ UNCHANGED mutex

\* Mutant: the producer has no limit.
produce_on(t) == change(t, goods + 1, -1)

produce(t) == change(t, goods + 1, TOTAL)
consume(t) == change(t, goods - 1, 0)

\* Mutant: the last test is the condition of a while.
signal_while(t, other, mark) ==
  /\ at[t] = "signal"
  /\ at' = [at EXCEPT ![t] = IF goods = mark THEN @ ELSE "lock",
                      ![other] = IF goods = mark /\ @ = "wait" THEN "relock" ELSE @]
  /\ mutex' = IF goods = mark THEN t ELSE Nobody
  /\ UNCHANGED goods

\* pthread_cond_signal to other if goods is at the mark, then the unlock.
signal(t, other, mark) ==
  /\ at[t] = "signal"
  /\ at' = [at EXCEPT ![t] = "lock",
                      ![other] = IF goods = mark /\ @ = "wait" THEN "relock" ELSE @]
  /\ mutex' = Nobody
  /\ UNCHANGED goods

producer ==
  pthread_mutex_lock("producer") \/ produce("producer") \/ signal("producer", "customer", 1)

\* Mutant: the customer signals one item too late.
customer_late ==
  pthread_mutex_lock("customer") \/ consume("customer") \/ signal("customer", "producer", TOTAL - 2)

customer ==
  pthread_mutex_lock("customer") \/ consume("customer") \/ signal("customer", "producer", TOTAL - 1)

GoodsNext == producer \/ customer

GoodsSpec == GoodsInit /\ [][GoodsNext]_goods_vars

\* Threads keep running, and since both sleep without the mutex for at least
\* a second after each round, neither is refused the mutex for ever.
FairGoodsSpec ==
  /\ GoodsSpec
  /\ WF_goods_vars(producer) /\ WF_goods_vars(customer)
  /\ \A t \in Threads : SF_goods_vars(pthread_mutex_lock(t))

-----------------------------------------------------------------------------
\* Every variable has its type.
GoodsTypeOK ==
  /\ goods \in 0 .. TOTAL
  /\ mutex \in Threads \cup {Nobody}
  /\ at \in [Threads -> Places]

\* Tests for equality are enough: goods is at a limit only while the thread
\* that could pass it sleeps.
LimitMeansAsleep ==
  /\ goods = TOTAL => at["producer"] = "wait"
  /\ goods = 0 => at["customer"] = "wait"

\* No wake-up is lost: a thread that sleeps is either still at its limit, or
\* the other one has moved goods off it and is about to signal.
SleepsForAReason ==
  /\ at["producer"] = "wait" => \/ goods = TOTAL
                                \/ goods = TOTAL - 1 /\ at["customer"] = "signal"
  /\ at["customer"] = "wait" => \/ goods = 0
                                \/ goods = 1 /\ at["producer"] = "signal"

\* Both threads go through their critical sections again and again.
BothGoOn == \A t \in Threads : []<>(at[t] = "work")
=============================================================================
