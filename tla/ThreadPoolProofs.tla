--------------------------- MODULE ThreadPoolProofs ---------------------------
(***************************************************************************)
(* Theorems about ThreadPool, for any set of workers that is not empty and *)
(* any number of tasks.  Inv adds to the properties why a woken pool goes  *)
(* on: a worker returns only when nothing is left to do and nothing can    *)
(* come, and a task that was begun is finished or in the hands of a worker.*)
(***************************************************************************)
EXTENDS ThreadPoolService, TLAPS

\* stop is set by the destructor only, and after it nothing is enqueued.
StopByOwner == stop <=> owner \in {"notifyAll", "joining", "joined"}

\* A worker returns when the queue is empty for good.
ReturnedLast == \A w \in Workers : worker[w] = "returned" => stop /\ tasks = <<>>

\* No task that was begun is dropped.
BegunIsKept ==
  \A t \in 1..(submitted - Len(tasks)) :
    t \in finished \/ \E w \in Workers : worker[w] = "running" /\ job[w] = t

\* When the destructor has returned, so have the workers.
JoinedAll == owner = "joined" => \A w \in Workers : worker[w] = "returned"

\* The queue is a part of what was enqueued.
Sizes == Len(tasks) \in 0..submitted

Inv == TypeOK /\ EachTaskOnce /\ NoLostWakeup
         /\ StopByOwner /\ ReturnedLast /\ BegunIsKept /\ JoinedAll /\ Sizes

\* The pool starts with workers that are about to look at an empty queue.
LEMMA InitInv == Init => Inv
<1> SUFFICES ASSUME Init PROVE Inv
  OBVIOUS
<1> USE TasksAssumption DEF Init
<1>1. TypeOK
  <2>1. tasks \in Seq(1..MaxTasks)
    OBVIOUS
  <2>2. worker \in [Workers -> {"locking", "waiting", "running", "returned"}]
    OBVIOUS
  <2>3. job \in [Workers -> 0..MaxTasks] /\ submitted \in 0..MaxTasks
    OBVIOUS
  <2>4. stop \in BOOLEAN
    BY Zenon
  <2>5. QED
    BY <2>1, <2>2, <2>3, <2>4 DEF TypeOK
<1>2. tasks \in Seq(Nat) /\ Len(tasks) = 0 /\ submitted = 0 /\ finished = {}
  OBVIOUS
<1>3. DOMAIN tasks = 1..0
  BY <1>2
<1>4. EachTaskOnce
  BY <1>2, <1>3 DEF EachTaskOnce
<1>5. BegunIsKept /\ Sizes
  BY <1>2 DEF BegunIsKept, Sizes
<1>6. NoLostWakeup /\ StopByOwner /\ ReturnedLast /\ JoinedAll
  BY DEF NoLostWakeup, StopByOwner, ReturnedLast, JoinedAll
<1>7. QED
  BY <1>1, <1>4, <1>5, <1>6 DEF Inv

\* A worker sleeps only while there is nothing to do.
LEMMA SleepInv == ASSUME Inv, NEW w \in Workers, Sleep(w) PROVE Inv'
  BY DEF Sleep, MayGoOn, poolVars, Inv, TypeOK, EachTaskOnce, NoLostWakeup, StopByOwner,
     ReturnedLast, BegunIsKept, JoinedAll, Sizes

\* A spurious wakeup only makes a worker look again.
LEMMA WakeInv == ASSUME Inv, NEW w \in Workers, WakeSpuriously(w) PROVE Inv'
  BY DEF WakeSpuriously, poolVars, Inv, TypeOK, EachTaskOnce, NoLostWakeup, StopByOwner,
     ReturnedLast, BegunIsKept, JoinedAll, Sizes

\* The task taken is the first of the queue and nobody else has it.
LEMMA TakeInv == ASSUME Inv, NEW w \in Workers, TakeTask(w) PROVE Inv'
<1> USE TasksAssumption DEF Inv, TypeOK, TakeTask
<1>1. /\ Len(tasks) \in Nat \ {0} /\ Len(tasks) \in 0..submitted
      /\ Tail(tasks) \in Seq(1..MaxTasks) /\ Len(Tail(tasks)) = Len(tasks) - 1
      /\ Head(tasks) = tasks[1] /\ tasks[1] = submitted - Len(tasks) + 1
      /\ \A i \in 1..Len(tasks) - 1 : Tail(tasks)[i] = tasks[i + 1]
  BY DEF Sizes, EachTaskOnce
<1>2. TypeOK'
  BY <1>1
<1>3. EachTaskOnce'
  <2>1. \A i \in DOMAIN tasks' : tasks'[i] = submitted' - Len(tasks') + i
    <3> SUFFICES ASSUME NEW i \in 1..(Len(tasks) - 1)
                 PROVE tasks[i + 1] = submitted - (Len(tasks) - 1) + i
      BY <1>1, SMTT(40)
    <3>1. i \in Nat /\ i + 1 \in DOMAIN tasks /\ submitted \in Nat
      BY <1>1
    <3>2. tasks[i + 1] = submitted - Len(tasks) + (i + 1)
      BY <3>1 DEF EachTaskOnce
    <3>3. QED
      BY <1>1, <3>1, <3>2
  <2>2. submitted' - Len(tasks') = submitted - Len(tasks) + 1
    BY <1>1
  <2>3. QED
    BY <1>1, <2>1, <2>2 DEF EachTaskOnce
<1>4. NoLostWakeup'
  BY DEF NoLostWakeup
<1>5. StopByOwner' /\ ReturnedLast' /\ JoinedAll' /\ Sizes'
  BY <1>1 DEF StopByOwner, ReturnedLast, JoinedAll, Sizes
<1>6. BegunIsKept'
  <2>1. submitted' - Len(tasks') = submitted - Len(tasks) + 1
    BY <1>1
  <2> SUFFICES ASSUME NEW t \in 1..(submitted - Len(tasks) + 1)
               PROVE t \in finished \/ \E v \in Workers : worker'[v] = "running" /\ job'[v] = t
    BY <2>1 DEF BegunIsKept
  <2>2. CASE t = submitted - Len(tasks) + 1
    BY <2>2, <1>1
  <2>3. CASE t \in 1..(submitted - Len(tasks))
    BY <2>3 DEF BegunIsKept
  <2>4. QED
    BY <2>2, <2>3, <1>1
<1>7. QED
  BY <1>2, <1>3, <1>4, <1>5, <1>6

\* A task that ends is finished and was not before.
LEMMA RunInv == ASSUME Inv, NEW w \in Workers, RunTask(w) PROVE Inv'
<1> USE TasksAssumption DEF Inv, TypeOK, RunTask, poolVars
<1>1. TypeOK'
  <2>1. job[w] \in 1..MaxTasks
    BY DEF EachTaskOnce, Sizes
  <2>2. QED
    BY <2>1
<1>2. StopByOwner' /\ JoinedAll' /\ Sizes' /\ NoLostWakeup'
  BY DEF StopByOwner, JoinedAll, Sizes, NoLostWakeup
<1>3. EachTaskOnce' /\ ReturnedLast' /\ BegunIsKept'
  BY ZenonT(60) DEF EachTaskOnce, ReturnedLast, BegunIsKept
<1>4. QED
  BY <1>1, <1>2, <1>3

\* A worker that returns leaves nothing behind.
LEMMA ReturnInv == ASSUME Inv, NEW w \in Workers, Return(w) PROVE Inv'
  BY DEF Return, poolVars, Inv, TypeOK, EachTaskOnce, NoLostWakeup, StopByOwner,
     ReturnedLast, BegunIsKept, JoinedAll, Sizes

\* A new task goes to the end of the queue.
LEMMA EnqueueInv == ASSUME Inv, enqueue PROVE Inv'
<1> USE TasksAssumption DEF Inv, TypeOK, enqueue
<1>1. /\ tasks' \in Seq(1..MaxTasks) /\ Len(tasks') = Len(tasks) + 1
      /\ \A i \in 1..Len(tasks) : tasks'[i] = tasks[i]
      /\ tasks'[Len(tasks) + 1] = submitted + 1
      /\ DOMAIN tasks' = 1..(Len(tasks) + 1) /\ DOMAIN tasks = 1..Len(tasks)
      /\ Len(tasks) \in Nat /\ submitted' - Len(tasks') = submitted - Len(tasks)
  OBVIOUS
<1>2. TypeOK' /\ NoLostWakeup' /\ StopByOwner' /\ JoinedAll' /\ Sizes'
  BY <1>1 DEF NoLostWakeup, StopByOwner, JoinedAll, Sizes
<1>3. ReturnedLast' /\ BegunIsKept'
  BY <1>1 DEF ReturnedLast, BegunIsKept
<1>4. EachTaskOnce'
  <2>1. \A i \in DOMAIN tasks' : tasks'[i] = submitted' - Len(tasks') + i
    BY <1>1 DEF EachTaskOnce
  <2>2. QED
    BY <1>1, <2>1 DEF EachTaskOnce
<1>5. QED
  BY <1>2, <1>3, <1>4

\* Either a sleeping worker is woken, or all are awake and one will look.
LEMMA NotifyOneInv == ASSUME Inv, NotifyOne PROVE Inv'
<1> USE DEF Inv, TypeOK, NotifyOne, poolVars
<1>1. TypeOK' /\ EachTaskOnce' /\ StopByOwner' /\ ReturnedLast' /\ BegunIsKept' /\ JoinedAll' /\ Sizes'
  BY DEF EachTaskOnce, StopByOwner, ReturnedLast, BegunIsKept, JoinedAll, Sizes
<1>2. NoLostWakeup'
  BY WorkersAssumption DEF NoLostWakeup, StopByOwner, ReturnedLast
<1>3. QED
  BY <1>1, <1>2

\* The destructor sets stop.
LEMMA StopInv == ASSUME Inv, Stop PROVE Inv'
  BY DEF Stop, Inv, TypeOK, EachTaskOnce, NoLostWakeup, StopByOwner,
     ReturnedLast, BegunIsKept, JoinedAll, Sizes

\* Nobody sleeps after notify_all.
LEMMA NotifyAllInv == ASSUME Inv, NotifyAll PROVE Inv'
<1> USE DEF Inv, TypeOK, NotifyAll, poolVars
<1>1. TypeOK' /\ EachTaskOnce' /\ StopByOwner' /\ ReturnedLast' /\ BegunIsKept' /\ JoinedAll' /\ Sizes'
  BY DEF EachTaskOnce, StopByOwner, ReturnedLast, BegunIsKept, JoinedAll, Sizes
<1>2. NoLostWakeup'
  BY WorkersAssumption DEF NoLostWakeup, ReturnedLast
<1>3. QED
  BY <1>1, <1>2

\* The joins return when every worker has.
LEMMA JoinedInv == ASSUME Inv, Joined PROVE Inv'
  BY DEF Joined, poolVars, Inv, TypeOK, EachTaskOnce, NoLostWakeup, StopByOwner,
     ReturnedLast, BegunIsKept, JoinedAll, Sizes

\* Every step keeps the invariant.
LEMMA StepInv == Inv /\ [Next]_vars => Inv'
<1> SUFFICES ASSUME Inv, [Next]_vars PROVE Inv'
  OBVIOUS
<1>1. CASE Owner
  BY <1>1, EnqueueInv, NotifyOneInv, StopInv, NotifyAllInv, JoinedInv DEF Owner
<1>2. CASE \E w \in Workers : Runs(w) \/ WakeSpuriously(w)
  BY <1>2, SleepInv, WakeInv, TakeInv, RunInv, ReturnInv DEF Runs
<1>3. CASE UNCHANGED vars
  BY <1>3 DEF vars, poolVars, Inv, TypeOK, EachTaskOnce, NoLostWakeup, StopByOwner,
     ReturnedLast, BegunIsKept, JoinedAll, Sizes
<1>4. QED
  BY <1>1, <1>2, <1>3 DEF Next

\* The invariant holds of every behaviour of the pool.
LEMMA InvHolds == Spec => []Inv
  BY InitInv, StepInv, PTL DEF Spec

\* Whatever the threads do, the queue holds tasks that were enqueued and a worker
\* is where worker_thread has a line for it to be.
THEOREM PoolTypeCorrect == Spec => []TypeOK
  BY InvHolds, PTL DEF Inv

\* However the threads interleave and whenever the destructor comes, no wakeup
\* is lost (the wait, notify_one and notify_all of threadpool.h).
THEOREM NoWakeupIsLost == Spec => []NoLostWakeup
  BY InvHolds, PTL DEF Inv

\* Every task is taken by one worker, in the order of enqueue.
THEOREM TasksRunOnce == Spec => [](TypeOK /\ EachTaskOnce)
  BY InvHolds, PTL DEF Inv
-------------------------------------------------------------------------------
\* A step of the pool is a step of the service or changes nothing it shows.
LEMMA StepServes == ASSUME Inv, Inv', [Next]_vars PROVE [S!Next]_(S!vars)
<1> USE DEF S!vars, S!Next
<1>1. ASSUME NEW w \in Workers, Sleep(w) \/ WakeSpuriously(w) \/ Return(w) PROVE UNCHANGED S!vars
  BY <1>1 DEF Sleep, WakeSpuriously, Return, poolVars, poolPhase
<1>2. ASSUME NEW w \in Workers, TakeTask(w) PROVE S!Begin
  <2>1. Len(tasks) \in Nat \ {0} /\ Len(Tail(tasks)) = Len(tasks) - 1 /\ submitted \in Nat
    BY <1>2 DEF TakeTask, Inv, TypeOK
  <2>2. QED
    BY <1>2, <2>1 DEF TakeTask, S!Begin, poolPhase
<1>3. ASSUME NEW w \in Workers, RunTask(w) PROVE S!Next
  <2>1. job[w] \in 1..(submitted - Len(tasks)) \ finished
    BY <1>3 DEF RunTask, Inv, EachTaskOnce
  <2>2. S!End(job[w])
    BY <1>3 DEF RunTask, S!End, poolVars, poolPhase
  <2>3. QED
    BY <2>1, <2>2
<1>4. ASSUME enqueue PROVE S!Accept
  <2>1. Len(tasks) \in Nat /\ Len(tasks') = Len(tasks) + 1 /\ submitted \in Nat
    BY <1>4 DEF enqueue, Inv, TypeOK
  <2>2. QED
    BY <1>4, <2>1 DEF enqueue, S!Accept, poolPhase
<1>5. ASSUME NotifyOne \/ NotifyAll PROVE UNCHANGED S!vars
  BY <1>5 DEF NotifyOne, NotifyAll, poolVars, poolPhase
<1>6. ASSUME Stop PROVE S!Close
  BY <1>6 DEF Stop, S!Close, poolPhase, Inv, StopByOwner
<1>7. ASSUME Joined PROVE S!GoDown
  <2>1. \A w \in Workers : worker[w] = "returned"
    BY <1>7 DEF Joined
  <2>2. tasks = <<>> /\ stop /\ Len(tasks) = 0 /\ submitted \in Nat
    BY <2>1, WorkersAssumption DEF Inv, ReturnedLast, TypeOK
  <2>3. submitted - Len(tasks) = submitted
    BY <2>2
  <2>4. finished = 1..submitted
    BY <2>1, <2>3 DEF Inv, BegunIsKept, EachTaskOnce
  <2>5. QED
    BY <1>7, <2>2, <2>4 DEF Joined, S!GoDown, poolVars, poolPhase
<1>8. CASE UNCHANGED vars
  BY <1>8 DEF vars, poolVars, poolPhase
<1>9. QED
  BY <1>1, <1>2, <1>3, <1>4, <1>5, <1>6, <1>7, <1>8 DEF Next, Owner, Runs

\* The pool implements the service: tasks begin once and in order, and the
\* destructor returns only when all of them have run.
THEOREM PoolServes == Spec => ImplementsService
<1>1. Init => S!Init
  <2>1. Init => Len(tasks) = 0 /\ submitted - Len(tasks) = 0
    <3>1. Init => submitted = 0
      BY Zenon DEF Init
    <3>2. QED
      BY <3>1, InitInv DEF Inv, Sizes
  <2>2. Init => poolPhase = "open"
    <3>1. Init => ~stop
      BY Zenon DEF Init
    <3>2. Init => owner # "joined"
      BY SMT DEF Init
    <3>3. QED
      BY <3>1, <3>2 DEF poolPhase
  <2>3. QED
    BY <2>1, <2>2 DEF Init, S!Init
<1>2. QED
  BY <1>1, InvHolds, StepServes, PTL DEF Spec, ImplementsService, S!Spec
===============================================================================
