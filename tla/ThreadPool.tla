------------------------------ MODULE ThreadPool ------------------------------
(***************************************************************************)
(* The pool of worker threads of a server: a queue of tasks, a mutex, a    *)
(* condition variable and a stop flag (src/src/libs/common/threadpool.h).  *)
(* Its owner is the thread of the event loop: it calls enqueue from the    *)
(* handlers of machine, and the destructor from XServerBase::finalise.     *)
(*                                                                         *)
(* What a thread does while it holds queue_mutex is one step.  Notifying   *)
(* comes after the mutex is released, so it is a step of its own, and so   *)
(* is every return from a wait: a thread that was woken must get the mutex *)
(* again and looks at stop and tasks anew.                                 *)
(***************************************************************************)
EXTENDS Integers, Sequences

CONSTANTS
  Workers,  \* the threads of the pool
  MaxTasks  \* bounds the calls of enqueue

ASSUME WorkersAssumption == Workers # {}
ASSUME TasksAssumption == MaxTasks \in Nat

VARIABLES
  tasks,      \* the queue; a task is the number of its call of enqueue
  stop,
  worker,     \* where each worker is in its loop
  job,        \* the task a worker has taken last, 0 before the first
  owner,      \* where the owner is in enqueue or the destructor
  submitted,  \* number of calls of enqueue
  finished    \* history: tasks that have run
poolVars == <<tasks, stop>>
vars == <<poolVars, worker, job, owner, submitted, finished>>

TypeOK ==
  /\ tasks \in Seq(1..MaxTasks)
  /\ stop \in BOOLEAN
  /\ worker \in [Workers -> {"locking", "waiting", "running", "returned"}]
  /\ job \in [Workers -> 0..MaxTasks]
  /\ owner \in {"idle", "notifyOne", "notifyAll", "joining", "joined"}
  /\ submitted \in 0..MaxTasks
  /\ finished \subseteq 1..MaxTasks

Init ==
  /\ tasks = <<>> /\ stop = FALSE
  /\ worker = [w \in Workers |-> "locking"]
  /\ job = [w \in Workers |-> 0]
  /\ owner = "idle" /\ submitted = 0 /\ finished = {}
-------------------------------------------------------------------------------
(* Workers *)

\* The predicate of condition.wait.
MayGoOn == stop \/ tasks # <<>>

\* The predicate is false: the mutex is released and the thread sleeps, at once.
Sleep(w) ==
  /\ worker[w] = "locking" /\ ~MayGoOn
  /\ worker' = [worker EXCEPT ![w] = "waiting"]
  /\ UNCHANGED <<poolVars, job, owner, submitted, finished>>

\* Mutant: a wait without predicate; front() of an empty queue is no task.
WakeSpuriously_noPredicate(w) ==
  /\ worker[w] = "waiting" /\ tasks = <<>>
  /\ worker' = [worker EXCEPT ![w] = "running"]
  /\ job' = [job EXCEPT ![w] = 0]
  /\ UNCHANGED <<poolVars, owner, submitted, finished>>

\* The wait ends without a notification, as it may.
WakeSpuriously(w) ==
  /\ worker[w] = "waiting"
  /\ worker' = [worker EXCEPT ![w] = "locking"]
  /\ UNCHANGED <<poolVars, job, owner, submitted, finished>>

\* Mutant: the task is not popped.
TakeTask_keeps(w) ==
  /\ worker[w] = "locking" /\ tasks # <<>>
  /\ worker' = [worker EXCEPT ![w] = "running"]
  /\ job' = [job EXCEPT ![w] = Head(tasks)]
  /\ UNCHANGED <<poolVars, owner, submitted, finished>>

TakeTask(w) ==
  /\ worker[w] = "locking" /\ tasks # <<>>
  /\ worker' = [worker EXCEPT ![w] = "running"]
  /\ job' = [job EXCEPT ![w] = Head(tasks)]
  /\ tasks' = Tail(tasks)
  /\ UNCHANGED <<stop, owner, submitted, finished>>

\* task() returns; a packaged_task keeps what it throws for the future.
RunTask(w) ==
  /\ worker[w] = "running"
  /\ worker' = [worker EXCEPT ![w] = "locking"]
  /\ finished' = finished \cup {job[w]}
  /\ UNCHANGED <<poolVars, job, owner, submitted>>

\* Mutant: a worker leaves as soon as stop is set.
Return_atStop(w) ==
  /\ worker[w] = "locking" /\ stop
  /\ worker' = [worker EXCEPT ![w] = "returned"]
  /\ UNCHANGED <<poolVars, job, owner, submitted, finished>>

Return(w) ==
  /\ worker[w] = "locking" /\ stop /\ tasks = <<>>
  /\ worker' = [worker EXCEPT ![w] = "returned"]
  /\ UNCHANGED <<poolVars, job, owner, submitted, finished>>
-------------------------------------------------------------------------------
(* The owner *)

\* Mutant: nobody is notified.
enqueue_silent ==
  /\ owner = "idle" /\ ~stop /\ submitted < MaxTasks
  /\ submitted' = submitted + 1
  /\ tasks' = Append(tasks, submitted + 1)
  /\ UNCHANGED <<stop, worker, job, owner, finished>>

\* enqueue up to the end of its critical section.  It throws when stop is set,
\* which only the destructor does.
enqueue ==
  /\ owner = "idle" /\ ~stop /\ submitted < MaxTasks
  /\ submitted' = submitted + 1
  /\ tasks' = Append(tasks, submitted + 1)
  /\ owner' = "notifyOne"
  /\ UNCHANGED <<stop, worker, job, finished>>

\* Wakes one of the threads that wait, if any does.
NotifyOne ==
  /\ owner = "notifyOne"
  /\ owner' = "idle"
  /\ \/ \E w \in Workers :
          worker[w] = "waiting" /\ worker' = [worker EXCEPT ![w] = "locking"]
     \/ (\A w \in Workers : worker[w] # "waiting") /\ UNCHANGED worker
  /\ UNCHANGED <<poolVars, job, submitted, finished>>

\* The destructor sets stop, wakes everybody and joins the threads.
Stop ==
  /\ owner = "idle"
  /\ stop' = TRUE /\ owner' = "notifyAll"
  /\ UNCHANGED <<tasks, worker, job, submitted, finished>>

NotifyAll ==
  /\ owner = "notifyAll"
  /\ owner' = "joining"
  /\ worker' = [w \in Workers |-> IF worker[w] = "waiting" THEN "locking" ELSE worker[w]]
  /\ UNCHANGED <<poolVars, job, submitted, finished>>

Joined ==
  /\ owner = "joining" /\ \A w \in Workers : worker[w] = "returned"
  /\ owner' = "joined"
  /\ UNCHANGED <<poolVars, worker, job, submitted, finished>>
-------------------------------------------------------------------------------
Runs(w) == Sleep(w) \/ TakeTask(w) \/ RunTask(w) \/ Return(w)
Owner   == enqueue \/ NotifyOne \/ Stop \/ NotifyAll \/ Joined
Next    == Owner \/ \E w \in Workers : Runs(w) \/ WakeSpuriously(w)

Spec == Init /\ [][Next]_vars

\* A thread that can run does so in the end, and tasks end: those of machine
\* start a process and return.  Nothing makes the owner call enqueue or the
\* destructor, and nobody is promised a spurious wakeup.
FairSpec ==
  /\ Spec
  /\ \A w \in Workers : WF_vars(Runs(w))
  /\ WF_vars(NotifyOne \/ NotifyAll \/ Joined)
-------------------------------------------------------------------------------
(* Properties *)

\* No wakeup is lost.  While a task is in the queue, a thread is on its way to
\* it or about to be told; once the destructor has notified, nobody sleeps any
\* more, so every join returns (lines 80-82, 116 and 127).
NoLostWakeup ==
  /\ tasks # <<>> =>
       \/ owner \in {"notifyOne", "notifyAll"}
       \/ \E w \in Workers : worker[w] \in {"locking", "running"}
  /\ owner \in {"joining", "joined"} => \A w \in Workers : worker[w] # "waiting"

\* A task is in one place only: queued, run by one worker, or finished; and the
\* queue holds exactly the latest calls of enqueue, in order.
EachTaskOnce ==
  /\ \A i \in DOMAIN tasks : tasks[i] = submitted - Len(tasks) + i
  /\ \A w \in Workers : worker[w] = "running" =>
       /\ job[w] \in 1..(submitted - Len(tasks)) /\ job[w] \notin finished
       /\ \A v \in Workers \ {w} : worker[v] = "running" => job[v] # job[w]
  /\ finished \subseteq 1..(submitted - Len(tasks))
===============================================================================
