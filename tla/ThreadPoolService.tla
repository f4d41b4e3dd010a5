--------------------------- MODULE ThreadPoolService --------------------------
(* ThreadPool implements TaskService.                                       *)
EXTENDS ThreadPool

poolPhase == IF owner = "joined" THEN "down" ELSE IF stop THEN "closing" ELSE "open"

S == INSTANCE TaskService WITH
       accepted <- submitted, begun <- submitted - Len(tasks), ended <- finished, phase <- poolPhase

\* Tasks begin once, in order, and the destructor returns only when all of them
\* have run (ThreadPool::enqueue, the loop of a worker and ~ThreadPool).
ImplementsService == S!Spec

\* The same with progress: every task that was enqueued ends, also when the
\* destructor comes in between, and the destructor returns.
ImplementsFairService == S!FairSpec
===============================================================================
