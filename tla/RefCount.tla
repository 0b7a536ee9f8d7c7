------------------------------- MODULE RefCount -------------------------------
(***************************************************************************)
(* The lifetime of one service: the strong and weak counts of its control  *)
(* block (detail::atomic_cb), the garbage collector that stops the service *)
(* once nobody but the collector itself references it, and the             *)
(* service_deleter that destroys it on the event loop.                     *)
(*                                                                         *)
(* Actors are the event loop thread and other threads.  Each may own one   *)
(* Ref and one WeakRef.  A fetch_sub and the callback it triggers are two  *)
(* steps: other actors run in between.  try_increase retries until its     *)
(* compare_exchange succeeds and is one step.  The scheduler is reduced to *)
(* what it does to this service; its own model is ServiceScheduler.        *)
(*                                                                         *)
(* The model follows a build with IDLE_ASSERT: a failed assertion, or a    *)
(* read of memory that was deallocated, ends the behaviour with failed.    *)
(***************************************************************************)
EXTENDS Integers, Sequences, FiniteSets

CONSTANTS
  Threads, \* the threads other than the event loop
  Loop,    \* the event loop thread
  MaxOps   \* how many handles are made and starts are requested

ASSUME ActorsAssumption == IsFiniteSet(Threads) /\ Loop \notin Threads
ASSUME MaxOpsAssumption == MaxOps \in Nat

Actors == Threads \cup {Loop}

VARIABLES
  strong,     \* strong_
  weak,       \* weak_
  ref,        \* actors that own a Ref to the service
  wref,       \* actors that own a WeakRef to the service
  taskRef,    \* the running task of the event loop owns a Ref
  pc,         \* what an actor still has to do for a decrease
  phase,      \* phase_; running is locked to running, stopping ends at stopped
  wanted,     \* the service is pushed and marked for start
  queued,     \* the service is in up_ of the SchedulingQueue
  destructed, \* ~Service ran
  freed,      \* the control block and the service in it are deallocated
  queue,      \* per producer, what it posted to the event loop
  failed,     \* an assertion that failed, or a use of deallocated memory
  ops

vars == <<strong, weak, ref, wref, taskRef, pc, phase, wanted, queued,
          destructed, freed, queue, failed, ops>>

Phase == {"stopped", "running", "stopping", "destroyed"}
Task == {"start", "restart", "process", "gc", "delete"}
Pc == {"idle", "unique", "post", "destruct", "release", "check"}

TypeOK ==
  /\ strong \in Int /\ weak \in Int
  /\ ref \in SUBSET Actors /\ wref \in SUBSET Actors
  /\ taskRef \in BOOLEAN /\ wanted \in BOOLEAN /\ queued \in BOOLEAN
  /\ destructed \in BOOLEAN /\ freed \in BOOLEAN
  /\ pc \in [Actors -> Pc]
  /\ phase \in Phase
  /\ queue \in [Actors -> Seq(Task)]
  /\ failed \in {"none", "revived", "freed"}
  /\ ops \in 0..MaxOps

\* allocate and init: one actor owns the only Ref; weak_ counts the Refs as 1.
Init ==
  /\ strong = 1 /\ weak = 1
  /\ \E a \in Actors : ref = {a}
  /\ wref = {} /\ taskRef = FALSE
  /\ pc = [a \in Actors |-> "idle"]
  /\ phase = "stopped" /\ wanted = FALSE /\ queued = FALSE
  /\ destructed = FALSE /\ freed = FALSE
  /\ queue = [a \in Actors |-> <<>>]
  /\ failed = "none" /\ ops = 0

-----------------------------------------------------------------------------
(* The control block. *)

Locked == phase \in {"running", "stopping"}

\* decrease(strong_arg_t): which callback the caller owes next.
DecreaseStrong(a) ==
  /\ strong' = strong - 1
  /\ pc' = [pc EXCEPT ![a] = CASE strong = 1 -> "destruct"
                               [] strong = 2 -> "unique"
                               [] OTHER -> "idle"]

\* decrease(weak_arg_t).
DecreaseWeak ==
  /\ weak' = weak - 1
  /\ freed' = (freed \/ weak = 1)

Post(a, task) == queue' = [queue EXCEPT ![a] = Append(@, task)]

NewOp == ops < MaxOps /\ ops' = ops + 1

\* Actor a copies its Ref for actor b.
Copy(a, b) ==
  /\ NewOp
  /\ a \in ref /\ b \notin ref
  /\ strong' = strong + 1
  /\ ref' = ref \cup {b}
  /\ UNCHANGED <<weak, wref, taskRef, pc, phase, wanted, queued, destructed,
                 freed, queue, failed>>

\* weakOf on a service the actor references.
MakeWeak(a) ==
  /\ NewOp
  /\ a \in ref /\ a \notin wref
  /\ weak' = weak + 1
  /\ wref' = wref \cup {a}
  /\ UNCHANGED <<strong, ref, taskRef, pc, phase, wanted, queued, destructed,
                 freed, queue, failed>>

\* Mutant of LockWeak: try_increase does not look for a count of zero.
LockExpired(a) ==
  /\ NewOp
  /\ a \in wref /\ a \notin ref
  /\ strong' = strong + 1
  /\ ref' = ref \cup {a}
  /\ UNCHANGED <<weak, wref, taskRef, pc, phase, wanted, queued, destructed,
                 freed, queue, failed>>

\* WeakRef::lock that succeeds; one that fails changes nothing.
LockWeak(a) ==
  /\ NewOp
  /\ a \in wref /\ a \notin ref
  /\ strong > 0
  /\ strong' = strong + 1
  /\ ref' = ref \cup {a}
  /\ UNCHANGED <<weak, wref, taskRef, pc, phase, wanted, queued, destructed,
                 freed, queue, failed>>

\* A Ref is reset or destructed.
Drop(a) ==
  /\ pc[a] = "idle"
  /\ a \in ref
  /\ ref' = ref \ {a}
  /\ DecreaseStrong(a)
  /\ UNCHANGED <<weak, wref, taskRef, phase, wanted, queued, destructed,
                 freed, queue, failed, ops>>

\* A WeakRef is reset or destructed.
DropWeak(a) ==
  /\ a \in wref
  /\ wref' = wref \ {a}
  /\ DecreaseWeak
  /\ UNCHANGED <<strong, ref, taskRef, pc, phase, wanted, queued, destructed,
                 queue, failed, ops>>

-----------------------------------------------------------------------------
(* The callbacks of the control block: on_unique, on_destruct. *)

\* garbage_collector::immediate_stop.
ImmediateStop ==
  /\ phase' = IF phase = "running" THEN "stopping" ELSE phase
  /\ wanted' = (wanted /\ phase # "running")

\* on_service_unique on the event loop.
OnUniqueLoop ==
  /\ pc[Loop] = "unique" /\ ~freed
  /\ pc' = [pc EXCEPT ![Loop] = "idle"]
  /\ ImmediateStop
  /\ UNCHANGED <<strong, weak, ref, wref, taskRef, queued, destructed, freed,
                 queue, failed, ops>>

\* on_service_unique elsewhere: a service that is destroyed is left alone.
OnUnique(a) ==
  /\ a # Loop /\ pc[a] = "unique" /\ ~freed
  /\ pc' = [pc EXCEPT ![a] = IF phase = "destroyed" THEN "idle" ELSE "post"]
  /\ UNCHANGED <<strong, weak, ref, wref, taskRef, phase, wanted, queued,
                 destructed, freed, queue, failed, ops>>

\* Mutant of PostGc: the task is lost.
PostNoGc(a) ==
  /\ pc[a] = "post" /\ ~freed
  /\ pc' = [pc EXCEPT ![a] = "idle"]
  /\ UNCHANGED <<strong, weak, queue, ref, wref, taskRef, phase, wanted, queued,
                 destructed, freed, failed, ops>>

\* The task of on_service_unique that stops the service is posted.
PostGc(a) ==
  /\ pc[a] = "post" /\ ~freed
  /\ pc' = [pc EXCEPT ![a] = "idle"]
  /\ weak' = weak + 1
  /\ Post(a, "gc")
  /\ UNCHANGED <<strong, ref, wref, taskRef, phase, wanted, queued,
                 destructed, freed, failed, ops>>

\* on_service_unique reads the service after it was deallocated: it finds
\* something that makes it return, or anything else.
OnUniqueFreed(a) ==
  /\ pc[a] \in {"unique", "post"} /\ freed
  /\ pc' = [pc EXCEPT ![a] = "idle"]
  /\ failed' \in {"none", "freed"}
  /\ UNCHANGED <<strong, weak, ref, wref, taskRef, phase, wanted, queued,
                 destructed, freed, queue, ops>>

\* Mutant of OnDestruct: the deleter does not keep the control block.
OnDestructUnowned(a) ==
  /\ pc[a] = "destruct"
  /\ pc' = [pc EXCEPT ![a] = "release"]
  /\ IF phase = "destroyed"
     THEN destructed' = TRUE /\ UNCHANGED queue
     ELSE Post(a, "delete") /\ UNCHANGED destructed
  /\ UNCHANGED <<strong, weak, ref, wref, taskRef, phase, wanted, queued, freed,
                 failed, ops>>

\* service_deleter::on_destruct: a destroyed service is destructed in place,
\* others by a task of the event loop that keeps the control block.
OnDestruct(a) ==
  /\ pc[a] = "destruct"
  /\ pc' = [pc EXCEPT ![a] = "release"]
  /\ IF phase = "destroyed"
     THEN destructed' = TRUE /\ UNCHANGED <<queue, weak>>
     ELSE Post(a, "delete") /\ weak' = weak + 1 /\ UNCHANGED destructed
  /\ UNCHANGED <<strong, ref, wref, taskRef, phase, wanted, queued, freed,
                 failed, ops>>

\* The strong references give up their weak count.
ReleaseWeak(a) ==
  /\ pc[a] = "release"
  /\ pc' = [pc EXCEPT ![a] = "idle"]
  /\ DecreaseWeak
  /\ UNCHANGED <<strong, ref, wref, taskRef, phase, wanted, queued,
                 destructed, queue, failed, ops>>

-----------------------------------------------------------------------------
(* Requests, and the event loop between two tasks. *)

\* Service::start: request_start posts a task that holds a WeakRef.
RequestStart(a) ==
  /\ NewOp
  /\ a \in ref
  /\ weak' = weak + 1
  /\ Post(a, "start")
  /\ UNCHANGED <<strong, ref, wref, taskRef, pc, phase, wanted, queued,
                 destructed, freed, failed>>

LoopFree == pc[Loop] = "idle" /\ ~taskRef

\* The scheduler is told to start the service: it goes to the queue unless it
\* is locked, and iterate() posts one run of process().
QueueStart(posted) ==
  /\ queued' = (queued \/ phase = "stopped")
  /\ queue' = IF phase = "stopped" /\ ~\E i \in 1..Len(posted[Loop]) :
                                          posted[Loop][i] = "process"
              THEN [posted EXCEPT ![Loop] = Append(@, "process")]
              ELSE posted

\* A user of the service is started, on_service_start_request reaches the
\* service through the dependency graph.  The user owns no Ref of it.
UserStart ==
  /\ NewOp
  /\ LoopFree
  /\ phase # "destroyed"
  /\ wanted' = TRUE
  /\ QueueStart(queue)
  /\ UNCHANGED <<strong, weak, ref, wref, taskRef, pc, phase, destructed,
                 freed, failed>>

\* The service is stopped for another reason than being unreferenced.
RequestStop ==
  /\ LoopFree
  /\ phase # "destroyed"
  /\ phase' = IF phase = "running" THEN "stopping" ELSE phase
  /\ wanted' = FALSE
  /\ UNCHANGED <<strong, weak, ref, wref, taskRef, pc, queued, destructed,
                 freed, queue, failed, ops>>

\* do_unlock_cluster: onStop is done.  A service that shall start again posts
\* a check that holds a WeakRef; then the collector gives its reference up.
Unlock ==
  /\ LoopFree
  /\ phase = "stopping"
  /\ phase' = "stopped"
  /\ IF wanted THEN Post(Loop, "restart") /\ weak' = weak + 1
               ELSE UNCHANGED <<queue, weak>>
  /\ DecreaseStrong(Loop)
  /\ UNCHANGED <<ref, wref, taskRef, wanted, queued, destructed, freed, failed,
                 ops>>

\* The owner of the service destroys its children: Collection::clear.
ParentDestroy ==
  /\ LoopFree
  /\ phase = "stopped" /\ ~destructed
  /\ phase' = "destroyed"
  /\ queued' = FALSE
  /\ UNCHANGED <<strong, weak, ref, wref, taskRef, pc, wanted, destructed,
                 freed, queue, failed, ops>>

-----------------------------------------------------------------------------
(* The tasks of the event loop.  The producers' queues are unordered. *)

Take(a, task) ==
  /\ LoopFree
  /\ queue[a] # <<>> /\ Head(queue[a]) = task

Taken(a) == [queue EXCEPT ![a] = Tail(@)]

\* The WeakRef of a task does not lock any more.
TaskExpired(a) ==
  /\ \E task \in {"start", "restart", "gc"} : Take(a, task)
  /\ strong = 0
  /\ DecreaseWeak
  /\ queue' = Taken(a)
  /\ UNCHANGED <<strong, ref, wref, taskRef, pc, phase, wanted, queued,
                 destructed, failed, ops>>

\* request_start or the check of do_unlock_cluster, with a Ref that is owned
\* until the task ends.
TaskStart(a) ==
  /\ \/ Take(a, "start") /\ wanted' = (wanted \/ phase # "destroyed")
     \/ Take(a, "restart") /\ UNCHANGED wanted
  /\ strong > 0
  /\ strong' = strong + 1
  /\ taskRef' = TRUE
  /\ weak' = weak - 1
  /\ IF wanted' THEN QueueStart(Taken(a))
                ELSE queue' = Taken(a) /\ UNCHANGED queued
  /\ UNCHANGED <<ref, wref, pc, phase, destructed, freed, failed, ops>>

\* The task of on_service_unique locks its WeakRef ...
TaskGc(a) ==
  /\ Take(a, "gc")
  /\ strong > 0
  /\ strong' = strong + 1
  /\ taskRef' = TRUE
  /\ weak' = weak - 1
  /\ pc' = [pc EXCEPT ![Loop] = "check"]
  /\ queue' = Taken(a)
  /\ UNCHANGED <<ref, wref, phase, wanted, queued, destructed, freed, failed,
                 ops>>

\* ... and stops the service if only the collector and the task reference it.
GcCheck ==
  /\ pc[Loop] = "check"
  /\ pc' = [pc EXCEPT ![Loop] = "idle"]
  /\ IF strong = 2 THEN ImmediateStop ELSE UNCHANGED <<phase, wanted>>
  /\ UNCHANGED <<strong, weak, ref, wref, taskRef, queued, destructed, freed,
                 queue, failed, ops>>

\* The task ends and its Ref is destructed.
TaskEnd ==
  /\ pc[Loop] = "idle" /\ taskRef
  /\ taskRef' = FALSE
  /\ DecreaseStrong(Loop)
  /\ UNCHANGED <<weak, ref, wref, phase, wanted, queued, destructed, freed,
                 queue, failed, ops>>

\* Mutant of TaskProcess: locking the service takes no reference.
ProcessUnowned ==
  /\ Take(Loop, "process")
  /\ queue' = Taken(Loop)
  /\ queued' = FALSE
  /\ IF queued /\ wanted /\ phase = "stopped"
     THEN phase' = "running"
     ELSE UNCHANGED phase
  /\ UNCHANGED <<strong, failed, weak, ref, wref, taskRef, pc, wanted,
                 destructed, freed, ops>>

\* Scheduler::process starts a queued service: do_lock_cluster first takes the
\* collector's reference, which asserts that the count is not zero.
TaskProcess ==
  /\ Take(Loop, "process")
  /\ queue' = Taken(Loop)
  /\ queued' = FALSE
  /\ IF queued /\ wanted /\ phase = "stopped"
     THEN IF strong = 0 THEN failed' = "revived" /\ UNCHANGED <<strong, phase>>
                        ELSE /\ strong' = strong + 1
                             /\ phase' = "running"
                             /\ UNCHANGED failed
     ELSE UNCHANGED <<strong, phase, failed>>
  /\ UNCHANGED <<weak, ref, wref, taskRef, pc, wanted, destructed, freed, ops>>

\* async_deleter: destroy(), unless it was destroyed meanwhile, ~Service, and
\* the WeakRefCounter is reset.
TaskDelete(a) ==
  /\ Take(a, "delete")
  /\ phase' = "destroyed"
  /\ queued' = FALSE
  /\ destructed' = TRUE
  /\ queue' = Taken(a)
  /\ DecreaseWeak
  /\ UNCHANGED <<strong, ref, wref, taskRef, pc, wanted, failed, ops>>

-----------------------------------------------------------------------------
Callback ==
  \/ OnUniqueLoop
  \/ \E a \in Actors : \/ OnUnique(a) \/ PostGc(a) \/ OnUniqueFreed(a)
                       \/ OnDestruct(a) \/ ReleaseWeak(a)

LoopStep ==
  \/ Unlock \/ GcCheck \/ TaskEnd \/ TaskProcess
  \/ \E a \in Actors : TaskExpired(a) \/ TaskStart(a) \/ TaskGc(a)
                       \/ TaskDelete(a)

Request ==
  \/ UserStart \/ RequestStop \/ ParentDestroy
  \/ \E a \in Actors : \/ MakeWeak(a) \/ LockWeak(a) \/ Drop(a) \/ DropWeak(a)
                       \/ RequestStart(a)
                       \/ \E b \in Actors : Copy(a, b)

Next == failed = "none" /\ (Callback \/ LoopStep \/ Request)

Spec == Init /\ [][Next]_vars

\* A thread that decreased a count goes on to the callback, the event loop runs
\* what was posted and onStop ends.  Nobody has to drop a reference.
Fairness ==
  /\ WF_vars(failed = "none" /\ LoopStep)
  /\ WF_vars(failed = "none" /\ OnUniqueLoop)
  /\ \A a \in Actors :
       WF_vars(failed = "none" /\ (\/ OnUnique(a) \/ PostGc(a) \/ OnUniqueFreed(a)
                                   \/ OnDestruct(a) \/ ReleaseWeak(a)))

FairSpec == Spec /\ Fairness

-----------------------------------------------------------------------------
(* Properties. *)

AsCount(b) == IF b THEN 1 ELSE 0

\* strong_ counts the Refs, the one of the running task and the one the garbage
\* collector holds from do_lock_cluster to do_unlock_cluster, and no others:
\* on_unique compares with it.
StrongExact ==
  strong = Cardinality(ref) + AsCount(taskRef) + AsCount(Locked)

Referenced == ref # {} \/ taskRef \/ Locked

Posted(task) ==
  \E a \in Actors : \E i \in 1..Len(queue[a]) : queue[a][i] = task

\* The destructor of a service runs only when no Ref to it exists and it is
\* not locked, whoever runs it and wherever.
AliveWhileReferenced == Referenced => ~destructed

\* The control block outlives every Ref, every WeakRef and every posted task
\* that owns one of them.
BlockOutlives ==
  \/ Referenced \/ wref # {}
  \/ \E task \in Task \ {"process"} : Posted(task)
  => ~freed

\* The destructor runs at most once: a deleter that is still posted finds a
\* service that is not destructed, and no service is destructed that one more
\* actor is about to destruct.
DestructedOnce ==
  Posted("delete") \/ (\E a \in Actors : pc[a] = "destruct") => ~destructed

\* Once a service is about to be destructed its count is zero and stays zero.
ZeroIsFinal ==
  destructed \/ Posted("delete")
    \/ (\E a \in Actors : pc[a] \in {"destruct", "release"})
  => strong = 0

\* The inductive invariant behind StrongExact and AliveWhileReferenced.
IInv == TypeOK /\ StrongExact /\ ZeroIsFinal

\* What the queue of the scheduler points to is not destructed: destroy() takes
\* the service out of it (Scheduler::on_service_destroy).
QueuedAlive == queued => ~destructed

\* Nothing that will still be used is gone: the block of a reference, the
\* service of a posted deleter and the service in the queue.
NothingDangles == BlockOutlives /\ DestructedOnce /\ QueuedAlive

\* "Services not referenced anymore are stopped and garbage-collected
\* automatically": once the last Ref is gone the service is stopped, destroyed
\* and destructed, unless a WeakRef is locked in time.
Collected ==
  (ref = {} /\ failed = "none")
    ~> (destructed \/ ref # {} \/ failed # "none")
===============================================================================
