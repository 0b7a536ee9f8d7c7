------------------------------ MODULE EventLoop ------------------------------
(***************************************************************************)
(* The event loop executor of a Context: EventLoopExecutorImpl, with the   *)
(* two parts of ContextImpl that drive it (run_impl posts the start of the *)
(* root, stop_impl posts its stop).                                        *)
(*                                                                         *)
(* One thread runs run_ev().  Any other thread may call queue(), which is  *)
(* three separate steps: is_running(), queue_.enqueue(), notify_one().     *)
(* None of the three takes mutex_, so that mutex, which only run_ev locks, *)
(* orders nothing between a poster and the loop; it is not modelled.       *)
(*                                                                         *)
(* queue_ is a moodycamel::ConcurrentQueue.  Context documents that the    *)
(* input order of work is not preserved, so the queue is a set.            *)
(***************************************************************************)
EXTENDS Naturals, FiniteSets

CONSTANTS
  Task,        \* work posted by threads other than the loop (one thread each)
  LoopTask,    \* work posted by a handler that runs on the loop
  Stop,        \* the work of Context::stop, posted by another thread
  StartRoot,   \* the work run_impl posts before it enters the loop
  Iterate,     \* the scheduler's iteration that stops the root
  SetStopping  \* the work onImportUnlock posts

OffLoop  == Task \cup {Stop}
LoopWork == LoopTask \cup {StartRoot, Iterate, SetStopping}
Work     == OffLoop \cup LoopWork

\* The names denote different pieces of work.
ASSUME WorkDistinct ==
  /\ Task \cap LoopTask = {}
  /\ {Stop, StartRoot, Iterate, SetStopping} \cap (Task \cup LoopTask) = {}
  /\ Stop \notin {StartRoot, Iterate, SetStopping}
  /\ StartRoot \notin {Iterate, SetStopping}
  /\ Iterate # SetStopping

VARIABLES
  state,        \* state_
  pc,           \* where the loop thread is inside run_ev
  queue,        \* queue_
  poster,       \* where the posting thread of each OffLoop work is in queue()
  executed,     \* how often set_value was called on a work
  canceled,     \* the work on which set_canceled was called
  rootRunning   \* the root service is running

vars == <<state, pc, queue, poster, executed, canceled, rootRunning>>

State   == {"ready", "running", "stopping", "destroyed", "stopped"}
LoopPc  == {"prepare", "dispatch", "check", "waiting", "destroy", "leave",
            "drain", "assert", "done"}
PosterPc == {"idle", "checked", "enqueued", "returned"}

TypeOK ==
  /\ state \in State
  /\ pc \in LoopPc
  /\ queue \subseteq Work
  /\ poster \in [OffLoop -> PosterPc]
  /\ executed \in [Work -> Nat]
  /\ canceled \subseteq Work
  /\ rootRunning \in BOOLEAN

is_running == state \in {"ready", "running", "stopping"}

-----------------------------------------------------------------------------
\* run_impl has posted the start of the root; the loop has not been prepared.
Init ==
  /\ state = "ready"
  /\ pc = "prepare"
  /\ queue = {StartRoot}
  /\ poster = [w \in OffLoop |-> "idle"]
  /\ executed = [w \in Work |-> 0]
  /\ canceled = {}
  /\ rootRunning = FALSE

\* queue() on a thread other than the loop, first half: the state is read.
QueueCheck(w) ==
  /\ poster[w] = "idle"
  /\ IF is_running
     THEN /\ poster' = [poster EXCEPT ![w] = "checked"]
          /\ UNCHANGED canceled
     ELSE /\ poster' = [poster EXCEPT ![w] = "returned"]
          /\ canceled' = canceled \cup {w}
  /\ UNCHANGED <<state, pc, queue, executed, rootRunning>>

\* queue_.enqueue(work)
QueueEnqueue(w) ==
  /\ poster[w] = "checked"
  /\ poster' = [poster EXCEPT ![w] = "enqueued"]
  /\ queue' = queue \cup {w}
  /\ UNCHANGED <<state, pc, executed, canceled, rootRunning>>

\* condition_.notify_one(): only a thread that already waits is woken.
QueueNotify(w) ==
  /\ poster[w] = "enqueued"
  /\ poster' = [poster EXCEPT ![w] = "returned"]
  /\ pc' = IF pc = "waiting" THEN "dispatch" ELSE pc
  /\ UNCHANGED <<state, queue, executed, canceled, rootRunning>>

-----------------------------------------------------------------------------
\* queue() on the loop thread, for the works in S, once the work in Done has
\* been taken from the queue: the state cannot change between the test and
\* enqueue, and nobody is there to be notified.
QueueFromLoop(S, Done) ==
  /\ queue' = (queue \ Done) \cup (IF is_running THEN S ELSE {})
  /\ canceled' = canceled \cup (IF is_running THEN {} ELSE S)

\* Work of the loop thread that was not posted yet.
Unposted(S) == {w \in S : w \notin queue /\ executed[w] = 0 /\ w \notin canceled}

prepare_ev ==
  /\ pc = "prepare"
  /\ state' = "running"
  /\ pc' = "dispatch"
  /\ UNCHANGED <<queue, poster, executed, canceled, rootRunning>>

\* Mutant of Posts: stop does not wait until the root is unlocked.
PostsStoppingAtOnce(w) ==
  CASE w \in Task             -> SUBSET Unposted(LoopTask)
    [] w = Stop /\ rootRunning -> {Unposted({SetStopping})}
    [] OTHER                   -> {{}}

\* What a dispatched handler posts.  A stop of a root that is not running
\* resolves at once (request_stop), otherwise the scheduler iterates; the
\* iteration unlocks the root, whose onImportUnlock posts SetStopping.
Posts(w) ==
  CASE w \in Task             -> SUBSET Unposted(LoopTask)
    [] w = Stop /\ rootRunning -> {Unposted({Iterate})}
    [] w = Iterate             -> {Unposted({SetStopping})}
    [] OTHER                   -> {{}}

\* Mutant of Dispatch: the work is called without being taken out of queue_.
DispatchKeeps(w) ==
  /\ pc \in {"dispatch", "drain"}
  /\ w \in queue /\ executed[w] < 2
  /\ executed' = [executed EXCEPT ![w] = @ + 1]
  /\ \E S \in Posts(w) : QueueFromLoop(S, {})
  /\ UNCHANGED <<state, rootRunning, pc, poster>>

\* One successful try_dequeue of dispatch_all and the call of its handler.
Dispatch(w) ==
  /\ pc \in {"dispatch", "drain"}
  /\ w \in queue
  /\ executed' = [executed EXCEPT ![w] = @ + 1]
  /\ \E S \in Posts(w) : QueueFromLoop(S, {w})
  /\ state' = IF w = SetStopping THEN "stopping" ELSE state
  /\ rootRunning' = CASE w = StartRoot -> TRUE
                      [] w = Iterate -> FALSE
                      [] OTHER -> rootRunning
  /\ UNCHANGED <<pc, poster>>

\* Mutant of DispatchAllReturns: only some of the work is dispatched.
DispatchSomeReturns ==
  /\ pc = "dispatch"
  /\ pc' = "check"
  /\ UNCHANGED <<state, queue, poster, executed, canceled, rootRunning>>

\* try_dequeue found the queue empty: dispatch_all returns into the loop.
DispatchAllReturns ==
  /\ pc = "dispatch"
  /\ queue = {}
  /\ pc' = "check"
  /\ UNCHANGED <<state, queue, poster, executed, canceled, rootRunning>>

\* The test for stopping, and condition_.wait(lock).
CheckStopping ==
  /\ pc = "check"
  /\ pc' = IF state = "stopping" THEN "destroy" ELSE "waiting"
  /\ UNCHANGED <<state, queue, poster, executed, canceled, rootRunning>>

\* condition_.wait has no predicate and may return spuriously.
SpuriousWakeup ==
  /\ pc = "waiting"
  /\ pc' = "dispatch"
  /\ UNCHANGED <<state, queue, poster, executed, canceled, rootRunning>>

\* All services and the root are destroyed; their handlers may post work.
DestroyServices ==
  /\ pc = "destroy"
  /\ \E S \in SUBSET Unposted(LoopTask) : QueueFromLoop(S, {})
  /\ pc' = "leave"
  /\ UNCHANGED <<state, poster, executed, rootRunning>>

SetDestroyed ==
  /\ pc = "leave"
  /\ state' = "destroyed"
  /\ pc' = "drain"
  /\ UNCHANGED <<queue, poster, executed, canceled, rootRunning>>

\* Mutant of SetStopped: run_ev returns without the second dispatch_all.
SetStoppedNoDrain ==
  /\ pc = "drain"
  /\ state' = "stopped"
  /\ pc' = "assert"
  /\ UNCHANGED <<queue, poster, executed, canceled, rootRunning>>

\* The second dispatch_all found the queue empty.
SetStopped ==
  /\ pc = "drain"
  /\ queue = {}
  /\ state' = "stopped"
  /\ pc' = "assert"
  /\ UNCHANGED <<queue, poster, executed, canceled, rootRunning>>

\* The last assertion of run_ev is evaluated and run_ev returns.
ReturnFromRun ==
  /\ pc = "assert"
  /\ pc' = "done"
  /\ UNCHANGED <<state, queue, poster, executed, canceled, rootRunning>>

run_ev ==
  \/ prepare_ev
  \/ \E w \in Work : Dispatch(w)
  \/ DispatchAllReturns
  \/ CheckStopping
  \/ DestroyServices
  \/ SetDestroyed
  \/ SetStopped
  \/ ReturnFromRun

queue_proc(w) == QueueEnqueue(w) \/ QueueNotify(w)

Next ==
  \/ run_ev
  \/ SpuriousWakeup
  \/ \E w \in OffLoop : QueueCheck(w) \/ queue_proc(w)

\* The loop thread and a thread inside queue() are scheduled again and again;
\* nobody has to post, and no wakeup has to be spurious.
Fairness == WF_vars(run_ev) /\ \A w \in OffLoop : WF_vars(queue_proc(w))

Spec == Init /\ [][Next]_vars /\ Fairness

-----------------------------------------------------------------------------
Completed(w) == executed[w] > 0 \/ w \in canceled

\* A handler is called at most once, and never both with a value and with the
\* cancellation; what still waits in queue_ has not been called at all
\* (a promise resolved twice is what queue() and dispatch_all must exclude).
CompletedOnce ==
  \A w \in Work :
    /\ executed[w] <= 1
    /\ executed[w] = 1 => w \notin canceled
    /\ w \in queue => ~Completed(w)

\* Work that the loop thread itself posts is never abandoned in the queue when
\* run_ev returns: the drain after destroyed empties what was accepted and
\* queue() refuses the rest.
LoopWorkNeverLost == pc \in {"assert", "done"} => queue \cap LoopWork = {}

\* The root has been stopped before run_ev starts to destroy the services
\* (run_ev asserts that each of them is stopped).
RootStoppedBeforeDestroy ==
  pc \in {"destroy", "leave", "drain", "assert", "done"} => ~rootRunning

\* Work posted from the event loop is dispatched (or refused): dispatch_all
\* only returns on an empty queue, so the loop never sleeps on its own work.
LoopWorkCompletes ==
  \A w \in LoopWork : (w \in queue) ~> Completed(w)

\* Once the root is unlocked run_ev returns.
StoppingReturns == (state = "stopping") ~> (pc = "done")

\* The loop serves its own work and comes to its end.
LoopProgresses == LoopWorkCompletes /\ StoppingReturns

\* Context::stop "lets run return with the given exit code": a stop that was
\* accepted while the root was running lets run_ev return.
AcceptedStopLetsRunReturn ==
  (Stop \in queue /\ rootRunning /\ state = "running") ~> (pc = "done")
=============================================================================
