----------------------------- MODULE ThreadPart -----------------------------
(***************************************************************************)
(* The Thread part (idle::Thread): a std::thread that is launched when its *)
(* service starts and stopped when its service stops.                      *)
(*                                                                         *)
(* Two processes: the event loop thread, which calls launch(),             *)
(* requestStop() and join_and_reset(), and the launched thread.  state_ is *)
(* an atomic that both sides store to, not always under mutex_.  The model *)
(* follows a build without IDLE_ASSERT: what the code asserts is stated as *)
(* a property instead.                                                     *)
(*                                                                         *)
(* onRun is a user hook.  It may return or throw by itself, and it ends    *)
(* once isStopRequested() tells it to, as the loops in the repository poll *)
(* it.  onStopRequested does nothing by default and wakes nobody here.     *)
(***************************************************************************)
EXTENDS Naturals

CONSTANT MaxLaunches   \* how often the service is started in a behaviour
ASSUME MaxLaunchesAssumption == MaxLaunches \in Nat \ {0}

VARIABLES
  state,     \* state_
  promise,   \* promise_: the promise of launch, of requestStop, or none
  exception, \* exception_ is set
  thread,    \* thread_ holds a joinable std::thread
  mutex,     \* who holds mutex_
  tpc,       \* where the launched thread is
  lpc,       \* where the event loop is with this part
  seen,      \* requestStop's local copy of the state
  result,    \* how the promise of launch and of requestStop was resolved
  launches   \* number of launches so far

vars == <<state, promise, exception, thread, mutex, tpc, lpc, seen,
          result, launches>>

ThreadState == {"stopped", "launching", "running", "finished",
                "stop_requested"}
TPc == {"none", "spawned", "onLaunch", "launchLock", "launched", "failLock",
        "onRun", "runLock", "throwLock", "exited"}
LPc == {"idle", "launching", "started", "requested", "sawState", "stopLocked",
        "hook", "stopping", "join"}
Outcome == {"none", "pending", "value", "exception"}

TypeOK ==
  /\ state \in ThreadState
  /\ promise \in {"none", "launch", "stop"}
  /\ exception \in BOOLEAN /\ thread \in BOOLEAN
  /\ mutex \in {"free", "thread", "loop"}
  /\ tpc \in TPc
  /\ lpc \in LPc
  /\ seen \in ThreadState
  /\ result \in [{"launch", "stop"} -> Outcome]
  /\ launches \in 0..MaxLaunches

Init ==
  /\ state = "stopped" /\ promise = "none" /\ exception = FALSE
  /\ thread = FALSE /\ mutex = "free" /\ tpc = "none" /\ lpc = "idle"
  /\ seen = "stopped"
  /\ result = [p \in {"launch", "stop"} |-> "none"]
  /\ launches = 0

\* promise_.set_value() / promise_.set_exception(): promise_ is empty after.
Resolve(outcome) ==
  /\ result' = IF promise = "none" THEN result
               ELSE [result EXCEPT ![promise] = outcome]
  /\ promise' = "none"

-----------------------------------------------------------------------------
(* The event loop. *)

\* Thread::launch: the promise is stored and the std::thread is created.
Launch ==
  /\ lpc = "idle"
  /\ launches < MaxLaunches
  /\ launches' = launches + 1
  /\ promise' = "launch"
  /\ result' = [p \in {"launch", "stop"} |->
                  IF p = "launch" THEN "pending" ELSE "none"]
  /\ thread' = TRUE
  /\ tpc' = "spawned"
  /\ lpc' = "launching"
  /\ UNCHANGED <<state, exception, mutex, seen>>

\* The resolved launch reaches the event loop: the service is running, or the
\* fail continuation joins the thread.
LaunchResolved ==
  /\ lpc = "launching"
  /\ result["launch"] \in {"value", "exception"}
  /\ lpc' = IF result["launch"] = "value" THEN "started" ELSE "join"
  /\ UNCHANGED <<state, promise, exception, thread, mutex, tpc, seen,
                 result, launches>>

\* Service::onStop calls requestStop.
RequestStop ==
  /\ lpc = "started"
  /\ lpc' = "requested"
  /\ result' = [result EXCEPT !["stop"] = "pending"]
  /\ UNCHANGED <<state, promise, exception, thread, mutex, tpc, seen,
                 launches>>

\* auto const state = current_state(), before the mutex is taken.
RequestStopRead ==
  /\ lpc = "requested"
  /\ seen' = state
  /\ lpc' = "sawState"
  /\ UNCHANGED <<state, promise, exception, thread, mutex, tpc, result,
                 launches>>

RequestStopLock ==
  /\ lpc = "sawState"
  /\ mutex = "free"
  /\ mutex' = "loop"
  /\ lpc' = "stopLocked"
  /\ UNCHANGED <<state, promise, exception, thread, tpc, seen, result,
                 launches>>

\* The critical section of requestStop: a thread that was seen finished is
\* set to stopped and the stop resolves, otherwise the stop is requested.
RequestStopCommit ==
  /\ lpc = "stopLocked"
  /\ mutex' = "free"
  /\ IF seen = "finished"
     THEN /\ state' = "stopped"
          /\ result' = [result EXCEPT !["stop"] =
                          IF exception THEN "exception" ELSE "value"]
          /\ exception' = FALSE
          /\ lpc' = "stopping"
          /\ UNCHANGED promise
     ELSE /\ promise' = "stop"
          /\ state' = "stop_requested"
          /\ lpc' = "hook"
          /\ UNCHANGED <<result, exception>>
  /\ UNCHANGED <<thread, tpc, seen, launches>>

\* onStopRequested(), after the mutex was released: the default hook, which
\* does nothing.
OnStopRequested ==
  /\ lpc = "hook"
  /\ lpc' = "stopping"
  /\ UNCHANGED <<state, promise, exception, thread, mutex, tpc, seen, result,
                 launches>>

\* The resolved stop reaches the event loop through post.
StopResolved ==
  /\ lpc = "stopping"
  /\ result["stop"] \in {"value", "exception"}
  /\ lpc' = "join"
  /\ UNCHANGED <<state, promise, exception, thread, mutex, tpc, seen,
                 result, launches>>

\* join_and_reset: join() returns when the thread has returned.
JoinAndReset ==
  /\ lpc = "join"
  /\ tpc = "exited"
  /\ tpc' = "none"
  /\ thread' = FALSE
  /\ lpc' = "idle"
  /\ UNCHANGED <<state, promise, exception, mutex, seen, result,
                 launches>>

-----------------------------------------------------------------------------
(* The launched thread. *)

\* The thread stores its handle and launching, onLaunch is about to run.
ThreadBegin ==
  /\ tpc = "spawned"
  /\ state' = "launching"
  /\ tpc' = "onLaunch"
  /\ UNCHANGED <<promise, exception, thread, mutex, lpc, seen, result,
                 launches>>

\* onLaunch returns or throws; either way the thread then takes the mutex.
OnLaunch ==
  /\ tpc = "onLaunch"
  /\ mutex = "free"
  /\ mutex' = "thread"
  /\ tpc' \in {"launchLock", "failLock"}
  /\ UNCHANGED <<state, promise, exception, thread, lpc, seen, result,
                 launches>>

\* Mutant of LaunchFailed: the failure is not reported.
LaunchFailedSilently ==
  /\ tpc = "failLock"
  /\ state' = "stopped"
  /\ mutex' = "free"
  /\ tpc' = "exited"
  /\ UNCHANGED <<promise, result, exception, thread, lpc, seen, launches>>

LaunchFailed ==
  /\ tpc = "failLock"
  /\ state' = "stopped"
  /\ Resolve("exception")
  /\ mutex' = "free"
  /\ tpc' = "exited"
  /\ UNCHANGED <<exception, thread, lpc, seen, launches>>

LaunchSucceeded ==
  /\ tpc = "launchLock"
  /\ Resolve("value")
  /\ mutex' = "free"
  /\ tpc' = "launched"
  /\ UNCHANGED <<state, exception, thread, lpc, seen, launches>>

\* state_.store(running), after the promise was resolved and mutex_ released.
StoreRunning ==
  /\ tpc = "launched"
  /\ state' = "running"
  /\ tpc' = "onRun"
  /\ UNCHANGED <<promise, exception, thread, mutex, lpc, seen, result,
                 launches>>

\* onRun returns by itself or throws by itself, then the thread locks mutex_.
OnRunEnds ==
  /\ tpc = "onRun"
  /\ mutex = "free"
  /\ mutex' = "thread"
  /\ tpc' \in {"runLock", "throwLock"}
  /\ UNCHANGED <<state, promise, exception, thread, lpc, seen, result,
                 launches>>

\* onRun ends because it polls isStopRequested().
OnRunStops == state = "stop_requested" /\ OnRunEnds

\* Mutant of RunCommit: a thread that was asked to stop reports finished.
RunCommitFinishes(outcome) ==
  /\ tpc = (IF outcome = "value" THEN "runLock" ELSE "throwLock")
  /\ Resolve(outcome)
  /\ state' = "finished"
  /\ UNCHANGED exception
  /\ mutex' = "free"
  /\ tpc' = "exited"
  /\ UNCHANGED <<thread, lpc, seen, launches>>

\* Mutant of RunCommit: what onRun throws is always kept for later.
RunCommitKeeps(outcome) ==
  /\ tpc = (IF outcome = "value" THEN "runLock" ELSE "throwLock")
  /\ IF state = "stop_requested" /\ outcome = "value"
     THEN /\ state' = "stopped"
          /\ Resolve(outcome)
          /\ UNCHANGED exception
     ELSE /\ state' = "finished"
          /\ exception' = IF outcome = "exception" THEN TRUE ELSE exception
          /\ UNCHANGED <<result, promise>>
  /\ mutex' = "free"
  /\ tpc' = "exited"
  /\ UNCHANGED <<thread, lpc, seen, launches>>

\* The critical section after onRun: a requested stop is resolved, a thread
\* that ended by itself is finished and keeps its exception for requestStop.
RunCommit(outcome) ==
  /\ tpc = (IF outcome = "value" THEN "runLock" ELSE "throwLock")
  /\ IF state = "stop_requested"
     THEN /\ state' = "stopped"
          /\ Resolve(outcome)
          /\ UNCHANGED exception
     ELSE /\ state' = "finished"
          /\ exception' = IF outcome = "exception" THEN TRUE ELSE exception
          /\ UNCHANGED <<result, promise>>
  /\ mutex' = "free"
  /\ tpc' = "exited"
  /\ UNCHANGED <<thread, lpc, seen, launches>>

LoopStep ==
  \/ LaunchResolved \/ RequestStopRead \/ RequestStopLock \/ RequestStopCommit
  \/ OnStopRequested \/ StopResolved \/ JoinAndReset

ThreadStep ==
  \/ ThreadBegin \/ OnLaunch \/ LaunchFailed \/ LaunchSucceeded \/ StoreRunning
  \/ OnRunStops \/ RunCommit("value") \/ RunCommit("exception")

Next == Launch \/ RequestStop \/ LoopStep \/ ThreadStep \/ OnRunEnds

\* Both threads are scheduled again and again and hooks return; the service
\* need not be started or stopped, and onRun need not end by itself.
Spec == Init /\ [][Next]_vars /\ WF_vars(LoopStep) /\ WF_vars(ThreadStep)

-----------------------------------------------------------------------------
\* What set_stopped, launch and join_and_reset assert: the part is reset when
\* it is launched again and the thread is over when it is joined.
JoinOnlyStopped ==
  /\ lpc = "join" => state = "stopped" /\ thread /\ promise = "none"
  /\ lpc = "idle" => state = "stopped" /\ ~thread /\ promise = "none"
                     /\ ~exception

\* "Resolves the returned promise when onLaunch has completed": a failed or a
\* successful launch always reaches the service, across restarts.
LaunchResolves == (lpc = "launching") ~> (lpc \in {"started", "join"})

(***************************************************************************)
(* A stop is answered and the thread is joined, so that the part can be    *)
(* launched again, when requestStop has the mutex while onRun is running,  *)
(* or had seen the thread finished.  That is all the code gives: two       *)
(* windows are left out on purpose.  A thread that ends between the read   *)
(* of state_ (thread.cpp:145) and the lock finds no promise, and a thread  *)
(* whose store of running (thread.cpp:96) comes after stop_requested never *)
(* sees the request; in both the stop stays pending for ever.              *)
(***************************************************************************)
RequestedStopResolves ==
  (lpc = "stopLocked" /\ (tpc = "onRun" \/ seen = "finished")) ~> (lpc = "idle")
=============================================================================
