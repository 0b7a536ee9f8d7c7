-------------------------- MODULE ThreadPartProofs --------------------------
(***************************************************************************)
(* The assertions of the Thread part, for any number of launches: the      *)
(* event loop and the launched thread never disagree on who resolves a     *)
(* promise, so a thread that is joined has stopped.                        *)
(***************************************************************************)
EXTENDS ThreadPart, TLAPS

LaunchPhase == {"spawned", "onLaunch", "launchLock", "failLock"}
RunPhase    == {"onRun", "runLock", "throwLock"}

\* mutex_ belongs to whoever is in one of its critical sections.
MutexInv ==
  /\ mutex = "loop" <=> lpc = "stopLocked"
  /\ mutex = "thread" <=> tpc \in {"launchLock", "failLock", "runLock", "throwLock"}

\* There is a thread from launch to join, and it leaves an exception only when
\* it ends.
LifeInv ==
  /\ thread <=> lpc # "idle"
  /\ tpc = "none" <=> lpc = "idle"
  /\ exception => tpc = "exited"

\* Until onLaunch is over the thread owes the answer of launch.
LaunchInv ==
  tpc \in LaunchPhase =>
    /\ lpc = "launching" /\ promise = "launch" /\ result["launch"] = "pending"
    /\ state = (IF tpc = "spawned" THEN "stopped" ELSE "launching")

\* Until a stop is requested state_ follows the thread: a launch that failed
\* leaves stopped and the exception, a thread that ran leaves finished.
RunInv ==
  (/\ lpc \in {"launching", "started", "requested", "sawState", "stopLocked"}
   /\ tpc \notin LaunchPhase) =>
    /\ promise = "none"
    /\ tpc = "launched" => state = "launching"
    /\ tpc \in RunPhase => state = "running"
    /\ tpc = "exited" =>
         \/ state = "finished"
         \/ lpc = "launching" /\ state = "stopped" /\ ~exception
    /\ lpc = "launching" =>
         result["launch"] = (IF state = "stopped" THEN "exception" ELSE "value")

\* finished is final until requestStop resets it: a copy of it is not stale.
SeenInv ==
  lpc \in {"sawState", "stopLocked"} /\ seen = "finished" => state = "finished"

\* A stop is pending until its promise is resolved, by the thread as its last
\* step or by requestStop for a thread that has ended, and it leaves stopped.
StopInv ==
  /\ lpc \in {"requested", "sawState", "stopLocked"} => result["stop"] = "pending"
  /\ lpc \in {"hook", "stopping"} =>
       IF result["stop"] = "pending"
       THEN promise = "stop" /\ (tpc = "launched" => state = "stop_requested")
       ELSE /\ tpc = "exited" /\ state = "stopped" /\ promise = "none"
            /\ ~exception
  /\ lpc = "join" => tpc = "exited" /\ ~exception

IInv == /\ TypeOK /\ MutexInv /\ LifeInv /\ LaunchInv /\ RunInv /\ SeenInv
        /\ StopInv /\ JoinOnlyStopped

-----------------------------------------------------------------------------
\* The part is created stopped, without a thread.
LEMMA InitTypeOK == Init => TypeOK
<1> SUFFICES ASSUME Init PROVE TypeOK
  OBVIOUS
<1>1. exception \in BOOLEAN /\ thread \in BOOLEAN
  BY Zenon DEF Init
<1> QED
  BY <1>1, MaxLaunchesAssumption DEF Init, TypeOK, ThreadState, TPc, LPc, Outcome

\* Every step keeps the types.
LEMMA TypeInductive == TypeOK /\ [Next]_vars => TypeOK'
<1> SUFFICES ASSUME TypeOK, [Next]_vars PROVE TypeOK'
  OBVIOUS
<1> USE DEF TypeOK, ThreadState, TPc, LPc, Outcome
<1>1. CASE Launch
  <2>1. thread' \in BOOLEAN
    BY <1>1, Zenon DEF Launch
  <2> QED
    BY <1>1, <2>1, MaxLaunchesAssumption DEF Launch
<1>2. CASE LaunchResolved \/ RequestStop \/ RequestStopRead \/ RequestStopLock
  BY <1>2 DEF LaunchResolved, RequestStop, RequestStopRead, RequestStopLock
<1>3. CASE RequestStopCommit
  <2>1. exception' \in BOOLEAN
    BY <1>3, Zenon DEF RequestStopCommit
  <2> QED
    BY <1>3, <2>1 DEF RequestStopCommit
<1>4. CASE OnStopRequested \/ StopResolved \/ JoinAndReset
  <2>1. thread' \in BOOLEAN
    BY <1>4, Zenon DEF OnStopRequested, StopResolved, JoinAndReset
  <2> QED
    BY <1>4, <2>1 DEF OnStopRequested, StopResolved, JoinAndReset
<1>5. CASE ThreadBegin \/ OnLaunch \/ StoreRunning \/ OnRunEnds
  BY <1>5 DEF ThreadBegin, OnLaunch, StoreRunning, OnRunEnds
<1>6. CASE LaunchFailed \/ LaunchSucceeded
  BY <1>6 DEF LaunchFailed, LaunchSucceeded, Resolve
<1>7. ASSUME NEW o \in {"value", "exception"}, RunCommit(o) PROVE TypeOK'
  <2>1. exception' \in BOOLEAN
    BY <1>7, Zenon DEF RunCommit
  <2> QED
    BY <1>7, <2>1 DEF RunCommit, Resolve
<1>8. CASE UNCHANGED vars
  BY <1>8 DEF vars
<1> QED
  BY <1>1, <1>2, <1>3, <1>4, <1>5, <1>6, <1>7, <1>8
     DEF Next, LoopStep, ThreadStep, OnRunStops

\* Every variable of the part keeps its type, for any number of launches.
THEOREM TypeCorrect == Spec => []TypeOK
  BY InitTypeOK, TypeInductive, PTL DEF Spec

\* The initial state satisfies the protocol.
LEMMA InitIInv == Init => IInv
<1> SUFFICES ASSUME Init PROVE IInv
  OBVIOUS
<1>1. ~exception /\ ~thread
  BY Zenon DEF Init
<1> QED
  BY <1>1, InitTypeOK
     DEF Init, IInv, MutexInv, LifeInv, LaunchInv, RunInv, SeenInv, StopInv,
         JoinOnlyStopped, LaunchPhase, RunPhase

\* Every step of either thread keeps it.
LEMMA IInvInductive == IInv /\ TypeOK' /\ [Next]_vars => IInv'
<1> SUFFICES ASSUME IInv, TypeOK', [Next]_vars PROVE IInv'
  OBVIOUS
<1> USE DEF IInv, MutexInv, LifeInv, LaunchInv, RunInv, SeenInv, StopInv,
            JoinOnlyStopped, LaunchPhase, RunPhase
<1>0. result \in [{"launch", "stop"} -> Outcome] /\ tpc \in TPc
  BY DEF TypeOK
<1>1. CASE Launch
  <2>1. thread'
    BY <1>1, Zenon DEF Launch
  <2> QED
    BY <1>1, <2>1 DEF Launch
<1>2. CASE LaunchResolved
  BY <1>0, <1>2 DEF LaunchResolved, TPc
<1>3. CASE RequestStop
  BY <1>0, <1>3 DEF RequestStop
<1>4. CASE RequestStopRead
  BY <1>4 DEF RequestStopRead
<1>5. CASE RequestStopLock
  BY <1>5 DEF RequestStopLock
<1>6. CASE RequestStopCommit
  <2>1. CASE seen = "finished"
    <3>1. ~exception'
      BY <1>6, <2>1, Zenon DEF RequestStopCommit
    <3> QED
      BY <1>0, <1>6, <2>1, <3>1 DEF RequestStopCommit, TPc
  <2>2. CASE seen # "finished"
    BY <1>0, <1>6, <2>2 DEF RequestStopCommit
  <2> QED
    BY <2>1, <2>2
<1>7. CASE OnStopRequested
  BY <1>7 DEF OnStopRequested
<1>8. CASE StopResolved
  BY <1>8 DEF StopResolved
<1>9. CASE JoinAndReset
  BY <1>9 DEF JoinAndReset
<1>10. CASE ThreadBegin
  BY <1>10 DEF ThreadBegin
<1>11. CASE OnLaunch
  BY <1>11 DEF OnLaunch
<1>12. CASE LaunchFailed
  BY <1>0, <1>12 DEF LaunchFailed, Resolve
<1>13. CASE LaunchSucceeded
  BY <1>0, <1>13 DEF LaunchSucceeded, Resolve
<1>14. CASE StoreRunning
  BY <1>14 DEF StoreRunning
<1>15. CASE OnRunEnds
  BY <1>15 DEF OnRunEnds
<1>16. ASSUME NEW o \in {"value", "exception"}, RunCommit(o) PROVE IInv'
  BY <1>0, <1>16 DEF RunCommit, Resolve
<1>17. CASE UNCHANGED vars
  BY <1>17 DEF vars
<1> QED
  BY <1>1, <1>2, <1>3, <1>4, <1>5, <1>6, <1>7, <1>8, <1>9, <1>10, <1>11,
     <1>12, <1>13, <1>14, <1>15, <1>16, <1>17
     DEF Next, LoopStep, ThreadStep, OnRunStops

\* IInv holds in every reachable state.
LEMMA Invariance == Spec => []IInv
  BY InitIInv, IInvInductive, TypeCorrect, PTL DEF Spec

\* For any number of launches, in every interleaving of the event loop with the
\* launched thread: what is joined has stopped and owes no promise, and what is
\* launched again starts from a clean part (set_stopped, launch and
\* join_and_reset assert this).
THEOREM JoinSafe == Spec => []JoinOnlyStopped
<1>1. IInv => JoinOnlyStopped
  BY DEF IInv
<1> QED
  BY <1>1, Invariance, PTL

\* requestStop reads state_ before it takes mutex_; the copy is used inside the
\* critical section.  finished is still true there: it is never stale.
THEOREM FinishedNotStale ==
  Spec => [](lpc = "stopLocked" /\ seen = "finished" => state = "finished")
<1>1. IInv => (lpc = "stopLocked" /\ seen = "finished" => state = "finished")
  BY DEF IInv, SeenInv
<1> QED
  BY <1>1, Invariance, PTL

=============================================================================
