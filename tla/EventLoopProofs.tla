--------------------------- MODULE EventLoopProofs ---------------------------
(***************************************************************************)
(* Safety of the event loop for any number of posting threads and tasks.   *)
(***************************************************************************)
EXTENDS EventLoop, TLAPS

\* Where a posting thread is determines where its work can be: work that the
\* thread has not enqueued yet was neither queued nor called.
PosterInv ==
  \A w \in OffLoop :
    /\ poster[w] \in {"idle", "checked"} =>
         w \notin queue /\ executed[w] = 0 /\ w \notin canceled

\* What the loop abandons when it returns is never its own work.
IInv == TypeOK /\ CompletedOnce /\ PosterInv /\ LoopWorkNeverLost

\* Posted work belongs either to another thread or to the loop thread.
LEMMA OffLoopNotLoopWork == OffLoop \cap LoopWork = {} /\ OffLoop \subseteq Work
  BY WorkDistinct DEF OffLoop, LoopWork, Work

\* Posts only ever offers work of the loop thread that was not posted before.
LEMMA PostsUnposted ==
  ASSUME NEW w \in Work, NEW S \in Posts(w)
  PROVE  S \subseteq Unposted(LoopWork)
  BY DEF Posts, Unposted, LoopWork

\* The initial state is well typed.
LEMMA InitTypeOK == Init => TypeOK
<1> SUFFICES ASSUME Init PROVE TypeOK
  OBVIOUS
<1>1. rootRunning \in BOOLEAN
  BY Zenon DEF Init
<1>2. queue \subseteq Work /\ canceled \subseteq Work
  BY DEF Init, Work, LoopWork
<1> QED
  BY <1>1, <1>2 DEF Init, TypeOK, State, LoopPc, PosterPc


\* Every variable keeps its type, for every set of threads and tasks.
THEOREM TypeCorrect == Spec => []TypeOK
<1>1. Init => TypeOK
  BY InitTypeOK
<1>2. TypeOK /\ [Next]_vars => TypeOK'
  <2> SUFFICES ASSUME TypeOK, [Next]_vars PROVE TypeOK'
    OBVIOUS
  <2> USE DEF TypeOK, State, LoopPc, PosterPc
  <2>1. ASSUME NEW w \in OffLoop, QueueCheck(w) PROVE TypeOK'
    BY <2>1, OffLoopNotLoopWork DEF QueueCheck
  <2>2. ASSUME NEW w \in OffLoop, QueueEnqueue(w) PROVE TypeOK'
    BY <2>2, OffLoopNotLoopWork DEF QueueEnqueue
  <2>3. ASSUME NEW w \in OffLoop, QueueNotify(w) PROVE TypeOK'
    BY <2>3 DEF QueueNotify
  <2>4. ASSUME NEW w \in Work, Dispatch(w) PROVE TypeOK'
    <3>1. PICK S \in Posts(w) : QueueFromLoop(S, {w})
      BY <2>4 DEF Dispatch
    <3>2. S \subseteq Work
      BY PostsUnposted DEF Unposted, Work
    <3>3. queue' \subseteq Work /\ canceled' \subseteq Work
      BY <3>1, <3>2 DEF QueueFromLoop
    <3>4. rootRunning' \in BOOLEAN
      <4>1. CASE w = StartRoot
        BY <2>4, <4>1, Zenon DEF Dispatch
      <4>2. CASE w # StartRoot
        BY <2>4, <4>2, Zenon DEF Dispatch
      <4> QED
        BY <4>1, <4>2
    <3>5. executed' \in [Work -> Nat] /\ state' \in State
      BY <2>4 DEF Dispatch
    <3> QED
      BY <2>4, <3>3, <3>4, <3>5 DEF Dispatch
  <2>5. ASSUME DestroyServices PROVE TypeOK'
    <3>1. PICK S \in SUBSET Unposted(LoopTask) : QueueFromLoop(S, {})
      BY <2>5 DEF DestroyServices
    <3>2. S \subseteq Work
      BY DEF Unposted, Work, LoopWork
    <3>3. queue' \subseteq Work /\ canceled' \subseteq Work
      BY <3>1, <3>2 DEF QueueFromLoop
    <3> QED
      BY <2>5, <3>3 DEF DestroyServices
  <2>6. ASSUME prepare_ev \/ DispatchAllReturns \/ CheckStopping
               \/ SpuriousWakeup \/ SetDestroyed \/ SetStopped \/ ReturnFromRun
        PROVE TypeOK'
    BY <2>6 DEF prepare_ev, DispatchAllReturns, CheckStopping, SpuriousWakeup,
                SetDestroyed, SetStopped, ReturnFromRun
  <2>7. CASE UNCHANGED vars
    BY <2>7 DEF vars
  <2> QED
    BY <2>1, <2>2, <2>3, <2>4, <2>5, <2>6, <2>7 DEF Next, run_ev, queue_proc
<1> QED
  BY <1>1, <1>2, PTL DEF Spec

\* What a step of the loop thread does to the queue: it takes Done out, and
\* adds or refuses new work of its own; it never touches work in the hands of
\* a posting thread.
LEMMA QueueFromLoopPreserves ==
  ASSUME IInv, pc \notin {"assert", "done"},
         NEW S \in SUBSET Unposted(LoopWork), NEW Done \in SUBSET queue,
         QueueFromLoop(S, Done),
         \/ Done = {} /\ executed' = executed
         \/ \E w \in Work : Done = {w}
              /\ executed' = [executed EXCEPT ![w] = @ + 1],
         poster' = poster
  PROVE  CompletedOnce' /\ PosterInv'
<1> USE DEF IInv, TypeOK, QueueFromLoop
<1>1. ASSUME NEW v \in Work
      PROVE  /\ executed'[v] = IF v \in Done THEN executed[v] + 1 ELSE executed[v]
             /\ v \in queue' => v \in S \/ (v \in queue /\ v \notin Done)
             /\ v \in canceled' => v \in canceled \/ v \in S
             /\ v \in S => v \notin queue'  \/ v \notin canceled'
  BY DEF Unposted, CompletedOnce, Completed
<1>2. \A v \in Work : executed[v] \in Nat
  OBVIOUS
<1>3. ASSUME NEW v \in Work
      PROVE  /\ executed'[v] <= 1
             /\ executed'[v] = 1 => v \notin canceled'
             /\ v \in queue' => ~(executed'[v] > 0 \/ v \in canceled')
  <2>1. CASE v \in Done
    BY <2>1, <1>1, <1>2 DEF CompletedOnce, Completed, Unposted
  <2>2. CASE v \notin Done
    BY <2>2, <1>1, <1>2 DEF CompletedOnce, Completed, Unposted
  <2> QED
    BY <2>1, <2>2
<1>4. CompletedOnce'
  BY <1>3 DEF CompletedOnce, Completed
<1>5. PosterInv'
  BY <1>1, OffLoopNotLoopWork DEF PosterInv, Unposted
<1> QED
  BY <1>4, <1>5

\* IInv is preserved by every step.
LEMMA IInvInductive == IInv /\ TypeOK' /\ [Next]_vars => IInv'
<1> SUFFICES ASSUME IInv, TypeOK', [Next]_vars PROVE IInv'
  OBVIOUS
<1> USE DEF IInv
<1>1. ASSUME NEW w \in OffLoop, QueueCheck(w) PROVE IInv'
  BY <1>1, OffLoopNotLoopWork
     DEF QueueCheck, TypeOK, CompletedOnce, Completed, PosterInv,
         LoopWorkNeverLost
<1>2. ASSUME NEW w \in OffLoop, QueueEnqueue(w) PROVE IInv'
  BY <1>2, OffLoopNotLoopWork
     DEF QueueEnqueue, TypeOK, CompletedOnce, Completed, PosterInv,
         LoopWorkNeverLost
<1>3. ASSUME NEW w \in OffLoop, QueueNotify(w) PROVE IInv'
  BY <1>3
     DEF QueueNotify, TypeOK, CompletedOnce, Completed, PosterInv,
         LoopWorkNeverLost
<1>4. ASSUME NEW w \in Work, Dispatch(w) PROVE IInv'
  <2>1. PICK S \in Posts(w) : QueueFromLoop(S, {w})
    BY <1>4 DEF Dispatch
  <2>2. S \in SUBSET Unposted(LoopWork)
    BY PostsUnposted
  <2>3. CompletedOnce' /\ PosterInv'
    BY <1>4, <2>1, <2>2, QueueFromLoopPreserves DEF Dispatch
  <2> QED
    BY <1>4, <2>3 DEF Dispatch, LoopWorkNeverLost
<1>5. ASSUME DestroyServices PROVE IInv'
  <2>1. PICK S \in SUBSET Unposted(LoopTask) : QueueFromLoop(S, {})
    BY <1>5 DEF DestroyServices
  <2>2. S \in SUBSET Unposted(LoopWork)
    BY DEF Unposted, LoopWork
  <2>3. CompletedOnce' /\ PosterInv'
    BY <1>5, <2>1, <2>2, QueueFromLoopPreserves DEF DestroyServices
  <2> QED
    BY <1>5, <2>3 DEF DestroyServices, LoopWorkNeverLost
<1>6. ASSUME prepare_ev \/ DispatchAllReturns \/ CheckStopping
             \/ SpuriousWakeup \/ SetDestroyed \/ SetStopped \/ ReturnFromRun
      PROVE IInv'
  BY <1>6 DEF prepare_ev, DispatchAllReturns, CheckStopping, SpuriousWakeup,
              SetDestroyed, SetStopped, ReturnFromRun, CompletedOnce,
              Completed, PosterInv, LoopWorkNeverLost
<1>7. CASE UNCHANGED vars
  BY <1>7 DEF vars, CompletedOnce, Completed, PosterInv, LoopWorkNeverLost
<1> QED
  BY <1>1, <1>2, <1>3, <1>4, <1>5, <1>6, <1>7 DEF Next, run_ev, queue_proc

\* IInv holds in every reachable state.
LEMMA Invariance == Spec => []IInv
<1>1. Init => IInv
  <2> SUFFICES ASSUME Init PROVE IInv
    OBVIOUS
  <2>1. TypeOK
    BY InitTypeOK
  <2> QED
    BY <2>1, WorkDistinct
       DEF Init, IInv, CompletedOnce, Completed, PosterInv, LoopWorkNeverLost,
           OffLoop, LoopWork, Work
<1>2. IInv /\ TypeOK' /\ [Next]_vars => IInv'
  BY IInvInductive
<1> QED
  BY <1>1, <1>2, TypeCorrect, PTL DEF Spec

\* For every set of posting threads and tasks a handler is called at most once,
\* and never both with a value and with the cancellation.
THEOREM HandlersOnce == Spec => []CompletedOnce
<1>1. IInv => CompletedOnce
  BY DEF IInv
<1> QED
  BY <1>1, Invariance, PTL

\* When run_ev returns, no work of the loop thread is left behind in queue_,
\* whatever the posting threads do.
THEOREM NothingLeftInQueue == Spec => []LoopWorkNeverLost
<1>1. IInv => LoopWorkNeverLost
  BY DEF IInv
<1> QED
  BY <1>1, Invariance, PTL

-----------------------------------------------------------------------------
\* The order of the works that stop the root.  The root runs between its start
\* and the scheduler's iteration, the iteration is only posted for a root that
\* was started, and stopping is only posted by that iteration.
RootInv ==
  /\ rootRunning => executed[StartRoot] > 0 /\ executed[Iterate] = 0
  /\ (Iterate \in queue \/ executed[Iterate] > 0) => executed[StartRoot] > 0
  /\ (SetStopping \in queue \/ executed[SetStopping] > 0) => executed[Iterate] > 0
  /\ state = "stopping" => executed[Iterate] > 0
  /\ pc \in {"destroy", "leave", "drain", "assert", "done"}
       => executed[Iterate] > 0

\* Only the stop of a running root posts the iteration, and only the iteration
\* posts stopping; the start of the root is never posted again.
LEMMA PostsOrdered ==
  ASSUME NEW w \in Work, NEW S \in Posts(w)
  PROVE  /\ StartRoot \notin S
         /\ Iterate \in S => w = Stop /\ rootRunning
         /\ SetStopping \in S => w = Iterate
<1>1. CASE w \in Task
  BY <1>1, WorkDistinct DEF Posts, Unposted
<1>2. CASE w = Stop /\ rootRunning
  BY <1>2, WorkDistinct DEF Posts, Unposted
<1>3. CASE w = Iterate
  BY <1>3, WorkDistinct DEF Posts, Unposted
<1>4. CASE w \notin Task /\ w # Iterate /\ ~(w = Stop /\ rootRunning)
  BY <1>4 DEF Posts
<1> QED
  BY <1>1, <1>2, <1>3, <1>4

\* A dispatched handler keeps that order.
LEMMA DispatchKeepsRootInv ==
  ASSUME IInv, RootInv, NEW w \in Work, Dispatch(w)
  PROVE  RootInv'
<1>1. PICK S \in Posts(w) : QueueFromLoop(S, {w})
  BY DEF Dispatch
<1>2. /\ StartRoot \notin S
      /\ Iterate \in S => w = Stop /\ rootRunning
      /\ SetStopping \in S => w = Iterate
  BY PostsOrdered
<1>3. {StartRoot, Iterate, SetStopping} \subseteq Work
  BY DEF Work, LoopWork
<1>4. /\ \A v \in Work : executed[v] \in Nat
      /\ w \in queue
      /\ executed[w] = 0
      /\ \A v \in Work :
           executed'[v] = IF v = w THEN executed[v] + 1 ELSE executed[v]
  BY DEF IInv, TypeOK, CompletedOnce, Completed, Dispatch
<1>5. \A v \in Work : v \in queue' => v \in S \/ v \in queue
  BY <1>1 DEF QueueFromLoop
<1>6. rootRunning' => executed'[StartRoot] > 0 /\ executed'[Iterate] = 0
  <2>1. CASE w = StartRoot
    BY <2>1, <1>3, <1>4, WorkDistinct DEF RootInv
  <2>2. CASE w = Iterate
    <3>1. ~rootRunning'
      BY <2>2, WorkDistinct, Zenon DEF Dispatch
    <3> QED
      BY <3>1
  <2>3. CASE w # StartRoot /\ w # Iterate
    <3>1. rootRunning' = rootRunning
      BY <2>3, Zenon DEF Dispatch
    <3> QED
      BY <2>3, <3>1, <1>3, <1>4 DEF RootInv
  <2> QED
    BY <2>1, <2>2, <2>3
<1>7. (Iterate \in queue' \/ executed'[Iterate] > 0) => executed'[StartRoot] > 0
  BY <1>2, <1>3, <1>4, <1>5 DEF RootInv
<1>8. (SetStopping \in queue' \/ executed'[SetStopping] > 0)
        => executed'[Iterate] > 0
  BY <1>2, <1>3, <1>4, <1>5 DEF RootInv
<1>9. /\ state' = "stopping" => executed'[Iterate] > 0
      /\ pc' \in {"destroy", "leave", "drain", "assert", "done"}
           => executed'[Iterate] > 0
  BY <1>3, <1>4 DEF RootInv, Dispatch
<1> QED
  BY <1>6, <1>7, <1>8, <1>9 DEF RootInv

\* Every other step keeps it too.
LEMMA RootInvInductive == IInv /\ RootInv /\ [Next]_vars => RootInv'
<1> SUFFICES ASSUME IInv, RootInv, [Next]_vars PROVE RootInv'
  OBVIOUS
<1>0. {StartRoot, Iterate, SetStopping} \subseteq LoopWork
  BY DEF LoopWork
<1>1. ASSUME NEW w \in OffLoop, QueueCheck(w) PROVE RootInv'
  BY <1>1 DEF QueueCheck, RootInv
<1>2. ASSUME NEW w \in OffLoop, QueueEnqueue(w) PROVE RootInv'
  BY <1>0, <1>2, OffLoopNotLoopWork DEF QueueEnqueue, RootInv
<1>3. ASSUME NEW w \in OffLoop, QueueNotify(w) PROVE RootInv'
  BY <1>3 DEF QueueNotify, RootInv
<1>4. ASSUME NEW w \in Work, Dispatch(w) PROVE RootInv'
  BY <1>4, DispatchKeepsRootInv
<1>5. ASSUME DestroyServices PROVE RootInv'
  <2>1. PICK S \in SUBSET Unposted(LoopTask) : QueueFromLoop(S, {})
    BY <1>5 DEF DestroyServices
  <2>2. {StartRoot, Iterate, SetStopping} \cap S = {}
    BY WorkDistinct DEF Unposted
  <2>3. \A v \in {StartRoot, Iterate, SetStopping} : v \in queue' => v \in queue
    BY <2>1, <2>2 DEF QueueFromLoop
  <2> QED
    BY <1>5, <2>3 DEF DestroyServices, RootInv
<1>6. ASSUME prepare_ev \/ DispatchAllReturns \/ CheckStopping
             \/ SpuriousWakeup \/ SetDestroyed \/ SetStopped \/ ReturnFromRun
      PROVE RootInv'
  BY <1>6 DEF prepare_ev, DispatchAllReturns, CheckStopping, SpuriousWakeup,
              SetDestroyed, SetStopped, ReturnFromRun, RootInv
<1>7. CASE UNCHANGED vars
  BY <1>7 DEF vars, RootInv
<1> QED
  BY <1>1, <1>2, <1>3, <1>4, <1>5, <1>6, <1>7 DEF Next, run_ev, queue_proc

\* run_ev never destroys the services under a root that still runs, in whatever
\* order posted work, stops and wakeups arrive.
THEOREM RootStopped == Spec => []RootStoppedBeforeDestroy
<1>1. Init => RootInv
  <2> SUFFICES ASSUME Init PROVE RootInv
    OBVIOUS
  <2>1. ~rootRunning
    BY Zenon DEF Init
  <2> QED
    BY <2>1, WorkDistinct DEF Init, RootInv, Work, LoopWork
<1>2. IInv /\ RootInv /\ [Next]_vars => RootInv'
  BY RootInvInductive
<1>3. RootInv => RootStoppedBeforeDestroy
  BY DEF RootInv, RootStoppedBeforeDestroy
<1> QED
  BY <1>1, <1>2, <1>3, Invariance, PTL DEF Spec
=============================================================================
