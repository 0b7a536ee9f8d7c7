-------------------------- MODULE ServiceScheduler --------------------------
(***************************************************************************)
(* The scheduler of idle: which services are started and stopped, in which *)
(* order, and when the promises of start(), stop() and observe() resolve.  *)
(*                                                                         *)
(* Everything but try_use and dec_use runs on the event loop, one task at  *)
(* a time.  An action is one task, or one iteration of the loop in         *)
(* Scheduler::process, so that other threads get in between.  Posted tasks *)
(* run in any order.  The hooks onStart and onStop complete at once or     *)
(* later; a service that is starting or stopping between two actions waits *)
(* for its hook.  A hook that throws ends the program and is not modelled. *)
(*                                                                         *)
(* Every import is satisfied all the time: that an unsatisfied one counts  *)
(* in outer_deps_missing_ as well (on_import_satisfied, on_import_         *)
(* unsatisfied) is left out here.  Imports has it as a guard of the lock.  *)
(*                                                                         *)
(* The handlers of ServiceImpl and Scheduler call each other.  They are    *)
(* operators from a state record to a state record, named as in the code,  *)
(* and an action installs the record they return.                          *)
(***************************************************************************)
EXTENDS ServiceGraph, FiniteSetsExt

CONSTANTS
  Requested,  \* the heads whose start, stop and observe are called
  Async,      \* the services whose hooks may complete later
  MaxHeld     \* bound on the uses other threads hold of one service

ASSUME SchedulerAssumption ==
  /\ Requested \subseteq Heads /\ Async \subseteq Services \ {Root}
  /\ MaxHeld \in Nat

VARIABLES
  phase, uses, inner,             \* Service: phase_, uses_, inner_deps_missing_
  markStop, markStart, override,  \* Cluster: is_marked_for_*, override_
  target, promise,                \* Cluster: target_, whether promise_ is set
  running, outer, pushes, pulls,  \* Cluster: the counters
  conn, released,                 \* usages connected, with ReleaseRequested
  replyNow,                       \* usages whose import answers Now to requests
  down, up,                       \* SchedulingQueue
  processing, dispatched,         \* Scheduler
  recheck,                        \* heads with a posted restart check
  notices,                        \* posted no-external-use checks of dec_use
  held                            \* uses held through try_use by other threads

vars == <<phase, uses, inner, markStop, markStart, override, target, promise,
          running, outer, pushes, pulls, conn, released, replyNow, down, up,
          processing, dispatched, recheck, notices, held>>

Phase == {"stopped", "locked", "starting", "running", "stopping", "pending"}

-----------------------------------------------------------------------------
(* The state as a record, and what the handlers ask of it. *)

State == [phase |-> phase, uses |-> uses, inner |-> inner,
          markStop |-> markStop, markStart |-> markStart,
          override |-> override, target |-> target, promise |-> promise,
          running |-> running, outer |-> outer, pushes |-> pushes,
          pulls |-> pulls, conn |-> conn,
          released |-> released, down |-> down, up |-> up,
          processing |-> processing, dispatched |-> dispatched,
          recheck |-> recheck]

Become(st) ==
  /\ phase' = st.phase /\ uses' = st.uses /\ inner' = st.inner
  /\ markStop' = st.markStop /\ markStart' = st.markStart
  /\ override' = st.override /\ target' = st.target /\ promise' = st.promise
  /\ running' = st.running /\ outer' = st.outer /\ pushes' = st.pushes
  /\ pulls' = st.pulls /\ conn' = st.conn
  /\ released' = st.released /\ down' = st.down /\ up' = st.up
  /\ processing' = st.processing /\ dispatched' = st.dispatched
  /\ recheck' = st.recheck
  /\ UNCHANGED replyNow

IsLocked(st, s) == st.phase[s] # "stopped"
IsRunning(st, s) == st.phase[s] = "running"

IsStartable(st, s) ==
  /\ st.inner[s] = 0
  /\ \/ st.phase[s] = "locked"
     \/ st.phase[s] = "stopped" /\ st.outer[Head[s]] = 0

\* A member is used once more by its parent.
HasNoExternalUses(s, n) == n = 1 \/ (n = 2 /\ s \in Members)

IsStoppable(st, s) == IsRunning(st, s) /\ HasNoExternalUses(s, st.uses[s])

IsPushed(st, h) == st.pushes[h] # 0

ShallStart(st, h) ==
  IsPushed(st, h) /\ st.markStart[h] /\ ~st.markStop[h] /\ st.pulls[h] = 0

ShallStop(st, h) == ~IsPushed(st, h) \/ st.markStop[h]

IsClusterStartable(st, h) ==
  st.outer[h] = 0 /\ st.running[h] = 0 /\ ~IsLocked(st, h)

-----------------------------------------------------------------------------
(* The queue and the checks that fill it. *)

\* Mutant of Iterate: a task is posted only if the queue was empty before.
IterateOnce(st) == [st EXCEPT !.dispatched = @ \/ ~(st.processing \/ st.down # {})]

\* Scheduler::iterate: posts a processing task unless one is posted or active.
Iterate(st) == [st EXCEPT !.dispatched = @ \/ ~st.processing]

PushDown(st, S) ==
  IF S = {} THEN st ELSE Iterate([st EXCEPT !.down = @ \cup S])
PushUp(st, S) ==
  IF S = {} THEN st ELSE Iterate([st EXCEPT !.up = @ \cup S])

CheckStoppable(st, S) ==
  PushDown(st, {s \in S : IsStoppable(st, s) /\ ShallStop(st, Head[s])})

CheckAnyInClusterStartable(st, H) ==
  PushUp(st, {s \in Services :
                /\ Head[s] \in H /\ ShallStart(st, Head[s])
                /\ InnerChildren(s) = {} /\ IsStartable(st, s)})

CheckInnerStartable(st, S) ==
  PushUp(st, {s \in S : IsStartable(st, s) /\ ShallStart(st, Head[s])})

-----------------------------------------------------------------------------
(* The counters.  by[s] or by[h] is how often the handler is called. *)

OnOutgoingIncrement(st, by) ==
  [st EXCEPT !.uses = [s \in Services |-> @[s] + by[s]]]

\* Mutant of OnOutgoingDecrement: nobody asks whether s can stop now.
DecrementUnchecked(st, by) ==
  [st EXCEPT !.uses = [s \in Services |-> @[s] - by[s]]]

\* Every single decrement that reaches no external use makes its check.
OnOutgoingDecrement(st, by) ==
  LET next == [st EXCEPT !.uses = [s \in Services |-> @[s] - by[s]]]
      unused == {s \in Services : by[s] # 0 /\ next.uses[s] = 1}
      parents == {s \in Members : next.uses[s] <= 2 /\ 2 < st.uses[s]}
  IN CheckStoppable(next, unused \cup {Head[s] : s \in parents})

OnOuterRequiredIncrement(st, by) ==
  [st EXCEPT !.outer = [h \in Heads |-> @[h] + by[h]]]

OnOuterRequiredDecrement(st, by) ==
  LET next == [st EXCEPT !.outer = [h \in Heads |-> @[h] - by[h]]]
  IN CheckAnyInClusterStartable(next,
        {h \in Heads : by[h] # 0 /\ next.outer[h] = 0})

OnPullsIncrement(st, by) ==
  [st EXCEPT !.pulls = [h \in Heads |-> @[h] + by[h]]]

OnPullsDecrement(st, by) ==
  LET next == [st EXCEPT !.pulls = [h \in Heads |-> @[h] - by[h]]]
  IN CheckAnyInClusterStartable(next,
        {h \in Heads : by[h] # 0 /\ next.pulls[h] = 0})

Only(x, S) == [y \in S |-> IF y = x THEN 1 ELSE 0]

\* How many clusters, services or edges need s to run.
RequiredBy(st, s) ==
  [h \in Heads |->
     IF s = Root
     THEN Cardinality(ClusterMembers(h) \ {Root})
     ELSE Cardinality({e \in StrongEdges(OutEdges(st.conn, s)) :
                         Head[Dst(e)] = h})]

CallOnRequiredDecrement(st, s) ==
  LET p == IF s \in Members THEN {Parent[s]} ELSE {}
      next == [st EXCEPT !.inner =
                 [x \in Services |-> @[x] - IF x \in p THEN 1 ELSE 0]]
      checked == CheckInnerStartable(next, {x \in p : next.inner[x] = 0})
  IN OnOuterRequiredDecrement(checked, RequiredBy(st, s))

CallOnRequiredIncrement(st, s) ==
  LET next == [st EXCEPT !.inner =
                 [x \in Services |-> @[x] + IF s \in Members /\ x = Parent[s]
                                            THEN 1 ELSE 0]]
  IN OnOuterRequiredIncrement(next, RequiredBy(st, s))

\* The edges into the services of S that come from s.
EdgesInto(st, S, s) == {e \in OutEdges(st.conn, s) : Dst(e) \in S}
ImplicitUses(S, s) ==
  IF s = Root THEN Cardinality({x \in S : HasImplicitRootEdge(x)}) ELSE 0

\* A weak usage of a service that does not run is skipped.
CallOnOuterOutgoingIncrement(st, S) ==
  OnOutgoingIncrement(st, [s \in Services |->
    Cardinality({e \in EdgesInto(st, S, s) : e \notin Weak \/ IsRunning(st, s)})
    + ImplicitUses(S, s)])

CallOnOuterOutgoingDecrement(st, S) ==
  OnOutgoingDecrement(st, [s \in Services |->
    (IF IsRunning(st, s) THEN Cardinality(EdgesInto(st, S, s)) ELSE 0)
    + ImplicitUses(S, s)])

\* Users which were locked before s ran, through a weak usage, use s from now.
CallOnOuterDelayedOutgoingIncrement(st, s) ==
  OnOutgoingIncrement(st,
    [x \in Services |->
       IF x = s THEN Cardinality({e \in OutEdges(st.conn, s) :
                                    IsLocked(st, Dst(e))})
       ELSE 0])

\* Mutant of CallOnInnerOutgoingIncrement: a parent does not use its members.
NoInnerIncrement(st, s) == st

CallOnInnerOutgoingIncrement(st, s) ==
  OnOutgoingIncrement(st,
    [x \in Services |-> IF x \in InnerChildren(s) THEN 1 ELSE 0])
CallOnInnerOutgoingDecrement(st, s) ==
  OnOutgoingDecrement(st,
    [x \in Services |-> IF x \in InnerChildren(s) THEN 1 ELSE 0])

-----------------------------------------------------------------------------
(* pushes_ and pulls_. *)

\* The depth first search of call_on_cluster_pushes_increment adds one to h and
\* goes on from every cluster that had no push before, once per edge.
NewlyPushed(st, h) ==
  {x \in Heads : \A C \in SUBSET Heads :
     (/\ h \in C
      /\ \A e \in Edges(st.conn) :
           Head[Dst(e)] \in C /\ ~IsPushed(st, Head[Src(e)])
             => Head[Src(e)] \in C)
     => x \in C}

CallOnPushesIncrement(st, h) ==
  LET new == IF IsPushed(st, h) THEN {} ELSE NewlyPushed(st, h)
  IN [st EXCEPT !.pushes = [x \in Heads |->
        @[x] + Only(h, Heads)[x]
             + Cardinality({e \in ClusterOutEdges(st.conn, x) :
                              Head[Dst(e)] \in new})]]

\* The search of call_on_cluster_pushes_decrement goes on from every cluster
\* that lost its last push.  It visits an ancestor (the user of a usage that is
\* being disconnected) without going on from it.
LostPushes(st, h, C, ancestor) ==
  [x \in Heads |->
     Only(h, Heads)[x]
     + Cardinality({e \in ClusterOutEdges(st.conn, x) :
                      Head[Dst(e)] \in C \ ancestor})]

NoLongerPushed(st, h, ancestor) ==
  {x \in Heads : \A C \in SUBSET Heads :
     (\A y \in Heads : LET lost == LostPushes(st, h, C, ancestor)[y]
                       IN lost # 0 /\ st.pushes[y] <= lost => y \in C)
     => x \in C}

CallOnPushesDecrement(st, h, ancestor) ==
  LET gone == IF st.pushes[h] = 1 THEN NoLongerPushed(st, h, ancestor) ELSE {}
      lost == LostPushes(st, h, gone, ancestor)
      next == [st EXCEPT !.pushes = [x \in Heads |-> @[x] - lost[x]]]
  IN CheckStoppable(next, gone)

SetOverride(st, h, start) ==
  LET next == [st EXCEPT !.override[h] = start]
  IN IF st.override[h] = start THEN st
     ELSE IF start THEN CallOnPushesIncrement(next, h)
     ELSE CallOnPushesDecrement(next, h, {})

OutgoingPulls(st, h) ==
  [x \in Heads |-> Cardinality({e \in ClusterOutEdges(st.conn, h) :
                                  Head[Dst(e)] = x})]

DoMarkClusterForStop(st, h, set) ==
  LET next == [st EXCEPT !.markStop[h] = set]
  IN IF st.markStop[h] = set THEN st
     ELSE IF set THEN OnPullsIncrement(next, OutgoingPulls(st, h))
     ELSE OnPullsDecrement(next, OutgoingPulls(st, h))

-----------------------------------------------------------------------------
(* Usages. *)

\* Mutant of OnUsageConnected: a push of the user is not handed on.
ConnectWithoutPush(st, u) ==
  [st EXCEPT !.conn = @ \cup {u},
             !.uses[Used[u]] = @ + IF IsRunning(st, Used[u])
                                      /\ IsLocked(st, User[u]) THEN 1 ELSE 0]

\* Usage::connect
OnUsageConnected(st, u) ==
  LET s == Used[u]
      h == Head[User[u]]
      conned == [st EXCEPT !.conn = @ \cup {u}]
      used == IF IsRunning(st, s) /\ IsLocked(st, User[u])
              THEN OnOutgoingIncrement(conned, Only(s, Services)) ELSE conned
      required == IF ~IsRunning(st, s) /\ u \notin Weak
                  THEN OnOuterRequiredIncrement(used, Only(h, Heads)) ELSE used
      pushed == IF IsPushed(st, h)
                THEN CallOnPushesIncrement(required, Head[s]) ELSE required
  IN IF st.markStop[Head[s]] THEN OnPullsIncrement(pushed, Only(h, Heads))
     ELSE pushed

\* Usage::disconnect: the edge is removed from the graph at the end.
OnUsageDisconnect(st, u) ==
  LET s == Used[u]
      h == Head[User[u]]
      pulled == IF st.markStop[Head[s]]
                THEN OnPullsDecrement(st, Only(h, Heads)) ELSE st
      pushed == IF IsPushed(st, h)
                THEN CallOnPushesDecrement(pulled, Head[s], {h}) ELSE pulled
      required == IF ~IsRunning(st, s) /\ u \notin Weak
                  THEN OnOuterRequiredDecrement(pushed, Only(h, Heads))
                  ELSE pushed
      used == IF IsRunning(st, s) /\ IsLocked(st, User[u])
              THEN OnOutgoingDecrement(required, Only(s, Services))
              ELSE required
  IN [used EXCEPT !.conn = @ \ {u}, !.released = @ \ {u}]

\* Usage::requestRelease of a weak usage: the import disconnects at once or
\* keeps the usage until it has let go of it.
RequestRelease(st, u) ==
  IF u \in st.released THEN st
  ELSE IF u \in replyNow THEN OnUsageDisconnect(st, u)
  ELSE [st EXCEPT !.released = @ \cup {u}]

RequestReleases(st, U) == FoldSet(LAMBDA u, acc : RequestRelease(acc, u), st, U)
ConnectAll(st, U) == FoldSet(LAMBDA u, acc : OnUsageConnected(acc, u), st, U)

-----------------------------------------------------------------------------
(* The promise of a cluster. *)

TransitionTargetSet(st, h, t) ==
  [st EXCEPT !.target[h] = t,
             !.promise[h] = @ /\ (st.target[h] = t \/ st.target[h] = "none")]

TransitionTargetCompleteIf(st, h, t) ==
  IF st.target[h] = t
  THEN [st EXCEPT !.target[h] = "none", !.promise[h] = FALSE]
  ELSE st

ChainPromise(st, h) == [st EXCEPT !.promise[h] = TRUE]

-----------------------------------------------------------------------------
(* Starting and stopping one service. *)

DoLockCluster(st, h) ==
  LET M == ClusterMembers(h)
      locked == [st EXCEPT !.phase =
                   [s \in Services |-> IF s \in M THEN "locked" ELSE @[s]]]
  IN [CallOnOuterOutgoingIncrement(locked, M)
        EXCEPT !.running[h] = @ + Cardinality(M)]

DoFinalizeCluster(st, h) ==
  TransitionTargetCompleteIf([st EXCEPT !.markStart[h] = FALSE], h, "start")

\* do_start_eager up to the call of onStart
DoStartEager(st, s) ==
  LET locked == IF IsLocked(st, s) THEN st ELSE DoLockCluster(st, Head[s])
  IN CallOnInnerOutgoingIncrement(
       [locked EXCEPT !.phase[s] = "starting", !.uses[s] = @ + 1], s)

\* post_start_actions
PostStart(st, s) ==
  LET run == [st EXCEPT !.phase[s] = "running"]
      next == CallOnRequiredDecrement(
                CallOnOuterDelayedOutgoingIncrement(run, s), s)
  IN IF ShallStop(next, Head[s]) THEN PushDown(next, {s})
     ELSE IF s \in Heads THEN DoFinalizeCluster(next, s)
     ELSE next

\* The members of an unlocked cluster reconnect the weak usages they had to
\* release, and so do the unlocked users of its head.
ImportUnlock(st, s) ==
  ConnectAll(st, {u \in Weak \ st.conn : User[u] = s})
InterfaceUnlock(st, h) ==
  ConnectAll(st, {u \in Weak \ st.conn : Used[u] = h /\ ~IsLocked(st, User[u])})

UnlockMember(st, s) ==
  [CallOnOuterOutgoingDecrement(ImportUnlock(st, s), {s})
     EXCEPT !.phase[s] = "stopped"]

DoUnlockCluster(st, h) ==
  LET unlocked == FoldSet(LAMBDA s, acc : UnlockMember(acc, s), st,
                          ClusterMembers(h))
      completed == TransitionTargetCompleteIf(InterfaceUnlock(unlocked, h),
                                              h, "stop")
      next == DoMarkClusterForStop(completed, h, FALSE)
  IN IF IsClusterStartable(next, h) /\ ShallStart(next, h) /\ h # Root
     THEN [next EXCEPT !.recheck = @ \cup {h}]
     ELSE next

\* Mutant of DoStopEager: the dependents still count s as running.
StopWithoutRequired(st, s) ==
  [st EXCEPT !.uses[s] = 0, !.phase[s] = "stopping"]

\* do_stop_eager up to the call of onStop, after try_set_service_stopping
DoStopEager(st, s) ==
  CallOnRequiredIncrement([st EXCEPT !.uses[s] = 0, !.phase[s] = "stopping"], s)

\* post_stop_actions
PostStop(st, s) ==
  LET h == Head[s]
      next == [CallOnInnerOutgoingDecrement(st, s)
                 EXCEPT !.phase[s] = "pending", !.running[h] = @ - 1]
  IN IF next.running[h] # 0 THEN next
     ELSE DoUnlockCluster(next, h)

-----------------------------------------------------------------------------
(* Scheduler: the traversals of start and stop requests. *)

StartTraversalProgresses(st, h) ==
  ~(IsRunning(st, h) /\ ~st.markStop[h]) /\ ~st.markStart[h]

\* The clusters the search marks: h, and whatever it needs that is neither
\* running nor marked yet.
StartVisited(st, h) ==
  {x \in Heads : \A C \in SUBSET Heads :
     (/\ h \in C
      /\ \A e \in Edges(st.conn) :
           Head[Dst(e)] \in C /\ StartTraversalProgresses(st, Head[Src(e)])
             => Head[Src(e)] \in C)
     => x \in C}

OnServiceStartRequest(st, h) ==
  LET V == StartVisited(st, h)
      marked == [st EXCEPT !.markStart = [x \in Heads |-> @[x] \/ x \in V]]
      leaves == V \cup {Head[Src(e)] : e \in UNION {ClusterInEdges(st.conn, x) :
                                                     x \in V}}
  IN Iterate(PushUp(marked,
       {s \in Services : /\ Head[s] \in leaves /\ ShallStart(marked, Head[s])
                         /\ IsStartable(marked, s)}))

StopTraversalProgresses(st, h) == st.running[h] # 0 /\ ~st.markStop[h]

\* Weak usages are released and not followed, strong ones are never released.
StopVisited(st, h) ==
  {x \in Heads : \A C \in SUBSET Heads :
     (/\ h \in C
      /\ \A e \in StrongEdges(Edges(st.conn)) :
           Head[Src(e)] \in C /\ StopTraversalProgresses(st, Head[Dst(e)])
             => Head[Dst(e)] \in C)
     => x \in C}

StopVisit(st, h) ==
  LET marked == DoMarkClusterForStop(st, h, TRUE)
      queued == PushDown(marked, {s \in {h} : IsStoppable(marked, s)})
  IN RequestReleases(queued, Weak \cap ClusterOutEdges(queued.conn, h))

\* One cluster of stop_root.
StopRootVisit(st, h) ==
  LET weak == IF IsLocked(st, h) THEN Weak \cap OutEdges(st.conn, h) ELSE {}
      dissolved == SetOverride(RequestReleases(st, weak), h, FALSE)
      cleared == [TransitionTargetSet(dissolved, h, "none")
                    EXCEPT !.markStart[h] = FALSE]
      marked == DoMarkClusterForStop(cleared, h, TRUE)
  IN IF cleared.running[h] = 0 THEN cleared
     ELSE PushDown(marked, {s \in {h} : IsStoppable(marked, s)})

StopRoot(st) ==
  IF st.running[Root] = 0 \/ st.markStop[Root] THEN st
  ELSE Iterate(FoldSet(LAMBDA h, acc : StopRootVisit(acc, h),
                       [st EXCEPT !.down = {}, !.up = {}], Heads))

OnServiceStopRequest(st, h) ==
  IF h = Root THEN StopRoot(st)
  ELSE Iterate(FoldSet(LAMBDA x, acc : StopVisit(acc, x), st,
                       StopVisited(st, h)))

-----------------------------------------------------------------------------
(* The tasks of the event loop. *)

OnLoop == ~processing /\ UNCHANGED <<notices, held>>

\* run_impl posts start_root.
Run ==
  /\ OnLoop
  /\ phase[Root] = "stopped"
  /\ Become(PostStart(DoStartEager(SetOverride(State, Root, TRUE), Root), Root))

RequestStart(h, manual) ==
  /\ OnLoop
  /\ LET st == IF manual THEN SetOverride(State, h, TRUE) ELSE State
     IN Become(IF IsRunning(st, h) THEN st
               ELSE ChainPromise(TransitionTargetSet(
                      OnServiceStartRequest(st, h), h, "start"), h))

RequestStop(h) ==
  /\ OnLoop
  /\ LET st == SetOverride(State, h, FALSE)
     IN Become(IF st.running[h] = 0 THEN st
               ELSE ChainPromise(TransitionTargetSet(
                      OnServiceStopRequest(st, h), h, "stop"), h))

RequestObserve(h) ==
  /\ OnLoop
  /\ Become(ChainPromise(State, h))

\* The task that iterate posted enters process().
ProcessBegin ==
  /\ OnLoop
  /\ dispatched
  /\ Become([State EXCEPT !.dispatched = FALSE, !.processing = TRUE])

\* SchedulingQueue::pop: services that shall stop come first, then by address.
Pop(s) ==
  /\ processing
  /\ s \in IF down # {} THEN down ELSE up

Popped(s) ==
  [State EXCEPT !.down = IF down # {} THEN @ \ {s} ELSE @,
                !.up = IF down # {} THEN @ ELSE @ \ {s}]

ProcessStop(s) ==
  /\ Pop(s) /\ ShallStop(State, Head[s])
  /\ IsStoppable(State, s) /\ uses[s] = 1
  /\ LET st == DoStopEager(Popped(s), s)
     IN (s \in Async /\ Become(st)) \/ Become(PostStop(st, s))
  /\ UNCHANGED <<notices, held>>

ProcessStart(s) ==
  /\ Pop(s) /\ ~ShallStop(State, Head[s]) /\ ShallStart(State, Head[s])
  /\ IsStartable(State, s)
  /\ LET st == DoStartEager(Popped(s), s)
     IN (s \in Async /\ Become(st)) \/ Become(PostStart(st, s))
  /\ UNCHANGED <<notices, held>>

\* Neither: the service is dropped from the queue.
ProcessDrop(s) ==
  /\ Pop(s)
  /\ IF ShallStop(State, Head[s]) THEN ~(IsStoppable(State, s) /\ uses[s] = 1)
     ELSE ~(ShallStart(State, Head[s]) /\ IsStartable(State, s))
  /\ Become(Popped(s))
  /\ UNCHANGED <<notices, held>>

ProcessEnd ==
  /\ processing /\ down = {} /\ up = {}
  /\ Become([State EXCEPT !.processing = FALSE])
  /\ UNCHANGED <<notices, held>>

\* An asynchronous hook completes.
StartDone(s) ==
  /\ phase[s] = "starting"
  /\ Become(PostStart(State, s))
  /\ UNCHANGED <<notices, held>>

StopDone(s) ==
  /\ phase[s] = "stopping"
  /\ Become(PostStop(State, s))
  /\ UNCHANGED <<notices, held>>

\* The restart check that do_unlock_cluster posted.
Recheck(h) ==
  /\ OnLoop
  /\ h \in recheck
  /\ Become(CheckAnyInClusterStartable([State EXCEPT !.recheck = @ \ {h}], {h}))

\* doAcquireUsage and doReleaseUsage of an import whose service is locked.
AcquireUsage(u) ==
  /\ OnLoop
  /\ u \in Weak \ conn /\ IsLocked(State, User[u])
  /\ Become(OnUsageConnected(State, u))

ReleaseUsage(u) ==
  /\ OnLoop
  /\ u \in Weak \cap conn /\ IsLocked(State, User[u])
  /\ Become(OnUsageDisconnect(State, u))

-----------------------------------------------------------------------------
(* Other threads. *)

loopVars == <<phase, inner, markStop, markStart, override, target, promise,
              running, outer, pushes, pulls, conn, released, replyNow, down, up,
              processing, dispatched, recheck>>

\* Mutant of TryUse: the use count is not checked.
TryUseUnchecked(s) ==
  /\ held[s] < MaxHeld
  /\ uses' = [uses EXCEPT ![s] = @ + 1]
  /\ held' = [held EXCEPT ![s] = @ + 1]
  /\ UNCHANGED <<loopVars, notices>>

TryUse(s) ==
  /\ uses[s] # 0 /\ held[s] < MaxHeld
  /\ uses' = [uses EXCEPT ![s] = @ + 1]
  /\ held' = [held EXCEPT ![s] = @ + 1]
  /\ UNCHANGED <<loopVars, notices>>

\* Mutant of DecUse: the last use of another thread is dropped silently.
DecUseSilent(s) ==
  /\ held[s] # 0
  /\ uses' = [uses EXCEPT ![s] = @ - 1]
  /\ held' = [held EXCEPT ![s] = @ - 1]
  /\ UNCHANGED <<loopVars, notices>>

DecUse(s) ==
  /\ held[s] # 0
  /\ uses' = [uses EXCEPT ![s] = @ - 1]
  /\ held' = [held EXCEPT ![s] = @ - 1]
  /\ notices' = IF HasNoExternalUses(s, uses[s] - 1)
                THEN notices \cup {<<s, uses[s] - 1>>} ELSE notices
  /\ UNCHANGED loopVars

\* The posted check, with the count as it was when the use was dropped.
Notice(s, n) ==
  /\ ~processing
  /\ <<s, n>> \in notices
  /\ notices' = notices \ {<<s, n>>}
  /\ Become(IF IsRunning(State, s)
            THEN CheckStoppable(State, {IF n = 1 THEN s ELSE Head[s]})
            ELSE State)
  /\ UNCHANGED held

-----------------------------------------------------------------------------
Init ==
  /\ phase = [s \in Services |-> "stopped"]
  /\ uses = [s \in Services |-> 0]
  /\ inner = [s \in Services |-> Cardinality(InnerChildren(s))]
  /\ markStop = [h \in Heads |-> FALSE]
  /\ markStart = [h \in Heads |-> FALSE]
  /\ override = [h \in Heads |-> FALSE]
  /\ target = [h \in Heads |-> "none"]
  /\ promise = [h \in Heads |-> FALSE]
  /\ running = [h \in Heads |-> 0]
  /\ conn = Usages
  /\ outer = [h \in Heads |->
       Cardinality(StrongEdges(ClusterInEdges(conn, h)))
       + Cardinality({s \in ClusterMembers(h) : HasImplicitRootEdge(s)})]
  /\ pushes = [h \in Heads |-> 0]
  /\ pulls = [h \in Heads |-> 0]
  /\ released = {} /\ replyNow \in SUBSET Weak /\ down = {} /\ up = {}
  /\ processing = FALSE /\ dispatched = FALSE
  /\ recheck = {} /\ notices = {}
  /\ held = [s \in Services |-> 0]

Requests ==
  \E h \in Requested :
    \/ RequestStart(h, TRUE)
    \/ RequestStart(h, FALSE)
    \/ RequestStop(h)
    \/ RequestObserve(h)

Process ==
  \/ ProcessBegin
  \/ \E s \in Services : ProcessStop(s) \/ ProcessStart(s) \/ ProcessDrop(s)
  \/ ProcessEnd

Hooks == \E s \in Services : StartDone(s) \/ StopDone(s)
Posted ==
  \/ \E h \in Heads : Recheck(h)
  \/ \E s \in Services : Notice(s, 1) \/ Notice(s, 2)
Imports == \E u \in Weak : AcquireUsage(u) \/ ReleaseUsage(u)
Threads == \E s \in Services : TryUse(s) \/ DecUse(s)

Next == Run \/ Requests \/ Process \/ Hooks \/ Posted \/ Imports \/ Threads

Spec == Init /\ [][Next]_vars

\* The event loop runs the tasks posted to it, hooks complete, imports let go of
\* a usage they promised to release, and other threads finally use no service
\* (one that is used again and again cannot be stopped).  An iteration of process()
\* that begins ends or takes steps for ever.  Each hook and each posted task is
\* enabled until it is taken, so that its fairness is that it is infinitely often
\* not waiting.
Fairness ==
  /\ WF_vars(ProcessBegin)
  /\ []<>~processing \/ []<><<Process>>_vars
  /\ \A s \in Services : []<>(phase[s] # "starting") /\ []<>(phase[s] # "stopping")
  /\ \A h \in Heads : []<>(h \notin recheck)
  /\ <>[](\A s \in Services : held[s] = 0)
  /\ \A n \in Services \X {1, 2} : []<>(n \notin notices)
  /\ \A u \in Weak : []<>(u \notin released)
FairSpec == Spec /\ Fairness

-----------------------------------------------------------------------------
(* Properties. *)

\* Every counter and flag stays in the range of its C++ type from below: no
\* handler decrements a counter of Cluster or Service that is zero.
TypeOK ==
  /\ phase \in [Services -> Phase]
  /\ uses \in [Services -> Nat] /\ inner \in [Services -> Nat]
  /\ \A f \in {markStop, markStart, override, promise} : f \in [Heads -> BOOLEAN]
  /\ target \in [Heads -> {"none", "start", "stop"}]
  /\ \A f \in {running, outer, pushes, pulls} : f \in [Heads -> Nat]
  /\ conn \subseteq Usages /\ released \subseteq conn \cap Weak
  /\ replyNow \subseteq Weak
  /\ down \subseteq Services /\ up \subseteq Services
  /\ processing \in BOOLEAN /\ dispatched \in BOOLEAN
  /\ recheck \subseteq Heads
  /\ notices \subseteq Services \X {1, 2}
  /\ held \in [Services -> 0..MaxHeld]

\* uses_ is one while the service itself is up, plus one per locked user (a
\* parent counts from its own start on) and per use of another thread, however
\* locks, weak usages and try_use interleave: no use is counted twice, forgotten
\* or dropped twice by the increments and decrements of ServiceImpl.
UsesExact ==
  \A s \in Services :
    uses[s] = IF phase[s] \notin {"starting", "running"} THEN 0
              ELSE 1 + held[s]
                 + Cardinality({x \in {s} \cap Members :
                      phase[Parent[x]] \in {"starting", "running", "stopping"}})
                 + (IF phase[s] = "starting" THEN 0
                    ELSE Cardinality({e \in OutEdges(conn, s) :
                                        phase[Dst(e)] # "stopped"})
                       + ImplicitUses({x \in Services : phase[x] # "stopped"}, s))

\* inner_deps_missing_ and outer_deps_missing_ count exactly the children and
\* the strong dependencies that do not run, so that isStartable tells the truth.
RequirementsExact ==
  /\ \A s \in Services :
       inner[s] = Cardinality({x \in InnerChildren(s) : phase[x] # "running"})
  /\ \A h \in Heads :
       outer[h] =
         Cardinality({e \in StrongEdges(ClusterInEdges(conn, h)) :
                        phase[Src(e)] # "running"})
         + Cardinality({s \in ClusterMembers(h) : /\ HasImplicitRootEdge(s)
                                                  /\ phase[Root] # "running"})

\* What ServiceImpl::verifyCluster tests: pushes_ is the own request plus one per
\* edge to a cluster that is pushed itself.
PushesExact ==
  \A h \in Heads :
    pushes[h] = (IF override[h] THEN 1 ELSE 0)
                + Cardinality({e \in ClusterOutEdges(conn, h) :
                                 pushes[Head[Dst(e)]] # 0})

\* pulls_ counts the edges from clusters that are marked for stop, whichever of
\* the mark and the usage came first.
PullsExact ==
  \A h \in Heads :
    pulls[h] = Cardinality({e \in ClusterInEdges(conn, h) :
                              markStop[Head[Src(e)]]})

\* The counters that decide over starts and stops are exact: each is changed by
\* differences in many handlers and never computed again.
CountersExact == TypeOK /\ UsesExact /\ RequirementsExact /\ PushesExact /\ PullsExact

\* No service is queued for both directions (asserted by push_down and push_up),
\* and a queue with work in it always has a processing task posted or active.
QueueSound ==
  /\ down \cap up = {}
  /\ down \cup up # {} => processing \/ dispatched

\* Nothing is left to do: no task, no hook, no use of another thread, and no
\* usage that an import still has to release.
Idle ==
  /\ ~processing /\ ~dispatched /\ recheck = {} /\ notices = {} /\ released = {}
  /\ \A s \in Services : phase[s] \notin {"starting", "stopping"} /\ held[s] = 0
  /\ \A u \in conn \cap Weak :
       markStop[Head[Used[u]]] => phase[User[u]] = "stopped"

NoneHalfStarted == \A s \in Services : phase[s] # "locked"

\* When nothing is left to do, no cluster is still marked for stop or waits for
\* its stop: each of the counters that delay a stop leads to a check_stoppable
\* when it reaches its threshold.
NoLostStop ==
  Idle /\ NoneHalfStarted =>
    \A h \in Heads : ~markStop[h] /\ target[h] # "stop"

\* When nothing is left to do, no cluster that shall start and can start is left
\* behind: the last of the conditions to become true queues it.
NoLostStart ==
  Idle => \A h \in Heads \ {Root} :
     ~(ShallStart(State, h) /\ IsClusterStartable(State, h))

\* When nothing is left to do, a cluster nobody wants to run is stopped: losing
\* the last push stops a dependency that was started for its dependents only.
NotNeededStops ==
  Idle /\ NoneHalfStarted =>
     \A h \in Heads : pushes[h] = 0 => phase[h] = "stopped"

\* No request is left behind when nothing is left to do.
NothingLeftBehind == NoLostStop /\ NoLostStart /\ NotNeededStops

\* stop() of a service that is up resolves or is canceled by a later request.
StopResolves ==
  \A h \in Heads : (promise[h] /\ target[h] = "stop") ~> target[h] # "stop"

\* The life cycle the phases go through.
Lifecycle == INSTANCE ServiceLifecycle WITH phase <- phase

\* Services start and stop in the order of ServiceLifecycle, whatever requests,
\* usages and hooks drive the counters: a step of the scheduler locks, starts,
\* stops or unlocks as ServiceLifecycle allows, or changes no phase.  With it
\* NeedsRun, LockedTogether and ChildrenRun hold of the scheduler.
LifecycleSpec == Lifecycle!Spec
=============================================================================
