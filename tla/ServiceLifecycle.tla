-------------------------- MODULE ServiceLifecycle --------------------------
(***************************************************************************)
(* What the scheduler promises: the order in which services start and      *)
(* stop, whatever the counters, queues and requests are that lead to it.   *)
(*                                                                         *)
(* A cluster is locked as a whole before its first member starts, and is   *)
(* unlocked as a whole after its last member has stopped.  It is locked    *)
(* only while everything its members need runs, a member starts after its  *)
(* inner children and stops before them, and a service stops only when     *)
(* nothing that needs it is locked.                                        *)
(***************************************************************************)
EXTENDS ServiceGraph

VARIABLE phase

Phase == {"stopped", "locked", "starting", "running", "stopping", "pending"}

\* The services that s needs: the sources of its strong edges and the root.
Needs(s) == {Src(e) : e \in StrongEdges(InEdges(Usages, s))} \cup ({Root} \ {s})

\* The phases in which a service counts as a user of its inner children.
Up == {"starting", "running", "stopping"}

LockedCluster(h) ==
  [s \in Services |-> IF Head[s] = h THEN "locked" ELSE phase[s]]

Lockable(h) ==
  \A s \in ClusterMembers(h) :
    phase[s] = "stopped" /\ \A t \in Needs(s) : phase[t] = "running"

Startable(s) ==
  /\ \A m \in InnerChildren(s) : phase[m] = "running"
  /\ phase[s] = "locked" \/ Lockable(Head[s])

Start(s, p) ==
  /\ Startable(s)
  /\ phase' = [(IF phase[s] = "locked" THEN phase ELSE LockedCluster(Head[s]))
                 EXCEPT ![s] = p]

Started(s) == phase[s] = "starting" /\ phase' = [phase EXCEPT ![s] = "running"]

Stoppable(s) ==
  /\ phase[s] = "running"
  /\ \A t \in Services : s \in Needs(t) => phase[t] = "stopped"
  /\ s \in Members => phase[Parent[s]] \notin Up

\* The last member that stops unlocks its cluster.
AfterStop(s) ==
  IF \A t \in ClusterMembers(Head[s]) \ {s} : phase[t] = "pending"
  THEN [t \in Services |-> IF Head[t] = Head[s] THEN "stopped" ELSE phase[t]]
  ELSE [phase EXCEPT ![s] = "pending"]

StopBegin(s) == Stoppable(s) /\ phase' = [phase EXCEPT ![s] = "stopping"]
StopAtOnce(s) == Stoppable(s) /\ phase' = AfterStop(s)
StopEnd(s) == phase[s] = "stopping" /\ phase' = AfterStop(s)

Init == phase = [s \in Services |-> "stopped"]

Next ==
  \E s \in Services :
    \/ \E p \in {"starting", "running"} : Start(s, p)
    \/ Started(s) \/ StopBegin(s) \/ StopAtOnce(s) \/ StopEnd(s)

Spec == Init /\ [][Next]_phase

-----------------------------------------------------------------------------
\* Every service is in one of the phases of phase_t.
TypeOK == phase \in [Services -> Phase]

\* No service is locked, starting, running, stopping or pending without
\* everything it needs running: do_start_eager asserts it once, when a service
\* starts; that no dependency goes down before the cluster of its last user is
\* unlocked is what the order of stops has to guarantee.
NeedsRun ==
  \A s \in Services : phase[s] # "stopped" =>
    \A t \in Needs(s) : phase[t] = "running"

\* A cluster is locked and unlocked as a whole (do_lock_cluster,
\* do_unlock_cluster), although its members start and stop one by one.
LockedTogether ==
  \A s, t \in Services :
    Head[s] = Head[t] => (phase[s] = "stopped" <=> phase[t] = "stopped")

\* A service is up, its stop hook included, only while its inner children run:
\* members start bottom up and stop top down.
ChildrenRun ==
  \A m \in Members : phase[Parent[m]] \in Up => phase[m] = "running"

IInv == TypeOK /\ LockedTogether /\ NeedsRun /\ ChildrenRun
=============================================================================
