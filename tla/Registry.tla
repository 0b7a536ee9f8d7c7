------------------------------ MODULE Registry ------------------------------
(***************************************************************************)
(* One registry entry (idle::RegistryImpl): the interfaces published under *)
(* one id, ordered by preference, the life of the services that export     *)
(* them as the entry sees it, and the Singleton parts that subscribe to    *)
(* the entry so that one of the services runs at a time.                   *)
(*                                                                         *)
(* The operators take the state they read as arguments: one handler of the *)
(* event loop runs several of them one after the other.                    *)
(***************************************************************************)
EXTENDS Naturals, Sequences, SequencesExt, FiniteSets

CONSTANTS
  Interfaces,   \* the interfaces exported under the id
  Default,      \* the one whose service is created on demand
  Singletons,   \* those whose service owns a Singleton part
  Prio,         \* what the virtual operator> compares
  Addr          \* the addresses of the interfaces
ASSUME RegistryAssumption ==
  /\ IsFiniteSet(Interfaces) /\ Default \in Interfaces
  /\ Singletons \subseteq Interfaces \ {Default}
  /\ Prio \in [Interfaces -> Nat] /\ Addr \in [Interfaces -> Nat]
  /\ \A i, j \in Interfaces : i # j => Addr[i] # Addr[j]
  /\ \A i \in Interfaces \ {Default} : Prio[Default] < Prio[i]

VARIABLES
  published,   \* interfaces_, the front is the most preferred one
  phase,       \* the phase of the service of each interface
  satisfied    \* the Singleton parts that are satisfied

registryVars == <<published, phase, satisfied>>

Phases == {"absent", "stopped", "locked", "running", "pending"}

\* The entry lists the interfaces of the services that exist, each once.
RegistryTypeOK ==
  /\ published \in Seq(Interfaces) /\ IsInjective(published)
  /\ phase \in [Interfaces -> Phases]
  /\ Range(published) = {i \in Interfaces : phase[i] # "absent"}
  /\ satisfied \subseteq Singletons

RegistryInit ==
  /\ published = <<>>
  /\ phase = [i \in Interfaces |-> "absent"]
  /\ satisfied = Singletons

IsLocked(ph, i) == ph[i] \in {"locked", "running", "pending"}

-----------------------------------------------------------------------------
(* The order of the interfaces. *)

\* Interface::operator>
Greater(i, j) == Prio[i] > Prio[j]

\* UniqueGreaterPred: the address decides between equal priorities.
GreaterPred(i, j) ==
  Greater(i, j) \/ (~Greater(j, i) /\ Addr[i] > Addr[j])

InsertSorted(list, i) ==
  InsertAt(list, 1 + Cardinality({k \in DOMAIN list : GreaterPred(list[k], i)}), i)

\* A node is taken out of the intrusive list.
Unlink(list, i) ==
  IF i \notin Range(list) THEN list
  ELSE RemoveAt(list, CHOOSE k \in DOMAIN list : list[k] = i)

\* A node that was taken out of the list has no neighbours left.
IsTopPriorityInterface(list, i) ==
  i \notin Range(list) \/ Head(list) = i

-----------------------------------------------------------------------------
(* The Singleton parts. *)

Subscribed(ph) == {s \in Singletons : ph[s] # "absent"}

IsAnySiblingLocked(list, ph) == \E i \in Range(list) : IsLocked(ph, i)

\* Singleton::onSubscribedCreated of every part for the new interface i.
SingletonCreated(sat, list, ph, i) ==
  sat \ {s \in Subscribed(ph) :
           \/ ~IsTopPriorityInterface(list, s)
           \/ s = i /\ IsAnySiblingLocked(list, ph)}

\* Singleton::onSubscribedDestroy; the part of i itself goes with its service
\* and starts satisfied when the service is created again.
SingletonDestroyed(sat, list, ph, i) ==
  sat \cup {s \in Subscribed(ph) : IsTopPriorityInterface(list, s)} \cup ({i} \cap Singletons)

\* Mutant of SingletonUnlocked: the waiting interface is not woken.
SingletonUnlockedSilent(sat, list, ph, i) ==
  sat \ {s \in {i} : ~IsTopPriorityInterface(list, s)}

\* Singleton::onSubscribedUnlocked
SingletonUnlocked(sat, list, ph, i) ==
  (sat \cup {s \in Subscribed(ph) \ {i} : IsTopPriorityInterface(list, s)})
    \ {s \in {i} : ~IsTopPriorityInterface(list, s)}

-----------------------------------------------------------------------------
(* What the entry does with a service of one of its interfaces. *)

\* Service::init up to the end of interface_publish.
Publish(i) ==
  /\ published' = InsertSorted(published, i)
  /\ phase' = [phase EXCEPT ![i] = "stopped"]
  /\ satisfied' = SingletonCreated(satisfied, published', phase', i)

\* do_lock_cluster of a service whose imports are satisfied.
Lock(i) ==
  /\ phase[i] = "stopped"
  /\ i \in Singletons => i \in satisfied
  /\ phase' = [phase EXCEPT ![i] = "locked"]
  /\ UNCHANGED <<published, satisfied>>

\* try_set_service_stopping and the stop hook.
Stop(i) ==
  /\ phase[i] = "running"
  /\ phase' = [phase EXCEPT ![i] = "pending"]
  /\ UNCHANGED <<published, satisfied>>

\* do_unlock_cluster
Unlock(i) ==
  /\ phase[i] = "pending"
  /\ phase' = [phase EXCEPT ![i] = "stopped"]
  /\ satisfied' = SingletonUnlocked(satisfied, published, phase', i)
  /\ UNCHANGED published

-----------------------------------------------------------------------------
(***************************************************************************)
(* No singleton starves: when no service of the entry is locked, the       *)
(* Singleton of the most preferred interface is satisfied.  The part is    *)
(* only ever woken by a callback of the entry (singleton.cpp:89 and 104),  *)
(* so one missed notification would leave the entry without a service.     *)
(***************************************************************************)
SingletonNotStarved ==
  /\ published # <<>>
  /\ \A i \in Interfaces : ~IsLocked(phase, i)
  => Head(published) \in satisfied \cup (Interfaces \ Singletons)
=============================================================================
