------------------------------ MODULE Imports -------------------------------
(***************************************************************************)
(* The import parts that select interfaces of a registry entry:            *)
(* Dependency, DynDependency (with its heir Var) and DynDependencies,      *)
(* beside the services that export the interfaces.                         *)
(*                                                                         *)
(* An import keeps what it selected up to date through the callbacks of    *)
(* the entry while its service is stopped.  While the service is locked a  *)
(* Dependency keeps what it has, a DynDependency prepares a swap to a      *)
(* better interface that the user applies later, maybe on another thread,  *)
(* and DynDependencies asks the user.  The services start and stop when    *)
(* the scheduler says so: a service stops once no locked import uses it.   *)
(*                                                                         *)
(* A violated assertion, or the use of a freed object, ends a behaviour    *)
(* with the place in the field failed of the import.                       *)
(***************************************************************************)
EXTENDS Registry

CONSTANTS
  Users,   \* services with one import part each
  Flags,   \* what onInspect of DynDependencies says of each interface
  Picked   \* the interfaces a user of DynDependencies acquires by itself

None == "none"

ASSUME ImportsAssumption ==
  /\ IsFiniteSet(Users)
  /\ Flags \in [Interfaces -> {"ignore", "weak", "strong"}]
  /\ Picked \subseteq Interfaces
  /\ None \notin Interfaces

VARIABLES
  import,     \* the import part of each user and the phase of its service
  stopping,   \* the interfaces whose service is marked for stop
  closing     \* the context destroys the services it created on demand

vars == <<registryVars, import, stopping, closing>>

Kinds == {"Dependency", "DynDependency", "Var", "DynDependencies"}
UseReplies == {"Never", "NowAndInsert", "Later", "LaterAndNotify", "LaterAndInsert"}
Uses == [connected : BOOLEAN, reply : UseReplies,
         stored : {"erased", "inserted", "unknown"}]

\* A part before onPartInit; swaps says whether a Var has a hook, or the
\* contents of the properties agree, and asked has the usages with the flag
\* ReleaseRequested.
Fresh(kind, default, swaps) ==
  [kind |-> kind, default |-> default, swaps |-> swaps, phase |-> "absent",
   marked |-> FALSE, sat |-> TRUE, active |-> None, pref |-> None,
   pending |-> FALSE, ptr |-> None, task |-> None, map |-> <<>>,
   asked |-> {}, failed |-> None]

Init ==
  /\ RegistryInit
  /\ import \in [Users -> {Fresh(k, d, w) : k \in Kinds, d \in BOOLEAN, w \in BOOLEAN}]
  /\ \A u \in Users :
       /\ import[u].kind = "DynDependencies" => ~import[u].default
       /\ import[u].kind # "Var" => import[u].swaps
  /\ stopping = {} /\ closing = FALSE

TypeOK ==
  /\ RegistryTypeOK
  /\ stopping \subseteq Interfaces /\ closing \in BOOLEAN
  /\ \A u \in Users : LET r == import[u] IN
       /\ r.kind \in Kinds /\ r.phase \in {"absent", "stopped", "locked", "running"}
       /\ {r.marked, r.sat, r.pending} \subseteq BOOLEAN
       /\ {r.active, r.pref, r.ptr} \subseteq Interfaces \cup {None}
       /\ r.task \in {None, "offered", "granted", "applied"}
       /\ DOMAIN r.map \subseteq Interfaces /\ Range(r.map) \subseteq Uses
       /\ r.asked \subseteq Interfaces

-----------------------------------------------------------------------------
(* What an import refers to. *)

Held(r) == r.phase \in {"locked", "running"}
Alive(r) == r.phase # "absent"
Fail(r, where) == [r EXCEPT !.failed = where]
IsDyn(r) == r.kind \in {"DynDependency", "Var"}

\* imports(): the interfaces a usage of the part is connected to.
Connected(r) ==
  IF r.kind = "DynDependencies" THEN {i \in DOMAIN r.map : r.map[i].connected}
  ELSE {r.active, r.pref} \ {None}

Strong(r) ==
  {i \in Connected(r) : r.kind = "DynDependencies" => Flags[i] = "strong"}

\* Mutant of IsUsed: the imports that are not locked count as well.
IsConnected(i) == \E u \in Users : i \in Connected(import[u])

\* uses_ of the service counts the connected imports that are locked.
IsUsed(i) == \E u \in Users : Held(import[u]) /\ i \in Connected(import[u])

\* reference_of makes references to services created on demand strong.
IsReferenced(i) == \E u \in Users : i \in {import[u].active, import[u].pref}

-----------------------------------------------------------------------------
(* Dependency and DynDependency. *)

\* canSwap; Var refuses to give its properties up for nothing.
CanSwap(r, to) == r.kind = "Var" => to # None /\ r.swaps

OfferSwap(r) ==
  IF r.pending THEN Fail(r, "offerSwap")
  ELSE [r EXCEPT !.pending = TRUE, !.task = "offered"]

\* onPartInit when the default is not needed.
SelectFront(r, list) ==
  IF list = <<>> THEN [r EXCEPT !.sat = FALSE] ELSE [r EXCEPT !.active = Head(list)]

\* Mutant of DependencyCreated: a locked dependency is switched over.
DependencyCreatedLocked(r, i) ==
  IF r.active # None /\ ~Greater(i, r.active) THEN r
  ELSE [r EXCEPT !.active = i, !.sat = TRUE]

DependencyCreated(r, i) ==
  IF (r.active # None /\ ~Greater(i, r.active)) \/ Held(r) THEN r
  ELSE [r EXCEPT !.active = i, !.sat = TRUE]

DynCreated(r, ph, i) ==
  LET current == IF Held(r) /\ r.pref # None THEN r.pref ELSE r.active
      offered == [r EXCEPT !.pref = i]
  IN IF current = r.pref /\ r.pref # None /\ ~Greater(r.pref, r.active)
     THEN Fail(r, "onSubscribedCreated")
     ELSE IF current # None /\ ~Greater(i, current) THEN r
     ELSE IF ~Held(r) THEN [r EXCEPT !.active = i, !.sat = TRUE, !.asked = {}]
     ELSE IF r.pending \/ ~CanSwap(r, i) THEN r
     ELSE IF ph[i] = "running" THEN OfferSwap(offered) ELSE offered

\* onUsedDestroy, up to the creation of a default.  What reselect_preferred
\* returns is dropped: a locked part is left with a freed preferred interface.
SelectorUsedDestroy(r, list, i) ==
  IF Held(r) THEN Fail(r, "onUsedDestroy")
  ELSE IF list = <<>> THEN [r EXCEPT !.active = None, !.sat = FALSE, !.asked = {}]
  ELSE [r EXCEPT !.active = Head(list), !.sat = TRUE, !.asked = {}]

\* reselect_preferred: the first interface before the active one, which may
\* only tie with it.
ReselectPreferred(r, list, exclude) ==
  LET rest == Unlink(list, exclude)
  IN IF rest = <<>> \/ Head(rest) = r.active THEN None ELSE Head(rest)

\* onReleaseRequest of a DynDependency: the answer and the part.
DynRelease(r, list, i) ==
  LET next == IF i = r.active THEN r.pref ELSE ReselectPreferred(r, list, i)
  IN IF r.pending THEN <<IF i = r.active THEN "Later" ELSE "Never", r>>
     ELSE IF ~CanSwap(r, next) THEN <<"Never", r>>
     ELSE IF i = r.active THEN <<"Later", r>>
     ELSE <<"Now", [r EXCEPT !.pref = next]>>

\* finalize
Finalize(r, list) ==
  LET done == [r EXCEPT !.active = r.pref, !.pref = None, !.pending = FALSE,
                        !.task = None, !.asked = {}]
  IN IF Head(list) # done.active THEN Fail(done, "finalize") ELSE done

SelectorLock(r, ph) ==
  IF r.active = None \/ r.pref # None \/ r.pending THEN Fail(r, "onImportLock")
  ELSE IF IsDyn(r) THEN [r EXCEPT !.ptr = r.active] ELSE r

\* Mutant of DependencyUnlock: the registry is not looked at again.
DependencyUnlockKeeps(r, list) == r

DependencyUnlock(r, list) ==
  IF Greater(Head(list), r.active) THEN [r EXCEPT !.active = Head(list)] ELSE r

\* Mutant of DynUnlock: a swap that was not finalized stays pending.
DynUnlockPending(r) ==
  [r EXCEPT !.ptr = None, !.task = None, !.pref = None,
            !.active = IF r.pref # None THEN r.pref ELSE @,
            !.asked = IF r.pref # None THEN {} ELSE @]

DynUnlock(r) ==
  [r EXCEPT !.ptr = None, !.pending = FALSE, !.task = None, !.pref = None,
            !.active = IF r.pref # None THEN r.pref ELSE @,
            !.asked = IF r.pref # None THEN {} ELSE @]

-----------------------------------------------------------------------------
(* DynDependencies. *)

NewUse == [connected |-> FALSE, reply |-> "Later", stored |-> "erased"]
UseOf(r, i) == IF i \in DOMAIN r.map THEN r.map[i] ELSE NewUse
SetUse(r, i, use) ==
  [r EXCEPT !.map = [j \in DOMAIN r.map \cup {i} |-> IF j = i THEN use ELSE r.map[j]]]

\* process_availability, where reply is what onUseOffer answers.
ProcessAvailability(r, i, reply) ==
  LET use == UseOf(r, i)
      joined == [use EXCEPT !.connected = TRUE]
      answer == IF Held(r) THEN reply ELSE "Later"
  IN IF Flags[i] = "ignore" \/ use.connected THEN r
     ELSE SetUse(r, i,
            CASE answer = "Later"        -> joined
              [] answer = "NowAndInsert" -> [joined EXCEPT !.stored = "inserted"]
              [] answer = "Never"        -> [use EXCEPT !.reply = answer]
              [] OTHER                   -> [joined EXCEPT !.reply = answer])

\* UsageImpl::onUsedStarted; the user may not put the answer off again.
UseStarted(r, i, reply) ==
  LET use == r.map[i]
  IN IF \/ use.reply = "LaterAndInsert"
        \/ use.reply = "LaterAndNotify" /\ reply = "NowAndInsert"
     THEN SetUse(r, i, [use EXCEPT !.stored = "inserted"])
     ELSE r

\* onUsedDestroy of a connected usage, and onSubscribedDestroy of others.
Forget(r, i) ==
  [r EXCEPT !.map = [j \in DOMAIN @ \ {i} |-> @[j]], !.asked = @ \ {i}]

\* Mutant of UseRelease: what is released stays in the storage.
UseReleaseStored(r, i, reply) ==
  <<reply, IF reply # "Now" THEN r
           ELSE SetUse(r, i, [r.map[i] EXCEPT !.connected = FALSE])>>

\* UsageImpl::onReleaseRequest, where reply is what the user answers.
UseRelease(r, i, reply) ==
  <<reply, IF reply # "Now" THEN r
           ELSE SetUse(r, i, [r.map[i] EXCEPT !.connected = FALSE, !.stored = "erased"])>>

\* onImportLock
UsesLock(r, ph) ==
  [r EXCEPT !.map = [i \in DOMAIN @ |->
     IF ~@[i].connected THEN @[i]
     ELSE IF ph[i] = "running" THEN [@[i] EXCEPT !.stored = "inserted"]
     ELSE [@[i] EXCEPT !.reply = "LaterAndNotify", !.stored = "erased"]]]

\* Mutant of UsesUnlock: what was declined stays declined.
UsesUnlockDeclined(r) ==
  [r EXCEPT !.map = [i \in DOMAIN @ |-> [@[i] EXCEPT !.stored = "inserted"]]]

\* onImportUnlock
UsesUnlock(r) ==
  [r EXCEPT !.map = [i \in DOMAIN @ |->
     [connected |-> TRUE, stored |-> "inserted",
      reply |-> IF @[i].connected THEN @[i].reply ELSE "Later"]]]

-----------------------------------------------------------------------------
(* The callbacks of the entry, for every import at once. *)

\* onInterfaceCreate calls onSubscribedCreated of each part.
Created(r, ph, i, reply) ==
  IF ~Alive(r) THEN r
  ELSE CASE r.kind = "Dependency" -> DependencyCreated(r, i)
         [] IsDyn(r)              -> DynCreated(r, ph, i)
         [] OTHER                 -> ProcessAvailability(r, i, reply)

Announce(imports, ph, i, reply) ==
  [u \in Users |-> Created(imports[u], ph, i, reply)]

\* onInterfaceDestroy calls onUsedDestroy of each usage, onSubscribedDestroy
\* of each part.
Destroyed(r, list, i) ==
  IF r.kind = "DynDependencies" THEN Forget(r, i)
  ELSE IF i \in Connected(r) THEN SelectorUsedDestroy(r, list, i)
  ELSE r

Running == \A u \in Users : import[u].failed = None

\* A handler that leaves the entry and the flags of the services alone.
ImportStep(u, r) ==
  /\ import' = [import EXCEPT ![u] = r]
  /\ UNCHANGED <<registryVars, stopping, closing>>

-----------------------------------------------------------------------------
(* The services that export an interface. *)

\* Service::init of a service that is not created on demand.
CreateService(i) ==
  /\ Running /\ ~closing /\ i # Default /\ phase[i] = "absent"
  /\ Publish(i)
  /\ \E reply \in UseReplies : import' = Announce(import, phase', i, reply)
  /\ UNCHANGED <<stopping, closing>>

LockService(i) ==
  /\ Running /\ Lock(i)
  /\ UNCHANGED <<import, stopping, closing>>

\* post_start_actions: do_finalize_cluster and onInterfaceStart tell the locked
\* imports.  A service that was asked to stop meanwhile is not announced, and
\* must not be in use.
RunService(i) ==
  /\ Running /\ phase[i] = "locked"
  /\ phase' = [phase EXCEPT ![i] = "running"]
  /\ \E reply \in UseReplies \ {"LaterAndNotify", "LaterAndInsert"} :
       import' = [u \in Users |-> LET r == import[u] IN
         IF ~Held(r) \/ i \notin Connected(r) THEN r
         ELSE IF i \in stopping THEN Fail(r, "post_start_actions")
         ELSE IF r.kind = "Dependency" THEN r
         ELSE IF r.kind = "DynDependencies" THEN UseStarted(r, i, reply)
         ELSE IF i = r.pref THEN OfferSwap(r) ELSE Fail(r, "onUsedStarted")]
  /\ UNCHANGED <<published, satisfied, stopping, closing>>

\* on_service_stop_request for a service that is not stopped: the users that
\* are locked and not marked, and those with a weak usage, are asked to let go
\* of it.  One that answered Later is not asked again (Usage::requestRelease),
\* one that refuses is stopped as well.
RequestStop(i) ==
  /\ Running /\ IsLocked(phase, i)
  /\ stopping' = stopping \cup {i}
  /\ \E reply \in {"Now", "Later", "Never"} :
       import' = [u \in Users |->
         LET r == import[u]
             weak == r.kind = "DynDependencies" /\ Flags[i] = "weak"
             answer == CASE r.kind = "Dependency" -> <<"Never", r>>
                         [] r.kind = "DynDependencies" ->
                              UseRelease(r, i, IF weak /\ reply = "Never"
                                               THEN "Now" ELSE reply)
                         [] OTHER -> DynRelease(r, published, i)
         IN IF \/ i \notin Connected(r) \/ i \in r.asked
               \/ ~weak /\ (~Held(r) \/ r.marked)
            THEN r
            ELSE [answer[2] EXCEPT
                   !.marked = @ \/ answer[1] = "Never",
                   !.asked = IF answer[1] = "Later" THEN @ \cup {i} ELSE @]]
  /\ UNCHANGED <<registryVars, closing>>

\* A marked service stops once it has no external uses.
StopService(i) ==
  /\ Running /\ i \in stopping /\ ~IsUsed(i)
  /\ Stop(i)
  /\ UNCHANGED <<import, stopping, closing>>

\* do_unlock_cluster: onInterfaceUnlock tells DynDependencies.
UnlockService(i) ==
  /\ Running
  /\ Unlock(i)
  /\ stopping' = stopping \ {i}
  /\ \E reply \in UseReplies :
       import' = [u \in Users |->
         IF Alive(import[u]) /\ import[u].kind = "DynDependencies"
         THEN ProcessAvailability(import[u], i, reply) ELSE import[u]]
  /\ UNCHANGED closing

\* Service::destroy; the imports that lose their selection create the default
\* when nothing else is left.
Revoke(i) ==
  LET list == Unlink(published, i)
      left == [phase EXCEPT ![i] = "absent"]
      imports == [u \in Users |-> Destroyed(import[u], list, i)]
      onDemand == /\ list = <<>> /\ i # Default
                  /\ \E u \in Users : import[u].default /\ import[u].active = i
      created == [left EXCEPT ![Default] = "stopped"]
  IN /\ published' = IF onDemand THEN <<Default>> ELSE list
     /\ phase' = IF onDemand THEN created ELSE left
     /\ \E reply \in UseReplies :
          import' = IF onDemand THEN Announce(imports, created, Default, reply)
                    ELSE imports
     /\ satisfied' = SingletonDestroyed(satisfied, published', left, i)

\* The owner destroys the service; one created on demand is collected when no
\* import refers to it.
DestroyService(i) ==
  /\ Running /\ phase[i] = "stopped"
  /\ i = Default => ~IsReferenced(i)
  /\ Revoke(i)
  /\ UNCHANGED <<stopping, closing>>

\* RegistryManager::onPartDestroy, when everything is stopped.
CloseRegistry ==
  /\ Running /\ ~closing
  /\ \A i \in Interfaces : ~IsLocked(phase, i)
  /\ \A u \in Users : ~Held(import[u])
  /\ closing' = TRUE
  /\ IF phase[Default] = "stopped" THEN Revoke(Default)
     ELSE UNCHANGED <<registryVars, import>>
  /\ UNCHANGED stopping

-----------------------------------------------------------------------------
(* The services that own an import. *)

\* onPartInit, with setDefault when the entry is empty.
InitUser(u) ==
  LET r == [import[u] EXCEPT !.phase = "stopped"]
      uses == {i \in Range(published) : Flags[i] # "ignore"}
  IN /\ Running /\ ~closing /\ ~Alive(import[u])
     /\ IF published = <<>> /\ r.default
        THEN /\ Publish(Default)
             /\ \E reply \in UseReplies :
                  import' = Announce([import EXCEPT ![u] = r], phase', Default, reply)
        ELSE /\ import' = [import EXCEPT ![u] =
                  IF r.kind # "DynDependencies" THEN SelectFront(r, published)
                  ELSE [r EXCEPT !.map =
                          [i \in uses |-> [NewUse EXCEPT !.connected = TRUE]]]]
             /\ UNCHANGED registryVars
     /\ UNCHANGED <<stopping, closing>>

\* onPartDestroy
DestroyUser(u) ==
  LET r == import[u]
  IN /\ Running /\ r.phase = "stopped"
     /\ ImportStep(u, Fresh(r.kind, r.default, r.swaps))

\* The cluster of the user is startable: do_lock_cluster, onImportLock.
LockUser(u) ==
  LET r == import[u]
      locked == IF r.kind = "DynDependencies" THEN UsesLock(r, phase)
                ELSE SelectorLock(r, phase)
  IN /\ Running /\ r.phase = "stopped" /\ r.sat
     /\ \A i \in Strong(r) : phase[i] = "running"
     /\ Connected(r) \cap stopping = {}
     /\ ImportStep(u, [locked EXCEPT !.phase = "locked"])

\* do_start_eager of the user, later when it is in a cluster of several.
RunUser(u) ==
  /\ Running /\ import[u].phase = "locked"
  /\ ImportStep(u, [import[u] EXCEPT !.phase = "running"])

\* do_unlock_cluster, onImportUnlock.
UnlockUser(u) ==
  LET r == import[u]
      unlocked == CASE r.kind = "Dependency" -> DependencyUnlock(r, published)
                    [] IsDyn(r)              -> DynUnlock(r)
                    [] OTHER                 -> UsesUnlock(r)
  IN /\ Running /\ r.phase = "running"
     /\ ImportStep(u, [unlocked EXCEPT !.phase = "stopped", !.marked = FALSE])

-----------------------------------------------------------------------------
(* The swap of a DynDependency and the hooks of DynDependencies. *)

\* The task posted by offerSwap: the handle can only be locked while the user
\* is usable, otherwise nobody takes the swap up.
RunSwap(u) ==
  /\ Running /\ import[u].task = "offered"
  /\ ImportStep(u, [import[u] EXCEPT
       !.task = IF import[u].phase = "running" THEN "granted" ELSE None])

\* SwapAction::apply on the event loop or on another thread.
ApplySwap(u) ==
  LET stored == [import[u] EXCEPT !.ptr = import[u].pref]
  IN /\ Running /\ import[u].task = "granted"
     /\ \/ ImportStep(u, Finalize(stored, published))
        \/ ImportStep(u, [stored EXCEPT !.task = "applied"])

FinalizeSwap(u) ==
  /\ Running /\ import[u].task = "applied"
  /\ ImportStep(u, Finalize(import[u], published))

\* doAcquireUsage
AcquireUsage(u, i) ==
  LET r == import[u]
  IN /\ Running /\ r.kind = "DynDependencies" /\ Held(r)
     /\ i \in Range(published) \cap Picked
     /\ ImportStep(u, SetUse(r, i, [UseOf(r, i) EXCEPT !.connected = TRUE,
                                                      !.stored = "unknown"]))

\* doReleaseUsage
ReleaseUsage(u, i) ==
  LET r == import[u]
  IN /\ Running /\ r.kind = "DynDependencies" /\ Held(r) /\ i \in DOMAIN r.map
     /\ ImportStep(u, SetUse([r EXCEPT !.asked = @ \ {i}], i,
          [r.map[i] EXCEPT !.connected = FALSE, !.stored = "erased"]))

-----------------------------------------------------------------------------
ServiceStep(i) ==
  \/ CreateService(i) \/ LockService(i) \/ RunService(i) \/ RequestStop(i)
  \/ StopService(i) \/ UnlockService(i) \/ DestroyService(i)

UserStep(u) ==
  \/ InitUser(u) \/ DestroyUser(u) \/ LockUser(u) \/ RunUser(u) \/ UnlockUser(u)
  \/ RunSwap(u) \/ ApplySwap(u) \/ FinalizeSwap(u)
  \/ \E i \in Interfaces : AcquireUsage(u, i) \/ ReleaseUsage(u, i)

Next ==
  \/ \E i \in Interfaces : ServiceStep(i)
  \/ \E u \in Users : UserStep(u)
  \/ CloseRegistry

\* The scheduler keeps stopping what is marked and starting what is locked.
Fairness ==
  /\ \A i \in Interfaces : /\ WF_vars(RunService(i))
                           /\ WF_vars(StopService(i))
                           /\ WF_vars(UnlockService(i))
  /\ \A u \in Users : /\ WF_vars(RunUser(u))
                      /\ WF_vars(import[u].marked /\ UnlockUser(u))

Spec == Init /\ [][Next]_vars /\ Fairness

-----------------------------------------------------------------------------
(***************************************************************************)
(* The selection of an import that is not locked is current: it is         *)
(* satisfied exactly if the entry has an interface to offer, what it       *)
(* refers to is published, and a Dependency has a most preferred one, also *)
(* after creations it ignored while it was locked (dependency.cpp:130).    *)
(***************************************************************************)
SelectionCurrent ==
  Running => \A u \in Users : LET r == import[u] IN
    r.phase = "stopped" =>
      /\ Connected(r) \subseteq Range(published)
      /\ r.kind # "DynDependencies" =>
           (r.sat <=> published # <<>>) /\ (r.sat <=> r.active # None)
      /\ r.kind = "Dependency" =>
           \A i \in Range(published) : ~Greater(i, r.active)

(***************************************************************************)
(* These assertions of a swap hold: a swap is never offered while another  *)
(* is pending, only the preferred interface can start late, and nothing of *)
(* a swap is left when the user is locked again (dyn_dependency.cpp:396,   *)
(* 279 and 178), also when the preferred interface is released before it   *)
(* runs and another one is selected in its place (:342).                   *)
(***************************************************************************)
SwapAssertionsHold ==
  \A u \in Users :
    import[u].failed \notin {"offerSwap", "onUsedStarted", "onImportLock"}

(***************************************************************************)
(* The pointer a user works with through a DynDependency, and what a       *)
(* locked Dependency refers to, is an interface of a running service, also *)
(* between the apply of a swap on another thread and its finalize.         *)
(***************************************************************************)
PointerUsable ==
  Running => \A u \in Users : LET r == import[u] IN
    /\ r.ptr # None => phase[r.ptr] = "running"
    /\ Held(r) /\ r.kind = "Dependency" => phase[r.active] = "running"

(***************************************************************************)
(* What is in the storage of a locked DynDependencies is connected and     *)
(* still published, and what the part put there itself is not stopped      *)
(* behind its back: the usage keeps its service from stopping.             *)
(***************************************************************************)
StorageBacked ==
  \A u \in Users : LET r == import[u] IN
    Held(r) => \A i \in DOMAIN r.map : r.map[i].stored # "erased" =>
      /\ r.map[i].connected
      /\ phase[i] # "absent"
      /\ r.map[i].stored = "inserted" => phase[i] # "pending"

(***************************************************************************)
(* A DynDependencies that is not locked is connected to every interface of *)
(* the entry its filter lets through, save those whose service is about to *)
(* stop: what was declined or released while the user was locked, or       *)
(* released for a stop, comes back (dyn_dependencies.cpp:372 and 392).     *)
(***************************************************************************)
NothingMissed ==
  \A u \in Users : LET r == import[u] IN
    (r.kind = "DynDependencies" /\ r.phase = "stopped") =>
      {i \in Range(published) \ stopping : Flags[i] # "ignore"} \subseteq Connected(r)

(***************************************************************************)
(* A service that is asked to stop, be it during its start, stops in the   *)
(* end when it is used through parts that do not release it, a Dependency  *)
(* or a Var that cannot swap: the users that refuse are stopped first.     *)
(***************************************************************************)
StopServed ==
  (\A u \in Users : \/ import[u].kind = "Dependency"
                    \/ import[u].kind = "Var" /\ ~import[u].swaps) =>
    \A i \in Interfaces : (i \in stopping) ~> (i \notin stopping)
=============================================================================
