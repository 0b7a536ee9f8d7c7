--------------------------- MODULE HotswapProofs ----------------------------
(***************************************************************************)
(* The rebuild loop and the reload loop, for any number of components,     *)
(* edits and generations.                                                  *)
(***************************************************************************)
EXTENDS Hotswap, Integers, TLAPS

-----------------------------------------------------------------------------
(* The rebuild loop. *)

\* The watch has changes of component c.
Pending(c) == \E ch \in changes : ch.comp = c

\* Only components with sources change; a build that has ended owes nothing.
PresentInv ==
  /\ \A ch \in changes : source[ch.comp] # 0
  /\ \A c \in consumed : source[c] # 0
  /\ stage = "watch" => consumed = {}

\* A component the build directory does not know yet: its creation is pending,
\* is being generated, or was part of a build that failed.
GeneratedInv ==
  \A c \in Components : source[c] # 0 /\ c \notin generated =>
    \/ c \in stale
    \/ \E ch \in changes : ch.comp = c /\ ch.kind = "structure"
    \/ stage = "generate" /\ c \in consumed

\* A build covers the changes it was started for, and compiles only what was
\* generated.
TargetInv ==
  /\ todo \subseteq target
  /\ stage \in {"build", "install"} => consumed \ stale \subseteq target
  /\ stage = "build" => target \ todo \subseteq generated
  /\ stage = "install" => target \subseteq generated

\* What was compiled is made from the newest sources, or the newer ones will be
\* seen by the next watch.
FreshInv ==
  /\ stage = "build" =>
       \A c \in target \ todo : object[c] = source[c] \/ Pending(c)
  /\ stage = "install" => \A c \in target : object[c] = source[c] \/ Pending(c)
  /\ stage = "install" =>
       \A c \in target \ todo : artifact[c] = object[c] \/ c \in stale

\* An artifact that is not up to date is going to be: the change is pending or
\* belongs to the running build.
OutdatedInv ==
  \A c \in Components \ stale :
    artifact[c] # source[c] => Pending(c) \/ c \in consumed

BuildInv == /\ RecompilerTypeOK /\ PresentInv /\ GeneratedInv /\ TargetInv
            /\ FreshInv /\ OutdatedInv

\* The types, with the sets of variables taken apart.
LEMMA BuildTypes ==
  ASSUME RecompilerTypeOK
  PROVE  /\ edits \in Nat
         /\ source \in [Components -> Versions] /\ object \in [Components -> Versions]
         /\ artifact \in [Components -> Versions]
         /\ target \subseteq Components /\ todo \subseteq Components
         /\ consumed \subseteq Components /\ generated \subseteq Components
         /\ stale \subseteq Components
         /\ changes \subseteq Change
         /\ \A ch \in changes : ch.comp \in Components /\ ch.kind \in Kinds
  BY RecompilerAssumption DEF RecompilerTypeOK, Versions, Change

\* In the beginning nothing is built and nothing is pending.
LEMMA BuildInit == RecompilerInit => BuildInv
<1> SUFFICES ASSUME RecompilerInit PROVE BuildInv
  OBVIOUS
<1>1. PICK present \in SUBSET Components :
        /\ source = [c \in Components |-> IF c \in present THEN 1 ELSE 0]
        /\ changes = [comp : present, kind : {"structure"}]
  BY DEF RecompilerInit
<1>2. \A c : c \in present <=> \E ch \in changes : ch.comp = c /\ ch.kind = "structure"
  <2>1. ASSUME NEW c \in present
        PROVE  [comp |-> c, kind |-> "structure"] \in changes
    BY <1>1
  <2> QED
    BY <1>1, <2>1
<1>3. first \in BOOLEAN
  BY Zenon DEF RecompilerInit
<1>4. RecompilerTypeOK
  BY <1>1, <1>3, RecompilerAssumption
     DEF RecompilerInit, RecompilerTypeOK, Versions, Change, Kinds
<1>5. \A ch \in changes : ch.comp \in present
  BY <1>1
<1> QED
  BY <1>1, <1>2, <1>4, <1>5
     DEF RecompilerInit, BuildInv, PresentInv, GeneratedInv, TargetInv, FreshInv,
         OutdatedInv, Pending

\* The component to build on its own is the only one that changed.
LEMMA InstallComponentsTouched ==
  ASSUME NEW chs PROVE InstallComponents(chs) \in {{}, Touched(chs)}
  BY DEF InstallComponents

\* The user saves a file.
LEMMA EditKeeps ==
  ASSUME BuildInv, NEW c \in Components, NEW kind \in Kinds, Edit(c, kind)
  PROVE  BuildInv'
<1> DEFINE new == [comp |-> c, kind |-> kind]
<1>0. RecompilerTypeOK
  BY DEF BuildInv
<1>1. /\ new \in Change /\ new.comp = c /\ new.kind = kind
      /\ changes' = changes \cup {new}
      /\ source' = [source EXCEPT ![c] = edits + 1]
      /\ edits' = edits + 1 /\ edits < MaxEdits
      /\ source[c] = 0 => kind = "structure"
      /\ UNCHANGED <<stage, first, target, todo, consumed, generated, object,
                     artifact, stale>>
  BY DEF Change, Edit, loopVars
<1> HIDE DEF new
<1>2. edits + 1 \in Versions /\ edits + 1 # 0
  BY <1>0, <1>1, BuildTypes, RecompilerAssumption DEF Versions
<1>3. source' \in [Components -> Versions] /\ changes' \subseteq Change
  BY <1>0, <1>1, <1>2, BuildTypes
<1>4. RecompilerTypeOK'
  BY <1>0, <1>1, <1>2, <1>3 DEF RecompilerTypeOK, Versions, Change, Kinds
<1>5. \A b : Pending(b) \/ b = c => Pending(b)'
  BY <1>1 DEF Pending
<1>6. \A b \in Components : b # c => source'[b] = source[b]
  BY <1>0, <1>1, BuildTypes
<1>7. PresentInv'
  BY <1>0, <1>1, <1>2, <1>6, BuildTypes DEF BuildInv, PresentInv
<1>8. GeneratedInv'
  <2> SUFFICES ASSUME NEW b \in Components, source'[b] # 0, b \notin generated
               PROVE \/ b \in stale
                     \/ \E ch \in changes' : ch.comp = b /\ ch.kind = "structure"
                     \/ stage = "generate" /\ b \in consumed
    BY <1>1 DEF GeneratedInv
  <2>1. CASE b = c /\ source[b] = 0
    BY <1>1, <2>1
  <2>2. CASE ~(b = c /\ source[b] = 0)
    BY <1>1, <1>6, <2>2 DEF BuildInv, GeneratedInv
  <2> QED
    BY <2>1, <2>2
<1>9. TargetInv'
  BY <1>1 DEF BuildInv, TargetInv
<1>10. FreshInv' /\ OutdatedInv'
  BY <1>0, <1>1, <1>5, <1>6, BuildTypes DEF BuildInv, FreshInv, OutdatedInv, TargetInv
<1> QED
  BY <1>4, <1>7, <1>8, <1>9, <1>10 DEF BuildInv

\* The watch is resolved: the build that begins covers all changes, since what is
\* not built alone is built with everything that was generated, and a component
\* that was not generated makes it generate.
LEMMA SourcesChangedKeeps ==
  ASSUME BuildInv, SourcesChanged
  PROVE  BuildInv'
<1>0. RecompilerTypeOK
  BY DEF BuildInv
<1>1. /\ stage = "watch" /\ consumed' = Touched(changes) /\ changes' = {}
      /\ UNCHANGED <<edits, source, first, generated, object, artifact, stale>>
  BY DEF SourcesChanged, userVars
<1>2. /\ consumed' \subseteq Components
      /\ \A c : c \in consumed' <=> Pending(c)
      /\ \A c \in consumed' : source[c] # 0
  BY <1>0, <1>1, BuildTypes DEF Touched, Pending, BuildInv, PresentInv
<1>3. PresentInv' /\ OutdatedInv'
  <2>1. stage' # "watch"
    BY DEF SourcesChanged
  <2> QED
    BY <1>1, <1>2, <2>1 DEF BuildInv, PresentInv, OutdatedInv
<1>4. CASE first \/ NeedsRegenerate(changes)
  <2>1. stage' = "generate" /\ target' = {} /\ todo' = {}
    BY <1>4 DEF SourcesChanged
  <2>2. RecompilerTypeOK'
    BY <1>0, <1>1, <1>2, <2>1 DEF RecompilerTypeOK, Versions, Change, Kinds
  <2>3. GeneratedInv'
    BY <1>1, <1>2, <2>1 DEF BuildInv, GeneratedInv, Pending
  <2> QED
    BY <1>3, <2>1, <2>2, <2>3 DEF BuildInv, TargetInv, FreshInv
<1>5. CASE ~(first \/ NeedsRegenerate(changes))
  <2> DEFINE alone == InstallComponents(changes)
  <2>1. /\ stage' = "build" /\ todo' = target'
        /\ target' = IF alone = {} THEN generated ELSE alone
    BY <1>5 DEF SourcesChanged
  <2>2. alone \in {{}, Touched(changes)}
    BY InstallComponentsTouched
  <2>3. ~\E ch \in changes : ch.kind = "structure"
    BY <1>5 DEF NeedsRegenerate
  <2> HIDE DEF alone
  <2>4. consumed' \ stale \subseteq generated
    BY <1>1, <1>2, <2>3 DEF BuildInv, GeneratedInv, PresentInv
  <2>5. target' \subseteq Components /\ consumed' \ stale \subseteq target'
    BY <1>0, <1>1, <1>2, <2>1, <2>2, <2>4, BuildTypes
  <2>6. RecompilerTypeOK'
    BY <1>0, <1>1, <1>2, <2>1, <2>5 DEF RecompilerTypeOK, Versions, Change, Kinds
  <2>7. GeneratedInv'
    BY <1>1, <2>1, <2>3 DEF BuildInv, GeneratedInv
  <2> QED
    BY <1>1, <1>3, <2>1, <2>5, <2>6, <2>7 DEF BuildInv, TargetInv, FreshInv
<1> QED
  BY <1>4, <1>5

\* CMake generated the build directory: it knows every component that has sources.
LEMMA GenerateKeeps ==
  ASSUME BuildInv, Generate
  PROVE  BuildInv'
<1>0. RecompilerTypeOK
  BY DEF BuildInv
<1>1. /\ stage = "generate" /\ stage' = "build"
      /\ generated' = Present /\ target' = Present /\ todo' = Present
      /\ UNCHANGED <<edits, source, changes, first, consumed, object, artifact,
                     stale>>
  BY DEF Generate, userVars
<1>2. /\ Present \subseteq Components
      /\ \A c \in Components : source[c] # 0 <=> c \in Present
  BY DEF Present
<1>3. RecompilerTypeOK'
  BY <1>0, <1>1, <1>2 DEF RecompilerTypeOK, Versions, Change, Kinds
<1>4. PresentInv' /\ GeneratedInv' /\ OutdatedInv'
  BY <1>1, <1>2 DEF BuildInv, PresentInv, GeneratedInv, OutdatedInv, Pending
<1>5. TargetInv' /\ FreshInv'
  BY <1>0, <1>1, <1>2, BuildTypes DEF BuildInv, PresentInv, TargetInv, FreshInv
<1> QED
  BY <1>3, <1>4, <1>5 DEF BuildInv

\* One component is compiled: its object is made from what the sources are now.
LEMMA CompileKeeps ==
  ASSUME BuildInv, NEW c \in Components, Compile(c)
  PROVE  BuildInv'
<1>0. RecompilerTypeOK
  BY DEF BuildInv
<1>1. /\ stage = "build" /\ c \in todo /\ c \in generated
      /\ object' = [object EXCEPT ![c] = source[c]]
      /\ UNCHANGED <<edits, source, changes, first, target, consumed, generated,
                     artifact, stale>>
  BY DEF Compile, userVars
<1>2. \/ todo = {c} /\ stage' = "install" /\ todo' = target
      \/ todo' = todo \ {c} /\ stage' = "build"
  BY <1>1 DEF Compile
<1>3. /\ object' \in [Components -> Versions]
      /\ object'[c] = source[c]
      /\ \A b \in Components : b # c => object'[b] = object[b]
  BY <1>0, <1>1, BuildTypes
<1>4. RecompilerTypeOK'
  BY <1>0, <1>1, <1>2, <1>3 DEF RecompilerTypeOK, Versions, Change, Kinds
<1>5. PresentInv' /\ GeneratedInv' /\ OutdatedInv'
  BY <1>1, <1>2 DEF BuildInv, PresentInv, GeneratedInv, OutdatedInv, Pending
<1>6. TargetInv'
  BY <1>1, <1>2 DEF BuildInv, TargetInv
<1>7. \A b : Pending(b)' <=> Pending(b)
  BY <1>1 DEF Pending
<1>8. FreshInv'
  BY <1>0, <1>1, <1>2, <1>3, <1>7, BuildTypes DEF BuildInv, FreshInv, TargetInv
<1> QED
  BY <1>4, <1>5, <1>6, <1>8 DEF BuildInv

\* One component is installed; with the last one the build has ended, and what it
\* was started for is up to date or has changed again.
LEMMA InstallKeeps ==
  ASSUME BuildInv, NEW c \in Components, Install(c)
  PROVE  BuildInv'
<1>0. RecompilerTypeOK
  BY DEF BuildInv
<1>1. /\ stage = "install" /\ c \in todo
      /\ artifact' = [artifact EXCEPT ![c] = object[c]]
      /\ UNCHANGED <<edits, source, changes, generated, object>>
  BY DEF Install, userVars
<1>2. /\ artifact' \in [Components -> Versions]
      /\ artifact'[c] = object[c]
      /\ \A b \in Components : b # c => artifact'[b] = artifact[b]
  BY <1>0, <1>1, BuildTypes
<1>3. \A b : Pending(b)' <=> Pending(b)
  BY <1>1 DEF Pending
<1>4. CASE todo # {c}
  <2>1. todo' = todo \ {c} /\ UNCHANGED <<stage, first, target, consumed, stale>>
    BY <1>4 DEF Install
  <2>2. RecompilerTypeOK'
    BY <1>0, <1>1, <1>2, <2>1 DEF RecompilerTypeOK, Versions, Change, Kinds
  <2>3. PresentInv' /\ GeneratedInv' /\ TargetInv'
    BY <1>1, <2>1 DEF BuildInv, PresentInv, GeneratedInv, TargetInv
  <2>4. FreshInv' /\ OutdatedInv'
    BY <1>0, <1>1, <1>2, <1>3, <2>1, BuildTypes
       DEF BuildInv, FreshInv, OutdatedInv, TargetInv
  <2> QED
    BY <2>2, <2>3, <2>4 DEF BuildInv
<1>5. CASE todo = {c}
  <2>1. /\ stage' = "watch" /\ target' = {} /\ todo' = {} /\ consumed' = {}
        /\ stale' = stale \ {b \in target : artifact'[b] = object[b]}
    BY <1>5 DEF Install, Finished
  <2>2. first' \in BOOLEAN
    BY <1>5, Zenon DEF Install, Finished
  <2>3. RecompilerTypeOK'
    BY <1>0, <1>1, <1>2, <2>1, <2>2 DEF RecompilerTypeOK, Versions, Change, Kinds
  <2>4. PresentInv' /\ TargetInv' /\ FreshInv'
    BY <1>1, <2>1 DEF BuildInv, PresentInv, TargetInv, FreshInv
  <2>5. GeneratedInv'
    BY <1>1, <2>1 DEF BuildInv, GeneratedInv, TargetInv
  <2>6. OutdatedInv'
    <3> SUFFICES ASSUME NEW b \in Components \ stale', artifact'[b] # source[b]
                 PROVE  Pending(b)'
      BY <1>1 DEF OutdatedInv
    <3>1. CASE b \in target
      <4>1. artifact'[b] = object[b]
        BY <1>1, <1>2, <1>5, <2>1, <3>1 DEF BuildInv, FreshInv
      <4> QED
        BY <1>1, <1>3, <3>1, <4>1 DEF BuildInv, FreshInv
    <3>2. CASE b \notin target
      <4>1. b \notin stale /\ b # c
        BY <1>1, <2>1, <3>2 DEF BuildInv, TargetInv
      <4>2. b \notin consumed
        BY <1>1, <3>2, <4>1 DEF BuildInv, TargetInv
      <4> QED
        BY <1>2, <1>3, <4>1, <4>2 DEF BuildInv, OutdatedInv
    <3> QED
      BY <3>1, <3>2
  <2> QED
    BY <2>3, <2>4, <2>5, <2>6 DEF BuildInv
<1> QED
  BY <1>4, <1>5

\* A build fails: all it was started for is remembered as stale.
LEMMA BuildFailedKeeps ==
  ASSUME BuildInv, BuildFailed
  PROVE  BuildInv'
<1>0. RecompilerTypeOK
  BY DEF BuildInv
<1>1. /\ stage' = "watch" /\ target' = {} /\ todo' = {} /\ consumed' = {}
      /\ stale' = stale \cup consumed
      /\ UNCHANGED <<edits, source, changes, first, generated, object, artifact>>
  BY DEF BuildFailed, userVars
<1>2. RecompilerTypeOK'
  BY <1>0, <1>1 DEF RecompilerTypeOK, Versions, Change, Kinds
<1> QED
  BY <1>0, <1>1, <1>2
     DEF BuildInv, PresentInv, GeneratedInv, TargetInv, FreshInv, OutdatedInv,
         Pending

\* An artifact is deleted: no build will bring it back.
LEMMA DeleteKeeps ==
  ASSUME BuildInv, NEW c \in Components, DeleteArtifact(c)
  PROVE  BuildInv'
<1>0. RecompilerTypeOK
  BY DEF BuildInv
<1>1. /\ artifact' = [artifact EXCEPT ![c] = 0]
      /\ stale' = stale \cup {c}
      /\ UNCHANGED <<edits, source, changes, stage, first, target, todo, consumed,
                     generated, object>>
  BY DEF DeleteArtifact, userVars, loopVars
<1>2. /\ artifact' \in [Components -> Versions]
      /\ \A b \in Components : b # c => artifact'[b] = artifact[b]
  BY <1>0, <1>1, BuildTypes, RecompilerAssumption DEF Versions
<1>3. RecompilerTypeOK'
  BY <1>0, <1>1, <1>2 DEF RecompilerTypeOK, Versions, Change, Kinds
<1>4. PresentInv' /\ GeneratedInv' /\ TargetInv'
  BY <1>1 DEF BuildInv, PresentInv, GeneratedInv, TargetInv
<1>5. \A b : Pending(b)' <=> Pending(b)
  BY <1>1 DEF Pending
<1>6. FreshInv' /\ OutdatedInv'
  BY <1>0, <1>1, <1>2, <1>5, BuildTypes
     DEF BuildInv, FreshInv, OutdatedInv, TargetInv
<1> QED
  BY <1>3, <1>4, <1>6 DEF BuildInv

\* Every step of the system keeps the invariant of the rebuild loop.
LEMMA BuildInductive == BuildInv /\ [Next]_vars => BuildInv'
<1> SUFFICES ASSUME BuildInv, [Next]_vars PROVE BuildInv'
  OBVIOUS
<1>1. CASE RecompilerStep
  BY <1>1, SourcesChangedKeeps, GenerateKeeps, CompileKeeps, BuildFailedKeeps
     DEF RecompilerStep
<1>2. ASSUME NEW c \in Components, InstallArtifact(c) PROVE BuildInv'
  BY <1>2, InstallKeeps DEF InstallArtifact
<1>3. CASE User
  BY <1>3, EditKeeps, DeleteKeeps DEF User
<1>4. CASE UNCHANGED recompilerVars
  <2>1. UNCHANGED <<edits, source, changes, stage, first, target, todo, consumed,
                    generated, object, artifact, stale>>
    BY <1>4 DEF recompilerVars, userVars, loopVars
  <2> QED
    BY <2>1 DEF BuildInv, RecompilerTypeOK, Versions, Change, Kinds, PresentInv,
       GeneratedInv, TargetInv, FreshInv, OutdatedInv, Pending
<1>5. CASE HandleFileAction \/ Reload
          \/ \E p \in Plugins : Scheduling(p) \/ DestroyPlugin(p)
  <2>1. UNCHANGED recompilerVars
    BY <1>5 DEF HandleFileAction, Reload, BeginReload, ArtifactsChanged, Dispatch,
                BatchDone, StartModified, Scheduling, StartPlugin, StartFails,
                StopPlugin, ReleaseContext, DestroyPlugin
  <2> QED
    BY <1>4, <2>1
<1> QED
  BY <1>1, <1>2, <1>3, <1>4, <1>5 DEF Next, Rebuild, vars

\* For any number of components and edits, in every interleaving of the user with
\* the steps of the build: when the rebuild loop waits and no change is pending,
\* every artifact was made from the newest sources, unless a build that was
\* started for it failed or the artifact was deleted.
THEOREM QuietInstalled == Spec => []QuietMeansInstalled
<1>1. Init => BuildInv
  BY BuildInit DEF Init
<1>2. BuildInv => QuietMeansInstalled
  BY DEF BuildInv, OutdatedInv, PresentInv, Pending, QuietMeansInstalled
<1> QED
  BY <1>1, <1>2, BuildInductive, PTL DEF Spec

-----------------------------------------------------------------------------
(* The reload loop. *)

FileActions == {"add", "modify", "delete"}
OpSet == [kind : {"added", "modified", "removed"}, from : Plugins, to : Plugins]

ReloadTypeOK ==
  /\ TypeOK
  /\ notices \in Seq(Components \X FileActions)
  /\ initialAdd \in BOOLEAN /\ generation \in 0..MaxGenerations
  /\ ops \subseteq OpSet

\* What is compiled and installed was made from sources that exist.
ObjectInv ==
  /\ \A c \in generated : source[c] # 0
  /\ stage = "build" => \A c \in target \ todo : object[c] # 0
  /\ stage = "install" => \A c \in target : object[c] # 0

\* One of the notices i..j says that the artifact of c was deleted.
Deleted(c, i, j) == \E k \in i..j : notices[k] = <<c, "delete">>

\* The next notice about c says that its artifact was added.
AddFirst(c) ==
  \E j \in 1..Len(notices) : notices[j] = <<c, "add">> /\ ~Deleted(c, 1, j - 1)

\* The loader will take the file for a new one with what it was told so far, or
\* with the next notice.
AddNext(c) == events[c] = "added" \/ (events[c] = "none" /\ AddFirst(c))

\* The artifact exists as far as the loader was told.
Believed(c) ==
  events[c] \in {"added", "modified"} \/ (events[c] = "none" /\ plugins[c] # None)

\* The notices about an artifact tell its history from what the loader believes
\* to what the directory holds, but for an artifact the first scan has found
\* before its notice arrived: the only plugin is then the one of the scan.
NoticeInv(c) ==
  /\ \A i, j \in 1..Len(notices) :
       i < j /\ notices[i][1] = c /\ notices[j] = <<c, "add">> => Deleted(c, i, j - 1)
  /\ artifact[c] = 0 =>
       \A i \in 1..Len(notices) : notices[i][1] = c => Deleted(c, i, Len(notices))
  /\ events[c] \in {"added", "modified"} => ~AddFirst(c)
  /\ artifact[c] = 0 /\ Believed(c) => Deleted(c, 1, Len(notices))
  /\ AddNext(c) /\ plugins[c] # None => \A p \in Created : p[1] = c => p = Known(c)

\* Generations grow, and only what is loaded is to be stopped.
GenerationInv ==
  /\ \A p \in Created : p[2] <= generation
  /\ \A c \in Components : plugins[c] <= generation
  /\ initialAdd => generation = 0
  /\ unwanted \subseteq Locked(phase)

\* The plugin that the loader knows runs and has the bundle, and no other.
Quiet(c) ==
  /\ plugins[c] # None =>
       phase[Known(c)] = "running" /\ Known(c) \in bundles /\ Known(c) \notin unwanted
  /\ \A p \in Plugins :
       p[1] = c /\ p # Known(c) => p \notin bundles /\ p \notin Locked(phase)

\* Of the plugins of c only those of L are loaded and only those of B have a
\* bundle.
Only(c, L, B) ==
  \A p \in Plugins : p[1] = c => (p \in Locked(phase) => p \in L) /\ (p \in bundles => p \in B)

\* A plugin is starting and nothing else of its component is loaded, or the file
\* was added twice and the second plugin waits for ever behind the first.
Starting(p) ==
  /\ p = Known(p[1]) /\ phase[p] \in {"stopped", "running"}
  /\ Only(p[1], {p}, {p})
Blocked(p) ==
  LET r == Known(p[1]) IN
  /\ r # p /\ r \in Plugins /\ phase[r] = "running"
  /\ r \in bundles /\ r \notin unwanted
  /\ phase[p] = "stopped" /\ p \notin satisfied
  /\ \A q \in Created : q[1] = p[1] => q \in {r, p}

AddedInv(o) ==
  /\ o.from = o.to /\ o.to \notin unwanted
  /\ reload = "dispatch" => phase[o.to] = "stopped" /\ o.to \notin bundles
  /\ reload # "dispatch" => o.to \in bundles
  /\ Starting(o.to) \/ Blocked(o.to)

\* A plugin is replaced: the new one is stopped until the old one is unloaded.
ModifiedInv(o) ==
  /\ o.to = Known(o.to[1]) /\ o.from[1] = o.to[1] /\ o.from # o.to
  /\ phase[o.to] = "stopped" /\ o.to \notin unwanted
  /\ Only(o.to[1], {o.from}, {IF reload = "dispatch" THEN o.from ELSE o.to})
  /\ reload # "dispatch" => o.to \in bundles

RemovedInv(o) ==
  /\ o.from = o.to /\ plugins[o.to[1]] = None
  /\ Only(o.to[1], {o.from}, IF reload = "dispatch" THEN {o.from} ELSE {})

OpInv(o) ==
  /\ o.kind = "added" => AddedInv(o)
  /\ o.kind = "modified" => ModifiedInv(o)
  /\ o.kind = "removed" => RemovedInv(o)

\* An operation of the batch is about component c.
Busy(c) == \E o \in ops : o.to[1] = c

\* There is one operation of a component at most, components without one are
\* quiet, and what is to start has an operation.
OpsInv ==
  /\ reload \in {"first", "watch"} => ops = {}
  /\ \A o, q \in ops : o.to[1] = q.to[1] => o = q
  /\ \A o \in ops : OpInv(o)
  /\ reload # "ended" => \A c \in Components : Quiet(c) \/ Busy(c)

WantedInv ==
  /\ reload \in {"first", "watch", "dispatch"} => wanted = {}
  /\ \A p \in wanted :
       phase[p] = "stopped" /\ \E o \in ops : o.kind = "added" /\ o.to = p

ReloadInv ==
  /\ ReloadTypeOK /\ ObjectInv /\ GenerationInv /\ OpsInv /\ WantedInv
  /\ OneLibraryLoaded
  /\ reload # "ended" => \A c \in Components : NoticeInv(c)

\* The steps of the model about a plugin concern its component only.
Untouched(c) ==
  /\ plugins'[c] = plugins[c]
  /\ \A p \in Plugins : p[1] = c =>
       /\ phase'[p] = phase[p]
       /\ p \in bundles' <=> p \in bundles
       /\ p \in unwanted' <=> p \in unwanted
       /\ p \in satisfied' => p \in satisfied

\* A plugin is a component and a generation.
LEMMA Pairs ==
  \A p \in Plugins : p = <<p[1], p[2]>> /\ p[1] \in Components /\ p[2] \in 1..MaxGenerations
  BY DEF Plugins

\* The plugins that are loaded, before and after a step.
LEMMA LockedIs ==
  /\ \A p : p \in Locked(phase) <=> p \in Plugins /\ phase[p] \in {"running", "stopping"}
  /\ \A p : p \in Locked(phase)' <=> p \in Plugins /\ phase'[p] \in {"running", "stopping"}
  BY DEF Locked, Plugins

\* The plugins that exist, before and after a step.
LEMMA CreatedIs ==
  /\ \A p : p \in Created <=> p \in Plugins /\ phase[p] # "none"
  /\ \A p : p \in Created' <=> p \in Plugins /\ phase'[p] # "none"
  BY DEF Created, Plugins

\* The plugin the loader knows of a component.
LEMMA KnownIs ==
  ASSUME ReloadTypeOK, NEW c \in Components
  PROVE  /\ Known(c) = <<c, plugins[c]>> /\ Known(c)[1] = c
         /\ plugins[c] # None <=> Known(c) \in Plugins
<1>1. plugins[c] \in 0..MaxGenerations
  BY DEF ReloadTypeOK, TypeOK
<1> QED
  BY <1>1, HotswapAssumption DEF Known, Plugins, None

\* What an operation holds.
LEMMA OpTypes ==
  ASSUME NEW o \in OpSet
  PROVE  o.kind \in {"added", "modified", "removed"} /\ o.from \in Plugins /\ o.to \in Plugins
  BY DEF OpSet

\* A step that does not touch a quiet component leaves it quiet.
LEMMA UntouchedQuiet ==
  ASSUME ReloadTypeOK, NEW c \in Components, Untouched(c), Quiet(c)
  PROVE  Quiet(c)'
<1>1. Known(c)' = Known(c)
  BY DEF Known, Untouched
<1>2. \A p \in Plugins : p[1] = c =>
        /\ phase'[p] = phase[p]
        /\ p \in bundles' <=> p \in bundles
        /\ p \in unwanted' <=> p \in unwanted
        /\ p \in Locked(phase)' <=> p \in Locked(phase)
  BY LockedIs DEF Untouched
<1>3. (plugins[c] # None)' <=> plugins[c] # None
  BY DEF Untouched, None
<1> QED
  BY <1>1, <1>2, <1>3, KnownIs DEF Quiet

\* A step that does not touch the component of an operation keeps its invariant.
LEMMA UntouchedOp ==
  ASSUME ReloadTypeOK, NEW o \in OpSet, OpInv(o), Untouched(o.to[1]),
         reload' = "dispatch" <=> reload = "dispatch"
  PROVE  OpInv(o)'
<1> DEFINE c == o.to[1]
<1>0. /\ o.kind \in {"added", "modified", "removed"} /\ o.from \in Plugins /\ o.to \in Plugins
      /\ c \in Components
  BY OpTypes, Pairs
<1>1. Known(c)' = Known(c) /\ Known(c)[1] = c
  BY <1>0, KnownIs DEF Known, Untouched
<1>2. \A p \in Plugins : p[1] = c =>
        /\ phase'[p] = phase[p]
        /\ p \in bundles' <=> p \in bundles
        /\ p \in unwanted' <=> p \in unwanted
        /\ p \in satisfied' => p \in satisfied
        /\ p \in Locked(phase)' <=> p \in Locked(phase)
        /\ p \in Created' <=> p \in Created
  BY LockedIs, CreatedIs DEF Untouched
<1>3. ASSUME o.kind = "added" PROVE AddedInv(o)'
  <2>1. AddedInv(o)
    BY <1>3 DEF OpInv
  <2>2. CASE Starting(o.to)
    <3>1. Starting(o.to)'
      BY <1>0, <1>1, <1>2, <2>2 DEF Starting, Only
    <3> QED
      BY <1>0, <1>2, <2>1, <3>1 DEF AddedInv
  <2>3. CASE Blocked(o.to)
    <3>1. \A q \in Created' : q[1] = o.to[1] => q \in {Known(c), o.to}
      BY <1>2, <2>3, CreatedIs DEF Blocked
    <3>2. Blocked(o.to)'
      BY <1>0, <1>1, <1>2, <2>3, <3>1 DEF Blocked
    <3> QED
      BY <1>0, <1>2, <2>1, <3>2 DEF AddedInv
  <2> QED
    BY <2>1, <2>2, <2>3 DEF AddedInv
<1>4. ASSUME o.kind = "modified" PROVE ModifiedInv(o)'
  <2>1. ModifiedInv(o)
    BY <1>4 DEF OpInv
  <2> QED
    BY <1>0, <1>1, <1>2, <2>1 DEF ModifiedInv, Only
<1>5. ASSUME o.kind = "removed" PROVE RemovedInv(o)'
  <2>1. RemovedInv(o)
    BY <1>5 DEF OpInv
  <2>2. (plugins[o.to[1]] = None)' 
    BY <2>1 DEF RemovedInv, Untouched, None
  <2> QED
    BY <1>0, <1>2, <2>1, <2>2 DEF RemovedInv, Only
<1> QED
  BY <1>3, <1>4, <1>5 DEF OpInv

\* The objects of a build stay made from sources.
LEMMA ObjectInductive ==
  ASSUME BuildInv, ObjectInv, [Next]_vars
  PROVE  ObjectInv'
<1>0. /\ RecompilerTypeOK /\ todo \subseteq target
      /\ \A ch \in changes : source[ch.comp] # 0
  BY DEF BuildInv, TargetInv, PresentInv
<1>1. ASSUME NEW c \in Components, NEW kind \in Kinds, Edit(c, kind) PROVE ObjectInv'
  <2>1. /\ source' = [source EXCEPT ![c] = edits + 1]
        /\ UNCHANGED <<stage, target, todo, generated, object>>
    BY <1>1 DEF Edit, loopVars
  <2> QED
    BY <1>0, <2>1, BuildTypes DEF ObjectInv
<1>2. CASE SourcesChanged
  <2>1. /\ stage' \in {"generate", "build"} /\ UNCHANGED <<source, generated, object>>
        /\ todo' = target'
    BY <1>2 DEF SourcesChanged, userVars
  <2> QED
    BY <2>1 DEF ObjectInv
<1>3. CASE Generate
  BY <1>3 DEF Generate, userVars, ObjectInv, Present
<1>4. ASSUME NEW c \in Components, Compile(c) PROVE ObjectInv'
  <2>1. /\ stage = "build" /\ c \in todo /\ c \in generated
        /\ object' = [object EXCEPT ![c] = source[c]]
        /\ UNCHANGED <<source, target, generated>>
    BY <1>4 DEF Compile, userVars
  <2>2. \/ todo = {c} /\ stage' = "install" /\ todo' = target
        \/ todo' = todo \ {c} /\ stage' = "build"
    BY <1>4, <2>1 DEF Compile
  <2> QED
    BY <1>0, <2>1, <2>2, BuildTypes DEF ObjectInv
<1>5. CASE BuildFailed
  BY <1>5 DEF BuildFailed, userVars, ObjectInv
<1>6. ASSUME NEW c \in Components, Install(c) PROVE ObjectInv'
  <2>1. UNCHANGED <<source, generated, object>> /\ stage = "install"
    BY <1>6 DEF Install, userVars
  <2>2. stage' = "watch" \/ (UNCHANGED <<stage, target>>)
    BY <1>6 DEF Install, Finished
  <2> QED
    BY <2>1, <2>2 DEF ObjectInv
<1>7. CASE UNCHANGED <<stage, target, todo, source, generated, object>>
  BY <1>7 DEF ObjectInv
<1>8. ASSUME NEW c \in Components, DeleteArtifact(c) PROVE ObjectInv'
  BY <1>7, <1>8 DEF DeleteArtifact, userVars, loopVars
<1>9. CASE UNCHANGED recompilerVars
  BY <1>7, <1>9 DEF recompilerVars, userVars, loopVars
<1>10. CASE HandleFileAction \/ Reload
           \/ \E p \in Plugins : Scheduling(p) \/ DestroyPlugin(p)
  <2>1. UNCHANGED recompilerVars
    BY <1>10 DEF HandleFileAction, Reload, BeginReload, ArtifactsChanged, Dispatch,
                BatchDone, StartModified, Scheduling, StartPlugin, StartFails,
                StopPlugin, ReleaseContext, DestroyPlugin
  <2> QED
    BY <1>9, <2>1
<1>11. CASE Rebuild
  BY <1>2, <1>3, <1>4, <1>5, <1>6, <1>11 DEF Rebuild, RecompilerStep, InstallArtifact
<1>12. CASE User
  BY <1>1, <1>8, <1>12 DEF User
<1> QED
  BY <1>9, <1>10, <1>11, <1>12 DEF Next, vars

\* What the reload loop and the plugins rely on does not change with the build and
\* the notices.
LEMMA PluginsKept ==
  ASSUME ReloadInv, UNCHANGED <<pluginVars, reloadVars, initialAdd>>
  PROVE  GenerationInv' /\ OpsInv' /\ WantedInv' /\ OneLibraryLoaded'
<1>1. UNCHANGED <<phase, library, satisfied, wanted, unwanted, generation, plugins,
                  bundles, reload, ops, initialAdd>>
  BY DEF pluginVars, reloadVars
<1>2. /\ Created' = Created /\ Locked(phase)' = Locked(phase)
      /\ \A c : Known(c)' = Known(c) /\ (plugins[c] = None)' = (plugins[c] = None)
  BY <1>1 DEF Created, Locked, Plugins, Known, None
<1>3. GenerationInv'
  BY <1>1, <1>2 DEF ReloadInv, GenerationInv
<1>4. /\ \A c \in Components : Quiet(c)' = Quiet(c)
      /\ \A o \in ops : OpInv(o) => OpInv(o)'
  <2>1. \A c, L, B : Only(c, L, B)' = Only(c, L, B)
    BY <1>1, <1>2 DEF Only, Plugins
  <2>2. \A o : OpInv(o)' = OpInv(o)
    BY <1>1, <1>2, <2>1 DEF OpInv, AddedInv, ModifiedInv, RemovedInv, Starting, Blocked, Plugins
  <2> QED
    BY <1>1, <1>2, <2>2 DEF Quiet, Plugins
<1>5. OpsInv' /\ WantedInv'
  BY <1>1, <1>4 DEF ReloadInv, OpsInv, WantedInv, Busy
<1>6. OneLibraryLoaded'
  BY <1>1, <1>2 DEF ReloadInv, OneLibraryLoaded, Siblings, Plugins
<1> QED
  BY <1>3, <1>5, <1>6

\* The notices, what the loader knows and the plugins it may have seen.
LEMMA NoticesKept ==
  ASSUME NEW c \in Components, NoticeInv(c),
         UNCHANGED <<artifact, notices, events, plugins>>, Created' \subseteq Created
  PROVE  NoticeInv(c)'
<1>1. \A i, j : Deleted(c, i, j)' = Deleted(c, i, j)
  BY DEF Deleted
<1>2. AddFirst(c)' = AddFirst(c)
  BY <1>1 DEF AddFirst
<1>3. (AddNext(c)' = AddNext(c)) /\ (Believed(c)' = Believed(c)) /\ Known(c)' = Known(c)
  BY <1>2 DEF AddNext, Believed, Known, None
<1> QED
  BY <1>1, <1>2, <1>3 DEF NoticeInv, None

\* A notice is queued.
LEMMA NotifyFacts ==
  ASSUME ReloadTypeOK, NEW c \in Components, NEW a \in FileActions, Notify(c, a)
  PROVE  /\ notices' \in Seq(Components \X FileActions)
         /\ Len(notices) \in Nat /\ Len(notices') = Len(notices) + 1
         /\ \A i \in 1..Len(notices) : notices'[i] = notices[i]
         /\ notices'[Len(notices) + 1] = <<c, a>>
         /\ \A b : \A i \in 1..(Len(notices) + 1) : \A j \in 0..Len(notices) :
              Deleted(b, i, j)' <=> Deleted(b, i, j)
<1>1. notices \in Seq(Components \X FileActions) /\ <<c, a>> \in Components \X FileActions
  BY DEF ReloadTypeOK
<1>2. /\ notices' \in Seq(Components \X FileActions)
      /\ Len(notices) \in Nat /\ Len(notices') = Len(notices) + 1
      /\ \A i \in 1..Len(notices) : notices'[i] = notices[i]
      /\ notices'[Len(notices) + 1] = <<c, a>>
  BY <1>1 DEF Notify
<1>3. ASSUME NEW b, NEW i \in 1..(Len(notices) + 1), NEW j \in 0..Len(notices)
      PROVE  Deleted(b, i, j)' <=> Deleted(b, i, j)
  <2>1. \A k \in i..j : notices'[k] = notices[k]
    BY <1>2
  <2> QED
    BY <2>1 DEF Deleted
<1> QED
  BY <1>2, <1>3

\* A notice about another artifact.
LEMMA NotifyOther ==
  ASSUME ReloadTypeOK, NEW c \in Components, NEW a \in FileActions, Notify(c, a),
         NEW b \in Components \ {c}, NoticeInv(b),
         artifact'[b] = artifact[b], UNCHANGED <<events, plugins, phase>>
  PROVE  NoticeInv(b)'
<1>0. PICK n \in Nat : n = Len(notices)
  BY NotifyFacts
<1>1. /\ Len(notices') = n + 1
      /\ \A i \in 1..n : notices'[i] = notices[i]
      /\ notices'[n + 1] = <<c, a>> /\ notices'[n + 1][1] # b
      /\ \A i \in 1..(n + 1) : \A j \in 0..n : Deleted(b, i, j)' <=> Deleted(b, i, j)
  BY <1>0, NotifyFacts
<1>2. \A i \in 1..n : Deleted(b, i, n + 1)' <=> Deleted(b, i, n)
  <2> SUFFICES ASSUME NEW i \in 1..n PROVE Deleted(b, i, n + 1)' <=> Deleted(b, i, n)'
    BY <1>1
  <2> QED
    BY <1>1 DEF Deleted
<1>3. AddFirst(b)' <=> AddFirst(b)
  BY <1>0, <1>1 DEF AddFirst
<1>4. (AddNext(b)' <=> AddNext(b)) /\ (Believed(b)' <=> Believed(b)) /\ Known(b)' = Known(b)
  BY <1>3 DEF AddNext, Believed, Known, None
<1>5. Created' = Created
  BY DEF Created, Plugins
<1>6. \A i, j \in 1..(n + 1) :
        i < j /\ notices'[i][1] = b /\ notices'[j] = <<b, "add">> => Deleted(b, i, j - 1)'
  BY <1>0, <1>1 DEF NoticeInv
<1>7. artifact[b] = 0 =>
       \A i \in 1..(n + 1) : notices'[i][1] = b => Deleted(b, i, n + 1)'
  BY <1>0, <1>1, <1>2 DEF NoticeInv
<1>8. artifact[b] = 0 /\ Believed(b) => Deleted(b, 1, n + 1)'
  <2> SUFFICES ASSUME Deleted(b, 1, n) PROVE Deleted(b, 1, n + 1)'
    BY <1>0 DEF NoticeInv
  <2>1. 1 \in 1..n
    BY <1>1 DEF Deleted
  <2> QED
    BY <1>2, <2>1
<1> QED
  BY <1>0, <1>1, <1>3, <1>4, <1>5, <1>6, <1>7, <1>8 DEF NoticeInv, None
\* The artifact of c was deleted: the notice ends every history that is pending.
LEMMA NotifyDelete ==
  ASSUME ReloadTypeOK, NEW c \in Components, Notify(c, "delete"), NoticeInv(c),
         UNCHANGED <<events, plugins, phase>>
  PROVE  NoticeInv(c)'
<1>0. PICK n \in Nat : n = Len(notices)
  BY NotifyFacts DEF FileActions
<1>1. /\ Len(notices') = n + 1
      /\ \A i \in 1..n : notices'[i] = notices[i]
      /\ notices'[n + 1] = <<c, "delete">>
      /\ \A i \in 1..(n + 1) : \A j \in 0..n : Deleted(c, i, j)' <=> Deleted(c, i, j)
  BY <1>0, NotifyFacts DEF FileActions
<1>2. \A i \in 1..(n + 1) : Deleted(c, i, n + 1)'
  BY <1>1 DEF Deleted
<1>3. AddFirst(c)' <=> AddFirst(c)
  BY <1>0, <1>1 DEF AddFirst
<1>4. (AddNext(c)' <=> AddNext(c)) /\ Known(c)' = Known(c)
  BY <1>3 DEF AddNext, Known
<1>5. Created' = Created
  BY DEF Created, Plugins
<1>6. \A i, j \in 1..(n + 1) :
        i < j /\ notices'[i][1] = c /\ notices'[j] = <<c, "add">> => Deleted(c, i, j - 1)'
  BY <1>0, <1>1 DEF NoticeInv
<1> QED
  BY <1>0, <1>1, <1>2, <1>3, <1>4, <1>5, <1>6 DEF NoticeInv, None

\* The artifact of c was installed: it is added where the history ends with a
\* deletion or is empty, and modified otherwise.
LEMMA NotifyInstalled ==
  ASSUME ReloadTypeOK, NEW c \in Components, NoticeInv(c),
         Notify(c, IF artifact[c] = 0 THEN "add" ELSE "modify"), artifact'[c] # 0,
         UNCHANGED <<events, plugins, phase>>
  PROVE  NoticeInv(c)'
<1>a. PICK a \in FileActions : a = IF artifact[c] = 0 THEN "add" ELSE "modify"
  BY DEF FileActions
<1>0. PICK n \in Nat : n = Len(notices)
  BY <1>a, NotifyFacts
<1>1. /\ Len(notices') = n + 1
      /\ \A i \in 1..n : notices'[i] = notices[i]
      /\ notices'[n + 1] = <<c, a>>
      /\ \A i \in 1..(n + 1) : \A j \in 0..n : Deleted(c, i, j)' <=> Deleted(c, i, j)
  BY <1>a, <1>0, NotifyFacts
<1>2. Created' = Created /\ Known(c)' = Known(c) /\ Believed(c)' = Believed(c)
  BY DEF Created, Plugins, Known, Believed, None
<1>3. \A i, j \in 1..(n + 1) :
        i < j /\ notices'[i][1] = c /\ notices'[j] = <<c, "add">> => Deleted(c, i, j - 1)'
  <2> SUFFICES ASSUME NEW i \in 1..n, NEW j \in 1..(n + 1), i < j, notices[i][1] = c,
                      notices'[j] = <<c, "add">>
               PROVE  Deleted(c, i, j - 1)
    BY <1>1
  <2>1. CASE j \in 1..n
    BY <1>0, <1>1, <2>1 DEF NoticeInv
  <2>2. CASE j = n + 1
    BY <1>a, <1>0, <1>1, <2>2 DEF NoticeInv
  <2> QED
    BY <2>1, <2>2
<1>4. AddFirst(c)' => AddFirst(c) \/ (artifact[c] = 0 /\ ~Deleted(c, 1, n))
  BY <1>a, <1>0, <1>1 DEF AddFirst
<1>5. Believed(c) /\ AddFirst(c)' => AddFirst(c)
  BY <1>0, <1>4 DEF NoticeInv
<1>6. ASSUME events'[c] \in {"added", "modified"} PROVE ~AddFirst(c)'
  BY <1>5, <1>6 DEF NoticeInv, Believed
<1>7. AddNext(c)' /\ plugins[c] # None => AddNext(c)
  BY <1>5 DEF AddNext, Believed
<1>8. AddNext(c)' /\ plugins'[c] # None => \A p \in Created : p[1] = c => p = Known(c)
  BY <1>7 DEF NoticeInv
<1> QED
  BY <1>1, <1>2, <1>3, <1>6, <1>8 DEF NoticeInv, None
\* The oldest notice is taken from the queue.
LEMMA TailFacts ==
  ASSUME ReloadTypeOK, notices # <<>>, notices' = Tail(notices)
  PROVE  /\ notices' \in Seq(Components \X FileActions)
         /\ Len(notices) \in Nat \ {0} /\ Len(notices') = Len(notices) - 1
         /\ \A i \in 1..(Len(notices) - 1) : notices'[i] = notices[i + 1]
         /\ Head(notices) = notices[1] /\ notices[1] \in Components \X FileActions
         /\ \A b : \A i \in 1..Len(notices) : \A j \in 0..(Len(notices) - 1) :
              Deleted(b, i, j)' <=> Deleted(b, i + 1, j + 1)
<1>1. notices \in Seq(Components \X FileActions)
  BY DEF ReloadTypeOK
<1>2. /\ notices' \in Seq(Components \X FileActions)
      /\ Len(notices) \in Nat \ {0} /\ Len(notices') = Len(notices) - 1
      /\ \A i \in 1..(Len(notices) - 1) : notices'[i] = notices[i + 1]
      /\ Head(notices) = notices[1] /\ notices[1] \in Components \X FileActions
  BY <1>1
<1>3. ASSUME NEW b, NEW i \in 1..Len(notices), NEW j \in 0..(Len(notices) - 1)
      PROVE  Deleted(b, i, j)' <=> Deleted(b, i + 1, j + 1)
  <2>1. ASSUME Deleted(b, i, j)' PROVE Deleted(b, i + 1, j + 1)
    <3>1. PICK k \in i..j : notices'[k] = <<b, "delete">>
      BY <2>1 DEF Deleted
    <3>2. k + 1 \in (i + 1)..(j + 1) /\ notices[k + 1] = <<b, "delete">>
      BY <1>2, <3>1
    <3> QED
      BY <3>2 DEF Deleted
  <2>2. ASSUME Deleted(b, i + 1, j + 1) PROVE Deleted(b, i, j)'
    <3>1. PICK k \in (i + 1)..(j + 1) : notices[k] = <<b, "delete">>
      BY <2>2 DEF Deleted
    <3>2. k - 1 \in i..j /\ notices'[k - 1] = <<b, "delete">>
      BY <1>2, <3>1
    <3> QED
      BY <3>2 DEF Deleted
  <2> QED
    BY <2>1, <2>2
<1> QED
  BY <1>2, <1>3

\* The merged event of a file.
LEMMA MergedIs ==
  ASSUME NEW old \in {"none", "added", "modified", "removed"}, NEW a \in FileActions
  PROVE  /\ Merged(old, a) \in {"none", "added", "modified", "removed"}
         /\ a = "delete" => Merged(old, a) = "removed"
         /\ a # "delete" => Merged(old, a) \in {"added", "modified"}
         /\ Merged(old, a) = "added" => old = "added" \/ (old = "none" /\ a = "add")
<1>1. CASE a = "add"
  BY <1>1 DEF Merged
<1>2. CASE a = "modify"
  BY <1>2 DEF Merged
<1>3. CASE a = "delete"
  BY <1>3 DEF Merged
<1> QED
  BY <1>1, <1>2, <1>3 DEF FileActions

\* A notice that becomes an event leaves the rest of the history to tell.
LEMMA HandleKeepsNotices ==
  ASSUME ReloadTypeOK, HandleFileAction, NEW b \in Components, NoticeInv(b)
  PROVE  NoticeInv(b)'
<1>0. /\ notices # <<>> /\ notices' = Tail(notices)
      /\ events' = [events EXCEPT ![Head(notices)[1]] = Merged(@, Head(notices)[2])]
      /\ UNCHANGED <<artifact, phase, plugins>>
  BY DEF HandleFileAction, recompilerVars, pluginVars, reloadVars
<1>1. PICK n \in Nat \ {0} : n = Len(notices)
  BY <1>0, TailFacts
<1>2. PICK c \in Components, a \in FileActions : notices[1] = <<c, a>> /\ Head(notices) = <<c, a>>
  BY <1>0, TailFacts
<1>3. /\ Len(notices') = n - 1
      /\ \A i \in 1..(n - 1) : notices'[i] = notices[i + 1]
      /\ \A i \in 1..n : \A j \in 0..(n - 1) : Deleted(b, i, j)' <=> Deleted(b, i + 1, j + 1)
  BY <1>0, <1>1, TailFacts
<1>4. events \in [Components -> {"none", "added", "modified", "removed"}]
  BY DEF ReloadTypeOK, TypeOK
<1>5. Created' = Created /\ Known(b)' = Known(b)
  BY <1>0 DEF Created, Plugins, Known
<1>6. \A i, j \in 1..(n - 1) :
        i < j /\ notices'[i][1] = b /\ notices'[j] = <<b, "add">> => Deleted(b, i, j - 1)'
  <2> SUFFICES ASSUME NEW i \in 1..(n - 1), NEW j \in 1..(n - 1), i < j,
                      notices[i + 1][1] = b, notices[j + 1] = <<b, "add">>
               PROVE  Deleted(b, i + 1, j)
    BY <1>3
  <2>1. i + 1 \in 1..n /\ j + 1 \in 1..n /\ i + 1 < j + 1 /\ (j + 1) - 1 = j
    OBVIOUS
  <2> QED
    BY <1>1, <2>1 DEF NoticeInv
<1>7. artifact[b] = 0 =>
        \A i \in 1..(n - 1) : notices'[i][1] = b => Deleted(b, i, n - 1)'
  <2> SUFFICES ASSUME artifact[b] = 0, NEW i \in 1..(n - 1), notices[i + 1][1] = b
               PROVE  Deleted(b, i + 1, n)
    BY <1>3
  <2> QED
    BY <1>1 DEF NoticeInv
\* Unless the head is a deletion of b, what is deleted later is deleted now.
<1>8. <<c, a>> # <<b, "delete">> =>
        \A j \in 1..n : Deleted(b, 1, j) <=> Deleted(b, 2, j)
  <2> SUFFICES ASSUME <<c, a>> # <<b, "delete">>, NEW j \in 1..n, Deleted(b, 1, j)
               PROVE  Deleted(b, 2, j)
    BY DEF Deleted
  <2>1. PICK k \in 1..j : notices[k] = <<b, "delete">>
    BY DEF Deleted
  <2>2. k # 1
    BY <1>2, <2>1
  <2>3. k \in 2..j
    BY <2>2
  <2> QED
    BY <2>1, <2>3 DEF Deleted
<1>9. <<c, a>> # <<b, "delete">> /\ AddFirst(b)' => AddFirst(b)
  <2> SUFFICES ASSUME <<c, a>> # <<b, "delete">>, NEW j \in 1..(n - 1),
                      notices'[j] = <<b, "add">>, ~Deleted(b, 1, j - 1)'
               PROVE  AddFirst(b)
    BY <1>3 DEF AddFirst
  <2>2. /\ j \in 1..n /\ j + 1 \in 1..n /\ (j + 1) - 1 = j
        /\ 1 \in 1..n /\ j - 1 \in 0..(n - 1) /\ 1 + 1 = 2 /\ (j - 1) + 1 = j
    OBVIOUS
  <2>1. notices[j + 1] = <<b, "add">> /\ ~Deleted(b, 2, j)
    <3>1. Deleted(b, 1, j - 1)' <=> Deleted(b, 1 + 1, (j - 1) + 1)
      BY <1>3, <2>2
    <3> QED
      BY <1>3, <2>2, <3>1
  <2>3. ~Deleted(b, 1, j)
    BY <1>8, <2>1, <2>2
  <2> QED
    BY <1>1, <2>1, <2>2, <2>3 DEF AddFirst
<1>10. CASE b # c
  <2>1. events'[b] = events[b]
    BY <1>0, <1>2, <1>4, <1>10
  <2>2. (AddNext(b)' => AddNext(b)) /\ (Believed(b)' <=> Believed(b))
    BY <1>0, <1>9, <1>10, <2>1 DEF AddNext, Believed, None
  <2>3. Deleted(b, 1, n) => Deleted(b, 1, n - 1)'
    BY <1>3, <1>8, <1>10
  <2> QED
    BY <1>0, <1>1, <1>3, <1>5, <1>6, <1>7, <1>9, <1>10, <2>1, <2>2, <2>3 DEF NoticeInv, None
<1>11. CASE b = c
  <2>1. events'[b] = Merged(events[b], a) /\ events[b] \in {"none", "added", "modified", "removed"}
    BY <1>0, <1>2, <1>4, <1>11
  <2>2. CASE a = "delete"
    <3>1. events'[b] = "removed"
      BY <2>1, <2>2, MergedIs
    <3>2. ~AddNext(b)' /\ ~Believed(b)'
      BY <3>1 DEF AddNext, Believed
    <3> QED
      BY <1>0, <1>3, <1>5, <1>6, <1>7, <3>1, <3>2 DEF NoticeInv
  <2>3. CASE a # "delete"
    <3>1. /\ events'[b] \in {"added", "modified"}
          /\ events'[b] = "added" => events[b] = "added" \/ (events[b] = "none" /\ a = "add")
      BY <2>1, <2>3, MergedIs
    <3>2. ~AddFirst(b)'
      <4> SUFFICES ASSUME NEW j \in 1..(n - 1), notices'[j] = <<b, "add">>
                   PROVE  Deleted(b, 1, j - 1)'
        BY <1>3 DEF AddFirst
      <4>1. /\ notices[j + 1] = <<b, "add">> /\ notices[1][1] = b
            /\ 1 \in 1..n /\ j \in 1..n /\ j + 1 \in 1..n /\ 1 < j + 1 /\ (j + 1) - 1 = j
        BY <1>2, <1>3, <1>11
      <4>2. Deleted(b, 1, j)
        BY <1>1, <4>1 DEF NoticeInv
      <4>3. Deleted(b, 2, j)
        BY <1>8, <2>3, <4>1, <4>2
      <4> QED
        BY <1>3, <4>3
    <3>3. artifact[b] = 0 => Deleted(b, 1, n - 1)'
      <4> SUFFICES ASSUME artifact[b] = 0 PROVE Deleted(b, 2, n)
        BY <1>3
      <4>1. Deleted(b, 1, n)
        BY <1>1, <1>2, <1>11 DEF NoticeInv
      <4> QED
        BY <1>8, <2>3, <4>1
    <3>4. AddNext(b)' => AddNext(b)
      <4>1. SUFFICES ASSUME events[b] = "none", a = "add" PROVE AddFirst(b)
        BY <3>1, <3>2 DEF AddNext
      <4>2. 1 \in 1..n /\ notices[1] = <<b, "add">> /\ ~Deleted(b, 1, 0)
        BY <1>2, <1>11, <4>1 DEF Deleted
      <4> QED
        BY <1>1, <4>2 DEF AddFirst
    <3> QED
      BY <1>0, <1>3, <1>5, <1>6, <1>7, <3>1, <3>2, <3>3, <3>4 DEF NoticeInv, None
  <2> QED
    BY <2>2, <2>3
<1> QED
  BY <1>10, <1>11
\* The types when only the build, the notices and the events change.
LEMMA WatcherTypes ==
  ASSUME ReloadTypeOK, RecompilerTypeOK', UNCHANGED <<pluginVars, reloadVars, initialAdd>>,
         notices' \in Seq(Components \X FileActions),
         events' \in [Components -> {"none", "added", "modified", "removed"}]
  PROVE  ReloadTypeOK'
<1>1. UNCHANGED <<phase, library, satisfied, wanted, unwanted, generation, plugins,
                  bundles, reload, ops, initialAdd>>
  BY DEF pluginVars, reloadVars
<1>2. Created' = Created /\ OpSet' = OpSet
  BY <1>1 DEF Created, Plugins, OpSet
<1>3. TypeOK'
  BY <1>1, <1>2 DEF ReloadTypeOK, TypeOK, Plugins, Versions
<1>4. initialAdd' \in BOOLEAN
  BY <1>1, Zenon DEF ReloadTypeOK
<1> QED
  BY <1>1, <1>2, <1>3, <1>4 DEF ReloadTypeOK

\* A build, an edit, a deletion and a notice.
LEMMA WatcherKeeps ==
  ASSUME BuildInv, BuildInv', ReloadInv, ObjectInv', Rebuild \/ User \/ HandleFileAction
  PROVE  ReloadInv'
<1>0. ReloadTypeOK /\ ObjectInv /\ RecompilerTypeOK /\ RecompilerTypeOK'
  BY DEF ReloadInv, BuildInv
<1>1. UNCHANGED <<pluginVars, reloadVars, initialAdd>>
  BY DEF Rebuild, InstallArtifact, User, DeleteArtifact, HandleFileAction, watcherVars
<1>2. UNCHANGED <<phase, plugins, reload>>
  BY <1>1 DEF pluginVars, reloadVars
<1>3. SUFFICES /\ notices' \in Seq(Components \X FileActions)
               /\ events' \in [Components -> {"none", "added", "modified", "removed"}]
               /\ reload # "ended" => \A b \in Components : NoticeInv(b)'
  <2>1. ReloadTypeOK'
    BY <1>0, <1>1, <1>3, WatcherTypes
  <2>2. GenerationInv' /\ OpsInv' /\ WantedInv' /\ OneLibraryLoaded'
    BY <1>1, PluginsKept
  <2> QED
    BY <1>2, <1>3, <2>1, <2>2 DEF ReloadInv
<1>4. /\ notices \in Seq(Components \X FileActions)
      /\ events \in [Components -> {"none", "added", "modified", "removed"}]
      /\ reload # "ended" => \A b \in Components : NoticeInv(b)
  BY DEF ReloadInv, ReloadTypeOK, TypeOK
<1>5. Created' \subseteq Created
  BY <1>2 DEF Created, Plugins
<1>6. CASE UNCHANGED <<artifact, notices, events>>
  BY <1>2, <1>4, <1>5, <1>6, NoticesKept
<1>7. ASSUME NEW c \in Components, InstallArtifact(c), ~(UNCHANGED notices)
      PROVE  /\ notices' \in Seq(Components \X FileActions) /\ UNCHANGED events
             /\ reload # "ended" => \A b \in Components : NoticeInv(b)'
  <2>1. /\ stage = "install" /\ c \in todo /\ UNCHANGED events
        /\ artifact' = [artifact EXCEPT ![c] = object[c]]
        /\ Notify(c, IF artifact[c] = 0 THEN "add" ELSE "modify")
    BY <1>7 DEF InstallArtifact, Install
  <2>2. /\ artifact'[c] # 0
        /\ \A b \in Components \ {c} : artifact'[b] = artifact[b]
    BY <1>0, <2>1, BuildTypes DEF ObjectInv, BuildInv, TargetInv
  <2>3. (IF artifact[c] = 0 THEN "add" ELSE "modify") \in FileActions
    BY DEF FileActions
  <2>4. notices' \in Seq(Components \X FileActions)
    BY <1>0, <2>1, <2>3, NotifyFacts
  <2>5. reload # "ended" => NoticeInv(c)'
    BY <1>0, <1>2, <1>4, <2>1, <2>2, NotifyInstalled
  <2>6. reload # "ended" => \A b \in Components \ {c} : NoticeInv(b)'
    BY <1>0, <1>2, <1>4, <2>1, <2>2, <2>3, NotifyOther
  <2> QED
    BY <2>1, <2>4, <2>5, <2>6
<1>8. ASSUME NEW c \in Components, DeleteArtifact(c)
      PROVE  /\ notices' \in Seq(Components \X FileActions) /\ UNCHANGED events
             /\ reload # "ended" => \A b \in Components : NoticeInv(b)'
  <2>1. /\ artifact' = [artifact EXCEPT ![c] = 0] /\ UNCHANGED events
        /\ Notify(c, "delete")
    BY <1>8 DEF DeleteArtifact
  <2>2. \A b \in Components \ {c} : artifact'[b] = artifact[b]
    BY <1>0, <2>1, BuildTypes
  <2>3. "delete" \in FileActions
    BY DEF FileActions
  <2>4. notices' \in Seq(Components \X FileActions)
    BY <1>0, <2>1, <2>3, NotifyFacts
  <2>5. reload # "ended" => NoticeInv(c)'
    BY <1>0, <1>2, <1>4, <2>1, NotifyDelete
  <2>6. reload # "ended" => \A b \in Components \ {c} : NoticeInv(b)'
    BY <1>0, <1>2, <1>4, <2>1, <2>2, <2>3, NotifyOther
  <2> QED
    BY <2>1, <2>4, <2>5, <2>6
<1>9. CASE HandleFileAction
  <2>1. /\ notices # <<>> /\ notices' = Tail(notices)
        /\ events' = [events EXCEPT ![Head(notices)[1]] = Merged(@, Head(notices)[2])]
    BY <1>9 DEF HandleFileAction
  <2>2. notices' \in Seq(Components \X FileActions) /\ Head(notices) \in Components \X FileActions
    BY <1>0, <2>1, TailFacts
  <2>3. Merged(events[Head(notices)[1]], Head(notices)[2]) \in {"none", "added", "modified", "removed"}
    BY <1>4, <2>2, MergedIs
  <2>4. events' \in [Components -> {"none", "added", "modified", "removed"}]
    BY <1>4, <2>1, <2>2, <2>3
  <2> QED
    BY <1>0, <1>4, <1>9, <2>2, <2>4, HandleKeepsNotices
<1>10. CASE RecompilerStep /\ UNCHANGED <<watcherVars, pluginVars, reloadVars>>
  <2>1. UNCHANGED artifact
    BY <1>10 DEF RecompilerStep, SourcesChanged, Generate, BuildFailed, Compile
  <2> QED
    BY <1>6, <1>10, <2>1 DEF watcherVars
<1>11. ASSUME NEW c \in Components, InstallArtifact(c), UNCHANGED notices
       PROVE  UNCHANGED <<artifact, notices, events>>
  <2>1. /\ artifact' = [artifact EXCEPT ![c] = object[c]] /\ UNCHANGED events
        /\ IF artifact'[c] = artifact[c] THEN TRUE
           ELSE Notify(c, IF artifact[c] = 0 THEN "add" ELSE "modify")
    BY <1>11 DEF InstallArtifact, Install
  <2>2. artifact'[c] = artifact[c]
    <3>1. SUFFICES ASSUME Notify(c, IF artifact[c] = 0 THEN "add" ELSE "modify") PROVE FALSE
      BY <2>1
    <3>2. (IF artifact[c] = 0 THEN "add" ELSE "modify") \in FileActions
      BY DEF FileActions
    <3>3. Len(notices) \in Nat /\ Len(notices') = Len(notices) + 1
      BY <1>0, <3>1, <3>2, NotifyFacts
    <3> QED
      BY <1>11, <3>3
  <2> QED
    BY <1>0, <1>11, <2>1, <2>2, BuildTypes
<1>12. ASSUME NEW c \in Components, NEW kind \in Kinds, Edit(c, kind),
              UNCHANGED <<watcherVars, pluginVars, reloadVars>>
       PROVE  UNCHANGED <<artifact, notices, events>>
  BY <1>12 DEF Edit, watcherVars
<1> QED
  BY <1>4, <1>6, <1>7, <1>8, <1>9, <1>10, <1>11, <1>12 DEF Rebuild, User
\* The types, taken apart.
LEMMA ReloadTypes ==
  ASSUME ReloadTypeOK
  PROVE  /\ phase \in [Plugins -> {"none", "stopped", "running", "stopping"}]
         /\ library \in [Plugins -> Versions]
         /\ plugins \in [Components -> 0..MaxGenerations]
         /\ satisfied \subseteq Created /\ wanted \subseteq Created
         /\ unwanted \subseteq Created /\ bundles \subseteq Created
         /\ Created \subseteq Plugins
         /\ ops \subseteq OpSet
         /\ \A o \in ops : /\ o.kind \in {"added", "modified", "removed"}
                           /\ o.from \in Plugins /\ o.to \in Plugins
                           /\ o.to[1] \in Components
<1>1. Created \subseteq Plugins
  BY DEF Created
<1>2. \A o \in ops : o.to \in Plugins /\ o.to[1] \in Components
  BY OpTypes, Pairs DEF ReloadTypeOK
<1> QED
  BY <1>1, <1>2, OpTypes DEF ReloadTypeOK, TypeOK

\* The types when only plugins and their operations change.
LEMMA PluginTypes ==
  ASSUME ReloadTypeOK, RecompilerTypeOK', UNCHANGED <<notices, events, initialAdd, generation, plugins>>,
         phase' \in [Plugins -> {"none", "stopped", "running", "stopping"}],
         library' \in [Plugins -> Versions],
         satisfied' \subseteq Created', wanted' \subseteq Created',
         unwanted' \subseteq Created', bundles' \subseteq Created',
         reload' \in {"first", "watch", "dispatch", "wait", "ended"},
         ops' \subseteq OpSet
  PROVE  ReloadTypeOK'
<1>1. OpSet' = OpSet
  BY DEF OpSet, Plugins
<1>2. TypeOK'
  BY DEF ReloadTypeOK, TypeOK, Plugins, Versions
<1>3. initialAdd' \in BOOLEAN
  BY Zenon DEF ReloadTypeOK
<1> QED
  BY <1>1, <1>2, <1>3 DEF ReloadTypeOK

\* A step that concerns the component of p only keeps the invariant of the
\* operations, provided that it does so for that component.
LEMMA OthersKept ==
  ASSUME ReloadTypeOK, OpsInv, NEW c \in Components,
         \A b \in Components \ {c} : Untouched(b),
         ops' \subseteq ops, \A o \in ops : o.to[1] # c => o \in ops',
         reload' = "dispatch" <=> reload = "dispatch",
         reload' # "ended" => reload' = reload,
         \A o \in ops' : o.to[1] = c => OpInv(o)',
         reload' # "ended" => Quiet(c)' \/ Busy(c)'
  PROVE  OpsInv'
<1>1. \A o \in ops : o \in OpSet /\ o.to[1] \in Components
  BY ReloadTypes
<1>2. \A o \in ops' : o.to[1] # c => OpInv(o)'
  BY <1>1, UntouchedOp DEF OpsInv
<1>3. ASSUME reload' # "ended", NEW b \in Components PROVE Quiet(b)' \/ Busy(b)'
  <2>1. CASE b = c
    BY <1>3, <2>1
  <2>2. CASE b # c
    BY <1>3, <2>2, UntouchedQuiet DEF OpsInv, Busy
  <2> QED
    BY <2>1, <2>2
<1>4. \A o \in ops' : OpInv(o)'
  BY <1>2
<1> QED
  BY <1>3, <1>4 DEF OpsInv

\* What the steps of the plugins leave alone.
LEMMA PluginStepKeeps ==
  ASSUME ReloadInv, UNCHANGED <<recompilerVars, watcherVars, generation, plugins>>,
         Created' \subseteq Created, reload' # "ended" => reload # "ended"
  PROVE  /\ RecompilerTypeOK'
         /\ reload' # "ended" => \A c \in Components : NoticeInv(c)'
         /\ unwanted' \subseteq Locked(phase)' => GenerationInv'
         /\ UNCHANGED <<notices, events, initialAdd>>
<1>1. UNCHANGED <<edits, source, changes, stage, first, target, todo, consumed,
                  generated, object, artifact, stale, notices, events, initialAdd>>
  BY DEF recompilerVars, userVars, loopVars, watcherVars
<1>2. RecompilerTypeOK'
  BY <1>1 DEF ReloadInv, ReloadTypeOK, TypeOK, RecompilerTypeOK, Versions, Change, Kinds
<1>3. reload' # "ended" => \A c \in Components : NoticeInv(c)'
  BY <1>1, NoticesKept DEF ReloadInv
<1>4. unwanted' \subseteq Locked(phase)' => GenerationInv'
  <2>1. (\A p \in Created' : p[2] <= generation) /\ (\A c \in Components : plugins[c] <= generation)
    BY DEF ReloadInv, GenerationInv
  <2>2. initialAdd => generation = 0
    BY DEF ReloadInv, GenerationInv
  <2> QED
    BY <1>1, <2>1, <2>2, Zenon DEF GenerationInv
<1> QED
  BY <1>1, <1>2, <1>3, <1>4
\* Only a plugin whose component has nothing else loaded starts: the second one
\* of a file that was added twice is not satisfied.
LEMMA StartsAlone ==
  ASSUME ReloadInv, NEW p \in Plugins, p \in wanted, p \in satisfied
  PROVE  /\ reload # "dispatch" /\ reload \notin {"first", "watch"}
         /\ Starting(p) /\ p \in bundles /\ p \notin unwanted
         /\ \E o \in ops : o.kind = "added" /\ o.to = p
         /\ \A o \in ops : o.to[1] = p[1] => o.kind = "added" /\ o.to = p /\ o.from = p
<1>1. PICK o \in ops : o.kind = "added" /\ o.to = p
  BY DEF ReloadInv, WantedInv
<1>2. AddedInv(o)
  BY <1>1 DEF ReloadInv, OpsInv, OpInv
<1>3. reload # "dispatch" /\ reload \notin {"first", "watch"}
  BY DEF ReloadInv, WantedInv
<1>4. Starting(p)
  BY <1>1, <1>2 DEF AddedInv, Blocked
<1>5. \A q \in ops : q.to[1] = p[1] => q = o
  BY <1>1 DEF ReloadInv, OpsInv
<1> QED
  BY <1>1, <1>2, <1>3, <1>4, <1>5 DEF AddedInv

\* The plugin of an added operation starts.
LEMMA StartPluginKeeps ==
  ASSUME ReloadInv, ObjectInv', NEW p \in Plugins, StartPlugin(p)
  PROVE  ReloadInv'
<1>0. ReloadTypeOK
  BY DEF ReloadInv
<1>1. /\ phase[p] = "stopped" /\ p \in wanted /\ p \in satisfied
      /\ phase' = [phase EXCEPT ![p] = "running"] /\ wanted' = wanted \ {p}
      /\ UNCHANGED <<recompilerVars, watcherVars, library, satisfied, unwanted,
                     generation, plugins, bundles, reload, ops>>
  BY DEF StartPlugin, reloadVars
<1>2. /\ phase' \in [Plugins -> {"none", "stopped", "running", "stopping"}]
      /\ phase'[p] = "running"
      /\ \A q \in Plugins \ {p} : phase'[q] = phase[q]
  BY <1>0, <1>1, ReloadTypes
<1>3. Created' = Created /\ (\A q : q \in Locked(phase)' <=> q \in Locked(phase) \/ q = p)
  BY <1>1, <1>2, CreatedIs, LockedIs
<1>4. ReloadTypeOK' /\ GenerationInv' /\ (reload' # "ended" => \A c \in Components : NoticeInv(c)')
  <2>1. Created' \subseteq Created /\ unwanted' \subseteq Locked(phase)'
    BY <1>1, <1>3 DEF ReloadInv, GenerationInv
  <2>2. /\ RecompilerTypeOK' /\ GenerationInv' /\ UNCHANGED <<notices, events, initialAdd>>
        /\ (reload' # "ended" => \A c \in Components : NoticeInv(c)')
    BY <1>1, <2>1, PluginStepKeeps
  <2>3. reload' \in {"first", "watch", "dispatch", "wait", "ended"}
    BY <1>1 DEF ReloadInv, ReloadTypeOK, TypeOK
  <2>4. ReloadTypeOK'
    BY <1>0, <1>1, <1>2, <1>3, <2>2, <2>3, ReloadTypes, PluginTypes DEF Versions
  <2> QED
    BY <2>2, <2>4
<1>5. /\ reload # "dispatch" /\ Starting(p) /\ p \in bundles /\ p \notin unwanted
      /\ \E o \in ops : o.kind = "added" /\ o.to = p
      /\ \A o \in ops : o.to[1] = p[1] => o.kind = "added" /\ o.to = p /\ o.from = p
  BY <1>1, StartsAlone
<1>6. OpsInv'
  <2>1. \A b \in Components \ {p[1]} : Untouched(b)
    BY <1>1, <1>2 DEF Untouched
  <2>2. Known(p[1])' = Known(p[1])
    BY <1>1 DEF Known
  <2>3. Starting(p)'
    BY <1>1, <1>2, <1>3, <1>5, <2>2 DEF Starting, Only
  <2>4. \A o \in ops' : o.to[1] = p[1] => OpInv(o)'
    BY <1>1, <1>5, <2>3 DEF OpInv, AddedInv
  <2>5. Busy(p[1])'
    BY <1>1, <1>5 DEF Busy
  <2>6. p[1] \in Components
    BY Pairs
  <2> QED
    BY <1>0, <1>1, <2>1, <2>4, <2>5, <2>6, OthersKept DEF ReloadInv
<1>7. WantedInv'
  BY <1>0, <1>1, <1>2, <1>5, ReloadTypes DEF ReloadInv, WantedInv
<1>8. OneLibraryLoaded'
  <2>1. \A q \in Locked(phase) : q[1] = p[1] => q = p
    BY <1>5, LockedIs DEF Starting, Only
  <2> QED
    BY <1>3, <2>1, LockedIs DEF ReloadInv, OneLibraryLoaded, Siblings
<1> QED
  BY <1>4, <1>6, <1>7, <1>8 DEF ReloadInv

\* An unlock satisfies a plugin of the same component only.
LEMMA UnlockedTypes ==
  ASSUME ReloadTypeOK, NEW p \in Plugins, Unlocked(p)
  PROVE  /\ satisfied' \subseteq Created
         /\ \A q \in satisfied' : q[1] # p[1] => q \in satisfied
  BY ReloadTypes DEF Unlocked, Siblings

\* A start that fails ends the reload loop.
LEMMA StartFailsKeeps ==
  ASSUME ReloadInv, ObjectInv', NEW p \in Plugins, StartFails(p)
  PROVE  ReloadInv'
<1>0. ReloadTypeOK
  BY DEF ReloadInv
<1>1. /\ phase[p] = "stopped" /\ p \in wanted /\ p \in satisfied
      /\ wanted' = wanted \ {p} /\ Unlocked(p) /\ reload' = "ended"
      /\ ops' = {o \in ops : o.to # p}
      /\ UNCHANGED <<recompilerVars, watcherVars, phase, library, unwanted,
                     generation, plugins, bundles>>
  BY DEF StartFails
<1>2. Created' = Created /\ Locked(phase)' = Locked(phase)
  BY <1>1 DEF Created, Locked, Plugins
<1>3. satisfied' \subseteq Created' /\ \A q \in satisfied' : q[1] # p[1] => q \in satisfied
  BY <1>0, <1>1, <1>2, UnlockedTypes
<1>4. ReloadTypeOK' /\ GenerationInv'
  <2>1. Created' \subseteq Created /\ unwanted' \subseteq Locked(phase)'
    BY <1>1, <1>2 DEF ReloadInv, GenerationInv
  <2>2. RecompilerTypeOK' /\ GenerationInv' /\ UNCHANGED <<notices, events, initialAdd>>
    BY <1>1, <2>1, PluginStepKeeps
  <2>3. ReloadTypeOK'
    BY <1>0, <1>1, <1>2, <1>3, <2>2, ReloadTypes, PluginTypes DEF Versions
  <2> QED
    BY <2>2, <2>3
<1>5. /\ reload # "dispatch"
      /\ \A o \in ops : o.to[1] = p[1] => o.to = p
  BY <1>1, StartsAlone
<1>6. OpsInv'
  <2>1. \A b \in Components \ {p[1]} : Untouched(b)
    BY <1>1, <1>3 DEF Untouched
  <2>2. p[1] \in Components
    BY Pairs
  <2> QED
    BY <1>0, <1>1, <1>5, <2>1, <2>2, OthersKept DEF ReloadInv
<1>7. WantedInv'
  BY <1>1 DEF ReloadInv, WantedInv
<1>8. OneLibraryLoaded'
  BY <1>2 DEF ReloadInv, OneLibraryLoaded, Siblings, Plugins
<1> QED
  BY <1>1, <1>4, <1>6, <1>7, <1>8 DEF ReloadInv

\* A plugin that stops is being replaced or removed.
LEMMA StopsForOp ==
  ASSUME ReloadInv, NEW p \in Plugins, p \in Locked(phase),
         p \in unwanted \/ phase[p] = "stopping"
  PROVE  /\ ~Quiet(p[1])
         /\ \A o \in ops : o.to[1] = p[1] =>
              o.kind \in {"modified", "removed"} /\ o.from = p
<1>0. ReloadTypeOK
  BY DEF ReloadInv
<1>1. ~Quiet(p[1])
  <2> SUFFICES ASSUME Quiet(p[1]) PROVE FALSE
    OBVIOUS
  <2>1. p = Known(p[1])
    BY DEF Quiet
  <2>2. plugins[p[1]] # None
    BY <1>0, <2>1, KnownIs, Pairs
  <2> QED
    BY <2>1, <2>2 DEF Quiet
<1>2. ASSUME NEW o \in ops, o.to[1] = p[1]
      PROVE  o.kind \in {"modified", "removed"} /\ o.from = p
  <2>1. OpInv(o) /\ o.kind \in {"added", "modified", "removed"}
    BY <1>0, ReloadTypes DEF ReloadInv, OpsInv
  <2>2. CASE o.kind = "added"
    <3>1. AddedInv(o)
      BY <2>1, <2>2 DEF OpInv
    <3>2. ~Starting(o.to)
      BY <1>2, <3>1 DEF AddedInv, Starting, Only
    <3>3. ~Blocked(o.to)
      <4> SUFFICES ASSUME Blocked(o.to) PROVE FALSE
        OBVIOUS
      <4>1. p \in Created
        BY CreatedIs, LockedIs
      <4>2. p = Known(o.to[1]) \/ p = o.to
        BY <1>2, <4>1 DEF Blocked
      <4> QED
        BY <3>1, <4>2, LockedIs DEF Blocked, AddedInv
    <3> QED
      BY <3>1, <3>2, <3>3 DEF AddedInv
  <2>3. CASE o.kind = "modified"
    BY <1>2, <2>1, <2>3 DEF OpInv, ModifiedInv, Only
  <2>4. CASE o.kind = "removed"
    BY <1>2, <2>1, <2>4 DEF OpInv, RemovedInv, Only
  <2> QED
    BY <2>1, <2>2, <2>3, <2>4
<1> QED
  BY <1>1, <1>2
\* Its operation goes on while it stops.
LEMMA StoppingOp ==
  ASSUME ReloadTypeOK, NEW p \in Plugins, NEW o \in ops, OpInv(o), o.from = p,
         o.kind \in {"modified", "removed"},
         UNCHANGED <<plugins, bundles, reload>>,
         \A q \in Plugins \ {p} : phase'[q] = phase[q],
         \A q : q \in Locked(phase)' => q \in Locked(phase), unwanted' \subseteq unwanted
  PROVE  OpInv(o)'
<1>1. o.to \in Plugins /\ (\A c : Known(c)' = Known(c))
  BY ReloadTypes DEF Known
<1>2. CASE o.kind = "modified"
  BY <1>1, <1>2 DEF OpInv, ModifiedInv, Only
<1>3. CASE o.kind = "removed"
  BY <1>1, <1>3 DEF OpInv, RemovedInv, Only, None
<1> QED
  BY <1>2, <1>3

\* A plugin that is to stop begins to.
LEMMA StopPluginKeeps ==
  ASSUME ReloadInv, ObjectInv', NEW p \in Plugins, StopPlugin(p)
  PROVE  ReloadInv'
<1>0. ReloadTypeOK
  BY DEF ReloadInv
<1>1. /\ phase[p] = "running" /\ p \in unwanted
      /\ phase' = [phase EXCEPT ![p] = "stopping"]
      /\ UNCHANGED <<recompilerVars, watcherVars, library, satisfied, wanted, unwanted,
                     generation, plugins, bundles, reload, ops>>
  BY DEF StopPlugin, reloadVars
<1>2. /\ phase' \in [Plugins -> {"none", "stopped", "running", "stopping"}]
      /\ phase'[p] = "stopping"
      /\ \A q \in Plugins \ {p} : phase'[q] = phase[q]
  BY <1>0, <1>1, ReloadTypes
<1>3. /\ Created' = Created /\ p \in Locked(phase)
      /\ \A q : q \in Locked(phase)' <=> q \in Locked(phase)
  BY <1>1, <1>2, CreatedIs, LockedIs
<1>4. ReloadTypeOK' /\ GenerationInv' /\ (reload' # "ended" => \A c \in Components : NoticeInv(c)')
  <2>1. Created' \subseteq Created /\ unwanted' \subseteq Locked(phase)'
    BY <1>1, <1>3 DEF ReloadInv, GenerationInv
  <2>2. /\ RecompilerTypeOK' /\ GenerationInv' /\ UNCHANGED <<notices, events, initialAdd>>
        /\ (reload' # "ended" => \A c \in Components : NoticeInv(c)')
    BY <1>1, <2>1, PluginStepKeeps
  <2>3. reload' \in {"first", "watch", "dispatch", "wait", "ended"}
    BY <1>1 DEF ReloadInv, ReloadTypeOK, TypeOK
  <2>4. ReloadTypeOK'
    BY <1>0, <1>1, <1>2, <1>3, <2>2, <2>3, ReloadTypes, PluginTypes DEF Versions
  <2> QED
    BY <2>2, <2>4
<1>5. OpsInv'
  <2>1. \A b \in Components \ {p[1]} : Untouched(b)
    BY <1>1, <1>2 DEF Untouched
  <2>2. /\ ~Quiet(p[1]) /\ p[1] \in Components
        /\ \A o \in ops : o.to[1] = p[1] => o.kind \in {"modified", "removed"} /\ o.from = p
    BY <1>1, <1>3, StopsForOp, Pairs
  <2>3. \A o \in ops' : o.to[1] = p[1] => OpInv(o)'
    BY <1>0, <1>1, <1>2, <1>3, <2>2, StoppingOp DEF ReloadInv, OpsInv
  <2>4. reload' # "ended" => Busy(p[1])'
    BY <1>1, <2>2 DEF ReloadInv, OpsInv, Busy
  <2> QED
    BY <1>0, <1>1, <2>1, <2>2, <2>3, <2>4, OthersKept DEF ReloadInv
<1>6. WantedInv'
  BY <1>0, <1>1, <1>2, ReloadTypes DEF ReloadInv, WantedInv
<1>7. OneLibraryLoaded'
  BY <1>3 DEF ReloadInv, OneLibraryLoaded, Siblings, Plugins
<1> QED
  BY <1>4, <1>5, <1>6, <1>7 DEF ReloadInv

\* The library of a stopped plugin is unloaded, and a sibling may start.
LEMMA ReleaseContextKeeps ==
  ASSUME ReloadInv, ObjectInv', NEW p \in Plugins, ReleaseContext(p)
  PROVE  ReloadInv'
<1>0. ReloadTypeOK
  BY DEF ReloadInv
<1>1. /\ phase[p] = "stopping" /\ unwanted' = unwanted \ {p} /\ Unlocked(p)
      /\ phase' = [phase EXCEPT ![p] = "stopped"]
      /\ UNCHANGED <<recompilerVars, watcherVars, library, wanted,
                     generation, plugins, bundles, reload, ops>>
  BY DEF ReleaseContext, reloadVars
<1>2. /\ phase' \in [Plugins -> {"none", "stopped", "running", "stopping"}]
      /\ phase'[p] = "stopped"
      /\ \A q \in Plugins \ {p} : phase'[q] = phase[q]
  BY <1>0, <1>1, ReloadTypes
<1>3. /\ Created' = Created /\ p \in Locked(phase)
      /\ \A q : q \in Locked(phase)' <=> q \in Locked(phase) /\ q # p
  BY <1>1, <1>2, CreatedIs, LockedIs
<1>4. satisfied' \subseteq Created' /\ \A q \in satisfied' : q[1] # p[1] => q \in satisfied
  BY <1>0, <1>1, <1>3, UnlockedTypes
<1>5. ReloadTypeOK' /\ GenerationInv' /\ (reload' # "ended" => \A c \in Components : NoticeInv(c)')
  <2>1. Created' \subseteq Created /\ unwanted' \subseteq Locked(phase)'
    BY <1>1, <1>3 DEF ReloadInv, GenerationInv
  <2>2. /\ RecompilerTypeOK' /\ GenerationInv' /\ UNCHANGED <<notices, events, initialAdd>>
        /\ (reload' # "ended" => \A c \in Components : NoticeInv(c)')
    BY <1>1, <2>1, PluginStepKeeps
  <2>3. reload' \in {"first", "watch", "dispatch", "wait", "ended"}
    BY <1>1 DEF ReloadInv, ReloadTypeOK, TypeOK
  <2>4. ReloadTypeOK'
    BY <1>0, <1>1, <1>2, <1>3, <1>4, <2>2, <2>3, ReloadTypes, PluginTypes DEF Versions
  <2> QED
    BY <2>2, <2>4
<1>6. OpsInv'
  <2>1. \A b \in Components \ {p[1]} : Untouched(b)
    BY <1>1, <1>2, <1>4 DEF Untouched
  <2>2. /\ ~Quiet(p[1]) /\ p[1] \in Components
        /\ \A o \in ops : o.to[1] = p[1] => o.kind \in {"modified", "removed"} /\ o.from = p
    BY <1>1, <1>3, StopsForOp, Pairs
  <2>3. \A o \in ops' : o.to[1] = p[1] => OpInv(o)'
    BY <1>0, <1>1, <1>2, <1>3, <2>2, StoppingOp DEF ReloadInv, OpsInv
  <2>4. reload' # "ended" => Busy(p[1])'
    BY <1>1, <2>2 DEF ReloadInv, OpsInv, Busy
  <2> QED
    BY <1>0, <1>1, <2>1, <2>2, <2>3, <2>4, OthersKept DEF ReloadInv
<1>7. WantedInv'
  BY <1>0, <1>1, <1>2, ReloadTypes DEF ReloadInv, WantedInv
<1>8. OneLibraryLoaded'
  BY <1>3 DEF ReloadInv, OneLibraryLoaded, Siblings, Plugins
<1> QED
  BY <1>5, <1>6, <1>7, <1>8 DEF ReloadInv

\* A plugin is destroyed: it is not the one of an operation, nor the one that runs.
LEMMA DestroyPluginKeeps ==
  ASSUME ReloadInv, ObjectInv', NEW p \in Plugins, DestroyPlugin(p)
  PROVE  ReloadInv'
<1>0. ReloadTypeOK
  BY DEF ReloadInv
<1>1. /\ phase[p] = "stopped" /\ p \notin Referenced
      /\ phase' = [phase EXCEPT ![p] = "none"]
      /\ library' = [library EXCEPT ![p] = 0]
      /\ satisfied' = (satisfied \ {p})
           \cup {q \in (Created \ {p}) \cap Siblings(p) : Front(Created \ {p}, q)}
      /\ wanted' = wanted \ {p}
      /\ UNCHANGED <<recompilerVars, watcherVars, unwanted,
                     generation, plugins, bundles, reload, ops>>
  BY DEF DestroyPlugin, reloadVars
<1>2. /\ phase' \in [Plugins -> {"none", "stopped", "running", "stopping"}]
      /\ phase'[p] = "none"
      /\ \A q \in Plugins \ {p} : phase'[q] = phase[q]
  BY <1>0, <1>1, ReloadTypes
<1>3. /\ p \in Created /\ (\A q : q \in Created' <=> q \in Created /\ q # p)
      /\ \A q : q \in Locked(phase)' <=> q \in Locked(phase)
  BY <1>1, <1>2, CreatedIs, LockedIs
<1>4. /\ p \notin bundles
      /\ reload = "dispatch" => \A o \in ops : p # o.from /\ p # o.to
  BY <1>1 DEF Referenced
<1>5. /\ satisfied' \subseteq Created'
      /\ \A q \in satisfied' : q[1] # p[1] => q \in satisfied
  BY <1>0, <1>1, <1>3, ReloadTypes DEF Siblings
<1>6. ReloadTypeOK' /\ GenerationInv' /\ (reload' # "ended" => \A c \in Components : NoticeInv(c)')
  <2>1. /\ Created' \subseteq Created /\ unwanted' \subseteq Locked(phase)'
        /\ unwanted' \subseteq Created' /\ p \notin unwanted
    BY <1>1, <1>3, CreatedIs, LockedIs DEF ReloadInv, GenerationInv
  <2>2. /\ RecompilerTypeOK' /\ GenerationInv' /\ UNCHANGED <<notices, events, initialAdd>>
        /\ (reload' # "ended" => \A c \in Components : NoticeInv(c)')
    BY <1>1, <2>1, PluginStepKeeps
  <2>3. reload' \in {"first", "watch", "dispatch", "wait", "ended"}
    BY <1>1 DEF ReloadInv, ReloadTypeOK, TypeOK
  <2>4. /\ library' \in [Plugins -> Versions]
        /\ wanted' \subseteq Created' /\ bundles' \subseteq Created' /\ ops' \subseteq OpSet
    BY <1>0, <1>1, <1>3, <1>4, ReloadTypes, RecompilerAssumption DEF Versions
  <2>5. ReloadTypeOK'
    BY <1>0, <1>1, <1>2, <1>5, <2>1, <2>2, <2>3, <2>4, PluginTypes
  <2> QED
    BY <2>2, <2>5
<1>7. OpsInv'
  <2>1. \A b \in Components \ {p[1]} : Untouched(b)
    BY <1>1, <1>2, <1>5 DEF Untouched
  <2>2. p[1] \in Components /\ (\A c : Known(c)' = Known(c))
    BY <1>1, Pairs DEF Known
  <2>3. ASSUME NEW o \in ops, o.to[1] = p[1] PROVE OpInv(o)'
    <3>1. OpInv(o) /\ o.kind \in {"added", "modified", "removed"} /\ o.to \in Plugins
      BY <1>0, ReloadTypes DEF ReloadInv, OpsInv
    <3>2. CASE o.kind = "added"
      <4>1. AddedInv(o) /\ p # o.to
        BY <1>4, <3>1, <3>2 DEF OpInv, AddedInv
      <4>2. ~Blocked(o.to)
        BY <1>3, <1>4, <2>3, <4>1 DEF Blocked
      <4>3. Starting(o.to)'
        BY <1>1, <1>2, <1>3, <2>2, <3>1, <4>1, <4>2 DEF AddedInv, Starting, Only
      <4> QED
        BY <1>1, <1>2, <3>1, <3>2, <4>1, <4>3 DEF OpInv, AddedInv
    <3>3. CASE o.kind = "modified"
      <4>1. ModifiedInv(o) /\ p # o.to
        BY <1>4, <3>1, <3>3 DEF OpInv, ModifiedInv
      <4> QED
        BY <1>1, <1>2, <1>3, <2>2, <3>1, <3>3, <4>1 DEF OpInv, ModifiedInv, Only
    <3>4. CASE o.kind = "removed"
      BY <1>1, <1>3, <3>1, <3>4 DEF OpInv, RemovedInv, Only, None
    <3> QED
      BY <3>1, <3>2, <3>3, <3>4
  <2>4. Quiet(p[1]) => Quiet(p[1])'
    <3> SUFFICES ASSUME Quiet(p[1]) PROVE Quiet(p[1])'
      OBVIOUS
    <3>1. plugins[p[1]] # None =>
            Known(p[1]) \in Plugins /\ phase[Known(p[1])] = "running" /\ Known(p[1]) # p
      BY <1>0, <1>1, <2>2, KnownIs DEF Quiet
    <3> QED
      BY <1>1, <1>2, <1>3, <2>2, <3>1 DEF Quiet, None
  <2>5. reload' # "ended" => Quiet(p[1])' \/ Busy(p[1])'
    BY <1>1, <2>2, <2>4 DEF ReloadInv, OpsInv, Busy
  <2> QED
    BY <1>0, <1>1, <2>1, <2>2, <2>3, <2>5, OthersKept DEF ReloadInv
<1>8. WantedInv'
  BY <1>0, <1>1, <1>2, ReloadTypes DEF ReloadInv, WantedInv
<1>9. OneLibraryLoaded'
  BY <1>3 DEF ReloadInv, OneLibraryLoaded, Siblings, Plugins
<1> QED
  BY <1>6, <1>7, <1>8, <1>9 DEF ReloadInv
\* The loop continues with the next watch.
LEMMA BeginReloadKeeps ==
  ASSUME ReloadInv, ObjectInv', BeginReload
  PROVE  ReloadInv'
<1>0. ReloadTypeOK
  BY DEF ReloadInv
<1>1. /\ reload = "first" /\ reload' = "watch"
      /\ UNCHANGED <<recompilerVars, watcherVars, phase, library, satisfied, wanted,
                     unwanted, generation, plugins, bundles, ops>>
  BY DEF BeginReload, pluginVars
<1>2. Created' = Created /\ Locked(phase)' = Locked(phase)
  BY <1>1 DEF Created, Locked, Plugins
<1>3. ReloadTypeOK' /\ GenerationInv' /\ (reload' # "ended" => \A c \in Components : NoticeInv(c)')
  <2>1. Created' \subseteq Created /\ unwanted' \subseteq Locked(phase)'
    BY <1>1, <1>2 DEF ReloadInv, GenerationInv
  <2>2. /\ RecompilerTypeOK' /\ GenerationInv' /\ UNCHANGED <<notices, events, initialAdd>>
        /\ (reload' # "ended" => \A c \in Components : NoticeInv(c)')
    BY <1>1, <2>1, PluginStepKeeps
  <2>3. ReloadTypeOK'
    BY <1>0, <1>1, <1>2, <2>2, ReloadTypes, PluginTypes
  <2> QED
    BY <2>2, <2>3
<1>4. \A c \in Components : Untouched(c)
  BY <1>1 DEF Untouched
<1>5. OpsInv'
  <2>1. ops' = {} /\ \A c \in Components : Quiet(c)
    BY <1>1 DEF ReloadInv, OpsInv, Busy
  <2> QED
    BY <1>0, <1>4, <2>1, UntouchedQuiet DEF OpsInv
<1>6. WantedInv'
  BY <1>1 DEF ReloadInv, WantedInv
<1>7. OneLibraryLoaded'
  BY <1>2 DEF ReloadInv, OneLibraryLoaded, Siblings, Plugins
<1> QED
  BY <1>3, <1>5, <1>6, <1>7 DEF ReloadInv

\* The whole batch is done: nothing is left behind a plugin that runs, so the
\* second plugin of a file that was added twice keeps the batch from ending.
LEMMA BatchDoneKeeps ==
  ASSUME ReloadInv, ObjectInv', BatchDone
  PROVE  ReloadInv'
<1>0. ReloadTypeOK
  BY DEF ReloadInv
<1>1. /\ reload = "wait" /\ reload' = "watch" /\ ops' = {}
      /\ UNCHANGED <<recompilerVars, watcherVars, phase, library, satisfied, wanted,
                     unwanted, generation, plugins, bundles>>
  BY DEF BatchDone, pluginVars
<1>2. Created' = Created /\ Locked(phase)' = Locked(phase)
  BY <1>1 DEF Created, Locked, Plugins
<1>3. ReloadTypeOK' /\ GenerationInv' /\ (reload' # "ended" => \A c \in Components : NoticeInv(c)')
  <2>1. Created' \subseteq Created /\ unwanted' \subseteq Locked(phase)'
    BY <1>1, <1>2 DEF ReloadInv, GenerationInv
  <2>2. /\ RecompilerTypeOK' /\ GenerationInv' /\ UNCHANGED <<notices, events, initialAdd>>
        /\ (reload' # "ended" => \A c \in Components : NoticeInv(c)')
    BY <1>1, <2>1, PluginStepKeeps
  <2>3. ReloadTypeOK'
    BY <1>0, <1>1, <1>2, <2>2, ReloadTypes, PluginTypes
  <2> QED
    BY <2>2, <2>3
<1>4. ASSUME NEW c \in Components PROVE Quiet(c)
  <2>1. CASE Quiet(c)
    BY <2>1
  <2>2. CASE Busy(c)
    <3>1. PICK o \in ops : o.to[1] = c
      BY <2>2 DEF Busy
    <3>2. \/ o.kind = "added" /\ phase[o.to] = "running" /\ AddedInv(o)
          \/ o.kind = "removed" /\ o.from \notin Locked(phase) /\ RemovedInv(o)
      BY DEF BatchDone, ReloadInv, OpsInv, OpInv
    <3>3. CASE o.kind = "added"
      <4>1. AddedInv(o) /\ phase[o.to] = "running"
        BY <3>2, <3>3
      <4>2. Starting(o.to) /\ o.to \in bundles /\ o.to \notin unwanted
        BY <1>1, <4>1 DEF AddedInv, Blocked
      <4> QED
        BY <3>1, <4>1, <4>2 DEF Starting, Only, Quiet
    <3>4. CASE o.kind = "removed"
      BY <1>1, <3>1, <3>2, <3>4 DEF RemovedInv, Only, Quiet
    <3> QED
      BY <3>2, <3>3, <3>4
  <2> QED
    BY <1>1, <2>1, <2>2 DEF ReloadInv, OpsInv
<1>5. \A c \in Components : Untouched(c)
  BY <1>1 DEF Untouched
<1>6. OpsInv'
  BY <1>0, <1>1, <1>4, <1>5, UntouchedQuiet DEF OpsInv
<1>7. WantedInv'
  <2>1. wanted = {}
    BY DEF BatchDone, ReloadInv, WantedInv
  <2> QED
    BY <1>1, <2>1 DEF WantedInv
<1>8. OneLibraryLoaded'
  BY <1>2 DEF ReloadInv, OneLibraryLoaded, Siblings, Plugins
<1> QED
  BY <1>3, <1>6, <1>7, <1>8 DEF ReloadInv

\* The replaced plugin is unloaded, and the new one may start.
LEMMA StartModifiedKeeps ==
  ASSUME ReloadInv, ObjectInv', NEW o \in ops, StartModified(o)
  PROVE  ReloadInv'
<1>0. ReloadTypeOK
  BY DEF ReloadInv
<1>1. PICK q \in OpSet : q = Op("added", o.to, o.to)
  BY <1>0, ReloadTypes DEF Op, OpSet
<1>2. q.kind = "added" /\ q.from = o.to /\ q.to = o.to
  BY <1>1 DEF Op
<1>3. /\ reload # "dispatch" /\ o.kind = "modified" /\ Others(o) \cap Locked(phase) = {}
      /\ wanted' = wanted \cup ({o.to} \cap bundles)
      /\ ops' = (ops \ {o}) \cup {q}
      /\ UNCHANGED <<recompilerVars, watcherVars, phase, library, satisfied,
                     unwanted, generation, plugins, bundles, reload>>
  BY <1>1 DEF StartModified, Ops
<1>4. Created' = Created /\ Locked(phase)' = Locked(phase)
  BY <1>3 DEF Created, Locked, Plugins
<1>5. ModifiedInv(o) /\ o.to \in Plugins
  BY <1>0, <1>3, ReloadTypes DEF ReloadInv, OpsInv, OpInv
<1>6. ReloadTypeOK' /\ GenerationInv' /\ (reload' # "ended" => \A c \in Components : NoticeInv(c)')
  <2>1. /\ Created' \subseteq Created /\ unwanted' \subseteq Locked(phase)'
    BY <1>3, <1>4 DEF ReloadInv, GenerationInv
  <2>2. /\ RecompilerTypeOK' /\ GenerationInv' /\ UNCHANGED <<notices, events, initialAdd>>
        /\ (reload' # "ended" => \A c \in Components : NoticeInv(c)')
    BY <1>3, <2>1, PluginStepKeeps
  <2>3. reload' \in {"first", "watch", "dispatch", "wait", "ended"}
    BY <1>3 DEF ReloadInv, ReloadTypeOK, TypeOK
  <2>4. wanted' \subseteq Created' /\ ops' \subseteq OpSet
    BY <1>0, <1>3, <1>4, ReloadTypes
  <2>5. ReloadTypeOK'
    BY <1>0, <1>3, <1>4, <2>2, <2>3, <2>4, ReloadTypes, PluginTypes
  <2> QED
    BY <2>2, <2>5
<1>7. \A c \in Components : Untouched(c)
  BY <1>3 DEF Untouched
<1>8. OpInv(q)'
  <2>1. \A p \in Locked(phase) : p[1] = o.to[1] => p = o.to
    BY <1>3, CreatedIs, LockedIs DEF Others, Siblings
  <2>2. Known(o.to[1])' = Known(o.to[1])
    BY <1>3 DEF Known
  <2>3. Starting(q.to)'
    BY <1>2, <1>3, <1>4, <1>5, <2>1, <2>2 DEF Starting, Only, ModifiedInv
  <2> QED
    BY <1>2, <1>3, <1>5, <2>3 DEF OpInv, AddedInv, ModifiedInv
<1>9. OpsInv'
  <2>1. \A s \in ops : OpInv(s)'
    BY <1>0, <1>3, <1>7, UntouchedOp, ReloadTypes DEF ReloadInv, OpsInv
  <2>2. \A s \in ops' : OpInv(s)'
    BY <1>3, <1>8, <2>1
  <2>3. reload' \notin {"first", "watch"}
    BY <1>3 DEF ReloadInv, OpsInv
  <2>4. \A s, t \in ops' : s.to[1] = t.to[1] => s = t
    BY <1>2, <1>3 DEF ReloadInv, OpsInv
  <2>5. \A c : Busy(c) => Busy(c)'
    BY <1>2, <1>3 DEF Busy
  <2>6. reload' # "ended" => \A c \in Components : Quiet(c)' \/ Busy(c)'
    BY <1>0, <1>3, <1>7, <2>5, UntouchedQuiet DEF ReloadInv, OpsInv
  <2> QED
    BY <2>2, <2>3, <2>4, <2>6 DEF OpsInv
<1>10. WantedInv'
  <2>1. reload' \notin {"first", "watch", "dispatch"}
    BY <1>3 DEF ReloadInv, OpsInv
  <2>2. ASSUME NEW p \in wanted'
        PROVE  phase'[p] = "stopped" /\ \E s \in ops' : s.kind = "added" /\ s.to = p
    <3>1. CASE p \in wanted
      BY <1>3, <3>1 DEF ReloadInv, WantedInv
    <3>2. CASE p = o.to
      BY <1>2, <1>3, <1>5, <3>2 DEF ModifiedInv
    <3> QED
      BY <1>3, <3>1, <3>2
  <2> QED
    BY <2>1, <2>2 DEF WantedInv
<1>11. OneLibraryLoaded'
  BY <1>4 DEF ReloadInv, OneLibraryLoaded, Siblings, Plugins
<1> QED
  BY <1>6, <1>9, <1>10, <1>11 DEF ReloadInv
\* Every operation makes its requests, which concern its component only.
LEMMA DispatchKeeps ==
  ASSUME ReloadInv, ObjectInv', Dispatch
  PROVE  ReloadInv'
<1>0. ReloadTypeOK
  BY DEF ReloadInv
<1>1. /\ reload = "dispatch" /\ reload' = "wait" /\ wanted = {}
      /\ UNCHANGED <<recompilerVars, watcherVars, phase, library, satisfied,
                     generation, plugins, ops>>
  BY DEF Dispatch, ReloadInv, WantedInv
<1>2. Created' = Created /\ Locked(phase)' = Locked(phase) /\ \A c : Known(c)' = Known(c)
  BY <1>1 DEF Created, Locked, Plugins, Known
<1>3. \A p : p \in bundles' <=>
        \/ p \in bundles /\ ~\E o \in ops : o.kind \in {"removed", "modified"} /\ o.from = p
        \/ \E o \in ops : o.kind \in {"added", "modified"} /\ o.to = p
  BY DEF Dispatch, Ops
<1>4. \A p : p \in unwanted' <=>
        \/ p \in unwanted
        \/ /\ p \in Locked(phase)
           /\ \/ \E o \in ops : o.kind = "modified" /\ p \in Others(o)
              \/ \E o \in ops : o.kind = "removed" /\ o.from = p
  <2> DEFINE replaced == UNION {Others(o) : o \in Ops("modified")}
             removed == {o.from : o \in Ops("removed")}
  <2>1. unwanted' = unwanted \cup ((replaced \cup removed) \cap Locked(phase))
    BY DEF Dispatch
  <2>2. \A p : p \in replaced <=> \E o \in ops : o.kind = "modified" /\ p \in Others(o)
    BY DEF Ops
  <2>3. \A p : p \in removed <=> \E o \in ops : o.kind = "removed" /\ o.from = p
    BY DEF Ops
  <2> HIDE DEF replaced, removed
  <2> QED
    BY <2>1, <2>2, <2>3
<1>5. \A p \in wanted' : \E o \in ops : o.kind = "added" /\ o.to = p
  BY <1>1 DEF Dispatch, Ops
<1>6. \A o \in ops : /\ OpInv(o) /\ o.kind \in {"added", "modified", "removed"}
                     /\ o.to \in Plugins /\ o.from \in Plugins
                     /\ o.from[1] = o.to[1] /\ o.to[1] \in Components
  BY <1>0, ReloadTypes DEF ReloadInv, OpsInv, OpInv, AddedInv, ModifiedInv, RemovedInv
<1>7. ASSUME NEW o \in ops PROVE o.kind \in {"added", "modified"} => phase[o.to] = "stopped"
  BY <1>1, <1>6 DEF OpInv, AddedInv, ModifiedInv
<1>8. ReloadTypeOK' /\ GenerationInv' /\ (reload' # "ended" => \A c \in Components : NoticeInv(c)')
  <2>1. /\ Created' \subseteq Created /\ unwanted' \subseteq Locked(phase)'
        /\ unwanted' \subseteq Created'
    BY <1>2, <1>4, CreatedIs, LockedIs DEF ReloadInv, GenerationInv
  <2>2. /\ RecompilerTypeOK' /\ GenerationInv' /\ UNCHANGED <<notices, events, initialAdd>>
        /\ (reload' # "ended" => \A c \in Components : NoticeInv(c)')
    BY <1>1, <2>1, PluginStepKeeps
  <2>3. bundles' \subseteq Created' /\ wanted' \subseteq Created'
    BY <1>0, <1>2, <1>3, <1>5, <1>6, <1>7, CreatedIs, ReloadTypes
  <2>4. ReloadTypeOK'
    BY <1>0, <1>1, <1>2, <2>1, <2>2, <2>3, ReloadTypes, PluginTypes
  <2> QED
    BY <2>2, <2>4
<1>9. ASSUME NEW c \in Components, ~Busy(c) PROVE Untouched(c)
  <2>1. \A o \in ops : o.to[1] # c /\ o.from[1] # c /\ \A p \in Others(o) : p[1] # c
    BY <1>6, <1>9 DEF Busy, Others, Siblings
  <2> QED
    BY <1>1, <1>3, <1>4, <2>1 DEF Untouched
<1>10. ASSUME NEW o \in ops PROVE OpInv(o)'
  <2>1. \A q \in ops : q.to[1] = o.to[1] => q = o
    BY DEF ReloadInv, OpsInv
  <2>2. \A p \in Plugins : p[1] = o.to[1] =>
          /\ p \in bundles' <=>
               \/ p \in bundles /\ ~(o.kind \in {"removed", "modified"} /\ o.from = p)
               \/ o.kind \in {"added", "modified"} /\ o.to = p
          /\ p \in unwanted' => 
               \/ p \in unwanted
               \/ /\ p \in Locked(phase)
                  /\ \/ o.kind = "modified" /\ p # o.to
                     \/ o.kind = "removed" /\ o.from = p
    <3> SUFFICES ASSUME NEW p \in Plugins, p[1] = o.to[1]
                 PROVE  /\ p \in bundles' <=>
                             \/ p \in bundles /\ ~(o.kind \in {"removed", "modified"} /\ o.from = p)
                             \/ o.kind \in {"added", "modified"} /\ o.to = p
                        /\ p \in unwanted' => 
                             \/ p \in unwanted
                             \/ /\ p \in Locked(phase)
                                /\ \/ o.kind = "modified" /\ p # o.to
                                   \/ o.kind = "removed" /\ o.from = p
      OBVIOUS
    <3>1. \A q \in ops : (q.to = p => q = o) /\ (q.from = p => q = o)
                           /\ (p \in Others(q) => q = o /\ p # o.to)
      BY <1>6, <2>1 DEF Others, Siblings
    <3> QED
      BY <1>3, <1>4, <3>1
  <2>3. CASE o.kind = "added"
    <3>1. AddedInv(o) /\ o.to \in Plugins
      BY <1>6, <2>3 DEF OpInv
    <3>2. /\ o.to \in bundles' /\ o.to \notin unwanted'
          /\ \A p \in Plugins : p[1] = o.to[1] =>
               /\ p \in bundles' <=> p \in bundles \/ p = o.to
               /\ p \in unwanted' => p \in unwanted
      BY <2>2, <2>3, <3>1 DEF AddedInv
    <3>3. Starting(o.to) => Starting(o.to)'
      BY <1>1, <1>2, <3>2 DEF Starting, Only
    <3>4. Blocked(o.to) => Blocked(o.to)'
      <4>1. Known(o.to[1])[1] = o.to[1]
        BY <1>0, <1>6, KnownIs
      <4> QED
        BY <1>1, <1>2, <3>2, <4>1 DEF Blocked
    <3> QED
      BY <1>1, <2>3, <3>1, <3>2, <3>3, <3>4 DEF OpInv, AddedInv
  <2>4. CASE o.kind = "modified"
    <3>1. ModifiedInv(o) /\ o.to \in Plugins
      BY <1>6, <2>4 DEF OpInv
    <3>2. o.to \notin Locked(phase)
      BY <3>1, LockedIs DEF ModifiedInv
    <3> QED
      BY <1>1, <1>2, <2>2, <2>4, <3>1, <3>2 DEF OpInv, ModifiedInv, Only
  <2>5. CASE o.kind = "removed"
    <3>1. RemovedInv(o)
      BY <1>6, <2>5 DEF OpInv
    <3> QED
      BY <1>1, <1>2, <2>2, <2>5, <3>1 DEF OpInv, RemovedInv, Only, None
  <2> QED
    BY <1>6, <2>3, <2>4, <2>5
<1>11. OpsInv'
  <2>1. \A c \in Components : Quiet(c)' \/ Busy(c)'
    BY <1>0, <1>1, <1>9, UntouchedQuiet DEF ReloadInv, OpsInv, Busy
  <2> QED
    BY <1>1, <1>10, <2>1 DEF ReloadInv, OpsInv
<1>12. WantedInv'
  BY <1>1, <1>5, <1>7 DEF WantedInv
<1>13. OneLibraryLoaded'
  BY <1>2 DEF ReloadInv, OneLibraryLoaded, Siblings, Plugins
<1> QED
  BY <1>8, <1>11, <1>12, <1>13 DEF ReloadInv
\* The events the loader sees.
LEMMA ResolvedIs ==
  ASSUME ReloadTypeOK, NEW c \in Components
  PROVE  /\ Resolved[c] \in {"none", "added", "modified", "removed"}
         /\ \/ Resolved[c] = events[c]
            \/ Resolved[c] = "added" /\ events[c] = "none" /\ initialAdd
<1>1. events[c] \in {"none", "added", "modified", "removed"}
  BY DEF ReloadTypeOK, TypeOK
<1>2. Resolved[c] = IF initialAdd /\ events[c] = "none" /\ artifact[c] # 0
                    THEN "added" ELSE events[c]
  BY Zenon DEF Resolved
<1>3. CASE initialAdd /\ events[c] = "none" /\ artifact[c] # 0
  BY <1>2, <1>3, Zenon
<1>4. CASE ~(initialAdd /\ events[c] = "none" /\ artifact[c] # 0)
  <2>1. Resolved[c] = events[c]
    BY <1>2, <1>4, Zenon
  <2> QED
    BY <1>1, <2>1
<1> QED
  BY <1>3, <1>4

\* What the loader remembers of a quiet component after an event.
LEMMA RememberedIs ==
  ASSUME NEW c \in Components, Quiet(c), NEW g,
         NEW event \in {"none", "added", "modified", "removed"}
  PROVE  /\ event = "none" => Remembered(c, event, g) = plugins[c]
         /\ event = "removed" => Remembered(c, event, g) = None
         /\ event \in {"added", "modified"} /\ plugins[c] = None => Remembered(c, event, g) = g
         /\ event = "added" /\ plugins[c] # None => Remembered(c, event, g) = plugins[c]
         /\ event = "modified" /\ plugins[c] # None => Remembered(c, event, g) = g
<1>1. Alive(c) <=> plugins[c] # None
  BY DEF Alive, Quiet, Known
<1>2. CASE event \in {"none", "removed"}
  BY <1>2 DEF Remembered
<1>3. CASE event = "added"
  BY <1>1, <1>3 DEF Remembered
<1>4. CASE event = "modified"
  BY <1>1, <1>4 DEF Remembered
<1> QED
  BY <1>2, <1>3, <1>4

\* What the loader makes of an event, when the component is quiet: a plugin that
\* is known is then alive.
LEMMA ConvertedIs ==
  ASSUME NEW c \in Components, Quiet(c), NEW new,
         NEW event \in {"none", "added", "modified", "removed"}
  PROVE  /\ event = "none" => Converted(c, event, new) = {}
         /\ event = "removed" /\ plugins[c] = None => Converted(c, event, new) = {}
         /\ event = "removed" /\ plugins[c] # None =>
              Converted(c, event, new) = {Op("removed", Known(c), Known(c))}
         /\ event = "added" \/ (event = "modified" /\ plugins[c] = None) =>
              Converted(c, event, new) = {Op("added", new, new)}
         /\ event = "modified" /\ plugins[c] # None =>
              Converted(c, event, new) = {Op("modified", Known(c), new)}
<1>1. Alive(c) <=> plugins[c] # None
  BY DEF Alive, Quiet, Known
<1>2. CASE event \in {"none", "added"}
  BY <1>2 DEF Converted
<1>3. CASE event = "removed"
  BY <1>1, <1>3 DEF Converted
<1>4. CASE event = "modified"
  BY <1>1, <1>4 DEF Converted
<1> QED
  BY <1>2, <1>3, <1>4

\* The watch resolves with an event of component c: the component has the operation
\* the loader makes of it, in a state the operation may begin with.
LEMMA LoadKeeps ==
  ASSUME ReloadInv, reload = "watch", NEW c \in Components, NEW g \in 1..MaxGenerations,
         g = generation + 1,
         \A p \in Plugins : p[1] = c =>
           phase'[p] = IF Resolved[c] \in {"added", "modified"} /\ p = <<c, g>>
                       THEN "stopped" ELSE phase[p],
         <<c, g>> \in satisfied' => Siblings(<<c, g>>) \cap Locked(phase) = {},
         plugins'[c] = Remembered(c, Resolved[c], g), UNCHANGED <<bundles, unwanted>>
  PROVE  \/ /\ Converted(c, Resolved[c], <<c, g>>) = {} /\ Quiet(c)'
         \/ \E o \in OpSet : /\ Converted(c, Resolved[c], <<c, g>>) = {o} /\ o.to[1] = c
                             /\ reload' = "dispatch" => OpInv(o)'
<1> DEFINE new == <<c, g>>
           e == Resolved[c]
<1>0. ReloadTypeOK /\ GenerationInv /\ NoticeInv(c) /\ Quiet(c)
  BY DEF ReloadInv, OpsInv, Busy
<1>1. /\ new \in Plugins /\ new[1] = c /\ new[2] = g
      /\ new \notin Created /\ new # Known(c)
  <2>1. new \in Plugins /\ new[1] = c /\ new[2] = g
    BY DEF Plugins
  <2>2. generation \in Nat /\ plugins[c] \in Nat /\ plugins[c] <= generation
    BY <1>0, ReloadTypes, HotswapAssumption DEF ReloadTypeOK, GenerationInv
  <2>3. new \notin Created
    BY <1>0, <2>1, <2>2 DEF GenerationInv
  <2>4. plugins[c] # g
    BY <2>2
  <2> QED
    BY <2>1, <2>3, <2>4 DEF Known
<1>2. /\ Known(c)[1] = c /\ (plugins[c] # None <=> Known(c) \in Plugins)
      /\ new \notin bundles /\ new \notin unwanted /\ new \notin Locked(phase)
      /\ phase[new] = "none"
  BY <1>0, <1>1, KnownIs, ReloadTypes, CreatedIs, LockedIs
<1>3. e \in {"none", "added", "modified", "removed"} /\ g # None
  BY <1>0, ResolvedIs DEF None
<1>4. /\ \A p \in Plugins : p[1] = c /\ p # new => phase'[p] = phase[p]
      /\ e \in {"added", "modified"} => phase'[new] = "stopped"
      /\ \A p \in Plugins : p[1] = c => (p \in Locked(phase)' <=> p \in Locked(phase))
  <2>1. \A p \in Plugins : p[1] = c /\ p # new => phase'[p] = phase[p]
    OBVIOUS
  <2>2. e \in {"added", "modified"} => phase'[new] = "stopped"
    BY <1>1
  <2>3. e \notin {"added", "modified"} => phase'[new] = phase[new]
    BY <1>1
  <2> QED
    BY <1>2, <2>1, <2>2, <2>3, LockedIs
<1> HIDE DEF new
<1>5. CASE e = "none" \/ (e = "removed" /\ plugins[c] = None)
  <2>1. Converted(c, e, new) = {} /\ plugins'[c] = plugins[c]
    BY <1>0, <1>3, <1>5, RememberedIs, ConvertedIs
  <2>2. Known(c)' = Known(c) /\ ((plugins[c] # None)' <=> plugins[c] # None)
    BY <2>1 DEF Known, None
  <2>3. Quiet(c)'
    BY <1>0, <1>1, <1>2, <1>4, <2>2 DEF Quiet
  <2> QED
    BY <2>1, <2>3 DEF new
<1>6. CASE e = "removed" /\ plugins[c] # None
  <2>1. PICK o \in OpSet : o = Op("removed", Known(c), Known(c))
    BY <1>2, <1>6 DEF OpSet, Op
  <2>2. o.kind = "removed" /\ o.from = Known(c) /\ o.to = Known(c)
    BY <2>1 DEF Op
  <2>3. Converted(c, e, new) = {o} /\ plugins'[c] = None
    BY <1>0, <1>3, <1>6, <2>1, RememberedIs, ConvertedIs
  <2>4. ASSUME reload' = "dispatch" PROVE OpInv(o)'
    BY <1>0, <1>2, <1>4, <2>2, <2>3, <2>4 DEF OpInv, RemovedInv, Only, Quiet, None
  <2> QED
    BY <1>2, <2>2, <2>3, <2>4 DEF new
<1>7. CASE e \in {"added", "modified"} /\ plugins[c] = None
  <2>1. PICK o \in OpSet : o = Op("added", new, new)
    BY <1>1 DEF OpSet, Op
  <2>2. o.kind = "added" /\ o.from = new /\ o.to = new
    BY <2>1 DEF Op
  <2>3. Converted(c, e, new) = {o} /\ plugins'[c] = g
    BY <1>0, <1>3, <1>7, <2>1, RememberedIs, ConvertedIs
  <2>4. Known(c)' = new
    BY <2>3 DEF Known, new
  <2>5. \A p \in Plugins : p[1] = c => p \notin bundles /\ p \notin Locked(phase)
    BY <1>0, <1>2, <1>7 DEF Quiet
  <2>6. Starting(new)'
    BY <1>1, <1>4, <1>7, <2>4, <2>5 DEF Starting, Only
  <2>7. ASSUME reload' = "dispatch" PROVE OpInv(o)'
    BY <1>2, <1>4, <1>7, <2>2, <2>6, <2>7 DEF OpInv, AddedInv
  <2> QED
    BY <1>1, <2>2, <2>3, <2>7 DEF new
<1>8. CASE e = "added" /\ plugins[c] # None
  <2>1. PICK o \in OpSet : o = Op("added", new, new)
    BY <1>1 DEF OpSet, Op
  <2>2. o.kind = "added" /\ o.from = new /\ o.to = new
    BY <2>1 DEF Op
  <2>3. Converted(c, e, new) = {o} /\ plugins'[c] = plugins[c]
    BY <1>0, <1>3, <1>8, <2>1, RememberedIs, ConvertedIs
  <2>4. Known(c)' = Known(c) /\ Known(c) \in Plugins /\ phase[Known(c)] = "running"
    BY <1>0, <1>2, <1>8, <2>3 DEF Known, Quiet
  <2>5. AddNext(c)
    <3>1. ~initialAdd
      <4>1. generation = 0 => plugins[c] = None
        BY <1>0, ReloadTypes, HotswapAssumption DEF GenerationInv, None
      <4> QED
        BY <1>0, <1>8, <4>1, Zenon DEF GenerationInv
    <3> QED
      BY <1>0, <1>8, <3>1, ResolvedIs DEF AddNext
  <2>6. \A p \in Created : p[1] = c => p = Known(c)
    BY <1>0, <1>8, <2>5 DEF NoticeInv
  <2>7. new \notin satisfied'
    <3>1. Known(c) \in Siblings(new) \cap Locked(phase)
      BY <1>1, <1>2, <2>4, LockedIs DEF Siblings
    <3> QED
      BY <3>1 DEF new
  <2>8. \A q \in Created' : q[1] = c => q \in {Known(c), new}
    BY <1>4, <2>6, CreatedIs
  <2>9. Blocked(new)'
    BY <1>0, <1>1, <1>2, <1>4, <1>8, <2>4, <2>7, <2>8 DEF Blocked, Quiet
  <2>10. ASSUME reload' = "dispatch" PROVE OpInv(o)'
    BY <1>2, <1>4, <1>8, <2>2, <2>9, <2>10 DEF OpInv, AddedInv
  <2> QED
    BY <1>1, <2>2, <2>3, <2>10 DEF new
<1>9. CASE e = "modified" /\ plugins[c] # None
  <2>1. PICK o \in OpSet : o = Op("modified", Known(c), new)
    BY <1>1, <1>2, <1>9 DEF OpSet, Op
  <2>2. o.kind = "modified" /\ o.from = Known(c) /\ o.to = new
    BY <2>1 DEF Op
  <2>3. Converted(c, e, new) = {o} /\ plugins'[c] = g
    BY <1>0, <1>3, <1>9, <2>1, RememberedIs, ConvertedIs
  <2>4. Known(c)' = new
    BY <2>3 DEF Known, new
  <2>5. ASSUME reload' = "dispatch" PROVE ModifiedInv(o)'
    BY <1>0, <1>1, <1>2, <1>4, <1>9, <2>2, <2>4, <2>5 DEF ModifiedInv, Only, Quiet
  <2>6. ASSUME reload' = "dispatch" PROVE OpInv(o)'
    BY <2>2, <2>5, <2>6 DEF OpInv
  <2> QED
    BY <1>1, <2>2, <2>3, <2>6 DEF new
<1> QED
  BY <1>3, <1>5, <1>6, <1>7, <1>8, <1>9
\* What the loader knows of a file afterwards, and the notices that are left.
LEMMA LoadKeepsNotices ==
  ASSUME ReloadInv, reload = "watch", NEW c \in Components, NEW g \in 1..MaxGenerations,
         g = generation + 1,
         Resolved[c] \in {"added", "modified"} => artifact[c] # 0,
         \A p \in Plugins : p[1] = c =>
           phase'[p] = IF Resolved[c] \in {"added", "modified"} /\ p = <<c, g>>
                       THEN "stopped" ELSE phase[p],
         plugins'[c] = Remembered(c, Resolved[c], g),
         events'[c] = "none", UNCHANGED <<artifact, notices>>
  PROVE  NoticeInv(c)' /\ plugins'[c] \in {None, g, plugins[c]}
<1>0. ReloadTypeOK /\ GenerationInv /\ NoticeInv(c) /\ Quiet(c)
  BY DEF ReloadInv, OpsInv, Busy
<1>1. Resolved[c] \in {"none", "added", "modified", "removed"}
  BY <1>0, ResolvedIs
<1>2. /\ Resolved[c] = "none" => plugins'[c] = plugins[c]
      /\ Resolved[c] = "removed" => plugins'[c] = None
      /\ Resolved[c] \in {"added", "modified"} /\ plugins[c] = None => plugins'[c] = g
      /\ plugins'[c] \in {None, g, plugins[c]}
  BY <1>0, <1>1, RememberedIs
<1>3. /\ \A i, j : Deleted(c, i, j)' = Deleted(c, i, j)
      /\ AddFirst(c)' = AddFirst(c)
  <2>1. \A i, j : Deleted(c, i, j)' = Deleted(c, i, j)
    BY DEF Deleted
  <2> QED
    BY <2>1 DEF AddFirst
<1>4. artifact[c] = 0 /\ plugins'[c] # None => Deleted(c, 1, Len(notices))
  <2> SUFFICES ASSUME artifact[c] = 0, plugins'[c] # None PROVE Deleted(c, 1, Len(notices))
    OBVIOUS
  <2>1. Resolved[c] = "none"
    BY <1>1, <1>2
  <2>2. events[c] = "none" /\ plugins[c] # None
    BY <1>0, <1>2, <2>1, ResolvedIs
  <2> QED
    BY <1>0, <2>2 DEF NoticeInv, Believed
<1>5. ASSUME AddFirst(c), plugins'[c] # None, NEW p \in Created', p[1] = c
      PROVE  p = <<c, plugins'[c]>>
  <2>1. events[c] \notin {"added", "modified"}
    BY <1>0, <1>5 DEF NoticeInv
  <2>2. CASE Resolved[c] = events[c]
    <3>1. Resolved[c] = "none" /\ events[c] = "none" /\ plugins'[c] = plugins[c]
      BY <1>1, <1>2, <1>5, <2>1, <2>2
    <3>2. p \in Created
      BY <1>5, <3>1, CreatedIs
    <3> QED
      BY <1>0, <1>5, <3>1, <3>2 DEF NoticeInv, AddNext, Known
  <2>3. CASE Resolved[c] # events[c]
    <3>1. Resolved[c] = "added" /\ initialAdd
      BY <1>0, <2>3, ResolvedIs
    <3>2. generation = 0
      BY <1>0, <3>1, Zenon DEF GenerationInv
    <3>3. plugins[c] = None
      BY <1>0, <3>2, ReloadTypes, HotswapAssumption DEF GenerationInv, None
    <3>4. plugins'[c] = g
      BY <1>2, <3>1, <3>3
    <3>5. p \notin Created
      BY <1>0, <3>2, CreatedIs, Pairs DEF GenerationInv
    <3>6. p = <<c, g>>
      BY <1>5, <3>5, CreatedIs
    <3> QED
      BY <3>4, <3>6
  <2> QED
    BY <2>2, <2>3
<1>6. AddNext(c)' => AddFirst(c)
  BY <1>3 DEF AddNext
<1>7. Believed(c)' => plugins'[c] # None
  BY DEF Believed, None
<1> QED
  BY <1>0, <1>2, <1>3, <1>4, <1>5, <1>6, <1>7 DEF NoticeInv, Known, None

\* The watch of the loader is resolved.
LEMMA ArtifactsChangedKeeps ==
  ASSUME ReloadInv, ObjectInv', RecompilerTypeOK', ArtifactsChanged
  PROVE  ReloadInv'
<1>0. /\ ReloadTypeOK /\ GenerationInv /\ OpsInv /\ WantedInv /\ OneLibraryLoaded
      /\ reload = "watch" /\ ops = {} /\ wanted = {}
      /\ \A c \in Components : Quiet(c)
      /\ artifact \in [Components -> Versions]
  <2>1. RecompilerTypeOK /\ reload = "watch"
    BY DEF ReloadInv, ReloadTypeOK, TypeOK, ArtifactsChanged
  <2> QED
    BY <2>1, BuildTypes DEF ReloadInv, OpsInv, WantedInv, Busy
<1>1. PICK g \in 1..MaxGenerations : g = generation + 1 /\ generation' = g
  BY <1>0, HotswapAssumption DEF ArtifactsChanged, ReloadTypeOK
<1>2. /\ events' = [c \in Components |-> "none"]
      /\ UNCHANGED <<bundles, notices, artifact>>
  BY DEF ArtifactsChanged, recompilerVars
<1>3. ~initialAdd' /\ initialAdd' \in BOOLEAN
  BY Zenon DEF ArtifactsChanged
<1>4. generation \in Nat /\ generation <= g
  BY <1>0, <1>1, HotswapAssumption DEF ReloadTypeOK
<1>5. OpSet' = OpSet
  BY DEF OpSet, Plugins
<1>6. CASE ~\A c \in Loads(Resolved) : artifact[c] # 0
  <2>1. /\ reload' = "ended"
        /\ UNCHANGED <<phase, library, satisfied, wanted, unwanted, plugins, ops>>
    BY <1>6 DEF ArtifactsChanged, pluginVars
  <2>2. Created' = Created /\ Locked(phase)' = Locked(phase)
    BY <2>1 DEF Created, Locked, Plugins
  <2>3. TypeOK'
    BY <1>0, <1>2, <2>1, <2>2 DEF ReloadTypeOK, TypeOK, Plugins, Versions
  <2>4. ReloadTypeOK'
    BY <1>0, <1>1, <1>2, <1>3, <1>5, <2>1, <2>3 DEF ReloadTypeOK
  <2>5. GenerationInv'
    <3>1. (\A p \in Created' : p[2] <= g) /\ (\A c \in Components : plugins'[c] <= g)
      BY <1>0, <1>1, <1>4, <2>1, <2>2, ReloadTypes, Pairs, HotswapAssumption DEF GenerationInv
    <3> QED
      BY <1>0, <1>1, <1>3, <2>1, <2>2, <3>1 DEF GenerationInv
  <2>6. OpsInv' /\ WantedInv'
    BY <1>0, <2>1 DEF OpsInv, WantedInv
  <2>7. OneLibraryLoaded'
    BY <1>0, <2>2 DEF OneLibraryLoaded, Siblings, Plugins
  <2> QED
    BY <2>1, <2>4, <2>5, <2>6, <2>7 DEF ReloadInv
<1>7. CASE \A c \in Loads(Resolved) : artifact[c] # 0
  <2> DEFINE new == Loads(Resolved) \X {g}
  <2>1. /\ CreatePlugins(new)
        /\ plugins' = [c \in Components |-> Remembered(c, Resolved[c], g)]
        /\ ops' = UNION {Converted(c, Resolved[c], <<c, g>>) : c \in Components}
        /\ reload' = IF ops' = {} THEN "watch" ELSE "dispatch"
    BY <1>1, <1>7 DEF ArtifactsChanged
  <2>2. /\ phase' = [p \in Plugins |-> IF p \in new THEN "stopped" ELSE phase[p]]
        /\ library' = [p \in Plugins |-> IF p \in new THEN artifact[p[1]] ELSE library[p]]
        /\ satisfied' = (satisfied \ UNION {Siblings(p) : p \in new})
                          \cup {p \in new : Siblings(p) \cap Locked(phase) = {}}
        /\ UNCHANGED <<wanted, unwanted>>
    BY <2>1 DEF CreatePlugins
  <2>3. \A p : p \in new <=>
          p \in Plugins /\ Resolved[p[1]] \in {"added", "modified"} /\ p = <<p[1], g>>
    BY DEF Loads, Plugins
  <2>4. \A p \in new : p \notin Created /\ p[1] \in Components
    BY <1>0, <1>1, <1>4, <2>3, Pairs DEF GenerationInv
  <2> HIDE DEF new
  <2>5. /\ phase' \in [Plugins -> {"none", "stopped", "running", "stopping"}]
        /\ library' \in [Plugins -> Versions]
        /\ \A p \in Plugins : phase'[p] = IF p \in new THEN "stopped" ELSE phase[p]
    BY <1>0, <2>2, <2>4, ReloadTypes
  <2>6. /\ \A p : p \in Created' <=> p \in Created \/ p \in new
        /\ \A p : p \in Locked(phase)' <=> p \in Locked(phase)
    BY <2>3, <2>4, <2>5, CreatedIs, LockedIs
  <2>7. \A p \in satisfied' : p \in satisfied \/ (p \in new /\ Siblings(p) \cap Locked(phase) = {})
    BY <2>2
  <2>8. ASSUME NEW c \in Components
        PROVE  /\ \A p \in Plugins : p[1] = c =>
                    phase'[p] = IF Resolved[c] \in {"added", "modified"} /\ p = <<c, g>>
                                THEN "stopped" ELSE phase[p]
               /\ <<c, g>> \in satisfied' => Siblings(<<c, g>>) \cap Locked(phase) = {}
               /\ plugins'[c] = Remembered(c, Resolved[c], g)
               /\ Resolved[c] \in {"added", "modified"} => artifact[c] # 0
    <3>1. \A p \in Plugins : p[1] = c =>
            (p \in new <=> Resolved[c] \in {"added", "modified"} /\ p = <<c, g>>)
      BY <2>3
    <3>2. <<c, g>> \in Plugins /\ <<c, g>>[1] = c /\ <<c, g>>[2] = g
      BY DEF Plugins
    <3>3. <<c, g>> \notin satisfied
      BY <1>0, <1>1, <1>4, <3>2, ReloadTypes DEF GenerationInv
    <3> QED
      BY <1>7, <2>1, <2>5, <2>7, <3>1, <3>3 DEF Loads
  <2>9. \A c \in Components : NoticeInv(c)' /\ plugins'[c] \in {None, g, plugins[c]}
    BY <1>0, <1>1, <1>2, <2>8, LoadKeepsNotices
  <2>10. ASSUME NEW c \in Components
         PROVE  \/ /\ Converted(c, Resolved[c], <<c, g>>) = {} /\ Quiet(c)'
                \/ \E o \in OpSet : /\ Converted(c, Resolved[c], <<c, g>>) = {o} /\ o.to[1] = c
                                    /\ reload' = "dispatch" => OpInv(o)'
    <3>1. reload = "watch" /\ g = generation + 1 /\ UNCHANGED <<bundles, unwanted>>
      BY <1>0, <1>1, <1>2, <2>2
    <3>2. /\ \A p \in Plugins : p[1] = c =>
               phase'[p] = IF Resolved[c] \in {"added", "modified"} /\ p = <<c, g>>
                           THEN "stopped" ELSE phase[p]
          /\ <<c, g>> \in satisfied' => Siblings(<<c, g>>) \cap Locked(phase) = {}
          /\ plugins'[c] = Remembered(c, Resolved[c], g)
      BY <2>8
    <3> QED
      BY <3>1, <3>2, LoadKeeps, Zenon
  <2>11. \A o : o \in ops' <=> \E c \in Components : o \in Converted(c, Resolved[c], <<c, g>>)
    BY <2>1
  <2>12. /\ ops' \subseteq OpSet
         /\ \A o, q \in ops' : o.to[1] = q.to[1] => o = q
         /\ \A o \in ops' : OpInv(o)'
         /\ \A c \in Components : Quiet(c)' \/ Busy(c)'
    <3>1. \A o \in ops' : o \in OpSet /\ OpInv(o)'
                            /\ Converted(o.to[1], Resolved[o.to[1]], <<o.to[1], g>>) = {o}
      <4> SUFFICES ASSUME NEW o \in ops'
                   PROVE o \in OpSet /\ OpInv(o)'
                            /\ Converted(o.to[1], Resolved[o.to[1]], <<o.to[1], g>>) = {o}
        OBVIOUS
      <4>1. PICK c \in Components : o \in Converted(c, Resolved[c], <<c, g>>)
        BY <2>11
      <4>2. reload' = "dispatch"
        BY <2>1
      <4>3. PICK q \in OpSet : /\ Converted(c, Resolved[c], <<c, g>>) = {q} /\ q.to[1] = c
                               /\ reload' = "dispatch" => OpInv(q)'
        BY <2>10, <4>1
      <4>4. q = o
        BY <4>1, <4>3
      <4> QED
        BY <4>2, <4>3, <4>4
    <3>2. \A c \in Components : Quiet(c)' \/ Busy(c)'
      <4> SUFFICES ASSUME NEW c \in Components, ~Quiet(c)' PROVE Busy(c)'
        OBVIOUS
      <4>1. PICK q \in OpSet : Converted(c, Resolved[c], <<c, g>>) = {q} /\ q.to[1] = c
        BY <2>10
      <4>2. q \in ops'
        BY <2>11, <4>1
      <4> QED
        BY <4>1, <4>2 DEF Busy
    <3>3. ASSUME NEW o \in ops', NEW q \in ops', o.to[1] = q.to[1] PROVE o = q
      <4>1. {o} = {q}
        BY <3>1, <3>3
      <4> QED
        BY <4>1
    <3> QED
      BY <3>1, <3>2, <3>3
  <2>13. plugins' \in [Components -> 0..MaxGenerations]
    BY <1>0, <2>1, <2>9, ReloadTypes, HotswapAssumption DEF None
  <2>14. ReloadTypeOK'
    <3>1. /\ satisfied' \cup wanted' \cup unwanted' \cup bundles' \subseteq Created'
          /\ reload' \in {"first", "watch", "dispatch", "wait", "ended"}
      BY <1>0, <1>2, <2>1, <2>2, <2>6, <2>7, ReloadTypes
    <3>2. TypeOK'
      BY <1>2, <2>5, <2>13, <3>1 DEF TypeOK, Plugins, Versions
    <3> QED
      BY <1>0, <1>1, <1>2, <1>3, <1>5, <2>12, <3>2 DEF ReloadTypeOK
  <2>15. GenerationInv'
    <3>1. \A c \in Components : plugins'[c] <= g
      BY <1>0, <1>1, <1>4, <2>9, ReloadTypes, HotswapAssumption DEF GenerationInv, None
    <3>2. \A p \in Created' : p[2] <= g
      BY <1>0, <1>1, <1>4, <2>3, <2>6, CreatedIs, Pairs DEF GenerationInv
    <3> QED
      BY <1>0, <1>1, <1>3, <2>2, <2>6, <3>1, <3>2 DEF GenerationInv
  <2>16. OpsInv' /\ WantedInv'
    BY <1>0, <2>1, <2>2, <2>12 DEF OpsInv, WantedInv
  <2>17. OneLibraryLoaded'
    BY <1>0, <2>6 DEF OneLibraryLoaded, Siblings, Plugins
  <2> QED
    BY <2>9, <2>14, <2>15, <2>16, <2>17 DEF ReloadInv
<1> QED
  BY <1>6, <1>7
\* In the beginning no plugin exists.
LEMMA ReloadInit == Init => ReloadInv
<1> SUFFICES ASSUME Init PROVE ReloadInv
  OBVIOUS
<1>1. /\ RecompilerTypeOK /\ stage = "watch" /\ generated = {} /\ artifact = [c \in Components |-> 0]
      /\ notices = <<>> /\ events = [c \in Components |-> "none"]
      /\ generation = 0 /\ plugins = [c \in Components |-> None]
      /\ phase = [p \in Plugins |-> "none"] /\ library = [p \in Plugins |-> 0]
      /\ satisfied = {} /\ wanted = {} /\ unwanted = {} /\ bundles = {}
      /\ reload = "first" /\ ops = {}
  BY BuildInit DEF Init, RecompilerInit, BuildInv
<1>2. initialAdd \in BOOLEAN
  BY Zenon DEF Init
<1>3. Created = {} /\ Locked(phase) = {}
  BY <1>1 DEF Created, Locked
<1>4. ReloadTypeOK
  <2>1. notices \in Seq(Components \X FileActions)
    BY <1>1
  <2>2. TypeOK
    BY <1>1, <1>3, RecompilerAssumption, HotswapAssumption DEF TypeOK, Versions, None
  <2> QED
    BY <1>1, <1>2, <2>1, <2>2, HotswapAssumption DEF ReloadTypeOK
<1>5. ObjectInv /\ OneLibraryLoaded
  BY <1>1, <1>3 DEF ObjectInv, OneLibraryLoaded
<1>6. GenerationInv
  BY <1>1, <1>3 DEF GenerationInv, None
<1>7. \A c \in Components : Quiet(c)
  BY <1>1, <1>3 DEF Quiet, None
<1>8. OpsInv /\ WantedInv
  BY <1>1, <1>7 DEF OpsInv, WantedInv
<1>9. \A c \in Components : NoticeInv(c)
  <2> SUFFICES ASSUME NEW c \in Components PROVE NoticeInv(c)
    OBVIOUS
  <2>1. Len(notices) = 0 /\ events[c] = "none" /\ plugins[c] = None
    BY <1>1
  <2>2. ~Believed(c) /\ ~AddFirst(c)
    BY <2>1 DEF Believed, AddFirst
  <2> QED
    BY <2>1, <2>2 DEF NoticeInv
<1> QED
  BY <1>4, <1>5, <1>6, <1>8, <1>9 DEF ReloadInv

\* Each step of both loops, of the loader and of the plugins keeps the invariant.
LEMMA ReloadInductive == BuildInv /\ ReloadInv /\ [Next]_vars => ReloadInv'
<1> SUFFICES ASSUME BuildInv, ReloadInv, [Next]_vars PROVE ReloadInv'
  OBVIOUS
<1>1. BuildInv' /\ ObjectInv' /\ RecompilerTypeOK'
  <2>1. BuildInv'
    BY BuildInductive
  <2>2. ObjectInv'
    BY ObjectInductive DEF ReloadInv
  <2>3. BuildInv' => RecompilerTypeOK'
    BY DEF BuildInv
  <2> QED
    BY <2>1, <2>2, <2>3
<1>2. CASE Rebuild \/ User \/ HandleFileAction
  BY <1>1, <1>2, WatcherKeeps
<1>3. CASE Reload
  BY <1>1, <1>3, BeginReloadKeeps, ArtifactsChangedKeeps, DispatchKeeps, BatchDoneKeeps,
     StartModifiedKeeps DEF Reload
<1>4. ASSUME NEW p \in Plugins, Scheduling(p) \/ DestroyPlugin(p) PROVE ReloadInv'
  BY <1>1, <1>4, StartPluginKeeps, StartFailsKeeps, StopPluginKeeps, ReleaseContextKeeps,
     DestroyPluginKeeps DEF Scheduling
<1>5. CASE UNCHANGED vars
  <2>1. UNCHANGED <<pluginVars, reloadVars, initialAdd, notices, events, artifact>>
    BY <1>5 DEF vars, watcherVars, recompilerVars
  <2>2. UNCHANGED <<phase, plugins, reload>>
    BY <2>1 DEF pluginVars, reloadVars
  <2>3. ReloadTypeOK'
    BY <1>1, <2>1, WatcherTypes DEF ReloadInv, ReloadTypeOK, TypeOK
  <2>4. reload' # "ended" => \A c \in Components : NoticeInv(c)'
    <3>1. Created' \subseteq Created
      BY <2>2 DEF Created, Plugins
    <3> QED
      BY <2>1, <2>2, <3>1, NoticesKept DEF ReloadInv
  <2> QED
    BY <1>1, <2>1, <2>3, <2>4, PluginsKept DEF ReloadInv
<1> QED
  BY <1>2, <1>3, <1>4, <1>5 DEF Next

\* The invariant of the reload loop holds in every behaviour.
LEMMA ReloadInvariance == Spec => []ReloadInv
<1>1. Init => BuildInv /\ ReloadInv
  BY BuildInit, ReloadInit DEF Init
<1>2. BuildInv /\ ReloadInv /\ [Next]_vars => (BuildInv /\ ReloadInv)'
  BY BuildInductive, ReloadInductive
<1> QED
  BY <1>1, <1>2, PTL DEF Spec

\* Every variable of the rebuild and of the reload loop keeps its type.
THEOREM TypeCorrect == Spec => []TypeOK
<1>1. ReloadInv => TypeOK
  BY DEF ReloadInv, ReloadTypeOK
<1> QED
  BY <1>1, ReloadInvariance, PTL

\* For any number of components, edits and generations, in every interleaving of
\* builds, deletions, notices, reloads, starts, stops and failures: at most one
\* library of a component is loaded.
THEOREM OneLibrary == Spec => []OneLibraryLoaded
<1>1. ReloadInv => OneLibraryLoaded
  BY DEF ReloadInv
<1> QED
  BY <1>1, ReloadInvariance, PTL

\* Whenever the reload loop watches, the bundle of a file is the one of the plugin
\* the loader knows for it, so that the next change reaches what runs.
THEOREM BundlesOfKnown == Spec => []BundlesKnown
<1>1. ReloadInv => BundlesKnown
  <2> SUFFICES ASSUME ReloadInv, reload = "watch", NEW p \in bundles PROVE p = Known(p[1])
    BY DEF BundlesKnown
  <2>1. ops = {} /\ \A c \in Components : Quiet(c) \/ Busy(c)
    BY DEF ReloadInv, OpsInv
  <2>2. p \in Plugins /\ p[1] \in Components
    BY ReloadTypes, Pairs DEF ReloadInv
  <2> QED
    BY <2>1, <2>2 DEF Busy, Quiet
<1> QED
  BY <1>1, ReloadInvariance, PTL
=============================================================================
