------------------------------ MODULE Hotswap -------------------------------
(***************************************************************************)
(* Hot reloading: the rebuild side (Recompiler) writes artifacts, the      *)
(* plugin loader turns the changes of the artifact directory into changes  *)
(* of plugins, and idle::PluginHotswapImpl applies them one batch at a     *)
(* time, starting and stopping plugins and their bundles.                  *)
(*                                                                         *)
(* A plugin is the pair of its component and the generation of the loader  *)
(* that loaded it, and stands for its service, its bundle and the services *)
(* of the bundle, which start and stop together.  Its Singleton keeps      *)
(* plugins of one component apart as in module Registry, and a stop ends   *)
(* when the last pin of its PluginContext is gone.  Plugins do not import  *)
(* each other, and artifacts have different file names.                    *)
(***************************************************************************)
EXTENDS Recompiler, Sequences, FiniteSetsExt

CONSTANT MaxGenerations  \* bound on the generations of the loader
ASSUME HotswapAssumption == MaxGenerations \in Nat

VARIABLES
  removals,    \* number of artifacts deleted so far
  notices,     \* notifications of the directory not yet dispatched
  events,      \* changes_ of the file watcher of the loader
  initialAdd,  \* its initial_add_
  generation,  \* generation_ of the loader
  plugins,     \* plugins_ of the loader, weak: the generation, 0 for none
  phase,       \* of each plugin
  library,     \* the version of the library it was loaded from
  satisfied,   \* plugins whose Singleton is satisfied
  wanted,      \* plugins whose bundle is marked for start
  unwanted,    \* plugins that are marked for stop
  bundles,     \* plugins that have a bundle in bundles_
  reload,      \* what the reload loop waits for
  ops          \* operations of the current batch

watcherVars == <<removals, notices, events, initialAdd>>
pluginVars == <<phase, library, satisfied, wanted, unwanted>>
reloadVars == <<generation, plugins, bundles, reload, ops>>
vars == <<recompilerVars, watcherVars, pluginVars, reloadVars>>

Plugins == Components \X (1..MaxGenerations)
None == 0
Op(kind, from, to) == [kind |-> kind, from |-> from, to |-> to]

Created == {p \in Plugins : phase[p] # "none"}
Locked(ph) == {p \in Plugins : ph[p] \in {"running", "stopping"}}
Siblings(p) == {q \in Plugins : q[1] = p[1]} \ {p}
\* The plugin of the highest generation is at the front of its registry.
Front(created, p) == \A q \in created \cap Siblings(p) : p[2] > q[2]

\* The changes hold their plugins until they are dispatched.
Referenced ==
  bundles \cup (IF reload = "dispatch" THEN UNION {{o.from, o.to} : o \in ops} ELSE {})

TypeOK ==
  /\ RecompilerTypeOK
  /\ events \in [Components -> {"none", "added", "modified", "removed"}]
  /\ plugins \in [Components -> 0..MaxGenerations]
  /\ phase \in [Plugins -> {"none", "stopped", "running", "stopping"}]
  /\ library \in [Plugins -> Versions]
  /\ satisfied \cup wanted \cup unwanted \cup bundles \subseteq Created
  /\ reload \in {"first", "watch", "dispatch", "wait", "ended"}

Init ==
  /\ RecompilerInit
  /\ removals = 0 /\ notices = <<>>
  /\ events = [c \in Components |-> "none"] /\ initialAdd = TRUE
  /\ generation = 0
  /\ plugins = [c \in Components |-> None]
  /\ phase = [p \in Plugins |-> "none"]
  /\ library = [p \in Plugins |-> 0]
  /\ satisfied = {} /\ wanted = {} /\ unwanted = {} /\ bundles = {}
  /\ reload = "first" /\ ops = {}

-----------------------------------------------------------------------------
(* The artifact directory and its watcher. *)

\* External: efsw reports what happens to the file of a component.
Notify(c, action) == notices' = Append(notices, <<c, action>>)

\* cmake copies a file only if it differs.
InstallArtifact(c) ==
  /\ Install(c)
  /\ IF artifact'[c] = artifact[c]
     THEN UNCHANGED notices
     ELSE Notify(c, IF artifact[c] = 0 THEN "add" ELSE "modify")
  /\ UNCHANGED <<removals, events, initialAdd, pluginVars, reloadVars>>

\* External: somebody deletes an artifact, no build will bring it back.
DeleteArtifact(c) ==
  /\ artifact[c] # 0
  /\ removals' = removals + 1
  /\ artifact' = [artifact EXCEPT ![c] = 0]
  /\ stale' = stale \cup {c}
  /\ Notify(c, "delete")
  /\ UNCHANGED <<userVars, changes, loopVars, generated, object>>
  /\ UNCHANGED <<events, initialAdd, pluginVars, reloadVars>>

\* The event is merged with a pending one of the same file.
Merged(old, action) ==
  CASE action = "add"    -> IF old = "none" THEN "added" ELSE "modified"
    [] action = "modify" -> IF old = "added" THEN "added" ELSE "modified"
    [] action = "delete" -> "removed"

HandleFileAction ==
  /\ notices # <<>>
  /\ LET c == Head(notices)[1] IN
     events' = [events EXCEPT ![c] = Merged(@, Head(notices)[2])]
  /\ notices' = Tail(notices)
  /\ UNCHANGED <<recompilerVars, removals, initialAdd, pluginVars, reloadVars>>

\* The first watch adds the files no event has named.
Resolved ==
  [c \in Components |->
     IF initialAdd /\ events[c] = "none" /\ artifact[c] # 0
     THEN "added" ELSE events[c]]

-----------------------------------------------------------------------------
(* PluginLoaderImpl::convert *)

Alive(c) == plugins[c] # None /\ phase[<<c, plugins[c]>>] # "none"
Known(c) == <<c, plugins[c]>>

\* The components of which the batch loads a new plugin.
Loads(evs) == {c \in Components : evs[c] \in {"added", "modified"}}

\* The event the loader makes of a file event.
Converted(c, event, new) ==
  CASE event = "added" -> {Op("added", new, new)}
    [] event = "modified" /\ Alive(c) -> {Op("modified", Known(c), new)}
    [] event = "modified" /\ ~Alive(c) -> {Op("added", new, new)}
    [] event = "removed" /\ Alive(c) -> {Op("removed", Known(c), Known(c))}
    [] OTHER -> {}

\* Mutant of Remembered: a modified library does not replace the entry.
RememberedInsert(c, event, gen) ==
  CASE event = "removed" -> None
    [] event \in {"added", "modified"} /\ plugins[c] = None -> gen
    [] OTHER -> plugins[c]

\* What plugins_ holds for the file afterwards; insert keeps an old entry.
Remembered(c, event, gen) ==
  CASE event = "removed" -> None
    [] event = "modified" /\ Alive(c) -> gen
    [] event \in {"added", "modified"} /\ plugins[c] = None -> gen
    [] OTHER -> plugins[c]

\* Mutant of CreatePlugins: the Singleton ignores locked siblings.
CreatePluginsSatisfied(new) ==
  /\ phase' = [p \in Plugins |-> IF p \in new THEN "stopped" ELSE phase[p]]
  /\ library' = [p \in Plugins |-> IF p \in new THEN artifact[p[1]] ELSE library[p]]
  /\ satisfied' = (satisfied \ UNION {Siblings(p) : p \in new}) \cup new
  /\ UNCHANGED <<wanted, unwanted>>

\* The plugins are created and published: the new ones are the most preferred
\* ones, and satisfied unless an older one is locked.
CreatePlugins(new) ==
  /\ phase' = [p \in Plugins |-> IF p \in new THEN "stopped" ELSE phase[p]]
  /\ library' = [p \in Plugins |-> IF p \in new THEN artifact[p[1]] ELSE library[p]]
  /\ satisfied' = (satisfied \ UNION {Siblings(p) : p \in new})
                    \cup {p \in new : Siblings(p) \cap Locked(phase) = {}}
  /\ UNCHANGED <<wanted, unwanted>>

\* The watch of the loader is resolved; a file that is gone by now cannot be
\* loaded, and the exception ends the loop.
ArtifactsChanged ==
  /\ reload = "watch" /\ generation < MaxGenerations
  /\ \E c \in Components : Resolved[c] # "none"
  /\ generation' = generation + 1
  /\ initialAdd' = FALSE
  /\ events' = [c \in Components |-> "none"]
  /\ IF \A c \in Loads(Resolved) : artifact[c] # 0
     THEN /\ CreatePlugins(Loads(Resolved) \X {generation'})
          /\ plugins' = [c \in Components |-> Remembered(c, Resolved[c], generation')]
          /\ ops' = UNION {Converted(c, Resolved[c], <<c, generation'>>) : c \in Components}
          /\ reload' = IF ops' = {} THEN "watch" ELSE "dispatch"
     ELSE /\ reload' = "ended"
          /\ UNCHANGED <<pluginVars, plugins, ops>>
  /\ UNCHANGED <<recompilerVars, removals, notices, bundles>>

-----------------------------------------------------------------------------
(* PluginHotswapImpl::dispatch_op_eager *)

Ops(kind) == {o \in ops : o.kind = kind}

\* The plugins a modification stops before it starts the new one.
Others(o) == Created \cap Siblings(o.to)

\* Every operation of the batch makes its requests: added plugins start,
\* removed ones and the older ones of modified components stop.
Dispatch ==
  /\ reload = "dispatch"
  /\ bundles' = (bundles \ {o.from : o \in Ops("removed") \cup Ops("modified")})
                  \cup {o.to : o \in Ops("added") \cup Ops("modified")}
  /\ wanted' = (wanted \cup {o.to : o \in Ops("added")})
                 \ ((UNION {Others(o) : o \in Ops("modified")})
                      \cup {o.from : o \in Ops("removed")})
  /\ unwanted' = unwanted \cup
       (((UNION {Others(o) : o \in Ops("modified")}) \cup {o.from : o \in Ops("removed")})
          \cap Locked(phase))
  /\ reload' = "wait"
  /\ UNCHANGED <<recompilerVars, watcherVars, phase, library, satisfied,
                 generation, plugins, ops>>

\* when_completed: the others have stopped, and the bundle of the new plugin
\* is started.
StartModified(o) ==
  /\ reload # "dispatch" /\ o \in Ops("modified")
  /\ Others(o) \cap Locked(phase) = {}
  /\ wanted' = wanted \cup ({o.to} \cap bundles)
  /\ ops' = (ops \ {o}) \cup {Op("added", o.to, o.to)}
  /\ UNCHANGED <<recompilerVars, watcherVars, phase, library, satisfied, unwanted,
                 generation, plugins, bundles, reload>>

\* The whole batch is done; the loop watches again after an update of the
\* system, however that ends.
BatchDone ==
  /\ reload = "wait"
  /\ \A o \in ops : \/ o.kind = "added" /\ phase[o.to] = "running"
                    \/ o.kind = "removed" /\ o.from \notin Locked(phase)
  /\ ops' = {}
  /\ reload' = "watch"
  /\ UNCHANGED <<recompilerVars, watcherVars, pluginVars, generation, plugins, bundles>>

\* run_impl: the loop starts after the first successful rebuild.
BeginReload ==
  /\ reload = "first" /\ ~first
  /\ reload' = "watch"
  /\ UNCHANGED <<recompilerVars, watcherVars, pluginVars, generation, plugins, bundles, ops>>

-----------------------------------------------------------------------------
(* Plugins. *)

\* The scheduler locks the plugin of a bundle that is marked for start,
\* PluginImpl::onStart loads the library, BundleImpl::onStart the services.
StartPlugin(p) ==
  /\ phase[p] = "stopped" /\ p \in wanted \cap satisfied
  /\ phase' = [phase EXCEPT ![p] = "running"]
  /\ wanted' = wanted \ {p}
  /\ UNCHANGED <<recompilerVars, watcherVars, library, satisfied, unwanted, reloadVars>>

\* Mutant of Unlocked: the siblings are not told.
UnlockedSilent(p) == satisfied' = satisfied \ {q \in {p} : ~Front(Created, q)}

\* Singleton::onSubscribedUnlocked of all plugins of the component of p.
Unlocked(p) ==
  satisfied' = (satisfied \ {q \in {p} : ~Front(Created, q)})
                 \cup {q \in Created \cap Siblings(p) : Front(Created, q)}

\* onStart throws and the plugin is unlocked again: the start fails, and with
\* it the batch and the loop.
StartFails(p) ==
  /\ phase[p] = "stopped" /\ p \in wanted \cap satisfied
  /\ wanted' = wanted \ {p}
  /\ Unlocked(p)
  /\ reload' = "ended"
  /\ ops' = {o \in ops : o.to # p}
  /\ UNCHANGED <<recompilerVars, watcherVars, phase, library, unwanted,
                 generation, plugins, bundles>>

\* BundleImpl::onStop destroys the services, PluginImpl::onStop drops the
\* context.
StopPlugin(p) ==
  /\ phase[p] = "running" /\ p \in unwanted
  /\ phase' = [phase EXCEPT ![p] = "stopping"]
  /\ UNCHANGED <<recompilerVars, watcherVars, library, satisfied, wanted, unwanted, reloadVars>>

\* The last pin of the context is gone: on_context_released resolves the stop
\* and the library is unloaded.
ReleaseContext(p) ==
  /\ phase[p] = "stopping"
  /\ phase' = [phase EXCEPT ![p] = "stopped"]
  /\ unwanted' = unwanted \ {p}
  /\ Unlocked(p)
  /\ UNCHANGED <<recompilerVars, watcherVars, library, wanted, reloadVars>>

\* Nothing refers to the plugin any more; the front of the others is
\* satisfied, locked or not (Singleton::onSubscribedDestroy).
DestroyPlugin(p) ==
  /\ phase[p] = "stopped" /\ p \notin Referenced
  /\ phase' = [phase EXCEPT ![p] = "none"]
  /\ library' = [library EXCEPT ![p] = 0]
  /\ LET left == Created \ {p} IN
     satisfied' = (satisfied \ {p}) \cup {q \in left \cap Siblings(p) : Front(left, q)}
  /\ wanted' = wanted \ {p}
  /\ UNCHANGED <<recompilerVars, watcherVars, unwanted, reloadVars>>

-----------------------------------------------------------------------------
Rebuild ==
  \/ RecompilerStep /\ UNCHANGED <<watcherVars, pluginVars, reloadVars>>
  \/ \E c \in Components : InstallArtifact(c)

\* MaxEdits bounds edits and deletions together.
User ==
  /\ edits + removals < MaxEdits
  /\ \/ /\ \E c \in Components, kind \in Kinds : Edit(c, kind)
        /\ UNCHANGED <<watcherVars, pluginVars, reloadVars>>
     \/ \E c \in Components : DeleteArtifact(c)

Reload ==
  \/ BeginReload \/ ArtifactsChanged \/ Dispatch \/ BatchDone
  \/ \E o \in ops : StartModified(o)

Scheduling(p) ==
  StartPlugin(p) \/ StartFails(p) \/ StopPlugin(p) \/ ReleaseContext(p)

Next ==
  \/ Rebuild \/ User \/ HandleFileAction \/ Reload
  \/ \E p \in Plugins : Scheduling(p) \/ DestroyPlugin(p)

\* Builds end, notifications arrive, the event loop and the scheduler serve
\* everyone, and plugin code lets go of its context.
Fairness ==
  /\ WF_vars(Rebuild) /\ WF_vars(HandleFileAction) /\ WF_vars(Reload)
  /\ \A p \in Plugins : WF_vars(Scheduling(p))

Spec == Init /\ [][Next]_vars /\ Fairness

-----------------------------------------------------------------------------
(***************************************************************************)
(* At most one library of a component is loaded, as isOnlyRunning asserts  *)
(* when a plugin starts and stops (plugin_impl.cpp:271 and 298), although  *)
(* plugins of several generations exist while one is replaced.             *)
(***************************************************************************)
OneLibraryLoaded ==
  \A p \in Locked(phase) : Siblings(p) \cap Locked(phase) = {}

(***************************************************************************)
(* Whenever the reload loop watches, the bundle it keeps for a file is the *)
(* one of the plugin the loader knows for it: the next change of the file  *)
(* replaces or removes what runs (plugin_hotswap_impl.cpp:238,             *)
(* plugin_loader_impl.cpp:200-222).                                        *)
(***************************************************************************)
BundlesKnown ==
  reload = "watch" => \A p \in bundles : p = Known(p[1])

\* A file was added twice: by the first scan of the directory and by the
\* notification that arrived after it.
AddedTwice == \E p \in bundles : Siblings(p) \cap bundles # {}

Current(c) ==
  LET loaded == {p \in Locked(phase) : p[1] = c} IN
  IF artifact[c] = 0
  THEN loaded = {}
  ELSE \E p \in loaded : phase[p] = "running" /\ library[p] = artifact[c]

(***************************************************************************)
(* Hot reloading catches up: once no more edits come, every artifact ends  *)
(* up as the version that runs, and a plugin whose artifact was deleted    *)
(* ends, unless no build ever succeeded, an exception has ended the loop   *)
(* (plugin_hotswap_impl.cpp:266) or a file was added twice.                *)
(***************************************************************************)
ReloadsArtifacts ==
  <>[](reload \in {"first", "ended"} \/ AddedTwice \/ \A c \in Components : Current(c))
=============================================================================
