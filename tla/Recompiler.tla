----------------------------- MODULE Recompiler -----------------------------
(***************************************************************************)
(* The rebuild side of the hotswap: idle::PluginRecompilerImpl waits for   *)
(* changes of the sources and drives idle::PluginCompilerImpl, which runs  *)
(* CMake, and the loops of idle::PluginHotswapImpl repeat it: until the    *)
(* first success with a forced generate, then for ever.                    *)
(*                                                                         *)
(* Every component has source files, an object of the last build and an    *)
(* installed artifact; each is abstracted to the version it was made from, *)
(* 0 where there is none.  CMake (external) builds the targets it has      *)
(* generated one after the other and may fail before each, as with a       *)
(* source file that does not compile; the user edits at any time.          *)
(***************************************************************************)
EXTENDS Naturals, FiniteSets

CONSTANTS
  Components,
  FileChangedThreshold,  \* FILE_CHANGED_THRESHOLD
  MaxEdits               \* bound on the edits of the user
ASSUME RecompilerAssumption ==
  /\ IsFiniteSet(Components)
  /\ FileChangedThreshold \in Nat /\ MaxEdits \in Nat \ {0}

VARIABLES
  edits,      \* number of edits so far, the newest version
  source,     \* version of the sources of each component
  changes,    \* changes collected by the file watcher of the recompiler
  stage,      \* what the rebuild loop waits for
  first,      \* the loop for the first successful rebuild is still running
  target,     \* components of the running build
  todo,       \* those the running process has not come to
  consumed,   \* components whose changes this build was started for
  generated,  \* components the build directory knows
  object,     \* version of the last build of each component
  artifact,   \* version installed in artifact_dir_
  stale       \* history: what a failed build was to bring up to date

userVars == <<edits, source>>
loopVars == <<stage, first, target, todo, consumed>>
recompilerVars ==
  <<userVars, changes, loopVars, generated, object, artifact, stale>>

\* A modified source file, a modified header, and an added or removed file or
\* a change of a CMake file.
Kinds == {"source", "header", "structure"}
Change == [comp : Components, kind : Kinds]
Versions == 0..MaxEdits

RecompilerTypeOK ==
  /\ edits \in Versions
  /\ {source, object, artifact} \subseteq [Components -> Versions]
  /\ {target, todo, consumed, generated, stale} \subseteq SUBSET Components
  /\ changes \subseteq Change
  /\ stage \in {"watch", "generate", "build", "install"}
  /\ first \in BOOLEAN

\* The watch reports the files that exist at first as added (initial_add).
RecompilerInit ==
  /\ edits = 1
  /\ \E present \in SUBSET Components :
       /\ source = [c \in Components |-> IF c \in present THEN 1 ELSE 0]
       /\ changes = [comp : present, kind : {"structure"}]
  /\ stage = "watch" /\ first = TRUE
  /\ target = {} /\ todo = {} /\ consumed = {} /\ generated = {} /\ stale = {}
  /\ object = [c \in Components |-> 0]
  /\ artifact = [c \in Components |-> 0]

Present == {c \in Components : source[c] # 0}

\* External: the user saves a file of a component.
Edit(c, kind) ==
  /\ edits < MaxEdits
  /\ source[c] = 0 => kind = "structure"
  /\ edits' = edits + 1
  /\ source' = [source EXCEPT ![c] = edits']
  /\ changes' = changes \cup {[comp |-> c, kind |-> kind]}
  /\ UNCHANGED <<loopVars, generated, object, artifact, stale>>

-----------------------------------------------------------------------------
(* What a set of changes leads to. *)

\* needs_regenerate
NeedsRegenerate(chs) == \E ch \in chs : ch.kind = "structure"

Touched(chs) == {ch.comp : ch \in chs}

\* Mutant of InstallComponents: the component of the first file decides.
InstallComponentsFirst(chs) ==
  IF \E ch \in chs : ch.kind # "source"
  THEN {}
  ELSE {CHOOSE c \in Components : c \in Touched(chs)}

\* getInstallComponent: the component to build on its own, if there is one.
InstallComponents(chs) ==
  IF \/ Cardinality(chs) > FileChangedThreshold
     \/ \E ch \in chs : ch.kind # "source"
     \/ Cardinality(Touched(chs)) # 1
  THEN {}
  ELSE Touched(chs)

-----------------------------------------------------------------------------
(* The rebuild loops. *)

\* watch_and_compile_impl: the watch is resolved with the changes so far.
SourcesChanged ==
  /\ stage = "watch" /\ changes # {}
  /\ LET alone == InstallComponents(changes) IN
     IF first \/ NeedsRegenerate(changes)
     THEN /\ stage' = "generate"
          /\ target' = {} /\ todo' = {}
     ELSE /\ stage' = "build"
          /\ target' = IF alone = {} THEN generated ELSE alone
          /\ todo' = target'
  /\ consumed' = Touched(changes)
  /\ changes' = {}
  /\ UNCHANGED <<userVars, first, generated, object, artifact, stale>>

\* generate_impl: cmake has written the build files.
Generate ==
  /\ stage = "generate"
  /\ generated' = Present
  /\ stage' = "build" /\ target' = Present /\ todo' = Present
  /\ UNCHANGED <<userVars, changes, first, consumed, object, artifact, stale>>

\* External: the build tool compiles one component.  After the last one
\* build_impl is followed by install_component_impl, and the target "install"
\* of build_install_impl by its install step.
Compile(c) ==
  /\ stage = "build" /\ c \in todo
  /\ c \in generated
  /\ object' = [object EXCEPT ![c] = source[c]]
  /\ IF todo = {c}
     THEN stage' = "install" /\ todo' = target
     ELSE todo' = todo \ {c} /\ UNCHANGED stage
  /\ UNCHANGED <<userVars, changes, first, target, consumed, generated, artifact, stale>>

\* The process exits with 0 and the loop continues with the next watch; the
\* first success ends the first loop.
Finished ==
  /\ stage' = "watch" /\ first' = FALSE
  /\ target' = {} /\ todo' = {} /\ consumed' = {}
  /\ stale' = stale \ {c \in target : artifact'[c] = object[c]}

\* External: one component is copied to the artifact directory.
Install(c) ==
  /\ stage = "install" /\ c \in todo
  /\ artifact' = [artifact EXCEPT ![c] = object[c]]
  /\ IF todo = {c}
     THEN Finished
     ELSE todo' = todo \ {c} /\ UNCHANGED <<stage, first, target, consumed, stale>>
  /\ UNCHANGED <<userVars, changes, generated, object>>

\* A process has failed: the exception is logged and the loop continues with
\* the next watch; what this build was started for is not built again.
BuildFailed ==
  /\ stage # "watch"
  /\ stage' = "watch"
  /\ target' = {} /\ todo' = {} /\ consumed' = {}
  /\ stale' = stale \cup consumed
  /\ UNCHANGED <<userVars, changes, first, generated, object, artifact>>

RecompilerStep ==
  \/ SourcesChanged \/ Generate \/ BuildFailed
  \/ \E c \in Components : Compile(c)

-----------------------------------------------------------------------------
(***************************************************************************)
(* When the rebuild loop waits and no change is pending, every artifact    *)
(* was made from the newest sources, unless a build that was started for   *)
(* it has failed.  Files change while a build runs                         *)
(* (plugin_recompiler_impl.cpp:225), and a build of one component installs *)
(* nothing else (line 230).                                                *)
(***************************************************************************)
QuietMeansInstalled ==
  stage = "watch" /\ changes = {}
    => \A c \in Components \ stale : artifact[c] = source[c]
=============================================================================
