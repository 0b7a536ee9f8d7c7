---------------------------- MODULE FileWatcher -----------------------------
(***************************************************************************)
(* The file watcher (idle::FileWatcherImpl) and one client that watches    *)
(* again and again.                                                        *)
(*                                                                         *)
(* The watcher thread of efsw calls handleFileAction, which posts to the   *)
(* event loop; there the event is merged into changes_.  A watch stores    *)
(* its promise; the promise is resolved with changes_ when the debounce    *)
(* timer, an asio timer that every further event arms again, has run out   *)
(* and its continuation has been dispatched to the event loop.             *)
(*                                                                         *)
(* Tasks of the event loop carry the epoch of the service and do nothing   *)
(* after a stop, so a stop drops them.  Durations are abstracted: a timer  *)
(* expires at any time, and a change may or may not be older than the      *)
(* debounce time.  Assertions are checked; one that fails ends a behaviour.*)
(*                                                                         *)
(* disk is the truth, known what the client knows from the changes it was  *)
(* given: it forgets removed files and old names and reads all others.     *)
(***************************************************************************)
EXTENDS Naturals, Sequences, SequencesExt

CONSTANTS
  Files,
  Ignored,     \* files the filter of the configuration rejects
  InitialAdd,  \* Config::initial_add
  MaxChanges,  \* bound on the changes of the disk
  MaxStarts    \* bound on the starts of the service
ASSUME WatchAssumption ==
  /\ Ignored \subseteq Files /\ InitialAdd \in BOOLEAN
  /\ MaxChanges \in Nat /\ MaxStarts \in Nat

VARIABLES
  disk,       \* content of each file, 0 if it does not exist
  version,    \* number of changes so far, the next content
  known,      \* what the client knows of the disk
  up,         \* the service runs
  starts,     \* number of starts so far
  watched,    \* addWatch succeeded
  events,     \* events posted to the event loop, in the order of the thread
  changes,    \* changes_, by file; NoChange where there is none
  initialAdd, \* initial_add_
  promise,    \* promise_ is set
  timer,      \* an async_wait of debounce_timer_ is pending
  resolves,   \* continuations of expired timers posted to the event loop
  client,     \* what the client does
  forgotten,  \* history: old names of renames that a later event overwrote
  failed      \* the assertion that failed

diskVars == <<disk, version>>
clientVars == <<known, client>>
loopVars == <<up, starts, watched, initialAdd, promise, timer, resolves>>
vars == <<diskVars, clientVars, loopVars, events, changes, forgotten, failed>>

NoChange == [op |-> "none"]
Added == [op |-> "added"]
Removed == [op |-> "removed"]
Modified == [op |-> "modified"]
Renamed(old) == [op |-> "renamed", old |-> old]
Change == {NoChange, Added, Removed, Modified} \cup {Renamed(f) : f \in Files}

Event == [action : {"add", "delete", "modified"}, file : Files]
           \cup [action : {"moved"}, file : Files, old : Files]

TypeOK ==
  /\ disk \in [Files -> 0..MaxChanges] /\ known \in [Files -> 0..MaxChanges]
  /\ version \in 0..MaxChanges /\ starts \in 0..MaxStarts
  /\ {up, watched, initialAdd, promise, timer} \subseteq BOOLEAN
  /\ events \in Seq(Event)
  /\ changes \in [Files -> Change]
  /\ resolves \in Nat
  /\ client \in {"idle", "posted", "stale", "waiting"}
  /\ forgotten \subseteq Files
  /\ failed \in {"none", "promise_"}

NoChanges == [f \in Files |-> NoChange]
Changed == {f \in Files : changes[f] # NoChange}

Init ==
  /\ disk = [f \in Files |-> 0] /\ version = 0 /\ known = disk
  /\ up = FALSE /\ starts = 0 /\ watched = FALSE
  /\ events = <<>> /\ changes = NoChanges /\ initialAdd = FALSE
  /\ promise = FALSE /\ timer = FALSE /\ resolves = 0 /\ client = "idle"
  /\ forgotten = {} /\ failed = "none"

-----------------------------------------------------------------------------
(* The disk and the watcher thread. *)

\* handleFileAction: what the filter makes of an event.
Filtered(e) ==
  IF e.action # "moved"
  THEN IF e.file \in Ignored THEN <<>> ELSE <<e>>
  ELSE IF e.file \in Ignored
       THEN IF e.old \in Ignored THEN <<>>
            ELSE <<[action |-> "delete", file |-> e.old]>>
       ELSE IF e.old \in Ignored
            THEN <<[action |-> "add", file |-> e.file]>>
            ELSE <<e>>

Report(e) == events' = IF up /\ watched THEN events \o Filtered(e) ELSE events

\* A file is created or written to.
Write(f) ==
  /\ version < MaxChanges
  /\ version' = version + 1
  /\ disk' = [disk EXCEPT ![f] = version + 1]
  /\ Report([action |-> IF disk[f] = 0 THEN "add" ELSE "modified", file |-> f])
  /\ UNCHANGED <<clientVars, loopVars, changes, forgotten, failed>>

Delete(f) ==
  /\ version < MaxChanges /\ disk[f] # 0
  /\ version' = version + 1
  /\ disk' = [disk EXCEPT ![f] = 0]
  /\ Report([action |-> "delete", file |-> f])
  /\ UNCHANGED <<clientVars, loopVars, changes, forgotten, failed>>

Move(f, g) ==
  /\ version < MaxChanges /\ f # g /\ disk[f] # 0
  /\ version' = version + 1
  /\ disk' = [disk EXCEPT ![f] = 0, ![g] = version + 1]
  /\ Report([action |-> "moved", file |-> g, old |-> f])
  /\ UNCHANGED <<clientVars, loopVars, changes, forgotten, failed>>

-----------------------------------------------------------------------------
(* Tasks of the event loop. *)

\* Mutant of Merged: a delete cancels whatever is pending for the file.
MergedCancels(c, e) ==
  CASE e.action = "add" -> IF c # NoChange THEN Modified ELSE Added
    [] e.action = "delete" -> IF c # NoChange THEN NoChange ELSE Removed
    [] e.action = "modified" -> IF c = Added THEN Added ELSE Modified
    [] e.action = "moved" -> Renamed(e.old)

\* How an event is merged into what happened to the file before.
Merged(c, e) ==
  CASE e.action = "add" -> IF c # NoChange THEN Modified ELSE Added
    [] e.action = "delete" -> Removed
    [] e.action = "modified" -> IF c = Added THEN Added ELSE Modified
    [] e.action = "moved" -> IF e.old # e.file THEN Renamed(e.old) ELSE Modified

\* The promise is resolved with c: the client looks at the disk.
Given(c) ==
  /\ client' = "idle"
  /\ known' = [f \in Files |->
       IF c[f] = Removed THEN 0
       ELSE IF c[f] # NoChange THEN disk[f]
       ELSE IF \E g \in Files : c[g] = Renamed(f) THEN 0 ELSE known[f]]

Canceled == client' = "idle" /\ UNCHANGED known

\* Mutant of HandleFileAction: an event does not arm the timer.
HandleWithoutDebounce ==
  /\ events # <<>>
  /\ changes' = [changes EXCEPT ![Head(events).file] = Merged(@, Head(events))]
  /\ events' = Tail(events)
  /\ UNCHANGED <<diskVars, clientVars, loopVars, forgotten, failed>>

\* Every event arms the timer again if somebody waits, which aborts a wait that
\* is still pending but not a continuation that was dispatched already.
HandleFileAction ==
  /\ events # <<>>
  /\ LET e == Head(events)
     IN /\ changes' = [changes EXCEPT ![e.file] = Merged(@, e)]
        /\ forgotten' = (forgotten \cup
             {f \in Files : changes[e.file] = Renamed(f)}) \ {e.file}
  /\ events' = Tail(events)
  /\ timer' = (timer \/ promise)
  /\ UNCHANGED <<diskVars, clientVars, up, starts, watched, initialAdd, promise,
                 resolves, failed>>

TimerExpires ==
  /\ timer
  /\ timer' = FALSE /\ resolves' = resolves + 1
  /\ UNCHANGED <<diskVars, clientVars, up, starts, watched, initialAdd, promise,
                 events, changes, forgotten, failed>>

\* The continuation of the timer.
Resolve ==
  /\ resolves > 0
  /\ resolves' = resolves - 1
  /\ IF promise
     THEN /\ promise' = FALSE /\ Given(changes) /\ changes' = NoChanges
          /\ UNCHANGED failed
     ELSE failed' = "promise_" /\ UNCHANGED <<promise, clientVars, changes>>
  /\ UNCHANGED <<diskVars, up, starts, watched, initialAdd, timer, events, forgotten>>

\* The client calls watch.
Watch ==
  /\ client = "idle" /\ up
  /\ client' = "posted"
  /\ UNCHANGED <<diskVars, known, loopVars, events, changes, forgotten, failed>>

\* add_files_initially
WithPresentFiles ==
  [f \in Files |-> IF changes[f] = NoChange /\ disk[f] # 0 /\ f \notin Ignored
                   THEN Added ELSE changes[f]]

\* Mutant of WatchTask: a stored promise waits for the next event although there
\* are changes already.
WatchWithoutDebounce(elapsed) ==
  /\ client = "posted"
  /\ initialAdd' = FALSE
  /\ LET c == IF initialAdd THEN WithPresentFiles ELSE changes
     IN IF c # NoChanges /\ (initialAdd \/ elapsed)
        THEN Given(c) /\ changes' = NoChanges /\ UNCHANGED promise
        ELSE /\ promise' = TRUE /\ client' = "waiting"
             /\ changes' = c
             /\ UNCHANGED known
  /\ UNCHANGED <<diskVars, up, starts, watched, timer, resolves, events, forgotten,
                 failed>>

\* The task watch posted; elapsed says whether the last change is older than
\* the debounce time.
WatchTask(elapsed) ==
  /\ client = "posted"
  /\ initialAdd' = FALSE
  /\ LET c == IF initialAdd THEN WithPresentFiles ELSE changes
     IN IF c # NoChanges /\ (initialAdd \/ elapsed)
        THEN Given(c) /\ changes' = NoChanges /\ UNCHANGED <<promise, timer>>
        ELSE /\ promise' = TRUE /\ client' = "waiting"
             /\ changes' = c
             /\ timer' = (timer \/ c # NoChanges)
             /\ UNCHANGED known
  /\ UNCHANGED <<diskVars, up, starts, watched, resolves, events, forgotten, failed>>

\* The task of a watch from before a stop.
WatchCanceled ==
  /\ client = "stale"
  /\ Canceled
  /\ UNCHANGED <<diskVars, loopVars, events, changes, forgotten, failed>>

\* onStart.  The client starts from nothing, or from the files that are there.
Start ==
  /\ ~up /\ starts < MaxStarts
  /\ up' = TRUE /\ starts' = starts + 1 /\ watched' \in BOOLEAN
  /\ initialAdd' = InitialAdd
  /\ known' = IF InitialAdd THEN [f \in Files |-> 0] ELSE disk
  /\ forgotten' = {}
  /\ UNCHANGED <<diskVars, client, promise, timer, resolves, events, changes, failed>>

\* onStop
Stop ==
  /\ up
  /\ up' = FALSE /\ watched' = FALSE
  /\ timer' = FALSE /\ promise' = FALSE /\ changes' = NoChanges
  /\ CASE promise /\ changes # NoChanges -> Given(changes)
       [] promise /\ changes = NoChanges -> Canceled
       [] client = "posted" -> client' = "stale" /\ UNCHANGED known
       [] OTHER -> UNCHANGED clientVars
  /\ events' = <<>> /\ resolves' = 0   \* of the old epoch
  /\ UNCHANGED <<diskVars, starts, initialAdd, forgotten, failed>>

Loop ==
  \/ HandleFileAction \/ Resolve \/ WatchTask(TRUE) \/ WatchTask(FALSE)
  \/ WatchCanceled
Disk == \E f \in Files : Write(f) \/ Delete(f) \/ \E g \in Files : Move(f, g)

Next ==
  /\ failed = "none"
  /\ Disk \/ Loop \/ TimerExpires \/ Watch \/ Start \/ Stop

\* The event loop runs its tasks, a timer that is armed expires, and the client
\* watches again.
Fairness == /\ WF_vars(failed = "none" /\ Loop)
            /\ WF_vars(failed = "none" /\ TimerExpires)
            /\ WF_vars(failed = "none" /\ Watch)
Spec == Init /\ [][Next]_vars /\ Fairness

-----------------------------------------------------------------------------
Visible == Files \ Ignored

\* Something still under way will tell the client about file f.
Underway(f) ==
  \/ changes[f] # NoChange \/ \E g \in Files : changes[g] = Renamed(f)
  \/ \E e \in ToSet(events) : e.file = f \/ (e.action = "moved" /\ e.old = f)
  \/ initialAdd /\ disk[f] # 0

\* No change is lost: where the client's view of a file differs from the disk,
\* an event, a merged change or the initial scan will still correct it, however
\* events, deliveries, scans and restarts are interleaved.  The old name of a
\* rename is lost when a later event of the new name replaces it.
NoChangeLost ==
  up /\ watched /\ failed = "none" =>
    \A f \in Visible \ forgotten : known[f] # disk[f] => Underway(f)

\* A client that waits while there are changes has a timer or its continuation
\* under way.
DebouncePending ==
  promise /\ changes # NoChanges => timer \/ resolves > 0

\* A client that keeps watching gets to know the content of every file, or the
\* next one.
ClientCatchesUp ==
  \A f \in Visible :
    (up /\ watched /\ known[f] # disk[f]) ~>
      (known[f] = disk[f] \/ ~up \/ f \in forgotten \/ failed # "none")
=============================================================================
