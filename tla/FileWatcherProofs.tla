-------------------------- MODULE FileWatcherProofs --------------------------
(***************************************************************************)
(* The file watcher for any set of files, any filter and any number of     *)
(* changes and restarts: a waiting client is always debounced towards its  *)
(* answer, and no change is lost between the disk and the client.          *)
(***************************************************************************)
EXTENDS FileWatcher, SequenceTheorems, TLAPS

-----------------------------------------------------------------------------
(* Changes and events. *)

\* The five kinds of change are told apart, and a rename by its old name.
LEMMA ChangesDistinct ==
  /\ NoChange # Added /\ NoChange # Removed /\ NoChange # Modified
  /\ Removed # Added /\ Removed # Modified
  /\ \A f : Renamed(f) # NoChange /\ Renamed(f) # Added /\ Renamed(f) # Removed
            /\ Renamed(f) # Modified
  /\ \A f, g : Renamed(f) = Renamed(g) => f = g
  BY DEF NoChange, Added, Removed, Modified, Renamed

\* The five kinds of change are changes.
LEMMA ChangeMembers ==
  /\ NoChange \in Change /\ Added \in Change /\ Removed \in Change
  /\ Modified \in Change /\ \A f \in Files : Renamed(f) \in Change
  BY DEF Change

\* What an event holds.
LEMMA EventFields ==
  ASSUME NEW e \in Event
  PROVE  /\ e.action \in {"add", "delete", "modified", "moved"}
         /\ e.file \in Files
         /\ e.action = "moved" => e.old \in Files
  BY DEF Event

\* What the disk posts are events.
LEMMA EventMembers ==
  /\ \A a \in {"add", "delete", "modified"}, f \in Files :
       [action |-> a, file |-> f] \in Event
  /\ \A f \in Files, g \in Files :
       [action |-> "moved", file |-> g, old |-> f] \in Event
  BY DEF Event

\* Merging an event always leaves a change, Removed only for a delete, and the
\* rename of a file to another name keeps the old name.
LEMMA MergedFacts ==
  ASSUME NEW e \in Event, NEW c
  PROVE  /\ Merged(c, e) \in Change /\ Merged(c, e) # NoChange
         /\ Merged(c, e) = Removed => e.action = "delete"
         /\ \A f : Merged(c, e) = Renamed(f) => e.action = "moved" /\ e.old = f
         /\ e.action = "moved" => e.old = e.file \/ Merged(c, e) = Renamed(e.old)
<1> USE ChangesDistinct, ChangeMembers, EventFields
<1>1. CASE e.action = "add"
  <2>1. Merged(c, e) = IF c # NoChange THEN Modified ELSE Added
    BY <1>1 DEF Merged
  <2> QED
    BY <1>1, <2>1
<1>2. CASE e.action = "delete"
  <2>1. Merged(c, e) = Removed
    BY <1>2 DEF Merged
  <2> QED
    BY <1>2, <2>1
<1>3. CASE e.action = "modified"
  <2>1. Merged(c, e) = IF c = Added THEN Added ELSE Modified
    BY <1>3 DEF Merged
  <2> QED
    BY <1>3, <2>1
<1>4. CASE e.action = "moved"
  <2>1. Merged(c, e) = IF e.old # e.file THEN Renamed(e.old) ELSE Modified
    BY <1>4 DEF Merged
  <2> QED
    BY <1>4, <2>1
<1> QED
  BY <1>1, <1>2, <1>3, <1>4

\* Event e says that the file f has gone; event e is about f at all.
Removes(e, f) ==
  (e.action = "delete" /\ e.file = f) \/ (e.action = "moved" /\ e.old = f)
Mentions(e, f) == e.file = f \/ (e.action = "moved" /\ e.old = f)

\* The filter lets one event or none pass, keeps what is about a visible file and
\* says of no file that it has gone if the event did not.
LEMMA FilteredFacts ==
  ASSUME NEW e \in Event
  PROVE  \/ /\ Filtered(e) = <<>>
            /\ \A f \in Visible : ~Mentions(e, f)
         \/ \E x \in Event :
              /\ Filtered(e) = <<x>>
              /\ \A f \in Visible : e.file = f => x.file = f
              /\ \A f \in Visible : Mentions(e, f) => Mentions(x, f)
              /\ \A f \in Visible : Removes(x, f) => Removes(e, f)
<1> USE EventFields, EventMembers DEF Visible, Mentions, Removes
<1>1. CASE e.action # "moved"
  BY <1>1 DEF Filtered
<1>2. CASE e.action = "moved" /\ e.file \in Ignored /\ e.old \in Ignored
  BY <1>2 DEF Filtered
<1>3. CASE e.action = "moved" /\ e.file \in Ignored /\ e.old \notin Ignored
  <2> DEFINE x == [action |-> "delete", file |-> e.old]
  <2>1. x \in Event /\ x.action = "delete" /\ x.file = e.old
    BY <1>3
  <2>2. Filtered(e) = <<x>>
    BY <1>3 DEF Filtered
  <2> HIDE DEF x
  <2> QED
    BY <1>3, <2>1, <2>2
<1>4. CASE e.action = "moved" /\ e.file \notin Ignored /\ e.old \in Ignored
  <2> DEFINE x == [action |-> "add", file |-> e.file]
  <2>1. x \in Event /\ x.action = "add" /\ x.file = e.file
    BY <1>4
  <2>2. Filtered(e) = <<x>>
    BY <1>4 DEF Filtered
  <2> HIDE DEF x
  <2> QED
    BY <1>4, <2>1, <2>2
<1>5. CASE e.action = "moved" /\ e.file \notin Ignored /\ e.old \notin Ignored
  BY <1>5 DEF Filtered
<1> QED
  BY <1>1, <1>2, <1>3, <1>4, <1>5

\* A reported event, or what the filter makes of it, comes last or not at all.
LEMMA ReportFacts ==
  ASSUME TypeOK, NEW e \in Event, Report(e)
  PROVE  /\ events' \in Seq(Event)
         /\ ~(up /\ watched) => events' = events
<1>1. Filtered(e) \in Seq(Event)
  <2>1. Filtered(e) = <<>> \/ \E x \in Event : Filtered(e) = <<x>>
    BY FilteredFacts, Zenon
  <2>2. <<>> \in Seq(Event) /\ \A x \in Event : <<x>> \in Seq(Event)
    OBVIOUS
  <2> QED
    BY <2>1, <2>2, Zenon
<1>2. events \in Seq(Event) /\ events \o Filtered(e) \in Seq(Event)
  BY <1>1, ConcatProperties DEF TypeOK
<1> QED
  BY <1>2, Zenon DEF Report

-----------------------------------------------------------------------------
(* Types. *)

\* The initial state is well typed.
LEMMA InitTypeOK == Init => TypeOK
<1> SUFFICES ASSUME Init PROVE TypeOK
  OBVIOUS
<1>1. {up, watched, initialAdd, promise, timer} \subseteq BOOLEAN
  BY Zenon DEF Init
<1> QED
  BY <1>1, ChangeMembers, WatchAssumption DEF Init, TypeOK, NoChanges

\* What the client knows after it was given changes was read from the disk.
LEMMA GivenType ==
  ASSUME TypeOK, NEW c, Given(c)
  PROVE  known' \in [Files -> 0..MaxChanges] /\ client' = "idle"
  BY WatchAssumption DEF TypeOK, Given

\* Every step keeps the types.
LEMMA TypeInductive == TypeOK /\ [Next]_vars => TypeOK'
<1> SUFFICES ASSUME TypeOK, [Next]_vars PROVE TypeOK'
  OBVIOUS
<1> USE DEF TypeOK, diskVars, clientVars, loopVars
<1>1. ASSUME NEW f \in Files, Write(f) \/ Delete(f) PROVE TypeOK'
  <2>1. events' \in Seq(Event)
    BY <1>1, ReportFacts, EventMembers DEF Write, Delete
  <2>2. version' \in 0..MaxChanges /\ 0 \in 0..MaxChanges
    BY <1>1, WatchAssumption DEF Write, Delete
  <2>3. disk' \in [Files -> 0..MaxChanges]
    BY <1>1, <2>2 DEF Write, Delete
  <2> QED
    BY <1>1, <2>1, <2>2, <2>3 DEF Write, Delete
<1>2. ASSUME NEW f \in Files, NEW g \in Files, Move(f, g) PROVE TypeOK'
  <2>1. events' \in Seq(Event)
    BY <1>2, ReportFacts, EventMembers DEF Move
  <2>2. version' \in 0..MaxChanges /\ 0 \in 0..MaxChanges
    BY <1>2, WatchAssumption DEF Move
  <2>3. disk' \in [Files -> 0..MaxChanges]
    BY <1>2, <2>2 DEF Move
  <2> QED
    BY <1>2, <2>1, <2>2, <2>3 DEF Move
<1>3. CASE HandleFileAction
  <2>1. Head(events) \in Event /\ events' \in Seq(Event)
    BY <1>3 DEF HandleFileAction
  <2>2. changes' \in [Files -> Change]
    BY <1>3, <2>1, MergedFacts, EventFields DEF HandleFileAction
  <2>3. forgotten' \subseteq Files
    BY <1>3 DEF HandleFileAction
  <2>4. timer' \in BOOLEAN
    BY <1>3, Zenon DEF HandleFileAction
  <2> QED
    BY <1>3, <2>1, <2>2, <2>3, <2>4 DEF HandleFileAction
<1>4. CASE TimerExpires
  <2>1. timer' \in BOOLEAN
    BY <1>4, Zenon DEF TimerExpires
  <2> QED
    BY <1>4, <2>1 DEF TimerExpires
<1>5. CASE Resolve
  <2>1. promise' \in BOOLEAN
    BY <1>5, Zenon DEF Resolve
  <2>2. resolves' \in Nat /\ failed' \in {"none", "promise_"}
    BY <1>5 DEF Resolve
  <2>3. /\ known' \in [Files -> 0..MaxChanges]
        /\ client' \in {"idle", "posted", "stale", "waiting"}
        /\ changes' \in [Files -> Change]
    BY <1>5, GivenType, ChangeMembers DEF Resolve, NoChanges
  <2> QED
    BY <1>5, <2>1, <2>2, <2>3 DEF Resolve
<1>6. CASE Watch \/ WatchCanceled
  BY <1>6 DEF Watch, WatchCanceled, Canceled
<1>7. ASSUME NEW elapsed \in BOOLEAN, WatchTask(elapsed) PROVE TypeOK'
  <2> DEFINE c == IF initialAdd THEN WithPresentFiles ELSE changes
  <2>1. c \in [Files -> Change] /\ NoChanges \in [Files -> Change]
    BY ChangeMembers DEF WithPresentFiles, NoChanges
  <2>2. \/ Given(c) /\ changes' = NoChanges /\ UNCHANGED <<promise, timer>>
        \/ /\ promise' = TRUE /\ client' = "waiting" /\ changes' = c
           /\ timer' = (timer \/ c # NoChanges) /\ UNCHANGED known
    BY <1>7, Zenon DEF WatchTask
  <2>3. promise' \in BOOLEAN /\ timer' \in BOOLEAN /\ initialAdd' \in BOOLEAN
    BY <1>7, <2>2, Zenon DEF WatchTask
  <2> HIDE DEF c
  <2>4. /\ known' \in [Files -> 0..MaxChanges]
        /\ client' \in {"idle", "posted", "stale", "waiting"}
        /\ changes' \in [Files -> Change]
    BY <2>1, <2>2, GivenType
  <2> QED
    BY <1>7, <2>3, <2>4 DEF WatchTask
<1>8. CASE Start
  <2>1. up' \in BOOLEAN /\ watched' \in BOOLEAN /\ initialAdd' \in BOOLEAN
    BY <1>8, WatchAssumption, Zenon DEF Start
  <2> QED
    BY <1>8, <2>1, WatchAssumption DEF Start
<1>9. CASE Stop
  <2>1. /\ up' \in BOOLEAN /\ watched' \in BOOLEAN /\ timer' \in BOOLEAN
        /\ promise' \in BOOLEAN
    BY <1>9, Zenon DEF Stop
  <2>2. \/ Given(changes) \/ Canceled
        \/ client' = "stale" /\ UNCHANGED known
        \/ UNCHANGED clientVars
    BY <1>9, Zenon DEF Stop
  <2>3. /\ known' \in [Files -> 0..MaxChanges]
        /\ client' \in {"idle", "posted", "stale", "waiting"}
    BY <2>2, GivenType DEF Canceled
  <2>4. changes' \in [Files -> Change] /\ events' \in Seq(Event)
    BY <1>9, ChangeMembers DEF Stop, NoChanges
  <2> QED
    BY <1>9, <2>1, <2>3, <2>4 DEF Stop
<1>10. CASE UNCHANGED vars
  BY <1>10 DEF vars
<1> QED
  BY <1>1, <1>2, <1>3, <1>4, <1>5, <1>6, <1>7, <1>8, <1>9, <1>10
     DEF Next, Disk, Loop

\* Every variable keeps its type, whatever the disk, the client and the event
\* loop do.
THEOREM TypeCorrect == Spec => []TypeOK
  BY InitTypeOK, TypeInductive, PTL DEF Spec

-----------------------------------------------------------------------------
(* The debounce timer. *)

\* Every step that leaves a promise and changes leaves the timer or its
\* continuation under way too.
LEMMA DebounceInductive ==
  TypeOK /\ DebouncePending /\ [Next]_vars => DebouncePending'
<1> SUFFICES ASSUME TypeOK, DebouncePending, [Next]_vars PROVE DebouncePending'
  OBVIOUS
<1> USE DEF DebouncePending, diskVars, clientVars, loopVars
<1>1. NoChanges' = NoChanges
  BY DEF NoChanges
<1>2. CASE Disk
  <2>1. /\ promise' = promise /\ changes' = changes
        /\ timer' = timer /\ resolves' = resolves
    BY <1>2 DEF Disk, Write, Delete, Move
  <2> QED
    BY <1>1, <2>1, Zenon
<1>3. CASE HandleFileAction
  <2>1. promise' = promise /\ timer' = (timer \/ promise)
    BY <1>3, Zenon DEF HandleFileAction
  <2> QED
    BY <2>1, Zenon
<1>4. CASE TimerExpires
  <2>1. resolves' > 0
    BY <1>4 DEF TimerExpires, TypeOK
  <2> QED
    BY <2>1
<1>5. CASE Resolve
  <2>1. ~promise'
    BY <1>5, Zenon DEF Resolve
  <2> QED
    BY <2>1
<1>6. CASE Watch \/ WatchCanceled \/ Start
  BY <1>1, <1>6 DEF Watch, WatchCanceled, Start
<1>7. ASSUME NEW elapsed \in BOOLEAN, WatchTask(elapsed) PROVE DebouncePending'
  <2> DEFINE c == IF initialAdd THEN WithPresentFiles ELSE changes
  <2>1. \/ changes' = NoChanges
        \/ changes' = c /\ (c # NoChanges => timer')
    BY <1>7, Zenon DEF WatchTask
  <2> HIDE DEF c
  <2> QED
    BY <1>1, <2>1
<1>8. CASE Stop
  <2>1. ~promise'
    BY <1>8, Zenon DEF Stop
  <2> QED
    BY <2>1
<1>9. CASE UNCHANGED vars
  BY <1>1, <1>9 DEF vars
<1> QED
  BY <1>2, <1>3, <1>4, <1>5, <1>6, <1>7, <1>8, <1>9 DEF Next, Loop

\* In every interleaving of events, timers, watches and restarts, a client that
\* waits while there are changes has a timer or its continuation under way.
THEOREM AlwaysDebounced == Spec => []DebouncePending
<1>1. Init => DebouncePending
  <2> SUFFICES ASSUME Init PROVE DebouncePending
    OBVIOUS
  <2>1. ~promise
    BY Zenon DEF Init
  <2> QED
    BY <2>1 DEF DebouncePending
<1> QED
  BY <1>1, DebounceInductive, TypeCorrect, PTL DEF Spec

-----------------------------------------------------------------------------
(* From the disk to the client. *)

\* An event that is still queued is about file f.
Coming(f) == \E j \in 1..Len(events) : events[j].file = f

\* Events come in the order of the disk: after one that says that an existing
\* file has gone there is another about the file.
OrderInv ==
  \A f \in Visible : \A i \in 1..Len(events) :
    Removes(events[i], f) /\ disk[f] # 0
      => \E j \in 1..Len(events) : i < j /\ events[j].file = f

\* A merged change that would make the client forget an existing file, because
\* it was removed or renamed, is followed by an event about the file.
RemovedInv ==
  \A f \in Visible : changes[f] = Removed /\ disk[f] # 0 => Coming(f)
RenamedInv ==
  \A f \in Visible, g \in Files :
    changes[g] = Renamed(f) /\ changes[f] = NoChange /\ disk[f] # 0 => Coming(f)

\* A stop leaves nothing of the old epoch behind.
DownInv == ~up => events = <<>> /\ changes = NoChanges /\ client # "posted"

Following == up /\ watched /\ failed = "none"
FollowInv == Following => OrderInv /\ RemovedInv /\ RenamedInv

IInv == TypeOK /\ DownInv /\ FollowInv /\ NoChangeLost

\* Something under way, with the queue seen as a sequence.
LEMMA UnderwayCases ==
  ASSUME TypeOK, NEW f
  PROVE  Underway(f) <=>
           \/ changes[f] # NoChange \/ \E g \in Files : changes[g] = Renamed(f)
           \/ \E j \in 1..Len(events) : Mentions(events[j], f)
           \/ initialAdd /\ disk[f] # 0
<1>1. DOMAIN events = 1..Len(events)
  BY DEF TypeOK
<1> QED
  BY <1>1, Zenon DEF Underway, ToSet, Mentions

\* What is under way to the client after a step.
LEMMA UnderwayNext ==
  ASSUME TypeOK', NEW f
  PROVE  Underway(f)' <=>
           \/ changes'[f] # NoChange \/ \E g \in Files : changes'[g] = Renamed(f)
           \/ \E j \in 1..Len(events') : Mentions(events'[j], f)
           \/ initialAdd' /\ disk'[f] # 0
<1>1. DOMAIN events' = 1..Len(events')
  BY DEF TypeOK
<1>2. NoChange' = NoChange /\ Renamed(f)' = Renamed(f)
  BY DEF NoChange, Renamed
<1> QED
  BY <1>1, <1>2, Zenon DEF Underway, ToSet, Mentions

\* Where a reported event, or what the filter made of it, ends up.
LEMMA Reported ==
  ASSUME TypeOK, up, watched, NEW e \in Event, Report(e)
  PROVE  /\ Len(events') \in Nat /\ Len(events) \in Nat
         /\ Len(events) <= Len(events')
         /\ \A i \in 1..Len(events) : events'[i] = events[i]
         /\ \A i \in 1..Len(events'), f \in Visible :
              i > Len(events) /\ Removes(events'[i], f) => Removes(e, f)
         /\ \A f \in Visible : e.file = f =>
              \E j \in 1..Len(events') : j > Len(events) /\ events'[j].file = f
         /\ \A f \in Visible : Mentions(e, f) =>
              \E j \in 1..Len(events') : Mentions(events'[j], f)
<1>1. events \in Seq(Event) /\ Len(events) \in Nat
  BY DEF TypeOK
<1>2. events' = events \o Filtered(e)
  BY Zenon DEF Report
<1>3. CASE Filtered(e) = <<>> /\ \A f \in Visible : ~Mentions(e, f)
  <2>1. events' = events
    BY <1>1, <1>2, <1>3
  <2> QED
    BY <1>1, <1>3, <2>1 DEF Mentions
<1>4. ASSUME NEW x \in Event, Filtered(e) = <<x>>,
             \A f \in Visible : e.file = f => x.file = f,
             \A f \in Visible : Mentions(e, f) => Mentions(x, f),
             \A f \in Visible : Removes(x, f) => Removes(e, f)
      PROVE  /\ Len(events') \in Nat /\ Len(events) \in Nat
             /\ Len(events) <= Len(events')
             /\ \A i \in 1..Len(events) : events'[i] = events[i]
             /\ \A i \in 1..Len(events'), f \in Visible :
                  i > Len(events) /\ Removes(events'[i], f) => Removes(e, f)
             /\ \A f \in Visible : e.file = f =>
                  \E j \in 1..Len(events') : j > Len(events) /\ events'[j].file = f
             /\ \A f \in Visible : Mentions(e, f) =>
                  \E j \in 1..Len(events') : Mentions(events'[j], f)
  <2>1. /\ Len(events') = Len(events) + 1
        /\ \A i \in 1..Len(events) : events'[i] = events[i]
        /\ events'[Len(events) + 1] = x
    BY <1>1, <1>2, <1>4
  <2> QED
    BY <1>1, <1>4, <2>1
<1> QED
  BY <1>3, <1>4, FilteredFacts, Zenon

\* A change of the disk is reported: an event about every visible file whose
\* content it changes, and none that a file has gone that is there after it.
LEMMA DiskKeeps ==
  ASSUME IInv, TypeOK', NEW e \in Event, Report(e),
         UNCHANGED <<known, changes, initialAdd, up, watched, forgotten, failed, client>>,
         \A f \in Visible : disk'[f] # disk[f] => Mentions(e, f),
         \A f \in Visible : disk'[f] # 0 =>
            ~Removes(e, f) /\ (disk[f] = 0 => e.file = f)
  PROVE  IInv'
<1>1. NoChanges' = NoChanges
  BY DEF NoChanges
<1>2. DownInv'
  BY <1>1, ReportFacts DEF IInv, DownInv
<1>3. CASE ~Following
  <2>1. ~Following'
    BY <1>3 DEF Following
  <2> QED
    BY <1>2, <2>1 DEF IInv, FollowInv, NoChangeLost, Following
<1>4. CASE Following
  <2>0. OrderInv /\ RemovedInv /\ RenamedInv /\ TypeOK /\ up /\ watched
    BY <1>4 DEF IInv, FollowInv, Following
  <2>1. /\ Len(events') \in Nat /\ Len(events) \in Nat
        /\ Len(events) <= Len(events')
        /\ \A i \in 1..Len(events) : events'[i] = events[i]
        /\ \A i \in 1..Len(events'), f \in Visible :
             i > Len(events) /\ Removes(events'[i], f) => Removes(e, f)
        /\ \A f \in Visible : e.file = f =>
             \E j \in 1..Len(events') : j > Len(events) /\ events'[j].file = f
        /\ \A f \in Visible : Mentions(e, f) =>
             \E j \in 1..Len(events') : Mentions(events'[j], f)
    BY <2>0, Reported
  <2>2. ASSUME NEW f \in Visible, disk'[f] # 0, disk[f] # 0 => Coming(f)
        PROVE  Coming(f)'
    BY <2>1, <2>2 DEF Coming
  <2>3. OrderInv'
    <3> SUFFICES ASSUME NEW f \in Visible, NEW i \in 1..Len(events'),
                        Removes(events'[i], f), disk'[f] # 0
                 PROVE  \E j \in 1..Len(events') : i < j /\ events'[j].file = f
      BY DEF OrderInv, Removes, Visible
    <3>1. i \in 1..Len(events) /\ events'[i] = events[i]
      BY <2>1
    <3>2. CASE disk[f] = 0
      BY <2>1, <3>1, <3>2
    <3>3. CASE disk[f] # 0
      <4>1. PICK j \in 1..Len(events) : i < j /\ events[j].file = f
        BY <2>0, <3>1, <3>3 DEF OrderInv
      <4> QED
        BY <2>1, <4>1
    <3> QED
      BY <3>2, <3>3
  <2>4. RemovedInv' /\ RenamedInv'
    BY <2>0, <2>2 DEF RemovedInv, RenamedInv, Renamed, Removed, NoChange, Visible
  <2>5. NoChangeLost'
    <3> SUFFICES ASSUME NEW f \in Visible \ forgotten, known[f] # disk'[f]
                 PROVE  Underway(f)'
      BY DEF NoChangeLost, Visible
    <3>1. CASE disk'[f] # disk[f]
      BY <2>1, <3>1, UnderwayNext
    <3>2. CASE disk'[f] = disk[f]
      <4>1. Underway(f)
        BY <1>4, <3>2 DEF IInv, NoChangeLost, Following
      <4> QED
        BY <2>0, <2>1, <3>2, <4>1, UnderwayCases, UnderwayNext
    <3> QED
      BY <3>1, <3>2
  <2> QED
    BY <1>2, <2>3, <2>4, <2>5 DEF IInv, FollowInv
<1> QED
  BY <1>3, <1>4

\* An event moves from the queue into the changes: the file it is about stays
\* under way, and an old name that it overwrites is forgotten.
LEMMA HandleKeeps ==
  ASSUME IInv, TypeOK', failed = "none", HandleFileAction
  PROVE  IInv'
<1> DEFINE e == Head(events)
<1>0. TypeOK /\ changes \in [Files -> Change]
  BY DEF IInv, TypeOK
<1>1. /\ e \in Event /\ e = events[1] /\ events # <<>>
      /\ Len(events) \in Nat /\ Len(events) > 0
      /\ Len(events') = Len(events) - 1
      /\ \A i \in 1..Len(events') : events'[i] = events[i + 1]
  BY <1>0 DEF TypeOK, HandleFileAction
<1>2. /\ changes' = [changes EXCEPT ![e.file] = Merged(@, e)]
      /\ forgotten' = (forgotten \cup
             {f \in Files : changes[e.file] = Renamed(f)}) \ {e.file}
      /\ UNCHANGED <<disk, known, initialAdd, up, watched, failed, client>>
  BY DEF HandleFileAction, diskVars, clientVars
<1> HIDE DEF e
<1>3. DownInv'
  BY <1>1, <1>2 DEF IInv, DownInv
<1>4. CASE ~Following
  <2>1. ~Following'
    BY <1>2, <1>4 DEF Following
  <2> QED
    BY <1>3, <2>1 DEF IInv, FollowInv, NoChangeLost, Following
<1>5. CASE Following
  <2>0. OrderInv /\ RemovedInv /\ RenamedInv
    BY <1>5 DEF IInv, FollowInv
  <2>1. \A f \in Files : f # e.file => changes'[f] = changes[f]
    BY <1>0, <1>2
  <2>2. /\ e.file \in Files
        /\ changes'[e.file] # NoChange
        /\ changes'[e.file] = Removed => e.action = "delete"
        /\ \A f : changes'[e.file] = Renamed(f) => e.action = "moved" /\ e.old = f
        /\ e.action = "moved" =>
             e.old = e.file \/ changes'[e.file] = Renamed(e.old)
    BY <1>0, <1>1, <1>2, MergedFacts, EventFields
  <2>3. \A i \in 2..Len(events) :
           i - 1 \in 1..Len(events') /\ events'[i - 1] = events[i]
    BY <1>1
  <2>4. ASSUME NEW f \in Visible, Coming(f), f # e.file
        PROVE  Coming(f)'
    BY <1>1, <2>3, <2>4 DEF Coming
  <2>5. ASSUME NEW f \in Visible, Removes(e, f), disk[f] # 0
        PROVE  Coming(f)'
    <3>1. PICK j \in 1..Len(events) : 1 < j /\ events[j].file = f
      BY <1>1, <2>0, <2>5 DEF OrderInv
    <3> QED
      BY <1>1, <2>3, <3>1 DEF Coming
  <2>6. OrderInv'
    <3> SUFFICES ASSUME NEW f \in Visible, NEW i \in 1..Len(events'),
                        Removes(events'[i], f), disk'[f] # 0
                 PROVE  \E j \in 1..Len(events') : i < j /\ events'[j].file = f
      BY DEF OrderInv, Removes, Visible
    <3>1. PICK j \in 1..Len(events) : i + 1 < j /\ events[j].file = f
      BY <1>1, <1>2, <2>0 DEF OrderInv
    <3> QED
      BY <1>1, <2>3, <3>1
  <2>7. RemovedInv'
    <3> SUFFICES ASSUME NEW f \in Visible, changes'[f] = Removed, disk[f] # 0
                 PROVE  Coming(f)'
      BY <1>2 DEF RemovedInv, Visible, Removed
    <3>1. CASE f = e.file
      BY <2>2, <2>5, <3>1 DEF Removes
    <3>2. CASE f # e.file
      BY <2>0, <2>1, <2>4, <3>2 DEF RemovedInv, Visible
    <3> QED
      BY <3>1, <3>2
  <2>8. RenamedInv'
    <3> SUFFICES ASSUME NEW f \in Visible, NEW g \in Files,
                        changes'[g] = Renamed(f), changes'[f] = NoChange,
                        disk[f] # 0
                 PROVE  Coming(f)'
      BY <1>2 DEF RenamedInv, Visible, Renamed, NoChange
    <3>1. CASE g = e.file
      BY <2>2, <2>5, <3>1 DEF Removes
    <3>2. CASE g # e.file
      BY <2>0, <2>1, <2>2, <2>4, <3>2 DEF RenamedInv, Visible
    <3> QED
      BY <3>1, <3>2
  <2>9. NoChangeLost'
    <3> SUFFICES ASSUME NEW f \in Visible \ forgotten', known[f] # disk[f]
                 PROVE  Underway(f)'
      BY <1>2 DEF NoChangeLost, Visible
    <3>1. CASE f = e.file
      BY <2>2, <3>1, UnderwayNext
    <3>2. CASE f # e.file
      <4>1. f \notin forgotten /\ changes[e.file] # Renamed(f) /\ f \in Files
        BY <1>2, <3>2 DEF Visible
      <4>2. Underway(f)
        BY <1>5, <4>1 DEF IInv, NoChangeLost, Following
      <4>3. CASE \E j \in 1..Len(events) : Mentions(events[j], f)
        <5>1. PICK j \in 1..Len(events) : Mentions(events[j], f)
          BY <4>3
        <5>2. CASE j = 1
          BY <1>1, <2>2, <3>2, <5>1, <5>2, UnderwayNext DEF Mentions
        <5>3. CASE j # 1
          BY <1>1, <2>3, <5>1, <5>3, UnderwayNext
        <5> QED
          BY <5>2, <5>3
      <4>4. CASE ~\E j \in 1..Len(events) : Mentions(events[j], f)
        BY <1>0, <1>2, <2>1, <3>2, <4>1, <4>2, <4>4, UnderwayCases, UnderwayNext
      <4> QED
        BY <4>3, <4>4
    <3> QED
      BY <3>1, <3>2
  <2> QED
    BY <1>3, <2>6, <2>7, <2>8, <2>9 DEF IInv, FollowInv
<1> QED
  BY <1>4, <1>5

\* Giving the client changes c that hold everything that was merged, and every
\* visible file where the initial scan is due: what the client is told to forget
\* though it exists has an event coming.
LEMMA GivenKeeps ==
  ASSUME IInv, TypeOK', Following, NEW c \in [Files -> Change], Given(c),
         \A f \in Files : c[f] # changes[f] => c[f] = Added /\ changes[f] = NoChange,
         initialAdd /\ ~initialAdd' =>
           \A f \in Visible : disk[f] # 0 => c[f] # NoChange,
         changes' = NoChanges,
         UNCHANGED <<disk, events, forgotten>>
  PROVE  NoChangeLost'
<1>0. TypeOK /\ RemovedInv /\ RenamedInv /\ NoChangeLost /\ disk \in [Files -> 0..MaxChanges]
  BY DEF IInv, TypeOK, FollowInv
<1> SUFFICES ASSUME NEW f \in Visible \ forgotten, known'[f] # disk[f]
             PROVE  Underway(f)'
  BY DEF NoChangeLost, Visible
<1>1. f \in Files
  BY DEF Visible
<1>2. known'[f] = IF c[f] = Removed THEN 0
                  ELSE IF c[f] # NoChange THEN disk[f]
                  ELSE IF \E g \in Files : c[g] = Renamed(f) THEN 0 ELSE known[f]
  BY <1>1 DEF Given
<1>3. CASE c[f] = Removed
  <2>1. Coming(f)
    BY <1>0, <1>1, <1>2, <1>3, ChangesDistinct DEF RemovedInv
  <2> QED
    BY <2>1, UnderwayNext DEF Coming, Mentions
<1>4. CASE c[f] = NoChange /\ \E g \in Files : c[g] = Renamed(f)
  <2>1. PICK g \in Files : c[g] = Renamed(f)
    BY <1>4
  <2>2. changes[g] = Renamed(f) /\ changes[f] = NoChange
    BY <1>1, <1>4, <2>1, ChangesDistinct
  <2>3. Coming(f)
    BY <1>0, <1>2, <1>4, <2>2, ChangesDistinct DEF RenamedInv
  <2> QED
    BY <2>3, UnderwayNext DEF Coming, Mentions
<1>5. CASE c[f] = NoChange /\ ~\E g \in Files : c[g] = Renamed(f)
  <2>1. known[f] # disk[f]
    BY <1>2, <1>5, ChangesDistinct
  <2>2. Underway(f)
    BY <1>0, <2>1 DEF NoChangeLost, Following
  <2>3. changes[f] = NoChange /\ ~\E g \in Files : changes[g] = Renamed(f)
    BY <1>1, <1>5, ChangesDistinct
  <2> QED
    BY <1>0, <1>5, <2>2, <2>3, UnderwayCases, UnderwayNext
<1>6. CASE c[f] # NoChange /\ c[f] # Removed
  BY <1>2, <1>6
<1> QED
  BY <1>3, <1>4, <1>5, <1>6

\* Where no change is merged, none can mislead the client.
LEMMA ClearedKeeps ==
  ASSUME OrderInv, changes' = NoChanges, UNCHANGED <<disk, events>>
  PROVE  OrderInv' /\ RemovedInv' /\ RenamedInv'
<1>1. \A f \in Files : changes'[f] = NoChange
  BY DEF NoChanges
<1>2. OrderInv'
  BY DEF OrderInv, Removes, Visible
<1>3. RemovedInv' /\ RenamedInv'
  BY <1>1, ChangesDistinct DEF RemovedInv, RenamedInv, Visible, Removed, Renamed,
                               NoChange
<1> QED
  BY <1>2, <1>3

\* The task of a watch: the client is given the changes with the initial scan,
\* or both are kept for the timer.
LEMMA WatchTaskKeeps ==
  ASSUME IInv, TypeOK', failed = "none", NEW elapsed \in BOOLEAN, WatchTask(elapsed)
  PROVE  IInv'
<1> DEFINE c == IF initialAdd THEN WithPresentFiles ELSE changes
<1>0. /\ TypeOK /\ changes \in [Files -> Change] /\ up /\ initialAdd \in BOOLEAN
      /\ UNCHANGED <<disk, events, forgotten, up, watched, failed>> /\ ~initialAdd'
  <2>1. ~initialAdd'
    BY Zenon DEF WatchTask
  <2>2. up /\ TypeOK
    BY DEF IInv, DownInv, WatchTask
  <2> QED
    BY <2>1, <2>2 DEF TypeOK, WatchTask, diskVars
<1>1. \/ Given(c) /\ changes' = NoChanges
      \/ changes' = c /\ UNCHANGED known
  BY Zenon DEF WatchTask
<1>2. c \in [Files -> Change]
  BY <1>0, ChangeMembers DEF WithPresentFiles
<1>3. \A f \in Files : c[f] # changes[f] => c[f] = Added /\ changes[f] = NoChange
  BY <1>0 DEF WithPresentFiles
<1>4. initialAdd => \A f \in Visible : disk[f] # 0 => c[f] # NoChange
  BY ChangesDistinct DEF WithPresentFiles, Visible
<1> HIDE DEF c
<1>5. DownInv'
  BY <1>0 DEF DownInv
<1>6. CASE ~Following
  <2>1. ~Following'
    BY <1>0, <1>6 DEF Following
  <2> QED
    BY <1>5, <2>1 DEF IInv, FollowInv, NoChangeLost, Following
<1>7. CASE Following
  <2>0. OrderInv /\ RemovedInv /\ RenamedInv /\ NoChangeLost
    BY <1>7 DEF IInv, FollowInv
  <2>1. CASE Given(c) /\ changes' = NoChanges
    <3>1. OrderInv' /\ RemovedInv' /\ RenamedInv'
      BY <1>0, <2>0, <2>1, ClearedKeeps
    <3>2. NoChangeLost'
      BY <1>0, <1>2, <1>3, <1>4, <1>7, <2>1, GivenKeeps
    <3> QED
      BY <1>5, <3>1, <3>2 DEF IInv, FollowInv
  <2>2. CASE changes' = c /\ UNCHANGED known
    <3>1. OrderInv'
      BY <1>0, <2>0 DEF OrderInv, Removes, Visible
    <3>2. \A f \in Visible : Coming(f) => Coming(f)'
      BY <1>0 DEF Coming
    <3>3. RemovedInv' /\ RenamedInv'
      BY <1>0, <1>3, <2>0, <2>2, <3>2, ChangesDistinct
         DEF RemovedInv, RenamedInv, Visible, Removed, Renamed, NoChange
    <3>4. NoChangeLost'
      <4> SUFFICES ASSUME NEW f \in Visible \ forgotten, known[f] # disk[f]
                   PROVE  Underway(f)'
        BY <1>0, <2>2 DEF NoChangeLost, Visible
      <4>1. Underway(f) /\ f \in Files
        BY <1>7, <2>0 DEF NoChangeLost, Following, Visible
      <4>2. \A g \in Files : changes[g] = Renamed(f) => c[g] = Renamed(f)
        BY <1>3, ChangesDistinct
      <4>3. changes[f] # NoChange => c[f] # NoChange
        BY <1>3, <4>1
      <4> QED
        BY <1>0, <1>4, <2>2, <4>1, <4>2, <4>3, UnderwayCases, UnderwayNext
    <3> QED
      BY <1>5, <3>1, <3>3, <3>4 DEF IInv, FollowInv
  <2> QED
    BY <1>1, <2>1, <2>2
<1> QED
  BY <1>6, <1>7

\* The continuation of the timer gives all changes to the client.
LEMMA ResolveKeeps ==
  ASSUME IInv, TypeOK', failed = "none", Resolve
  PROVE  IInv'
<1>0. /\ TypeOK /\ changes \in [Files -> Change]
      /\ UNCHANGED <<disk, events, forgotten, up, watched, initialAdd>>
  BY DEF IInv, TypeOK, Resolve, diskVars
<1>1. NoChanges' = NoChanges
  BY DEF NoChanges
<1>2. CASE ~promise
  <2>1. failed' = "promise_" /\ UNCHANGED <<client, changes>>
    BY <1>2 DEF Resolve, clientVars
  <2>2. ~Following'
    BY <2>1 DEF Following
  <2> QED
    BY <1>0, <1>1, <2>1, <2>2 DEF IInv, DownInv, FollowInv, NoChangeLost, Following
<1>3. CASE promise
  <2>1. Given(changes) /\ changes' = NoChanges /\ failed' = failed
    BY <1>3 DEF Resolve
  <2>2. DownInv'
    BY <1>0, <1>1, <2>1 DEF IInv, DownInv, Given
  <2>3. CASE ~Following
    <3>1. ~Following'
      BY <1>0, <2>1, <2>3 DEF Following
    <3> QED
      BY <2>2, <3>1 DEF IInv, FollowInv, NoChangeLost, Following
  <2>4. CASE Following
    <3>1. OrderInv' /\ RemovedInv' /\ RenamedInv'
      BY <1>0, <2>1, <2>4, ClearedKeeps DEF IInv, FollowInv
    <3>2. NoChangeLost'
      BY <1>0, <2>1, <2>4, GivenKeeps
    <3> QED
      BY <2>2, <3>1, <3>2 DEF IInv, FollowInv
  <2> QED
    BY <2>3, <2>4
<1> QED
  BY <1>2, <1>3

\* A start follows the disk from nothing, and knows or will scan what is there.
LEMMA StartKeeps ==
  ASSUME IInv, TypeOK', Start
  PROVE  IInv'
<1>1. /\ TypeOK /\ events' = <<>> /\ changes' = NoChanges /\ up'
      /\ events = <<>> /\ UNCHANGED disk
  <2>1. up'
    BY Zenon DEF Start
  <2> QED
    BY <2>1 DEF IInv, DownInv, Start, diskVars
<1>2. DownInv'
  BY <1>1 DEF DownInv
<1>3. OrderInv' /\ RemovedInv' /\ RenamedInv'
  <2>1. OrderInv
    BY <1>1 DEF OrderInv
  <2> QED
    BY <1>1, <2>1, ClearedKeeps
<1>4. NoChangeLost'
  <2> SUFFICES ASSUME NEW f \in Visible, known'[f] # disk[f] PROVE Underway(f)'
    BY <1>1 DEF NoChangeLost, Visible
  <2>1. f \in Files
    BY DEF Visible
  <2>2. CASE InitialAdd
    <3>1. initialAdd'
      BY <2>2, Zenon DEF Start
    <3>2. disk'[f] # 0
      BY <1>1, <2>1, <2>2 DEF Start
    <3> QED
      BY <3>1, <3>2, UnderwayNext
  <2>3. CASE ~InitialAdd
    BY <2>1, <2>3 DEF Start
  <2> QED
    BY <2>2, <2>3
<1> QED
  BY <1>2, <1>3, <1>4 DEF IInv, FollowInv

\* Every step keeps IInv.
LEMMA IInvInductive == IInv /\ TypeOK' /\ [Next]_vars => IInv'
<1> SUFFICES ASSUME IInv, TypeOK', [Next]_vars PROVE IInv'
  OBVIOUS
<1>0. TypeOK /\ version \in Nat /\ disk \in [Files -> 0..MaxChanges]
  BY WatchAssumption DEF IInv, TypeOK
<1>1. ASSUME NEW f \in Files, Write(f) PROVE IInv'
  <2> DEFINE e == [action |-> IF disk[f] = 0 THEN "add" ELSE "modified", file |-> f]
  <2>1. e \in Event /\ e.file = f /\ e.action \in {"add", "modified"}
    BY DEF Event
  <2>2. Report(e)
    BY <1>1 DEF Write
  <2> HIDE DEF e
  <2>3. /\ UNCHANGED <<known, changes, initialAdd, up, watched, forgotten, failed,
                       client>>
        /\ disk' = [disk EXCEPT ![f] = version + 1]
    BY <1>1 DEF Write, clientVars, loopVars
  <2> QED
    BY <1>0, <2>1, <2>2, <2>3, DiskKeeps DEF Mentions, Removes, Visible
<1>2. ASSUME NEW f \in Files, Delete(f) PROVE IInv'
  <2> DEFINE e == [action |-> "delete", file |-> f]
  <2>1. e \in Event /\ e.file = f /\ e.action = "delete"
    BY DEF Event
  <2>2. Report(e)
    BY <1>2 DEF Delete
  <2> HIDE DEF e
  <2>3. /\ UNCHANGED <<known, changes, initialAdd, up, watched, forgotten, failed,
                       client>>
        /\ disk' = [disk EXCEPT ![f] = 0]
    BY <1>2 DEF Delete, clientVars, loopVars
  <2> QED
    BY <1>0, <2>1, <2>2, <2>3, DiskKeeps DEF Mentions, Removes, Visible
<1>3. ASSUME NEW f \in Files, NEW g \in Files, Move(f, g) PROVE IInv'
  <2> DEFINE e == [action |-> "moved", file |-> g, old |-> f]
  <2>1. e \in Event /\ e.file = g /\ e.action = "moved" /\ e.old = f
    BY DEF Event
  <2>2. Report(e)
    BY <1>3 DEF Move
  <2> HIDE DEF e
  <2>3. /\ UNCHANGED <<known, changes, initialAdd, up, watched, forgotten, failed,
                       client>>
        /\ disk' = [disk EXCEPT ![f] = 0, ![g] = version + 1]
        /\ f # g
    BY <1>3 DEF Move, clientVars, loopVars
  <2> QED
    BY <1>0, <2>1, <2>2, <2>3, DiskKeeps DEF Mentions, Removes, Visible
<1>4. ASSUME failed = "none", HandleFileAction PROVE IInv'
  BY <1>4, HandleKeeps
<1>5. ASSUME failed = "none", Resolve PROVE IInv'
  BY <1>5, ResolveKeeps
<1>6. ASSUME failed = "none", NEW elapsed \in BOOLEAN, WatchTask(elapsed) PROVE IInv'
  BY <1>6, WatchTaskKeeps
<1>7. CASE Start
  BY <1>7, StartKeeps
<1>8. CASE Stop
  <2>1. ~up'
    BY <1>8, Zenon DEF Stop
  <2>2. events' = <<>> /\ changes' = NoChanges
    BY <1>8 DEF Stop
  <2>3. client' # "posted"
    <3>1. \/ Given(changes) \/ Canceled \/ client' = "stale"
          \/ client # "posted" /\ UNCHANGED clientVars
      BY <1>8, Zenon DEF Stop
    <3> QED
      BY <3>1 DEF Given, Canceled, clientVars
  <2> QED
    BY <2>1, <2>2, <2>3 DEF IInv, DownInv, FollowInv, NoChangeLost, Following
<1>9. CASE TimerExpires \/ WatchCanceled \/ Watch \/ UNCHANGED vars
  <2>1. /\ UNCHANGED <<disk, events, changes, known, up, watched, initialAdd,
                       forgotten, failed>>
        /\ client' = "posted" /\ client # "posted" => up
    BY <1>9 DEF TimerExpires, WatchCanceled, Watch, Canceled, vars, diskVars,
                clientVars, loopVars
  <2>2. /\ OrderInv => OrderInv'
        /\ RemovedInv /\ RenamedInv => RemovedInv' /\ RenamedInv'
    BY <2>1 DEF OrderInv, RemovedInv, RenamedInv, Coming, Removes, Visible, Removed,
                Renamed, NoChange
  <2>3. ASSUME NEW f \in Files, Underway(f) PROVE Underway(f)'
    BY <1>0, <2>1, <2>3, UnderwayCases, UnderwayNext
  <2>4. NoChangeLost'
    BY <2>1, <2>3 DEF IInv, NoChangeLost, Visible
  <2>5. DownInv'
    BY <2>1 DEF IInv, DownInv
  <2> QED
    BY <2>1, <2>2, <2>4, <2>5 DEF IInv, FollowInv, Following
<1> QED
  BY <1>1, <1>2, <1>3, <1>4, <1>5, <1>6, <1>7, <1>8, <1>9 DEF Next, Disk, Loop

\* For any set of files, any filter, any number of changes and restarts: where
\* the client's view of a visible file differs from the disk, an event, a merged
\* change or the initial scan will still correct it, in every interleaving of the
\* watcher thread, the event loop, the timer and the client.
THEOREM NothingLost == Spec => []NoChangeLost
<1>1. Init => IInv
  <2> SUFFICES ASSUME Init PROVE IInv
    OBVIOUS
  <2>1. ~up
    BY Zenon DEF Init
  <2> QED
    BY <2>1, InitTypeOK
       DEF Init, IInv, DownInv, FollowInv, NoChangeLost, Following
<1>2. IInv => NoChangeLost
  BY DEF IInv
<1> QED
  BY <1>1, <1>2, IInvInductive, TypeCorrect, PTL DEF Spec

=============================================================================
