---------------------------- MODULE ProcessGroup ----------------------------
(***************************************************************************)
(* The process group (idle::ProcessGroupImpl) on an IO context.            *)
(*                                                                         *)
(* A spawn is posted to the strand, where the child is launched.  Its      *)
(* output is read by handlers outside of the strand, the exit of the child *)
(* is posted to the strand and closes the pipe.  Frames refer to the       *)
(* strand of the group without owning the group, which the event loop      *)
(* stops and restarts meanwhile.                                           *)
(*                                                                         *)
(* stdout and stderr are handled alike: a child has one stream.  A line is *)
(* the unit of output.  boost::process and the operating system are        *)
(* external.                                                               *)
(***************************************************************************)
EXTENDS IOContext, Sequences, SequencesExt

CONSTANTS
  Spawns,         \* calls of spawnProcess and its variants
  Streamed,       \* those that stream lines to a sink
  Buffered,       \* those that collect the output
  MaxLines,       \* lines a child writes at most
  MaxGroupStarts  \* how often the group is started in a behaviour
ASSUME SpawnAssumption ==
  /\ Streamed \subseteq Spawns /\ Buffered \subseteq Spawns
  /\ Streamed \cap Buffered = {}
  /\ MaxLines \in Nat /\ MaxGroupStarts \in Nat

VARIABLES
  group,        \* phase of the service
  groupAlive,   \* weak.lock() succeeds
  groupStarts,  \* number of starts so far, names the object in strand_
  child,        \* where each spawn is
  result,       \* what its promise was resolved with
  groupStrand,  \* handlers posted to the strand of each start
  pipe,         \* its stream is open
  reading,      \* the asynchronous read on it
  written,      \* lines the child wrote
  lines         \* lines that reached the sink or the buffer

groupVars == <<group, groupAlive, groupStarts, child, result, groupStrand, pipe,
               reading, written, lines>>
allGroupVars == <<ioVars, failed, groupVars>>

Generations == 0..MaxGroupStarts
Handler == {"spawn", "exit", "read", "start"} \X Spawns

\* onSetup and onSpawned: whose output is redirected to a pipe and read.
Piped == Streamed \cup Buffered

GroupTypeOK ==
  /\ IOTypeOK
  /\ failed \in {"none", "stopped_", "strand_", "group_", "called_"}
  /\ group \in {"stopped", "running", "stopping"}
  /\ groupAlive \in BOOLEAN /\ groupStarts \in Generations
  /\ child \in [Spawns -> {"idle", "posted", "running", "exited", "reaped", "done"}]
  /\ result \in [Spawns -> {"none", "value", "error", "canceled"}]
  /\ groupStrand \in [Generations -> Seq(Handler)]
  /\ pipe \in [Spawns -> BOOLEAN]
  /\ reading \in [Spawns -> {"no", "pending", "line"}]
  /\ written \in [Spawns -> 0..MaxLines] /\ lines \in [Spawns -> 0..MaxLines]

GroupInit ==
  /\ IOInit
  /\ group = "stopped" /\ groupAlive = TRUE /\ groupStarts = 0
  /\ child = [p \in Spawns |-> "idle"] /\ result = [p \in Spawns |-> "none"]
  /\ groupStrand = [g \in Generations |-> <<>>]
  /\ pipe = [p \in Spawns |-> FALSE] /\ reading = [p \in Spawns |-> "no"]
  /\ written = [p \in Spawns |-> 0] /\ lines = [p \in Spawns |-> 0]

GroupOnStart ==
  /\ group = "stopped" /\ groupAlive /\ io = "running" /\ groupStarts < MaxGroupStarts
  /\ group' = "running" /\ groupStarts' = groupStarts + 1
  /\ UNCHANGED <<ioVars, failed, groupAlive, child, result, groupStrand, pipe,
                 reading, written, lines>>

\* onStop, up to the wait: terminate kills every child of the group.
GroupOnStop ==
  /\ group = "running"
  /\ group' = "stopping"
  /\ child' = [p \in Spawns |-> IF child[p] = "running" THEN "exited" ELSE child[p]]
  /\ UNCHANGED <<ioVars, failed, groupAlive, groupStarts, result, groupStrand,
                 pipe, reading, written, lines>>

\* The wait for all children returns; group_ and strand_ are reset.
Stopped ==
  /\ group = "stopping"
  /\ group' = "stopped"
  /\ UNCHANGED <<ioVars, failed, groupAlive, groupStarts, child, result,
                 groupStrand, pipe, reading, written, lines>>

\* The last reference to a stopped group goes; a posted spawn owns one.
GroupDestroy ==
  /\ group = "stopped" /\ groupAlive
  /\ \A g \in Generations, p \in Spawns : <<"spawn", p>> \notin ToSet(groupStrand[g])
  /\ groupAlive' = FALSE
  /\ UNCHANGED <<ioVars, failed, group, groupStarts, child, result, groupStrand,
                 pipe, reading, written, lines>>

\* A handler is posted through the reference to strand_.
Post(h) == groupStrand' = [groupStrand EXCEPT ![groupStarts] = Append(@, h)]

\* A frame posts through its reference.  After strand_ was reset that is
\* undefined: the bytes may still do while the group is allocated.
PostFromFrame(h) ==
  \/ groupAlive /\ Post(h) /\ UNCHANGED failed
  \/ group = "stopped" /\ failed' = "strand_" /\ UNCHANGED groupStrand

\* spawn_from, called by a user that depends on the group or outlives it.
Spawn(p) ==
  /\ child[p] = "idle" /\ (group = "running" \/ ~groupAlive)
  /\ IF groupAlive
     THEN /\ Post(<<"spawn", p>>)
          /\ child' = [child EXCEPT ![p] = "posted"]
          /\ UNCHANGED result
     ELSE /\ result' = [result EXCEPT ![p] = "canceled"]
          /\ child' = [child EXCEPT ![p] = "done"]
          /\ UNCHANGED groupStrand
  /\ UNCHANGED <<ioVars, failed, group, groupAlive, groupStarts, pipe, reading,
                 written, lines>>

\* What the strand runs for a spawn: the frame and its pipe are made, then the
\* child is launched, or the setup fails and is cleaned up.
Launch(p) ==
  IF group = "running"
  THEN /\ \/ /\ child' = [child EXCEPT ![p] = "running"]
             /\ pipe' = [pipe EXCEPT ![p] = p \in Piped]
             /\ reading' = [reading EXCEPT ![p] = IF p \in Piped THEN "pending" ELSE "no"]
             /\ UNCHANGED result
          \/ /\ child' = [child EXCEPT ![p] = "done"]
             /\ result' = [result EXCEPT ![p] = "error"]
             /\ UNCHANGED <<pipe, reading>>
       /\ UNCHANGED failed
  ELSE /\ failed' = (IF group = "stopping" THEN "group_" ELSE "strand_")
       /\ UNCHANGED <<child, result, pipe, reading>>

\* onCleanup; a read that is pending is aborted by the close.
Cleanup(p) == pipe' = [pipe EXCEPT ![p] = FALSE]

\* Mutant of OnExit: the streams are not cleaned up after an error.
OnExitLeaks(p) ==
  /\ \E r \in {"value", "error"} :
       /\ result' = [result EXCEPT ![p] = r]
       /\ pipe' = [pipe EXCEPT ![p] = (@ /\ r = "error")]
  /\ child' = [child EXCEPT ![p] = "done"]
  /\ UNCHANGED <<reading, failed>>

\* on_exit: the exit code and the error code of the wait decide on the result.
OnExit(p) ==
  IF result[p] = "none"
  THEN /\ \E r \in {"value", "error"} : result' = [result EXCEPT ![p] = r]
       /\ Cleanup(p)
       /\ child' = [child EXCEPT ![p] = "done"]
       /\ UNCHANGED <<reading, failed>>
  ELSE failed' = "called_" /\ UNCHANGED <<child, result, pipe, reading>>

\* What a line handler posts: the next line is awaited unless the child exited.
\* The handler checks the pipe first and keeps its strand busy; the strand of
\* another start may handle the exit before the read is started.
CheckOpen(g) ==
  /\ inRun # {} /\ groupStrand[g] # <<>>
  /\ Head(groupStrand[g])[1] = "read" /\ pipe[Head(groupStrand[g])[2]]
  /\ groupStrand' = [groupStrand EXCEPT ![g][1] = <<"start", Head(groupStrand[g])[2]>>]
  /\ UNCHANGED <<ioVars, failed, group, groupAlive, groupStarts, child, result, pipe,
                 reading, written, lines>>

\* The read is started; on a pipe that was closed since the check it fails.
StartRead(p) ==
  /\ reading' = [reading EXCEPT ![p] = "pending"]
  /\ UNCHANGED <<child, result, pipe, failed>>

\* The pipe is closed: the handler lets go of the frame.
ReadNoMore(p) == ~pipe[p] /\ UNCHANGED <<child, result, pipe, reading, failed>>

GroupStrandStep(g) ==
  /\ inRun # {} /\ groupStrand[g] # <<>>
  /\ groupStrand' = [groupStrand EXCEPT ![g] = Tail(@)]
  /\ LET kind == Head(groupStrand[g])[1]
         p == Head(groupStrand[g])[2]
     IN \/ kind = "spawn" /\ Launch(p)
        \/ kind = "exit" /\ OnExit(p)
        \/ kind = "read" /\ ReadNoMore(p)
        \/ kind = "start" /\ StartRead(p)
  /\ UNCHANGED <<ioVars, group, groupAlive, groupStarts, written, lines>>

ChildWrites(p) ==
  /\ child[p] = "running" /\ pipe[p] /\ written[p] < MaxLines
  /\ written' = [written EXCEPT ![p] = @ + 1]
  /\ UNCHANGED <<ioVars, failed, group, groupAlive, groupStarts, child, result,
                 groupStrand, pipe, reading, lines>>

ChildExits(p) ==
  /\ child[p] = "running"
  /\ child' = [child EXCEPT ![p] = "exited"]
  /\ UNCHANGED <<ioVars, failed, group, groupAlive, groupStarts, result,
                 groupStrand, pipe, reading, written, lines>>

\* Mutant of ExitHandler: the handler owns no frame and the exit is not posted.
ExitHandlerDrops(p) ==
  /\ inRun # {} /\ child[p] = "exited"
  /\ child' = [child EXCEPT ![p] = "reaped"]
  /\ UNCHANGED <<ioVars, failed, group, groupAlive, groupStarts, result,
                 groupStrand, pipe, reading, written, lines>>

\* on_exit_handler, called for the signal SIGCHLD.
ExitHandler(p) ==
  /\ inRun # {} /\ child[p] = "exited"
  /\ child' = [child EXCEPT ![p] = "reaped"]
  /\ PostFromFrame(<<"exit", p>>)
  /\ UNCHANGED <<ioVars, group, groupAlive, groupStarts, result, pipe, reading,
                 written, lines>>

\* Reads that complete: a line of a streamed child, some output of a buffered
\* one, and the end of the output or the abort by a close.
ReadLine(p) ==
  /\ p \in Streamed /\ lines[p] < written[p]
  /\ reading' = [reading EXCEPT ![p] = "line"]
  /\ UNCHANGED lines
ReadSome(p) ==
  /\ p \in Buffered /\ lines[p] < written[p]
  /\ lines' = [lines EXCEPT ![p] = @ + 1]
  /\ UNCHANGED reading
ReadEnds(p) ==
  /\ ~pipe[p] \/ (child[p] # "running" /\ lines[p] = written[p])
  /\ reading' = [reading EXCEPT ![p] = "no"]
  /\ UNCHANGED lines
Read(p) ==
  /\ inRun # {} /\ reading[p] = "pending"
  /\ (pipe[p] /\ (ReadLine(p) \/ ReadSome(p))) \/ ReadEnds(p)
  /\ UNCHANGED <<ioVars, failed, group, groupAlive, groupStarts, child, result,
                 groupStrand, pipe, written>>

\* The handler of a line writes it to the sink and posts the next read.
LineHandler(p) ==
  /\ inRun # {} /\ reading[p] = "line"
  /\ lines' = [lines EXCEPT ![p] = @ + 1]
  /\ reading' = [reading EXCEPT ![p] = "no"]
  /\ PostFromFrame(<<"read", p>>)
  /\ UNCHANGED <<ioVars, group, groupAlive, groupStarts, child, result, pipe,
                 written>>

\* Handlers and operations of asio that keep run() from returning.
GroupOutstanding ==
  \/ \E g \in Generations : groupStrand[g] # <<>>
  \/ \E p \in Spawns : child[p] \in {"running", "exited"} \/ reading[p] # "no"

GroupPool ==
  /\ \/ \E t \in Threads : RunReturns(t, GroupOutstanding) \/ ThreadLeaves(t)
     \/ JoinThreads
  /\ UNCHANGED groupVars

\* The group depends on the context, so that it is stopped first.
GroupIOService ==
  /\ IOStart \/ (group = "stopped" /\ IOStop)
  /\ UNCHANGED groupVars

GroupHandlers ==
  \/ \E g \in Generations : GroupStrandStep(g) \/ CheckOpen(g)
  \/ \E p \in Spawns : ExitHandler(p) \/ Read(p) \/ LineHandler(p)

GroupNext ==
  /\ failed = "none"
  /\ \/ GroupOnStart \/ GroupOnStop \/ Stopped \/ GroupDestroy
     \/ GroupIOService \/ GroupPool \/ GroupHandlers
     \/ \E p \in Spawns : Spawn(p) \/ ChildWrites(p) \/ ChildExits(p)

\* The pool runs handlers and returns, and the wait of onStop ends.  A child may
\* run forever.
GroupFairness ==
  /\ WF_allGroupVars(failed = "none" /\ GroupHandlers)
  /\ WF_allGroupVars(failed = "none" /\ GroupPool)
  /\ WF_allGroupVars(failed = "none" /\ Stopped)
GroupSpec == GroupInit /\ [][GroupNext]_allGroupVars /\ GroupFairness

-----------------------------------------------------------------------------
\* Something refers to the frame of p: the exit handler, a read or a handler in
\* a strand.
FrameHeld(p) ==
  \/ child[p] \in {"running", "exited"} \/ reading[p] # "no"
  \/ \E g \in Generations : \E h \in ToSet(groupStrand[g]) : h[2] = p

\* The last reference to a frame goes after its pipe was closed, which is what
\* the destructor of the stream asserts, however reads, the exit of the child and
\* the stop of the group interleave.  And on_exit comes once.
StreamsClosed ==
  /\ failed # "called_"
  /\ failed = "none" => \A p \in Spawns : FrameHeld(p) \/ ~pipe[p]

\* A spawn that was posted runs or is resolved, and one whose child is gone is
\* resolved: by itself or because the group terminated it.
SpawnsSettle ==
  \A p \in Spawns :
    child[p] \in {"posted", "exited", "reaped"} ~>
      (result[p] # "none" \/ child[p] = "running" \/ failed # "none")
=============================================================================
