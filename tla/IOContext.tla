----------------------------- MODULE IOContext ------------------------------
(***************************************************************************)
(* The default IO context (idle::DefaultIOContext): a pool of threads that *)
(* call boost::asio::io_context::run.                                      *)
(*                                                                         *)
(* asio is external.  What is used of it: run returns when no work guard   *)
(* exists and no handler or asynchronous operation is outstanding; the     *)
(* io_context is stopped from then on and every later run returns at once, *)
(* since nothing calls restart.  Services that use the context extend this *)
(* module and say what is outstanding.                                     *)
(*                                                                         *)
(* failed is what ends the program: a promise resolved that is not there,  *)
(* an assertion, or an optional read while it is empty.                    *)
(***************************************************************************)
EXTENDS Naturals, FiniteSets

CONSTANTS
  Threads,     \* the pool, min(4, hardware_concurrency())
  MaxIOStarts  \* how often the context is started in a behaviour
ASSUME PoolAssumption ==
  Threads # {} /\ IsFiniteSet(Threads) /\ MaxIOStarts \in Nat

VARIABLES
  io,       \* phase of the service
  work,     \* default_io_context_work_ is set
  ended,    \* the io_context is stopped
  inRun,    \* threads inside of run()
  leaving,  \* threads behind run() that did not decrement running_ yet
  running,  \* running_
  join,     \* the last thread has posted the task that joins all threads
  stopped,  \* stopped_ holds the promise of onStop
  ioStarts, \* number of starts so far
  failed

poolVars == <<inRun, leaving, running, join>>
ioVars == <<io, work, ended, poolVars, stopped, ioStarts>>

IOTypeOK ==
  /\ io \in {"stopped", "running", "stopping"}
  /\ {work, ended, join, stopped} \subseteq BOOLEAN
  /\ inRun \subseteq Threads /\ leaving \subseteq Threads
  /\ running \in 0..Cardinality(Threads)
  /\ ioStarts \in 0..MaxIOStarts

IOInit ==
  /\ io = "stopped" /\ work = FALSE /\ ended = FALSE /\ inRun = {} /\ leaving = {}
  /\ running = 0 /\ join = FALSE /\ stopped = FALSE /\ ioStarts = 0 /\ failed = "none"

IOStart ==
  /\ io = "stopped" /\ ioStarts < MaxIOStarts
  /\ io' = "running" /\ ioStarts' = ioStarts + 1
  /\ work' = TRUE
  /\ running' = Cardinality(Threads) /\ inRun' = Threads
  /\ UNCHANGED <<ended, leaving, join, stopped, failed>>

\* Mutant of IOStop: the work guard is kept.
IOStopGuarded ==
  /\ io = "running"
  /\ io' = "stopping"
  /\ stopped' = TRUE
  /\ UNCHANGED <<work, ended, poolVars, ioStarts, failed>>

\* The guard goes; the promise is resolved by the task of the last thread.
IOStop ==
  /\ io = "running"
  /\ io' = "stopping"
  /\ work' = FALSE
  /\ stopped' = TRUE
  /\ UNCHANGED <<ended, poolVars, ioStarts, failed>>

\* run() returns in thread t.
RunReturns(t, outstanding) ==
  /\ t \in inRun
  /\ ended \/ (~work /\ ~outstanding)
  /\ ended' = TRUE
  /\ inRun' = inRun \ {t} /\ leaving' = leaving \cup {t}
  /\ UNCHANGED <<io, work, running, join, stopped, ioStarts, failed>>

\* Mutant of ThreadLeaves: the new value is compared instead of the previous.
ThreadLeavesEarly(t) ==
  /\ t \in leaving
  /\ leaving' = leaving \ {t}
  /\ running' = running - 1
  /\ join' = (join \/ running - 1 = 1)
  /\ UNCHANGED <<io, work, ended, inRun, stopped, ioStarts, failed>>

\* The thread that decrements running_ to zero posts the join.
ThreadLeaves(t) ==
  /\ t \in leaving
  /\ leaving' = leaving \ {t}
  /\ running' = running - 1
  /\ join' = (join \/ running = 1)
  /\ UNCHANGED <<io, work, ended, inRun, stopped, ioStarts, failed>>

\* The posted task joins the threads and resolves the stop, whose continuation
\* resets the pool.
JoinThreads ==
  /\ join
  /\ join' = FALSE
  /\ IF stopped
     THEN io' = "stopped" /\ stopped' = FALSE /\ running' = 0 /\ UNCHANGED failed
     ELSE failed' = "stopped_" /\ UNCHANGED <<io, stopped, running>>
  /\ UNCHANGED <<work, ended, inRun, leaving, ioStarts>>

-----------------------------------------------------------------------------
\* The threads are joined when all of them are over: running_ counts the
\* threads that still run handlers, and the last one to leave posts the join.
JoinsFinishedThreads ==
  /\ running = Cardinality(inRun) + Cardinality(leaving)
  /\ join => running = 0
  /\ io = "stopped" => inRun = {} /\ leaving = {} /\ ~join

\* A stop of the context ends: no handler and no armed timer of a service that
\* was stopped before keeps a thread inside of run().
IOStops == (io = "stopping") ~> (io = "stopped" \/ failed # "none")
=============================================================================
