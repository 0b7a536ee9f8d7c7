------------------------------- MODULE Timer --------------------------------
(***************************************************************************)
(* The timer service (idle::timer_impl) on an IO context.                  *)
(*                                                                         *)
(* Users post a wait to the strand, which deposits it in a queue ordered   *)
(* by deadline and arms one asio timer for the first deadline.  When the   *)
(* timer expires, ready runs outside of the strand and posts a task to it  *)
(* that resolves what is due and arms the timer again.  The service is     *)
(* started and stopped by the event loop while these handlers run.         *)
(*                                                                         *)
(* Time is a number of ticks.  A step of the strand is atomic: only onStop *)
(* and ready run beside it.                                                *)
(* A strand that is emplaced again continues the order of the previous     *)
(* one.                                                                    *)
(***************************************************************************)
EXTENDS IOContext, Sequences, SequencesExt, FiniteSetsExt

CONSTANTS
  Waits,          \* calls of waitFor and waitUntil
  MaxTime,        \* last tick
  MaxTimerStarts  \* how often the timer is started in a behaviour
ASSUME TimerAssumption ==
  "drain" \notin Waits /\ MaxTime \in Nat /\ MaxTimerStarts \in Nat

VARIABLES
  now,         \* clock_type::now()
  alive,       \* weak.lock() succeeds
  up,          \* the service is started: timer_ and strand_ are set
  starts,      \* number of starts so far
  wait,        \* where each wait is
  deadline,    \* its deadline_
  queue,       \* queue_, a priority queue by deadline
  strand,      \* handlers posted to the strand
  armed,       \* deadline of the pending async_wait, or Off
  expired,     \* number of waits that expired whose ready did not run yet
  carried      \* history: queue_ was not empty when the service was started

timerVars == <<now, alive, up, starts, wait, deadline, queue, strand, armed,
               expired, carried>>
vars == <<ioVars, failed, timerVars>>

Time == 0..MaxTime
Off == MaxTime + 1

TypeOK ==
  /\ IOTypeOK
  /\ failed \in {"none", "stopped_", "timer_", "strand_", "queue_"}
  /\ now \in Time /\ {alive, up, carried} \subseteq BOOLEAN
  /\ starts \in 0..MaxTimerStarts
  /\ wait \in [Waits -> {"idle", "posted", "queued", "resolved", "dropped"}]
  /\ deadline \in [Waits -> Time]
  /\ queue \subseteq Waits
  /\ strand \in Seq(Waits \cup {"drain"})
  /\ armed \in Time \cup {Off}
  /\ expired \in Nat

Init ==
  /\ IOInit
  /\ now = 0 /\ alive = TRUE /\ up = FALSE /\ starts = 0
  /\ wait = [w \in Waits |-> "idle"] /\ deadline = [w \in Waits |-> 0]
  /\ queue = {} /\ strand = <<>> /\ armed = Off /\ expired = 0 /\ carried = FALSE

\* queue_.top().deadline_ of a queue that is not empty.
Top(q) == Min({deadline[w] : w \in q})

Tick ==
  /\ now < MaxTime
  /\ now' = now + 1
  /\ UNCHANGED <<ioVars, failed, alive, up, starts, wait, deadline, queue, strand,
                 armed, expired, carried>>

OnStart ==
  /\ ~up /\ alive /\ io = "running" /\ starts < MaxTimerStarts
  /\ up' = TRUE /\ starts' = starts + 1
  /\ carried' = (queue # {})
  /\ UNCHANGED <<ioVars, failed, now, alive, wait, deadline, queue, strand, armed,
                 expired>>

\* cancel() aborts the pending wait; ready returns for it.  queue_ is kept.
OnStop ==
  /\ up
  /\ up' = FALSE /\ armed' = Off
  /\ UNCHANGED <<ioVars, failed, now, alive, starts, wait, deadline, queue, strand,
                 expired, carried>>

\* The last reference to a stopped timer goes.
Destroy ==
  /\ ~up /\ alive
  /\ alive' = FALSE
  /\ UNCHANGED <<ioVars, failed, now, up, starts, wait, deadline, queue, strand, armed,
                 expired, carried>>

\* The four variants of wait: a deadline from now on, or any for waitUntil; it
\* is drawn from a range by two of them.
Wait(w, d) ==
  /\ up /\ wait[w] = "idle"
  /\ wait' = [wait EXCEPT ![w] = "posted"]
  /\ deadline' = [deadline EXCEPT ![w] = d]
  /\ strand' = Append(strand, w)
  /\ UNCHANGED <<ioVars, failed, now, alive, up, starts, queue, armed, expired,
                 carried>>

\* schedule: expires_at aborts a wait that is still pending.
Schedule(d) ==
  IF up THEN armed' = d /\ UNCHANGED failed
        ELSE failed' = "timer_" /\ UNCHANGED armed

\* Mutant of Deposit: an earlier deadline does not cancel and schedule again.
DepositLate(w) ==
  /\ queue' = queue \cup {w}
  /\ wait' = [wait EXCEPT ![w] = "queued"]
  /\ IF queue # {} THEN UNCHANGED <<armed, failed>> ELSE Schedule(deadline[w])

Deposit(w) ==
  /\ queue' = queue \cup {w}
  /\ wait' = [wait EXCEPT ![w] = "queued"]
  /\ IF queue # {} /\ Top(queue) <= deadline[w]
     THEN UNCHANGED <<armed, failed>>
     ELSE Schedule(deadline[w])

\* Mutant of Drain: the outstanding waits are not scheduled again.
DrainOnce ==
  LET due == {w \in queue : deadline[w] <= now}
  IN /\ queue' = queue \ due
     /\ wait' = [w \in Waits |-> IF w \in due THEN "resolved" ELSE wait[w]]
     /\ UNCHANGED <<armed, failed>>

\* What ready posts: everything due is resolved, the rest is scheduled again.
Drain ==
  IF queue = {}
  THEN failed' = "queue_" /\ UNCHANGED <<queue, wait, armed>>
  ELSE LET due == {w \in queue : deadline[w] <= now}
       IN /\ queue' = queue \ due
          /\ wait' = [w \in Waits |-> IF w \in due THEN "resolved" ELSE wait[w]]
          /\ IF queue = due THEN UNCHANGED <<armed, failed>>
                            ELSE Schedule(Top(queue \ due))

StrandStep ==
  /\ inRun # {} /\ strand # <<>>
  /\ strand' = Tail(strand)
  /\ IF alive
     THEN IF Head(strand) = "drain" THEN Drain ELSE Deposit(Head(strand))
     ELSE /\ wait' = [w \in Waits |-> IF w = Head(strand) THEN "dropped" ELSE wait[w]]
          /\ UNCHANGED <<queue, armed, failed>>
  /\ UNCHANGED <<ioVars, now, alive, up, starts, deadline, expired, carried>>

\* The asio timer expires.
Expire ==
  /\ inRun # {} /\ armed <= now
  /\ armed' = Off /\ expired' = expired + 1
  /\ UNCHANGED <<ioVars, failed, now, alive, up, starts, wait, deadline, queue,
                 strand, carried>>

\* ready without an error.
Ready ==
  /\ inRun # {} /\ expired > 0
  /\ expired' = expired - 1
  /\ IF up THEN strand' = Append(strand, "drain") /\ UNCHANGED failed
           ELSE failed' = "strand_" /\ UNCHANGED strand
  /\ UNCHANGED <<ioVars, now, alive, up, starts, wait, deadline, queue, armed,
                 carried>>

Outstanding == strand # <<>> \/ armed # Off \/ expired > 0

Pool ==
  /\ \/ \E t \in Threads : RunReturns(t, Outstanding) \/ ThreadLeaves(t)
     \/ JoinThreads
  /\ UNCHANGED timerVars

\* The timer depends on the context, so that it is stopped first.
IOService ==
  /\ IOStart \/ (~up /\ IOStop)
  /\ UNCHANGED timerVars

Handlers == StrandStep \/ Expire \/ Ready

Next ==
  /\ failed = "none"
  /\ \/ Tick \/ OnStart \/ OnStop \/ Destroy \/ IOService \/ Pool \/ Handlers
     \/ \E w \in Waits, d \in Time : Wait(w, d)

\* Time passes, and the threads of the pool run handlers and return.
Fairness == WF_vars(failed = "none" /\ Tick)
         /\ WF_vars(failed = "none" /\ Handlers)
         /\ WF_vars(failed = "none" /\ Pool)
Spec == Init /\ [][Next]_vars /\ Fairness

-----------------------------------------------------------------------------
\* Something will look at the queue no later than it has to.
Watched ==
  \/ armed # Off /\ armed <= Top(queue)
  \/ expired > 0
  \/ "drain" \in ToSet(strand)

\* A queue that is not empty is watched: the timer is armed for the first
\* deadline or has expired and its ready or the posted task is under way,
\* whatever earlier or later waits were deposited meanwhile.  Waits left over
\* from before a restart are not (onStop keeps queue_ and disarms the timer).
QueueWatched == up /\ queue # {} /\ ~carried /\ failed = "none" => Watched

\* A wait resolves unless the service is stopped meanwhile or the queue still
\* holds waits from before a restart.
WaitsResolve ==
  \A w \in Waits :
    wait[w] = "posted" ~> wait[w] = "resolved" \/ ~up \/ carried \/ failed # "none"
=============================================================================
