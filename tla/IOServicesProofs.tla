-------------------------- MODULE IOServicesProofs --------------------------
(***************************************************************************)
(* The services on an IO context, for a pool of any size, any set of waits *)
(* and any set of spawns: the pool itself, the queue of the timer and the  *)
(* frames of the process group.                                            *)
(***************************************************************************)
EXTENDS Timer, ProcessGroup, FiniteSetTheorems, SequenceTheorems,
        WellFoundedInduction, TLAPS

-----------------------------------------------------------------------------
(* The pool. *)

\* A thread is inside of run() or behind it, not both: each thread that leaves
\* is counted once.
PoolInv ==
  /\ inRun \subseteq Threads /\ leaving \subseteq Threads
  /\ inRun \cap leaving = {}
  /\ JoinsFinishedThreads

\* Subsets of the pool are finite, and empty if their cardinality is 0.
LEMMA PoolFinite ==
  ASSUME NEW S \in SUBSET Threads
  PROVE  /\ IsFiniteSet(S) /\ Cardinality(S) \in Nat
         /\ Cardinality(S) = 0 <=> S = {}
  BY PoolAssumption, FS_Subset, FS_CardinalityType, FS_EmptySet

\* The steps of the pool, and the start and stop of the context, keep PoolInv.
LEMMA PoolStep ==
  ASSUME PoolInv,
         \/ IOStart \/ IOStop \/ JoinThreads
         \/ \E t \in Threads : (\E o : RunReturns(t, o)) \/ ThreadLeaves(t)
  PROVE  PoolInv'
<1> USE DEF PoolInv, JoinsFinishedThreads
<1>1. CASE IOStart
  BY <1>1, PoolFinite, FS_EmptySet DEF IOStart
<1>2. CASE IOStop
  BY <1>2 DEF IOStop, poolVars
<1>3. CASE JoinThreads
  <2>1. inRun = {} /\ leaving = {}
    BY <1>3, PoolFinite DEF JoinThreads
  <2> QED
    BY <1>3, <2>1, FS_EmptySet DEF JoinThreads
<1>4. ASSUME NEW t \in Threads, NEW o, RunReturns(t, o) PROVE PoolInv'
  <2>1. Cardinality(inRun \ {t}) = Cardinality(inRun) - 1
    BY <1>4, PoolFinite, FS_RemoveElement DEF RunReturns
  <2>2. Cardinality(leaving \cup {t}) = Cardinality(leaving) + 1
    BY <1>4, PoolFinite, FS_AddElement DEF RunReturns
  <2>3. Cardinality(inRun) \in Nat /\ Cardinality(leaving) \in Nat /\ inRun # {}
    BY <1>4, PoolFinite DEF RunReturns
  <2>4. io # "stopped"
    BY <2>3
  <2>5. inRun' = inRun \ {t} /\ leaving' = leaving \cup {t}
        /\ UNCHANGED <<io, running, join>>
    BY <1>4 DEF RunReturns
  <2> QED
    BY <1>4, <2>1, <2>2, <2>3, <2>4, <2>5
<1>5. ASSUME NEW t \in Threads, ThreadLeaves(t) PROVE PoolInv'
  <2>1. Cardinality(leaving \ {t}) = Cardinality(leaving) - 1
    BY <1>5, PoolFinite, FS_RemoveElement DEF ThreadLeaves
  <2>2. /\ Cardinality(inRun) \in Nat /\ Cardinality(leaving) \in Nat
        /\ Cardinality(leaving) # 0
    BY <1>5, PoolFinite DEF ThreadLeaves
  <2>3. io # "stopped" /\ ~join
    BY <1>5, <2>2 DEF ThreadLeaves
  <2>4. /\ leaving' = leaving \ {t} /\ running' = running - 1
        /\ join' = (running = 1)
        /\ UNCHANGED <<io, inRun>>
    BY <1>5, <2>3 DEF ThreadLeaves
  <2>5. join' => running' = 0
    <3>1. CASE running = 1
      BY <3>1, <2>4
    <3>2. CASE running # 1
      BY <3>2, <2>4, Zenon
    <3> QED
      BY <3>1, <3>2
  <2> QED
    BY <2>1, <2>2, <2>3, <2>4, <2>5
<1> QED
  BY <1>1, <1>2, <1>3, <1>4, <1>5

\* The threads of the pool are joined by the last one that leaves run(), and
\* only when all have left, in a pool of any size, for as many starts and stops
\* of the context and the timer as there may be.
THEOREM PoolJoined == Spec => []JoinsFinishedThreads
<1>1. Init => PoolInv
  BY FS_EmptySet DEF Init, IOInit, PoolInv, JoinsFinishedThreads
<1>2. PoolInv /\ [Next]_vars => PoolInv'
  <2> SUFFICES ASSUME PoolInv, [Next]_vars PROVE PoolInv'
    OBVIOUS
  <2>1. CASE UNCHANGED ioVars
    BY <2>1 DEF PoolInv, JoinsFinishedThreads, ioVars, poolVars
  <2>2. CASE Pool
    BY <2>2, PoolStep DEF Pool
  <2>3. CASE IOService
    BY <2>3, PoolStep DEF IOService
  <2> QED
    BY <2>1, <2>2, <2>3
    DEF Next, vars, Tick, OnStart, OnStop, Destroy, Handlers, StrandStep, Expire,
        Ready, Wait
<1>3. PoolInv => JoinsFinishedThreads
  BY DEF PoolInv
<1> QED
  BY <1>1, <1>2, <1>3, PTL DEF Spec

\* The same below a process group.
THEOREM GroupPoolJoined == GroupSpec => []JoinsFinishedThreads
<1>1. GroupInit => PoolInv
  BY FS_EmptySet DEF GroupInit, IOInit, PoolInv, JoinsFinishedThreads
<1>2. PoolInv /\ [GroupNext]_allGroupVars => PoolInv'
  <2> SUFFICES ASSUME PoolInv, [GroupNext]_allGroupVars PROVE PoolInv'
    OBVIOUS
  <2>1. CASE UNCHANGED ioVars
    BY <2>1 DEF PoolInv, JoinsFinishedThreads, ioVars, poolVars
  <2>2. CASE GroupPool
    BY <2>2, PoolStep DEF GroupPool
  <2>3. CASE GroupIOService
    BY <2>3, PoolStep DEF GroupIOService
  <2> QED
    BY <2>1, <2>2, <2>3
    DEF GroupNext, allGroupVars, GroupOnStart, GroupOnStop, Stopped, GroupDestroy,
        GroupHandlers, GroupStrandStep, CheckOpen, ExitHandler, Read, LineHandler,
        Spawn, ChildWrites, ChildExits
<1>3. PoolInv => JoinsFinishedThreads
  BY DEF PoolInv
<1> QED
  BY <1>1, <1>2, <1>3, PTL DEF GroupSpec

-----------------------------------------------------------------------------
(* The least of a set of deadlines. *)

LessThan == {p \in Nat \X Nat : p[1] < p[2]}

\* The order of the natural numbers, as a relation, is well founded.
LEMMA LessThanWellFounded == IsWellFoundedOn(LessThan, Nat)
<1>1. LessThan = OpToRel(<, Nat)
  BY DEF LessThan, OpToRel
<1> QED
  BY <1>1, NatLessThanWellFounded, Zenon

\* Every set of natural numbers that is not empty has a least element.
LEMMA LeastNumber ==
  ASSUME NEW S \in SUBSET Nat, S # {}
  PROVE  \E m \in S : \A n \in S : m <= n
<1>1. PICK m \in S : \A n \in S : ~(<<n, m>> \in LessThan)
  <2> HIDE DEF LessThan
  <2> QED BY WFMin, LessThanWellFounded
<1>2. ASSUME NEW n \in S PROVE m <= n
  <2>1. <<n, m>> \in Nat \X Nat /\ <<n, m>>[1] = n /\ <<n, m>>[2] = m
    OBVIOUS
  <2>2. ~(n < m)
    BY <1>1, <2>1, Zenon DEF LessThan
  <2> QED
    BY <2>2
<1> QED
  BY <1>2

\* Top bounds the deadlines of the queue from below, and nothing larger does.
LEMMA LeastDeadline ==
  ASSUME NEW d \in [Waits -> Time], NEW Q \in SUBSET Waits, Q # {},
         NEW m, m = Min({d[w] : w \in Q})
  PROVE  /\ m \in Time
         /\ \A w \in Q : m <= d[w]
         /\ \A k \in Nat : (\A w \in Q : k <= d[w]) => k <= m
<1> DEFINE S == {d[w] : w \in Q}
<1>1. S \in SUBSET Nat /\ S # {} /\ S \subseteq Time
  BY TimerAssumption DEF Time
<1>2. \E x \in S : \A y \in S : x <= y
  <2> HIDE DEF S
  <2> QED BY <1>1, LeastNumber
<1>3. m \in S /\ \A y \in S : m <= y
  BY <1>2 DEF Min
<1> QED
  BY <1>1, <1>3

-----------------------------------------------------------------------------
(* The queue. *)

\* A queued wait is not idle, so that waitFor does not change its deadline, and
\* the service exists while it is up: with these QueueWatched is inductive.
QueueInv ==
  /\ up => alive
  /\ wait \in [Waits -> {"idle", "posted", "queued", "resolved", "dropped"}]
  /\ deadline \in [Waits -> Time]
  /\ queue \subseteq Waits /\ \A w \in queue : wait[w] # "idle"
  /\ strand \in Seq(Waits \cup {"drain"})
  /\ armed \in Time \cup {Off} /\ expired \in Nat
  /\ QueueWatched

\* Times are numbers, and a timer that is armed is not off.
LEMMA Times == Time \subseteq Nat /\ Off \notin Time
  BY TimerAssumption DEF Time, Off

\* A posted handler is in the strand, and what was there before still is.
LEMMA Appended ==
  ASSUME NEW S, NEW s \in Seq(S), NEW e \in S
  PROVE  /\ Append(s, e) \in Seq(S)
         /\ ToSet(Append(s, e)) = ToSet(s) \cup {e}
<1>1. /\ Append(s, e) \in Seq(S) /\ Len(Append(s, e)) = Len(s) + 1
      /\ \A i \in 1..Len(s) : Append(s, e)[i] = s[i]
      /\ Append(s, e)[Len(s) + 1] = e
      /\ DOMAIN s = 1..Len(s) /\ DOMAIN Append(s, e) = 1..(Len(s) + 1)
      /\ Len(s) \in Nat
  OBVIOUS
<1> QED
  BY <1>1 DEF ToSet

\* Taking the first handler out leaves all others.
LEMMA Taken ==
  ASSUME NEW S, NEW s \in Seq(S), s # <<>>
  PROVE  /\ Head(s) \in S /\ Tail(s) \in Seq(S)
         /\ ToSet(s) \subseteq ToSet(Tail(s)) \cup {Head(s)}
<1>1. /\ Head(s) \in S /\ Tail(s) \in Seq(S) /\ Len(Tail(s)) = Len(s) - 1
      /\ \A i \in 1..Len(Tail(s)) : Tail(s)[i] = s[i + 1]
  BY HeadTailProperties
<1>2. /\ DOMAIN s = 1..Len(s) /\ DOMAIN Tail(s) = 1..Len(Tail(s))
      /\ Head(s) = s[1] /\ Len(s) \in Nat
  BY <1>1
<1>3. ASSUME NEW i \in DOMAIN s, s[i] # Head(s)
      PROVE  s[i] \in ToSet(Tail(s))
  <2>1. i - 1 \in DOMAIN Tail(s) /\ Tail(s)[i - 1] = s[i]
    BY <1>1, <1>2, <1>3
  <2> QED
    BY <2>1 DEF ToSet
<1> QED
  BY <1>1, <1>3 DEF ToSet

\* While deadlines stay, the first deadline after a step is Top of the new queue,
\* and a timer that is armed no later watches it.
LEMMA TopPrimed ==
  ASSUME deadline' = deadline, NEW Q, queue' = Q
  PROVE  /\ Top(queue)' = Top(Q)
         /\ armed' # Off /\ armed' <= Top(Q) => Watched'
<1>1. Top(queue)' = Top(Q)
  BY Zenon DEF Top
<1> QED
  BY <1>1, Zenon DEF Watched

\* Deposit, on a service that is up: the timer is armed no later than for the
\* new wait.
LEMMA DepositStep ==
  ASSUME QueueInv, up, failed = "none", NEW w \in Waits, Deposit(w),
         strand # <<>>, strand' = Tail(strand), Head(strand) = w,
         UNCHANGED <<now, alive, up, starts, deadline, expired, carried>>
  PROVE  QueueInv'
<1> DEFINE Q == queue \cup {w}
<1>a. /\ wait \in [Waits -> {"idle", "posted", "queued", "resolved", "dropped"}]
      /\ deadline \in [Waits -> Time]
      /\ queue \in SUBSET Waits /\ \A v \in queue : wait[v] # "idle"
      /\ strand \in Seq(Waits \cup {"drain"})
      /\ armed \in Time \cup {Off} /\ expired \in Nat
      /\ up /\ alive /\ QueueWatched
  BY DEF QueueInv
<1>1. /\ strand' \in Seq(Waits \cup {"drain"})
      /\ "drain" \in ToSet(strand) => "drain" \in ToSet(strand')
  <2>1. /\ Tail(strand) \in Seq(Waits \cup {"drain"})
        /\ ToSet(strand) \subseteq ToSet(Tail(strand)) \cup {Head(strand)}
    BY <1>a, Taken
  <2>2. Head(strand) # "drain"
    BY TimerAssumption
  <2> QED
    BY <2>1, <2>2
<1>2. /\ wait' \in [Waits -> {"idle", "posted", "queued", "resolved", "dropped"}]
      /\ queue' = Q /\ \A v \in queue' : wait'[v] # "idle"
  BY <1>a DEF Deposit
<1>3. Q \in SUBSET Waits /\ Q # {}
  BY <1>a
<1>4. PICK m : m = Top(Q)
  OBVIOUS
<1>5. /\ m \in Time
      /\ \A k \in Nat : (\A v \in Q : k <= deadline[v]) => k <= m
  <2>1. m = Min({deadline[v] : v \in Q})
    BY <1>4 DEF Top
  <2>2. deadline \in [Waits -> Time]
    BY <1>a
  <2> HIDE DEF Q
  <2>3. m \in Time
    BY <1>3, <2>1, <2>2, LeastDeadline
  <2>4. ASSUME NEW k \in Nat, \A v \in Q : k <= deadline[v] PROVE k <= m
    BY <1>3, <2>1, <2>2, <2>4, LeastDeadline
  <2> QED BY <2>3, <2>4
<1>6. armed' # Off /\ armed' <= m => Watched'
  BY <1>2, <1>4, TopPrimed
<1>7. CASE queue # {} /\ Top(queue) <= deadline[w]
  <2>1. armed' = armed /\ failed' = failed
    BY <1>7 DEF Deposit
  <2>2. PICK t : t = Top(queue)
    OBVIOUS
  <2>3. t \in Time /\ \A v \in queue : t <= deadline[v]
    BY <1>a, <1>7, <2>2, LeastDeadline DEF Top
  <2>4. t <= m
    BY <1>5, <1>7, <2>2, <2>3, Times
  <2>5. ~carried => Watched'
    <3>1. CASE armed # Off /\ armed <= Top(queue)
      <4>1. armed \in Nat /\ t \in Nat /\ m \in Nat
        BY <1>a, <3>1, <2>3, <1>5, Times
      <4>2. armed' # Off /\ armed' <= m
        BY <3>1, <4>1, <2>1, <2>2, <2>4
      <4> QED
        BY <4>2, <1>6
    <3>2. CASE expired > 0
      BY <3>2 DEF Watched
    <3>3. CASE "drain" \in ToSet(strand)
      BY <3>3, <1>1 DEF Watched
    <3> QED
      BY <1>a, <1>7, <3>1, <3>2, <3>3 DEF Watched, QueueWatched
  <2> QED
    BY <1>a, <1>1, <1>2, <1>3, <2>1, <2>5 DEF QueueWatched, QueueInv
<1>8. CASE ~(queue # {} /\ Top(queue) <= deadline[w])
  <2>1. armed' = deadline[w] /\ failed' = failed
    BY <1>8 DEF Deposit, Schedule
  <2>2. \A v \in queue : deadline[w] <= deadline[v]
    <3>1. CASE queue # {}
      <4>1. PICK t : t = Top(queue)
        OBVIOUS
      <4>2. t \in Time /\ \A v \in queue : t <= deadline[v]
        BY <1>a, <3>1, <4>1, LeastDeadline DEF Top
      <4>3. ~(t <= deadline[w])
        BY <3>1, <4>1, <1>8
      <4>4. \A v \in Waits : deadline[v] \in Nat
        BY <1>a, Times
      <4> QED
        BY <4>2, <4>3, <4>4, <1>a, Times
    <3> QED
      BY <3>1
  <2>3. armed' \in Time /\ armed' # Off
    BY <1>a, <2>1, Times
  <2>4. armed' <= m
    BY <1>5, <2>1, <2>2, <2>3, Times
  <2>5. Watched'
    BY <2>3, <2>4, <1>6
  <2> QED
    BY <1>a, <1>1, <1>2, <1>3, <2>3, <2>5 DEF QueueWatched, QueueInv
<1> QED
  BY <1>7, <1>8

\* The task of ready: what is left is armed for its first deadline.
LEMMA DrainStep ==
  ASSUME QueueInv, up, Drain, strand # <<>>, strand' = Tail(strand),
         UNCHANGED <<now, alive, up, starts, deadline, expired, carried>>
  PROVE  QueueInv'
<1> DEFINE due == {w \in queue : deadline[w] <= now}
           Q == queue \ due
<1>a. /\ wait \in [Waits -> {"idle", "posted", "queued", "resolved", "dropped"}]
      /\ deadline \in [Waits -> Time]
      /\ queue \in SUBSET Waits /\ \A v \in queue : wait[v] # "idle"
      /\ strand \in Seq(Waits \cup {"drain"})
      /\ armed \in Time \cup {Off} /\ expired \in Nat
      /\ up /\ alive
  BY DEF QueueInv
<1>1. strand' \in Seq(Waits \cup {"drain"})
  BY <1>a, Taken
<1>2. CASE queue = {}
  BY <1>a, <1>1, <1>2 DEF Drain, QueueWatched, QueueInv
<1>3. CASE queue # {}
  <2>1. /\ queue' = Q
        /\ wait' = [w \in Waits |-> IF w \in due THEN "resolved" ELSE wait[w]]
        /\ IF queue = due THEN UNCHANGED <<armed, failed>> ELSE Schedule(Top(Q))
    BY <1>3 DEF Drain
  <2> HIDE DEF due
  <2>2. /\ wait' \in [Waits -> {"idle", "posted", "queued", "resolved", "dropped"}]
        /\ queue' \subseteq Waits /\ \A v \in queue' : wait'[v] # "idle"
    BY <1>a, <2>1
  <2>3. CASE Q = {}
    <3>1. queue = due
      BY <2>3 DEF due
    <3> QED
      BY <1>a, <1>1, <2>1, <2>2, <2>3, <3>1 DEF QueueWatched, QueueInv
  <2>4. CASE Q # {}
    <3>1. armed' = Top(Q)
      BY <1>a, <2>1, <2>4 DEF Schedule
    <3>2. Q \in SUBSET Waits
      BY <1>a
    <3>3. PICK m : m = Top(Q)
      OBVIOUS
    <3>4. m \in Time
      <4> HIDE DEF Q
      <4> QED BY <1>a, <2>4, <3>2, <3>3, LeastDeadline DEF Top
    <3>5. m <= m /\ m # Off
      BY <3>4, Times
    <3>6. Watched'
      BY <2>1, <3>1, <3>3, <3>5, TopPrimed
    <3> QED
      BY <1>a, <1>1, <2>2, <3>1, <3>3, <3>4, <3>6 DEF QueueWatched, QueueInv
  <2> QED
    BY <2>3, <2>4
<1> QED
  BY <1>2, <1>3

\* A step that is not one of the strand's keeps what watches the queue.
LEMMA UnchangedQueue ==
  ASSUME QueueInv, up' => up /\ carried' = carried,
         UNCHANGED <<deadline, queue, wait>>,
         failed' = "none" => failed = "none",
         up' => alive', strand' \in Seq(Waits \cup {"drain"}),
         armed' \in Time \cup {Off}, expired' \in Nat,
         up' /\ failed' = "none" =>
           \/ armed' = armed /\ expired' = expired /\ ToSet(strand) \subseteq ToSet(strand')
           \/ expired' > 0
           \/ "drain" \in ToSet(strand')
  PROVE  QueueInv'
<1>1. Top(queue)' = Top(queue)
  BY TopPrimed
<1>2. QueueWatched'
  <2> SUFFICES ASSUME up', queue' # {}, ~carried', failed' = "none"
               PROVE  Watched'
    BY DEF QueueWatched
  <2>1. Watched
    BY DEF QueueInv, QueueWatched
  <2> QED
    BY <1>1, <2>1 DEF Watched
<1> QED
  BY <1>2 DEF QueueInv

\* The queue of a service that is up is watched at all times, for any number of
\* waits, starts and stops, and for every order in which the strand, the timer's
\* handler and the event loop's start and stop come.
THEOREM QueueAlwaysWatched == Spec => []QueueWatched
<1>1. Init => QueueInv
  BY TimerAssumption DEF Init, QueueInv, QueueWatched, Time, Off
<1>2. QueueInv /\ [Next]_vars => QueueInv'
  <2> SUFFICES ASSUME QueueInv, [Next]_vars PROVE QueueInv'
    OBVIOUS
  <2>a. /\ strand \in Seq(Waits \cup {"drain"}) /\ expired \in Nat
        /\ armed \in Time \cup {Off} /\ (up => alive)
    BY DEF QueueInv
  <2>1. CASE UNCHANGED <<timerVars, failed>>
    BY <2>1, <2>a, UnchangedQueue DEF timerVars
  <2>2. CASE failed = "none" /\ Tick
    BY <2>2, <2>a, UnchangedQueue DEF Tick
  <2>3. CASE OnStart
    <3>1. /\ up' /\ alive' /\ carried' = (queue # {})
          /\ UNCHANGED <<wait, deadline, queue, strand, armed, expired>>
      BY <2>3 DEF OnStart
    <3>2. QueueWatched'
      BY <3>1 DEF QueueWatched
    <3> QED
      BY <3>1, <3>2 DEF QueueInv
  <2>4. CASE OnStop
    BY <2>4, <2>a, UnchangedQueue DEF OnStop
  <2>5. CASE Destroy
    BY <2>5, <2>a, UnchangedQueue DEF Destroy
  <2>6. CASE failed = "none" /\ (IOService \/ Pool)
    BY <2>6, <2>a, UnchangedQueue DEF IOService, Pool, timerVars
  <2>7. ASSUME NEW w \in Waits, NEW d \in Time, Wait(w, d) PROVE QueueInv'
    <3>1. Append(strand, w) \in Seq(Waits \cup {"drain"})
          /\ ToSet(Append(strand, w)) = ToSet(strand) \cup {w}
      BY <2>a, Appended
    <3>2. /\ wait[w] = "idle" /\ wait' = [wait EXCEPT ![w] = "posted"]
          /\ deadline' = [deadline EXCEPT ![w] = d] /\ strand' = Append(strand, w)
          /\ UNCHANGED <<failed, alive, up, queue, armed, expired, carried>>
      BY <2>7 DEF Wait
    <3>3. w \notin queue /\ deadline \in [Waits -> Time] /\ queue \subseteq Waits
      BY <3>2 DEF QueueInv
    <3>4. \A v \in queue : deadline'[v] = deadline[v]
      BY <3>2, <3>3
    <3>5. {deadline'[v] : v \in queue'} = {deadline[v] : v \in queue}
      BY <3>2, <3>4
    <3>6. Top(queue)' = Top(queue)
      BY <3>5, Zenon DEF Top
    <3>7. QueueWatched'
      BY <3>1, <3>2, <3>6 DEF QueueInv, QueueWatched, Watched
    <3> QED
      BY <3>1, <3>2, <3>7 DEF QueueInv
  <2>8. CASE failed = "none" /\ StrandStep
    <3>1. /\ strand # <<>> /\ strand' = Tail(strand)
          /\ UNCHANGED <<now, alive, up, starts, deadline, expired, carried>>
      BY <2>8 DEF StrandStep
    <3>2. Head(strand) \in Waits \cup {"drain"} /\ strand' \in Seq(Waits \cup {"drain"})
      BY <3>1, <2>a, Taken
    <3>3. CASE up /\ Head(strand) = "drain"
      BY <3>1, <3>3, <2>8, <2>a, DrainStep DEF StrandStep
    <3>4. CASE up /\ Head(strand) # "drain"
      BY <3>1, <3>2, <3>4, <2>8, <2>a, DepositStep DEF StrandStep
    <3>5. CASE ~up
      <4>a. /\ wait \in [Waits -> {"idle", "posted", "queued", "resolved", "dropped"}]
            /\ queue \subseteq Waits /\ \A v \in queue : wait[v] # "idle"
        BY DEF QueueInv
      <4>1. armed' = armed
        BY <2>8, <3>5 DEF StrandStep, Drain, Deposit, Schedule
      <4>2. \/ UNCHANGED <<queue, wait>>
            \/ \E D \in SUBSET Waits :
                 /\ queue' = queue \ D
                 /\ wait' = [v \in Waits |-> IF v \in D THEN "resolved" ELSE wait[v]]
            \/ /\ Head(strand) \in Waits
               /\ queue' = queue \cup {Head(strand)}
               /\ wait' = [wait EXCEPT ![Head(strand)] = "queued"]
            \/ /\ queue' = queue
               /\ wait' = [v \in Waits |-> IF v = Head(strand) THEN "dropped" ELSE wait[v]]
        <5>1. CASE ~alive
          BY <5>1, <2>8 DEF StrandStep
        <5>2. CASE alive /\ Head(strand) # "drain"
          BY <5>2, <2>8, <3>2 DEF StrandStep, Deposit
        <5>3. CASE alive /\ Head(strand) = "drain"
          <6> DEFINE due == {v \in queue : deadline[v] <= now}
          <6>1. due \in SUBSET Waits
            BY <4>a
          <6> QED
            BY <5>3, <6>1, <2>8 DEF StrandStep, Drain
        <5> QED
          BY <5>1, <5>2, <5>3
      <4>3. /\ wait' \in [Waits -> {"idle", "posted", "queued", "resolved", "dropped"}]
            /\ queue' \subseteq Waits /\ \A v \in queue' : wait'[v] # "idle"
        BY <4>a, <4>2
      <4> QED
        BY <3>1, <3>2, <3>5, <4>1, <4>3 DEF QueueInv, QueueWatched
    <3> QED
      BY <3>3, <3>4, <3>5
  <2>9. CASE failed = "none" /\ Expire
    BY <2>9, <2>a, UnchangedQueue DEF Expire
  <2>10. CASE failed = "none" /\ Ready
    <3>1. /\ Append(strand, "drain") \in Seq(Waits \cup {"drain"})
          /\ "drain" \in ToSet(Append(strand, "drain"))
      BY <2>a, Appended
    <3>2. CASE up
      <4>1. /\ strand' = Append(strand, "drain") /\ expired' \in Nat
            /\ UNCHANGED <<failed, alive, up, wait, deadline, queue, armed, carried>>
        BY <2>10, <2>a, <3>2 DEF Ready
      <4> QED
        BY <4>1, <2>a, <3>1, UnchangedQueue
    <3>3. CASE ~up
      <4>1. /\ strand' = strand /\ expired' \in Nat /\ ~up'
            /\ UNCHANGED <<wait, deadline, queue, armed>>
        BY <2>10, <2>a, <3>3 DEF Ready
      <4> QED
        BY <4>1 DEF QueueInv, QueueWatched
    <3> QED
      BY <3>2, <3>3
  <2> QED
    BY <2>1, <2>2, <2>3, <2>4, <2>5, <2>6, <2>7, <2>8, <2>9, <2>10
    DEF Next, vars, Handlers
<1>3. QueueInv => QueueWatched
  BY DEF QueueInv
<1> QED
  BY <1>1, <1>2, <1>3, PTL DEF Spec

-----------------------------------------------------------------------------
(* The process group: the strands as places of handlers. *)

\* Handler h waits at place k of the strand of start g.
At(str, h, g, k) == g \in Generations /\ k \in 1..Len(str[g]) /\ str[g][k] = h

\* Handler h waits in some strand; and in one place only.
InStrand(str, h) == \E g, k : At(str, h, g, k)
OnePlace(str, h) ==
  \A g, k, i, j : At(str, h, g, k) /\ At(str, h, i, j) => g = i /\ k = j

\* A handler that is posted takes a place of its own and moves no other.
LEMMA PostedPlaces ==
  ASSUME NEW str \in [Generations -> Seq(Handler)], NEW g \in Generations,
         NEW h \in Handler, NEW new, new[g] = Append(str[g], h),
         \A i \in Generations : i # g => new[i] = str[i]
  PROVE  /\ \A x : InStrand(new, x) <=> InStrand(str, x) \/ x = h
         /\ \A x : OnePlace(str, x) /\ (x # h \/ ~InStrand(str, h)) => OnePlace(new, x)
<1>0. str[g] \in Seq(Handler) /\ Len(str[g]) \in Nat
  BY LenProperties
<1>1. /\ Append(str[g], h) \in Seq(Handler)
      /\ Len(Append(str[g], h)) = Len(str[g]) + 1
      /\ \A k \in 1..Len(str[g]) : Append(str[g], h)[k] = str[g][k]
      /\ Append(str[g], h)[Len(str[g]) + 1] = h
  BY <1>0, AppendProperties
<1>3. \A x, i, k : At(new, x, i, k) <=>
        At(str, x, i, k) \/ (i = g /\ k = Len(str[g]) + 1 /\ x = h)
  <2> TAKE x, i, k
  <2>1. CASE i = g
    BY <1>0, <1>1, <2>1 DEF At
  <2>2. CASE i # g
    BY <2>2 DEF At
  <2> QED
    BY <2>1, <2>2
<1>4. \A x, k : ~At(str, x, g, Len(str[g]) + 1)
  BY <1>0 DEF At
<1> HIDE DEF At
<1>6. \A x : InStrand(new, x) <=> InStrand(str, x) \/ x = h
  BY <1>3 DEF InStrand
<1>7. ASSUME NEW x, OnePlace(str, x), x # h \/ ~InStrand(str, h)
      PROVE  OnePlace(new, x)
  BY <1>3, <1>7 DEF OnePlace, InStrand
<1> QED
  BY <1>6, <1>7

\* The handler that is taken leaves its place, the others of its strand move up.
LEMMA TakenPlaces ==
  ASSUME NEW str \in [Generations -> Seq(Handler)], NEW g \in Generations,
         str[g] # <<>>, NEW new, new[g] = Tail(str[g]),
         \A i \in Generations : i # g => new[i] = str[i]
  PROVE  /\ Tail(str[g]) \in Seq(Handler)
         /\ Head(str[g]) \in Handler /\ InStrand(str, Head(str[g]))
         /\ \A x : InStrand(new, x) => InStrand(str, x)
         /\ \A x : x # Head(str[g]) /\ InStrand(str, x) => InStrand(new, x)
         /\ \A x : OnePlace(str, x) => OnePlace(new, x)
         /\ OnePlace(str, Head(str[g])) => ~InStrand(new, Head(str[g]))
<1>0. /\ str[g] \in Seq(Handler) /\ Len(str[g]) \in Nat /\ 1 <= Len(str[g])
      /\ Head(str[g]) = str[g][1] /\ str[g][1] \in Handler
  BY LenProperties, EmptySeq, HeadTailProperties, ElementOfSeq
<1>1. /\ Tail(str[g]) \in Seq(Handler)
      /\ Len(Tail(str[g])) = Len(str[g]) - 1
      /\ \A k \in 1..Len(str[g]) - 1 : Tail(str[g])[k] = str[g][k + 1]
  BY <1>0, HeadTailProperties
<1>3. /\ \A x, k : At(new, x, g, k) => At(str, x, g, k + 1)
      /\ \A x, i, k : i # g /\ At(new, x, i, k) => At(str, x, i, k)
  BY <1>0, <1>1 DEF At
<1>4. \A x, i, k : At(str, x, i, k) =>
        IF i # g THEN At(new, x, i, k)
        ELSE IF k = 1 THEN x = Head(str[g]) ELSE At(new, x, i, k - 1)
  <2> TAKE x, i, k
  <2>1. CASE i = g
    <3> SUFFICES ASSUME At(str, x, g, k), k # 1 PROVE At(new, x, g, k - 1)
      BY <1>0, <2>1 DEF At
    <3>1. k \in 1..Len(str[g]) /\ str[g][k] = x
      BY DEF At
    <3>2. k - 1 \in 1..Len(str[g]) - 1 /\ (k - 1) + 1 = k
      BY <1>0, <3>1
    <3>3. Tail(str[g])[k - 1] = x
      BY <1>1, <3>1, <3>2
    <3> QED
      BY <1>1, <3>2, <3>3 DEF At
  <2>2. CASE i # g
    BY <2>2 DEF At
  <2> QED
    BY <2>1, <2>2
<1>5. At(str, Head(str[g]), g, 1)
  BY <1>0 DEF At
<1>6. \A x, i, k : At(new, x, i, k) => k \in Nat /\ 1 <= k
  BY <1>1, <1>0, LenProperties DEF At
<1> HIDE DEF At
<1>8. \A x : InStrand(new, x) => InStrand(str, x)
  BY <1>3 DEF InStrand
<1>9. \A x : x # Head(str[g]) /\ InStrand(str, x) => InStrand(new, x)
  BY <1>4 DEF InStrand
<1>10. ASSUME NEW x, OnePlace(str, x) PROVE OnePlace(new, x)
  <2> SUFFICES ASSUME NEW i, NEW k, NEW j, NEW n, At(new, x, i, k), At(new, x, j, n)
               PROVE  i = j /\ k = n
    BY DEF OnePlace
  <2>0. (\E a : At(str, x, i, a)) /\ (\E b : At(str, x, j, b))
    BY <1>3
  <2>1. i = j
    BY <1>10, <2>0 DEF OnePlace
  <2>2. CASE i = g
    <3>1. k \in Nat /\ n \in Nat
      BY <1>6
    <3>2. At(str, x, g, k + 1) /\ At(str, x, g, n + 1)
      BY <1>3, <2>1, <2>2
    <3>3. k + 1 = n + 1
      BY <1>10, <3>2, Zenon DEF OnePlace
    <3> QED
      BY <2>1, <3>1, <3>3
  <2>3. CASE i # g
    BY <1>3, <1>10, <2>1, <2>3 DEF OnePlace
  <2> QED
    BY <2>2, <2>3
<1>11. OnePlace(str, Head(str[g])) => ~InStrand(new, Head(str[g]))
  <2> SUFFICES ASSUME OnePlace(str, Head(str[g])), NEW i, NEW k,
                      At(new, Head(str[g]), i, k)
               PROVE  FALSE
    BY DEF InStrand
  <2>1. i = g
    BY <1>3, <1>5 DEF OnePlace
  <2>2. At(str, Head(str[g]), g, k + 1)
    BY <1>3, <2>1
  <2>3. k + 1 = 1
    BY <1>5, <2>2, Zenon DEF OnePlace
  <2>4. k \in Nat /\ 1 <= k
    BY <1>6
  <2> QED
    BY <2>3, <2>4
<1>12. InStrand(str, Head(str[g]))
  BY <1>5 DEF InStrand
<1> QED
  BY <1>0, <1>1, <1>8, <1>9, <1>10, <1>11, <1>12

\* A handler that is replaced at the head of its strand leaves the other
\* handlers where they are.
LEMMA ReplacedPlaces ==
  ASSUME NEW str \in [Generations -> Seq(Handler)], NEW g \in Generations,
         str[g] # <<>>, NEW h \in Handler, NEW new,
         new[g] = [str[g] EXCEPT ![1] = h],
         \A i \in Generations : i # g => new[i] = str[i]
  PROVE  /\ new[g] \in Seq(Handler)
         /\ \A x : x # h /\ x # Head(str[g]) =>
              /\ InStrand(new, x) <=> InStrand(str, x)
              /\ OnePlace(str, x) => OnePlace(new, x)
<1>0. /\ str[g] \in Seq(Handler) /\ Len(str[g]) \in Nat /\ 1 <= Len(str[g])
      /\ Head(str[g]) = str[g][1]
  BY LenProperties, EmptySeq, HeadTailProperties
<1> DEFINE s == [str[g] EXCEPT ![1] = h]
<1>1. s \in Seq(Handler) /\ Len(s) = Len(str[g]) /\ s[1] = h
      /\ \A k \in 1..Len(str[g]) : k # 1 => s[k] = str[g][k]
  BY <1>0, ExceptSeq
<1>3. new[g] = s
  OBVIOUS
<1> HIDE DEF s
<1>5. ASSUME NEW x, x # h, x # Head(str[g]), NEW i, NEW k
      PROVE  At(new, x, i, k) <=> At(str, x, i, k)
  <2>1. CASE i = g
    BY <1>0, <1>1, <1>3, <1>5, <2>1 DEF At
  <2>2. CASE i # g
    BY <1>3, <2>2 DEF At
  <2> QED
    BY <2>1, <2>2
<1> HIDE DEF At
<1>6. ASSUME NEW x, x # h, x # Head(str[g])
      PROVE  /\ InStrand(new, x) <=> InStrand(str, x)
             /\ OnePlace(str, x) => OnePlace(new, x)
  BY <1>5, <1>6 DEF InStrand, OnePlace
<1> QED
  BY <1>1, <1>3, <1>6

-----------------------------------------------------------------------------
(* The process group: its frames. *)

\* The types of the variables that frames consist of.
GroupShape ==
  /\ groupStarts \in Generations
  /\ child \in [Spawns -> {"idle", "posted", "running", "exited", "reaped", "done"}]
  /\ result \in [Spawns -> {"none", "value", "error", "canceled"}]
  /\ groupStrand \in [Generations -> Seq(Handler)]
  /\ pipe \in [Spawns -> BOOLEAN]
  /\ reading \in [Spawns -> {"no", "pending", "line"}]

\* One spawn: it waits in one place until the child is launched, its exit in
\* one place from the signal on until on_exit; its pipe is open in between only,
\* and its promise is resolved at the end.
FrameOf(p, c, r, str, open) ==
  /\ InStrand(str, <<"spawn", p>>) => c = "posted"
  /\ OnePlace(str, <<"spawn", p>>)
  /\ InStrand(str, <<"exit", p>>) <=> c = "reaped"
  /\ OnePlace(str, <<"exit", p>>)
  /\ c # "done" => r = "none"
  /\ open => c \in {"running", "exited", "reaped"}

FrameInv ==
  \A p \in Spawns : FrameOf(p, child[p], result[p], groupStrand, pipe[p])

GroupInv ==
  GroupShape /\ failed # "called_" /\ (failed = "none" => FrameInv)

\* Nothing is posted and no pipe is open at first.
LEMMA GroupInitInv == GroupInit => GroupInv
<1> SUFFICES ASSUME GroupInit PROVE GroupInv
  OBVIOUS
<1>1. \A h : ~InStrand(groupStrand, h) /\ OnePlace(groupStrand, h)
  BY EmptySeq DEF GroupInit, InStrand, OnePlace, At
<1>2. pipe \in [Spawns -> BOOLEAN] /\ \A p \in Spawns : ~pipe[p]
  BY Zenon DEF GroupInit
<1>3. groupStrand \in [Generations -> Seq(Handler)]
  BY EmptySeq DEF GroupInit
<1> QED
  BY <1>1, <1>2, <1>3, SpawnAssumption
  DEF GroupInit, IOInit, GroupInv, GroupShape, FrameInv, FrameOf, Generations

\* A step that leaves strands, children, promises and pipes alone.
LEMMA GroupUnchanged ==
  ASSUME GroupInv, UNCHANGED <<child, result, groupStrand, pipe>>,
         groupStarts' \in Generations,
         reading' \in [Spawns -> {"no", "pending", "line"}],
         failed' # "called_", failed = "none"
  PROVE  GroupInv'
  BY DEF GroupInv, GroupShape, FrameInv

\* Post adds its handler to the strand of the current start.
LEMMA PostStep ==
  ASSUME GroupShape, NEW h \in Handler, Post(h)
  PROVE  /\ groupStrand' \in [Generations -> Seq(Handler)]
         /\ \A x : InStrand(groupStrand', x) <=> InStrand(groupStrand, x) \/ x = h
         /\ \A x : OnePlace(groupStrand, x) /\ (x # h \/ ~InStrand(groupStrand, h))
                   => OnePlace(groupStrand', x)
<1>1. groupStarts \in Generations /\ groupStrand \in [Generations -> Seq(Handler)]
  BY DEF GroupShape
<1>2. /\ groupStrand'[groupStarts] = Append(groupStrand[groupStarts], h)
      /\ \A i \in Generations : i # groupStarts => groupStrand'[i] = groupStrand[i]
  BY <1>1 DEF Post
<1>3. groupStrand' \in [Generations -> Seq(Handler)]
  <2>1. Append(groupStrand[groupStarts], h) \in Seq(Handler)
    BY <1>1, AppendProperties
  <2> QED
    BY <1>1, <2>1 DEF Post
<1>4. \A x : InStrand(groupStrand', x) <=> InStrand(groupStrand, x) \/ x = h
  BY <1>1, <1>2, PostedPlaces
<1>5. \A x : OnePlace(groupStrand, x) /\ (x # h \/ ~InStrand(groupStrand, h))
             => OnePlace(groupStrand', x)
  BY <1>1, <1>2, PostedPlaces
<1> QED
  BY <1>3, <1>4, <1>5, Zenon

\* spawn_from posts the spawn of a child that is idle, or cancels it.
LEMMA SpawnStep ==
  ASSUME GroupInv, failed = "none", NEW p \in Spawns, Spawn(p)
  PROVE  GroupInv'
<1> USE DEF GroupInv, GroupShape
<1>0. /\ child[p] = "idle" /\ UNCHANGED <<failed, groupStarts, pipe, reading>>
      /\ FrameOf(p, child[p], result[p], groupStrand, pipe[p])
  BY DEF Spawn, FrameInv
<1>1. ~InStrand(groupStrand, <<"spawn", p>>) /\ ~InStrand(groupStrand, <<"exit", p>>)
  BY <1>0 DEF FrameOf
<1>2. CASE groupAlive
  <2>1. /\ groupStrand' = [groupStrand EXCEPT ![groupStarts] = Append(@, <<"spawn", p>>)]
        /\ child' = [child EXCEPT ![p] = "posted"] /\ result' = result
    BY <1>2 DEF Spawn, Post
  <2>2. <<"spawn", p>> \in Handler
    BY DEF Handler
  <2>3. /\ groupStrand' \in [Generations -> Seq(Handler)]
        /\ \A x : InStrand(groupStrand', x) <=>
                    InStrand(groupStrand, x) \/ x = <<"spawn", p>>
        /\ \A x : OnePlace(groupStrand, x)
                  /\ (x # <<"spawn", p>> \/ ~InStrand(groupStrand, <<"spawn", p>>))
                  => OnePlace(groupStrand', x)
    BY <2>1, <2>2, PostStep DEF Post, GroupShape
  <2>4. ASSUME NEW q \in Spawns
        PROVE  FrameOf(q, child'[q], result'[q], groupStrand', pipe'[q])
    <3>1. FrameOf(q, child[q], result[q], groupStrand, pipe[q])
      BY DEF FrameInv
    <3>2. CASE q = p
      BY <1>0, <1>1, <2>1, <2>3, <3>1, <3>2 DEF FrameOf
    <3>3. CASE q # p
      <4>1. <<"spawn", q>> # <<"spawn", p>> /\ <<"exit", q>> # <<"spawn", p>>
        BY <3>3
      <4>2. child'[q] = child[q] /\ result'[q] = result[q] /\ pipe'[q] = pipe[q]
        BY <1>0, <2>1, <3>3
      <4> QED
        BY <2>3, <3>1, <4>1, <4>2 DEF FrameOf
    <3> QED
      BY <3>2, <3>3
  <2>5. FrameInv'
    BY <2>4 DEF FrameInv
  <2> QED
    BY <1>0, <2>1, <2>3, <2>5
<1>3. CASE ~groupAlive
  <2>1. /\ groupStrand' = groupStrand /\ child' = [child EXCEPT ![p] = "done"]
        /\ result' = [result EXCEPT ![p] = "canceled"]
    BY <1>3 DEF Spawn
  <2>2. FrameInv'
    BY <1>0, <1>1, <2>1 DEF FrameInv, FrameOf
  <2> QED
    BY <1>0, <2>1, <2>2
<1> QED
  BY <1>2, <1>3

\* A frame posts its exit, or its next read, or ends the program.
LEMMA FramePosts ==
  ASSUME GroupShape, NEW h \in Handler, PostFromFrame(h), failed = "none",
         failed' = "none"
  PROVE  /\ groupStrand' \in [Generations -> Seq(Handler)]
         /\ \A x : InStrand(groupStrand', x) <=> InStrand(groupStrand, x) \/ x = h
         /\ \A x : OnePlace(groupStrand, x) /\ (x # h \/ ~InStrand(groupStrand, h))
                   => OnePlace(groupStrand', x)
  BY PostStep DEF PostFromFrame

\* A post from a frame keeps the types and never fails as called_.
LEMMA FramePostsShape ==
  ASSUME GroupShape, NEW h \in Handler, PostFromFrame(h), failed = "none"
  PROVE  /\ groupStrand' \in [Generations -> Seq(Handler)]
         /\ failed' \in {"none", "strand_"}
<1>1. CASE failed' = "none"
  BY <1>1, FramePosts DEF PostFromFrame
<1>2. CASE failed' # "none"
  BY <1>2 DEF PostFromFrame, GroupShape
<1> QED
  BY <1>1, <1>2

\* The signal moves a child from exited to reaped and posts its exit once.
LEMMA ExitHandlerStep ==
  ASSUME GroupInv, failed = "none", NEW p \in Spawns, ExitHandler(p)
  PROVE  GroupInv'
<1> USE DEF GroupInv, GroupShape
<1>0. /\ child[p] = "exited" /\ child' = [child EXCEPT ![p] = "reaped"]
      /\ UNCHANGED <<groupStarts, result, pipe, reading>>
      /\ PostFromFrame(<<"exit", p>>)
      /\ FrameOf(p, child[p], result[p], groupStrand, pipe[p])
  BY DEF ExitHandler, FrameInv
<1>1. ~InStrand(groupStrand, <<"spawn", p>>) /\ ~InStrand(groupStrand, <<"exit", p>>)
  BY <1>0 DEF FrameOf
<1>2. <<"exit", p>> \in Handler
  BY DEF Handler
<1>3. groupStrand' \in [Generations -> Seq(Handler)] /\ failed' \in {"none", "strand_"}
  BY <1>0, <1>2, FramePostsShape
<1>4. ASSUME failed' = "none" PROVE FrameInv'
  <2>1. /\ \A x : InStrand(groupStrand', x) <=>
                    InStrand(groupStrand, x) \/ x = <<"exit", p>>
        /\ \A x : OnePlace(groupStrand, x)
                  /\ (x # <<"exit", p>> \/ ~InStrand(groupStrand, <<"exit", p>>))
                  => OnePlace(groupStrand', x)
    BY <1>0, <1>2, <1>4, FramePosts
  <2>2. ASSUME NEW q \in Spawns
        PROVE  FrameOf(q, child'[q], result'[q], groupStrand', pipe'[q])
    <3>1. FrameOf(q, child[q], result[q], groupStrand, pipe[q])
      BY DEF FrameInv
    <3>2. CASE q = p
      <4>1. <<"spawn", p>> # <<"exit", p>>
        OBVIOUS
      <4> QED
        BY <1>0, <1>1, <2>1, <3>1, <3>2, <4>1 DEF FrameOf
    <3>3. CASE q # p
      <4>1. <<"spawn", q>> # <<"exit", p>> /\ <<"exit", q>> # <<"exit", p>>
        BY <3>3
      <4>2. child'[q] = child[q] /\ result'[q] = result[q] /\ pipe'[q] = pipe[q]
        BY <1>0, <3>3
      <4> QED
        BY <2>1, <3>1, <4>1, <4>2 DEF FrameOf
    <3> QED
      BY <3>2, <3>3
  <2> QED
    BY <2>2 DEF FrameInv
<1> QED
  BY <1>0, <1>3, <1>4

\* The handler of a line posts a read, which is neither an exit nor a spawn.
LEMMA LineHandlerStep ==
  ASSUME GroupInv, failed = "none", NEW p \in Spawns, LineHandler(p)
  PROVE  GroupInv'
<1> USE DEF GroupInv, GroupShape
<1>0. /\ UNCHANGED <<groupStarts, child, result, pipe>>
      /\ reading' = [reading EXCEPT ![p] = "no"]
      /\ PostFromFrame(<<"read", p>>)
  BY DEF LineHandler
<1>1. <<"read", p>> \in Handler
  BY DEF Handler
<1>2. groupStrand' \in [Generations -> Seq(Handler)] /\ failed' \in {"none", "strand_"}
  BY <1>0, <1>1, FramePostsShape
<1>3. ASSUME failed' = "none" PROVE FrameInv'
  <2>1. /\ \A x : InStrand(groupStrand', x) <=>
                    InStrand(groupStrand, x) \/ x = <<"read", p>>
        /\ \A x : OnePlace(groupStrand, x)
                  /\ (x # <<"read", p>> \/ ~InStrand(groupStrand, <<"read", p>>))
                  => OnePlace(groupStrand', x)
    BY <1>0, <1>1, <1>3, FramePosts
  <2>2. \A q : <<"spawn", q>> # <<"read", p>> /\ <<"exit", q>> # <<"read", p>>
    OBVIOUS
  <2> QED
    BY <1>0, <2>1, <2>2 DEF FrameInv, FrameOf
<1> QED
  BY <1>0, <1>2, <1>3

\* The strand takes a handler and runs it.
LEMMA GroupStrandStepInv ==
  ASSUME GroupInv, failed = "none", NEW g \in Generations, GroupStrandStep(g)
  PROVE  GroupInv'
<1> USE DEF GroupInv, GroupShape
<1>0. /\ groupStrand[g] # <<>> /\ groupStrand' = [groupStrand EXCEPT ![g] = Tail(@)]
      /\ groupStarts' = groupStarts
  BY DEF GroupStrandStep
<1>1. /\ groupStrand' \in [Generations -> Seq(Handler)]
      /\ Head(groupStrand[g]) \in Handler /\ InStrand(groupStrand, Head(groupStrand[g]))
      /\ \A x : InStrand(groupStrand', x) => InStrand(groupStrand, x)
      /\ \A x : x # Head(groupStrand[g]) /\ InStrand(groupStrand, x)
                  => InStrand(groupStrand', x)
      /\ \A x : OnePlace(groupStrand, x) => OnePlace(groupStrand', x)
      /\ OnePlace(groupStrand, Head(groupStrand[g]))
           => ~InStrand(groupStrand', Head(groupStrand[g]))
  <2>1. groupStrand \in [Generations -> Seq(Handler)]
    OBVIOUS
  <2>0. groupStrand[g] # <<>>
    BY <1>0
  <2>2. /\ groupStrand'[g] = Tail(groupStrand[g])
        /\ \A i \in Generations : i # g => groupStrand'[i] = groupStrand[i]
    BY <1>0
  <2>3. /\ Tail(groupStrand[g]) \in Seq(Handler)
        /\ Head(groupStrand[g]) \in Handler
        /\ InStrand(groupStrand, Head(groupStrand[g]))
    BY <2>0, <2>1, <2>2, TakenPlaces
  <2>7. groupStrand' \in [Generations -> Seq(Handler)]
    BY <1>0, <2>1, <2>3
  <2>4. /\ \A x : InStrand(groupStrand', x) => InStrand(groupStrand, x)
        /\ \A x : x # Head(groupStrand[g]) /\ InStrand(groupStrand, x)
                  => InStrand(groupStrand', x)
    BY <2>0, <2>1, <2>2, TakenPlaces
  <2>5. \A x : OnePlace(groupStrand, x) => OnePlace(groupStrand', x)
    BY <2>0, <2>1, <2>2, TakenPlaces
  <2>6. OnePlace(groupStrand, Head(groupStrand[g]))
           => ~InStrand(groupStrand', Head(groupStrand[g]))
    BY <2>0, <2>1, <2>2, TakenPlaces
  <2> QED
    BY <2>7, <2>3, <2>4, <2>5, <2>6, Zenon
<1>2. PICK kind \in {"spawn", "exit", "read", "start"}, p \in Spawns :
        /\ Head(groupStrand[g]) = <<kind, p>>
        /\ \/ kind = "spawn" /\ Launch(p)
           \/ kind = "exit" /\ OnExit(p)
           \/ kind = "read" /\ ReadNoMore(p)
           \/ kind = "start" /\ StartRead(p)
  BY <1>1 DEF GroupStrandStep, Handler
<1>3. FrameOf(p, child[p], result[p], groupStrand, pipe[p])
  BY DEF FrameInv
<1>4. ASSUME NEW q \in Spawns, q # p, failed' = "none",
             child'[q] = child[q], result'[q] = result[q], pipe'[q] = pipe[q]
      PROVE  FrameOf(q, child'[q], result'[q], groupStrand', pipe'[q])
  <2>1. FrameOf(q, child[q], result[q], groupStrand, pipe[q])
    BY DEF FrameInv
  <2>2. <<"spawn", q>> # <<kind, p>> /\ <<"exit", q>> # <<kind, p>>
    BY <1>4
  <2> QED
    BY <1>1, <1>2, <1>4, <2>1, <2>2 DEF FrameOf
<1>5. CASE kind = "spawn" /\ Launch(p)
  <2>1. child[p] = "posted" /\ ~InStrand(groupStrand', <<"spawn", p>>)
    BY <1>1, <1>2, <1>3, <1>5 DEF FrameOf
  <2>2. ~InStrand(groupStrand', <<"exit", p>>) /\ ~pipe[p]
    BY <1>1, <1>3, <2>1 DEF FrameOf
  <2>3. OnePlace(groupStrand', <<"spawn", p>>) /\ OnePlace(groupStrand', <<"exit", p>>)
    BY <1>1, <1>3 DEF FrameOf
  <2>4. CASE group # "running"
    BY <1>0, <1>1, <1>5, <2>4 DEF Launch
  <2>5. CASE /\ group = "running" /\ child' = [child EXCEPT ![p] = "running"]
             /\ pipe' = [pipe EXCEPT ![p] = p \in Piped]
             /\ reading' = [reading EXCEPT ![p] = IF p \in Piped THEN "pending" ELSE "no"]
             /\ UNCHANGED result
    <3>1. failed' = failed
      BY <1>5, <2>5 DEF Launch
    <3>2. pipe' \in [Spawns -> BOOLEAN] /\ \A q \in Spawns : q # p => pipe'[q] = pipe[q]
      <4>1. CASE p \in Piped
        <5>1. pipe' = [pipe EXCEPT ![p] = TRUE]
          BY <2>5, <4>1, Zenon
        <5> QED
          BY <5>1
      <4>2. CASE p \notin Piped
        <5>0. (p \in Piped) = FALSE
          BY <4>2
        <5>1. pipe' = [pipe EXCEPT ![p] = FALSE]
          BY <2>5, <5>0, Zenon
        <5> QED
          BY <5>1
      <4> QED
        BY <4>1, <4>2
    <3>3. ASSUME NEW q \in Spawns
          PROVE  FrameOf(q, child'[q], result'[q], groupStrand', pipe'[q])
      <4>1. CASE q = p
        <5>1. child'[p] = "running" /\ result'[p] = "none"
          BY <1>3, <2>1, <2>5 DEF FrameOf
        <5> QED
          BY <2>1, <2>2, <2>3, <4>1, <5>1 DEF FrameOf
      <4>2. CASE q # p
        BY <1>4, <2>5, <3>1, <3>2, <4>2
      <4> QED
        BY <4>1, <4>2
    <3>4. FrameInv'
      BY <3>3 DEF FrameInv
    <3> QED
      BY <1>0, <1>1, <2>5, <3>1, <3>2, <3>4
  <2>6. CASE /\ group = "running" /\ child' = [child EXCEPT ![p] = "done"]
             /\ result' = [result EXCEPT ![p] = "error"]
             /\ UNCHANGED <<pipe, reading>>
    <3>1. failed' = failed
      BY <1>5, <2>6 DEF Launch
    <3>2. ASSUME NEW q \in Spawns
          PROVE  FrameOf(q, child'[q], result'[q], groupStrand', pipe'[q])
      <4>1. CASE q = p
        <5>1. child'[p] = "done" /\ pipe'[p] = pipe[p]
          BY <2>6
        <5> QED
          BY <2>1, <2>2, <2>3, <4>1, <5>1 DEF FrameOf
      <4>2. CASE q # p
        BY <1>4, <2>6, <3>1, <4>2
      <4> QED
        BY <4>1, <4>2
    <3>3. FrameInv'
      BY <3>2 DEF FrameInv
    <3> QED
      BY <1>0, <1>1, <2>6, <3>1, <3>3
  <2> QED
    BY <1>5, <2>4, <2>5, <2>6 DEF Launch
<1>6. CASE kind = "exit" /\ OnExit(p)
  <2>1. child[p] = "reaped" /\ result[p] = "none" /\ ~InStrand(groupStrand', <<"exit", p>>)
    BY <1>1, <1>2, <1>3, <1>6 DEF FrameOf
  <2>2. ~InStrand(groupStrand', <<"spawn", p>>)
    BY <1>1, <1>3, <2>1 DEF FrameOf
  <2>3. OnePlace(groupStrand', <<"spawn", p>>) /\ OnePlace(groupStrand', <<"exit", p>>)
    BY <1>1, <1>3 DEF FrameOf
  <2>4. PICK r \in {"value", "error"} :
          /\ result' = [result EXCEPT ![p] = r]
          /\ pipe' = [pipe EXCEPT ![p] = FALSE]
          /\ child' = [child EXCEPT ![p] = "done"]
          /\ UNCHANGED <<reading, failed>>
    BY <1>6, <2>1 DEF OnExit, Cleanup
  <2>5. pipe' \in [Spawns -> BOOLEAN] /\ \A q \in Spawns : q # p => pipe'[q] = pipe[q]
    BY <2>4, Zenon
  <2>6. ~pipe'[p]
    BY <2>4, Zenon
  <2>7. ASSUME NEW q \in Spawns
        PROVE  FrameOf(q, child'[q], result'[q], groupStrand', pipe'[q])
    <3>1. CASE q = p
      <4>1. child'[p] = "done"
        BY <2>4
      <4> QED
        BY <2>2, <2>1, <2>3, <2>6, <3>1, <4>1 DEF FrameOf
    <3>2. CASE q # p
      BY <1>4, <2>4, <2>5, <3>2
    <3> QED
      BY <3>1, <3>2
  <2>8. FrameInv'
    BY <2>7 DEF FrameInv
  <2> QED
    BY <1>0, <1>1, <2>4, <2>5, <2>8
<1>7. CASE (kind = "read" /\ ReadNoMore(p)) \/ (kind = "start" /\ StartRead(p))
  <2>1. UNCHANGED <<child, result, pipe, failed>>
        /\ reading' \in [Spawns -> {"no", "pending", "line"}]
    BY <1>7 DEF ReadNoMore, StartRead
  <2>2. ASSUME NEW q \in Spawns
        PROVE  FrameOf(q, child[q], result[q], groupStrand', pipe[q])
    <3>1. <<"spawn", q>> # <<kind, p>> /\ <<"exit", q>> # <<kind, p>>
      BY <1>7
    <3>2. FrameOf(q, child[q], result[q], groupStrand, pipe[q])
      BY DEF FrameInv
    <3> QED
      BY <1>1, <1>2, <3>1, <3>2 DEF FrameOf
  <2> QED
    BY <1>0, <1>1, <2>1, <2>2 DEF FrameInv
<1> QED
  BY <1>2, <1>5, <1>6, <1>7

\* A handler checks the pipe before it starts the next read.
LEMMA CheckOpenStep ==
  ASSUME GroupInv, failed = "none", NEW g \in Generations, CheckOpen(g)
  PROVE  GroupInv'
<1> USE DEF GroupInv, GroupShape
<1>0. /\ groupStrand[g] # <<>> /\ Head(groupStrand[g])[1] = "read"
      /\ groupStrand' = [groupStrand EXCEPT ![g][1] = <<"start", Head(groupStrand[g])[2]>>]
      /\ UNCHANGED <<failed, groupStarts, child, result, pipe, reading>>
  BY DEF CheckOpen
<1>1. Head(groupStrand[g]) \in Handler
  BY <1>0, HeadTailProperties, EmptySeq
<1>2. PICK p \in Spawns : Head(groupStrand[g]) = <<"read", p>>
  BY <1>0, <1>1 DEF Handler
<1>3. /\ groupStrand' = [groupStrand EXCEPT ![g][1] = <<"start", p>>]
      /\ <<"start", p>> \in Handler
  <2>1. Head(groupStrand[g])[2] = p
    BY <1>2
  <2>2. <<"start", p>> \in Handler
    BY DEF Handler
  <2> QED
    BY <1>0, <2>1, <2>2, Zenon
<1>4. /\ groupStrand'[g] = [groupStrand[g] EXCEPT ![1] = <<"start", p>>]
      /\ \A i \in Generations : i # g => groupStrand'[i] = groupStrand[i]
  BY <1>3, Zenon
<1>5. /\ groupStrand'[g] \in Seq(Handler)
      /\ \A x : x # <<"start", p>> /\ x # Head(groupStrand[g]) =>
           /\ InStrand(groupStrand', x) <=> InStrand(groupStrand, x)
           /\ OnePlace(groupStrand, x) => OnePlace(groupStrand', x)
  BY <1>0, <1>3, <1>4, ReplacedPlaces
<1>6. groupStrand' \in [Generations -> Seq(Handler)]
  BY <1>3, <1>5
<1>7. ASSUME NEW q \in Spawns
      PROVE  FrameOf(q, child[q], result[q], groupStrand', pipe[q])
  <2>1. \A x \in {<<"spawn", q>>, <<"exit", q>>} :
          x # <<"start", p>> /\ x # Head(groupStrand[g])
    BY <1>2
  <2>2. FrameOf(q, child[q], result[q], groupStrand, pipe[q])
    BY DEF FrameInv
  <2> QED
    BY <1>5, <2>1, <2>2 DEF FrameOf
<1> QED
  BY <1>0, <1>6, <1>7 DEF FrameInv

\* Every step keeps GroupInv.
LEMMA GroupStepInv == GroupInv /\ [GroupNext]_allGroupVars => GroupInv'
<1> SUFFICES ASSUME GroupInv, [GroupNext]_allGroupVars PROVE GroupInv'
  OBVIOUS
<1>1. CASE UNCHANGED allGroupVars
  BY <1>1 DEF allGroupVars, groupVars, GroupInv, GroupShape, FrameInv
<1> SUFFICES ASSUME GroupNext PROVE GroupInv'
  BY <1>1
<1>0. failed = "none"
  BY DEF GroupNext
<1>2. CASE GroupOnStart
  <2>1. groupStarts' \in Generations
    BY <1>2, SpawnAssumption DEF GroupOnStart, GroupInv, GroupShape, Generations
  <2> QED
    BY <1>0, <1>2, <2>1, GroupUnchanged DEF GroupOnStart, GroupInv, GroupShape
<1>3. CASE GroupOnStop
  BY <1>3 DEF GroupOnStop, GroupInv, GroupShape, FrameInv, FrameOf
<1>4. CASE Stopped \/ GroupDestroy
  BY <1>0, <1>4, GroupUnchanged DEF Stopped, GroupDestroy, GroupInv, GroupShape
<1>5. CASE GroupIOService \/ GroupPool
  <2>1. UNCHANGED groupVars /\ failed' # "called_"
    BY <1>0, <1>5 DEF GroupIOService, GroupPool, IOStart, IOStop, RunReturns,
                      ThreadLeaves, JoinThreads
  <2> QED
    BY <1>0, <2>1, GroupUnchanged DEF groupVars, GroupInv, GroupShape
<1>6. ASSUME NEW g \in Generations, GroupStrandStep(g) PROVE GroupInv'
  BY <1>0, <1>6, GroupStrandStepInv
<1>13. ASSUME NEW g \in Generations, CheckOpen(g) PROVE GroupInv'
  BY <1>0, <1>13, CheckOpenStep
<1>7. ASSUME NEW p \in Spawns, ExitHandler(p) PROVE GroupInv'
  BY <1>0, <1>7, ExitHandlerStep
<1>8. ASSUME NEW p \in Spawns, LineHandler(p) PROVE GroupInv'
  BY <1>0, <1>8, LineHandlerStep
<1>9. ASSUME NEW p \in Spawns, Read(p) PROVE GroupInv'
  <2>1. reading' \in [Spawns -> {"no", "pending", "line"}]
    BY <1>9 DEF Read, ReadLine, ReadSome, ReadEnds, GroupInv, GroupShape
  <2> QED
    BY <1>0, <1>9, <2>1, GroupUnchanged DEF Read, GroupInv, GroupShape
<1>10. ASSUME NEW p \in Spawns, Spawn(p) PROVE GroupInv'
  BY <1>0, <1>10, SpawnStep
<1>11. ASSUME NEW p \in Spawns, ChildWrites(p) PROVE GroupInv'
  BY <1>0, <1>11, GroupUnchanged DEF ChildWrites, GroupInv, GroupShape
<1>12. ASSUME NEW p \in Spawns, ChildExits(p) PROVE GroupInv'
  BY <1>0, <1>12 DEF ChildExits, GroupInv, GroupShape, FrameInv, FrameOf
<1> QED
  BY <1>2, <1>3, <1>4, <1>5, <1>6, <1>7, <1>8, <1>9, <1>10, <1>11, <1>12,
     <1>13
  DEF GroupNext, GroupHandlers

\* An open pipe is held by its child or by the exit that waits in a strand.
LEMMA OpenPipesHeld ==
  ASSUME GroupInv, failed = "none", NEW p \in Spawns, pipe[p]
  PROVE  FrameHeld(p)
<1>1. FrameOf(p, child[p], result[p], groupStrand, pipe[p])
  BY DEF GroupInv, FrameInv
<1>2. CASE child[p] \in {"running", "exited"}
  BY <1>2 DEF FrameHeld
<1>3. CASE child[p] = "reaped"
  <2>1. PICK g, k : At(groupStrand, <<"exit", p>>, g, k)
    BY <1>1, <1>3 DEF FrameOf, InStrand
  <2>2. g \in Generations /\ <<"exit", p>> \in ToSet(groupStrand[g])
    BY <2>1 DEF At, ToSet, GroupInv, GroupShape
  <2>3. <<"exit", p>>[2] = p
    OBVIOUS
  <2> QED
    BY <2>2, <2>3, Zenon DEF FrameHeld
<1> QED
  BY <1>1, <1>2, <1>3 DEF FrameOf

\* Whatever holds a frame lets go of it after its pipe was closed, and on_exit
\* comes once per child, for any number of children and starts of the group
\* and in every order of reads, exits and stops.
THEOREM PipesClosed == GroupSpec => []StreamsClosed
<1>1. GroupInv => StreamsClosed
  BY OpenPipesHeld DEF GroupInv, StreamsClosed
<1> QED
  BY <1>1, GroupInitInv, GroupStepInv, PTL DEF GroupSpec
=============================================================================
