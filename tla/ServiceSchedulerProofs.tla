----------------------- MODULE ServiceSchedulerProofs -----------------------
(***************************************************************************)
(* Proofs about ServiceScheduler, for every finite dependency graph.  The  *)
(* handlers update uses_, inner_deps_missing_, outer_deps_missing_,        *)
(* pushes_ and pulls_ one increment at a time, through nested calls and    *)
(* loops over usages; the theorems say that each counter nevertheless      *)
(* equals what it counts after every handler, and that services therefore  *)
(* start and stop as ServiceLifecycle allows.                              *)
(*                                                                         *)
(* The invariant SInv is Exact, the counters of the state, and the IInv of *)
(* ServiceLifecycle; each is needed for the other: a cluster is locked     *)
(* because its counters are zero, and the counters change by what the      *)
(* phases of the life cycle leave possible.  The proof follows the code:   *)
(* first what an operator leaves alone (the lemmas ...Frame), then that    *)
(* each handler keeps the counters exact (...Exact), then one lemma per    *)
(* action (...Step).  A loop of the code is a fold, which has a recursive  *)
(* definition; FoldInduction and FoldGuarded reason about it.              *)
(*                                                                         *)
(* Of the counters only pushes_ need a graph without cycles of usages: a   *)
(* push released in a cycle stops at the ancestor where it began.          *)
(* QueueCorrect needs exact pushes_ too: its invariant QInv relates the    *)
(* queue to the phases, and the root to its own push.                      *)
(***************************************************************************)
EXTENDS ServiceScheduler, Integers, FiniteSetTheorems, WellFoundedInduction,
        TLAPS

-----------------------------------------------------------------------------
(* Counting, and folding over a set. *)

\* A set that is split into two parts has the sum of their sizes.
LEMMA SplitCount ==
  ASSUME NEW C, IsFiniteSet(C), NEW A, NEW B, C = A \cup B, A \cap B = {}
  PROVE  /\ IsFiniteSet(A) /\ IsFiniteSet(B)
         /\ Cardinality(A) \in Nat /\ Cardinality(B) \in Nat
         /\ Cardinality(C) = Cardinality(A) + Cardinality(B)
<1>1. IsFiniteSet(A) /\ IsFiniteSet(B)
  BY FS_Subset
<1>2. Cardinality(A) \in Nat /\ Cardinality(B) \in Nat
  BY <1>1, FS_CardinalityType
<1>3. Cardinality(A \cap B) = 0
  BY FS_EmptySet
<1>4. Cardinality(A \cup B) = Cardinality(A) + Cardinality(B) - Cardinality(A \cap B)
  BY <1>1, FS_Union
<1>5. QED
  BY <1>1, <1>2, <1>3, <1>4

IsSplit(C, A, B) == C = A \cup B /\ A \cap B = {}

\* The same for a split that is stated as a predicate.
LEMMA SplitSum ==
  ASSUME NEW C, IsFiniteSet(C), NEW A, NEW B, IsSplit(C, A, B)
  PROVE  /\ Cardinality(A) \in Nat /\ Cardinality(B) \in Nat
         /\ Cardinality(C) = Cardinality(A) + Cardinality(B)
BY SplitCount DEF IsSplit

\* Every set of edges is finite, and so is every set of services.
LEMMA EdgesFinite ==
  ASSUME NEW conns \in SUBSET Usages, NEW A, A \subseteq Edges(conns)
  PROVE  /\ IsFiniteSet(A) /\ Cardinality(A) \in Nat
         /\ Cardinality(A) = 0 <=> A = {}
<1>1. IsFiniteSet(conns)
  BY FS_Subset, GraphAssumption
<1>2. IsFiniteSet(ExportEdges)
  BY FS_Subset, GraphAssumption DEF ExportEdges, Heads
<1>3. IsFiniteSet(Edges(conns))
  BY <1>1, <1>2, FS_Union DEF Edges
<1>4. IsFiniteSet(A)
  BY <1>3, FS_Subset
<1>5. QED
  BY <1>4, FS_CardinalityType, FS_EmptySet

\* Sets of services are finite.
LEMMA ServicesFinite ==
  ASSUME NEW A, A \subseteq Services
  PROVE  /\ IsFiniteSet(A) /\ Cardinality(A) \in Nat
         /\ Cardinality(A) = 0 <=> A = {}
<1>1. IsFiniteSet(A)
  BY FS_Subset, GraphAssumption
<1>2. QED
  BY <1>1, FS_CardinalityType, FS_EmptySet

\* Every nonempty set of natural numbers has a least element.
LEMMA LeastNat ==
  ASSUME NEW C, C \subseteq Nat, C # {}
  PROVE  \E n \in C : \A m \in C : ~(m < n)
<1>1. IsWellFoundedOn(OpToRel(<, Nat), Nat)
  BY NatLessThanWellFounded, Zenon
<1>2. \E x \in C : \A y \in C : ~(<<y, x>> \in OpToRel(<, Nat))
  BY <1>1, WFMin, Zenon
<1>3. QED
  BY <1>2 DEF OpToRel

\* The element FoldSet takes from a set first.
Chosen(s) == CHOOSE x \in s : TRUE

\* f maps every subset of S to its fold with g.
IsFold(f, S, base, g) ==
  /\ f[{}] = base
  /\ \A s \in SUBSET S :
       s # {} => f[s] = g[<<Chosen(s), f[s \ {Chosen(s)}]>>]

\* A step that is closed on T has a fold over every finite set, by induction on
\* the size of the subsets.
LEMMA FoldExists ==
  ASSUME NEW S, IsFiniteSet(S), NEW T, NEW base \in T, NEW g \in [S \X T -> T]
  PROVE  \E f \in [SUBSET S -> T] : IsFold(f, S, base, g)
<1> DEFINE Small(n) == {s \in SUBSET S : Cardinality(s) <= n}
           Good(n) == \E f \in [Small(n) -> T] :
             \A s \in Small(n) : f[s] = IF s = {} THEN base
                                        ELSE g[<<Chosen(s), f[s \ {Chosen(s)}]>>]
           Bad == {n \in Nat : ~Good(n)}
<1>1. \A s \in SUBSET S : IsFiniteSet(s) /\ Cardinality(s) \in Nat
  BY FS_Subset, FS_CardinalityType
<1>2. \A s \in SUBSET S : s # {} =>
        /\ Chosen(s) \in S /\ s \ {Chosen(s)} \in SUBSET S
        /\ Cardinality(s \ {Chosen(s)}) = Cardinality(s) - 1
  BY <1>1, FS_RemoveElement DEF Chosen
<1>3. \A s \in SUBSET S : Cardinality(s) = 0 <=> s = {}
  BY <1>1, FS_EmptySet
<1>4. Good(0)
  <2>1. Small(0) = {{}}
    BY <1>1, <1>3
  <2>2. [s \in Small(0) |-> base] \in [Small(0) -> T]
    OBVIOUS
  <2>3. QED
    BY <2>1, <2>2
<1>5. ASSUME NEW n \in Nat, Good(n) PROVE Good(n + 1)
  <2>1. PICK f \in [Small(n) -> T] :
          \A s \in Small(n) : f[s] = IF s = {} THEN base
                                     ELSE g[<<Chosen(s), f[s \ {Chosen(s)}]>>]
    BY <1>5
  <2> DEFINE e == [s \in Small(n + 1) |->
                     IF s = {} THEN base
                     ELSE g[<<Chosen(s), f[s \ {Chosen(s)}]>>]]
  <2>2. \A s \in Small(n + 1) : s # {} =>
           Chosen(s) \in S /\ s \ {Chosen(s)} \in Small(n)
    BY <1>1, <1>2
  <2>3. e \in [Small(n + 1) -> T]
    BY <2>2
  <2>4. \A s \in Small(n) : s \in Small(n + 1) /\ e[s] = f[s]
    BY <1>1, <2>1
  <2>5. \A s \in Small(n + 1) : e[s] = IF s = {} THEN base
                                ELSE g[<<Chosen(s), e[s \ {Chosen(s)}]>>]
    BY <2>2, <2>4
  <2>6. QED
    BY <2>3, <2>5
<1>6. Good(Cardinality(S))
  <2>1. SUFFICES ASSUME ~Good(Cardinality(S)) PROVE FALSE
    OBVIOUS
  <2>2. Cardinality(S) \in Bad /\ Bad \subseteq Nat
    BY <2>1, <1>1
  <2> HIDE DEF Good
  <2>3. PICK n \in Bad : \A m \in Bad : ~(m < n)
    BY <2>2, LeastNat
  <2>4. n # 0
    BY <1>4, <2>3
  <2>5. n - 1 \in Nat /\ n = (n - 1) + 1 /\ Good(n - 1)
    BY <2>3, <2>4
  <2>6. QED
    BY <1>5, <2>3, <2>5
<1>7. Small(Cardinality(S)) = SUBSET S
  <2>1. \A s \in SUBSET S : Cardinality(s) <= Cardinality(S)
    BY FS_Subset
  <2>2. QED
    BY <2>1
<1>8. QED
  BY <1>6, <1>7 DEF IsFold

\* A property of a set and its fold holds if the empty set and every step keep it.
LEMMA FoldInduction ==
  ASSUME NEW S, IsFiniteSet(S), NEW Q, NEW f, f[{}] \in Q[{}],
         \A s \in SUBSET S : \A x \in s :
            x = Chosen(s) /\ f[s \ {x}] \in Q[s \ {x}] => f[s] \in Q[s]
  PROVE  f[S] \in Q[S]
<1> DEFINE Bad == {n \in Nat : \E s \in SUBSET S : Cardinality(s) = n /\ f[s] \notin Q[s]}
<1>1. \A s \in SUBSET S : IsFiniteSet(s) /\ Cardinality(s) \in Nat
  BY FS_Subset, FS_CardinalityType
<1>2. \A s \in SUBSET S : s # {} =>
        /\ Chosen(s) \in s /\ s \ {Chosen(s)} \in SUBSET S
        /\ Cardinality(s \ {Chosen(s)}) = Cardinality(s) - 1
  BY <1>1, FS_RemoveElement DEF Chosen
<1>3. SUFFICES ASSUME f[S] \notin Q[S] PROVE FALSE
  OBVIOUS
<1>4. Cardinality(S) \in Bad
  BY <1>1, <1>3
<1>5. PICK n \in Bad : \A m \in Bad : ~(m < n)
  BY <1>4, LeastNat
<1>6. PICK s \in SUBSET S : Cardinality(s) = n /\ f[s] \notin Q[s]
  BY <1>5
<1>7. s # {}
  BY <1>6
<1>8. f[s \ {Chosen(s)}] \in Q[s \ {Chosen(s)}]
  BY <1>1, <1>2, <1>5, <1>6, <1>7
<1>9. QED
  BY <1>2, <1>6, <1>7, <1>8

\* A step that leads from the states of a set without x to the states of the set
\* has a fold that is in the states of every subset.
FoldStep(S, Q, g) ==
  \A s \in SUBSET S : \A x \in s : \A t \in Q[s \ {x}] : g[<<x, t>>] \in Q[s]

\* A fold whose step keeps a family of sets Q stays in it.
LEMMA FoldGuarded ==
  ASSUME NEW S, IsFiniteSet(S), NEW T, NEW Q, \A s \in SUBSET S : Q[s] \subseteq T,
         NEW base, base \in Q[{}], NEW g, FoldStep(S, Q, g)
  PROVE  \E f \in [SUBSET S -> T] :
           IsFold(f, S, base, g) /\ \A s \in SUBSET S : f[s] \in Q[s]
<1>1. PICK c : c = [p \in S \X T |-> IF g[p] \in T THEN g[p] ELSE base]
  OBVIOUS
<1>2. base \in T
  OBVIOUS
<1>3. c \in [S \X T -> T]
  BY <1>1, <1>2
<1>4. PICK f \in [SUBSET S -> T] : IsFold(f, S, base, c)
  BY <1>2, <1>3, FoldExists, Zenon
<1>5. /\ f[{}] = base
      /\ \A s \in SUBSET S : s # {} => f[s] = c[<<Chosen(s), f[s \ {Chosen(s)}]>>]
  BY <1>4 DEF IsFold
<1>6. ASSUME NEW s \in SUBSET S, NEW x \in s, x = Chosen(s),
             f[s \ {x}] \in Q[s \ {x}]
      PROVE  f[s] \in Q[s] /\ f[s] = g[<<x, f[s \ {x}]>>]
  <2>1. PICK t : t = f[s \ {x}]
    OBVIOUS
  <2>2. f[s] = c[<<x, t>>]
    BY <1>5, <1>6, <2>1
  <2>3. t \in Q[s \ {x}] /\ x \in S /\ t \in T
    BY <1>6, <2>1
  <2>4. g[<<x, t>>] \in Q[s]
    BY <2>3 DEF FoldStep
  <2>5. g[<<x, t>>] \in T
    BY <2>4
  <2>6. c[<<x, t>>] = g[<<x, t>>]
    BY <1>1, <2>3, <2>5
  <2>7. QED
    BY <2>1, <2>2, <2>4, <2>6
<1>7. ASSUME NEW s \in SUBSET S PROVE f[s] \in Q[s]
  <2>1. IsFiniteSet(s)
    BY FS_Subset
  <2>2. \A r \in SUBSET s : \A x \in r :
          x = Chosen(r) /\ f[r \ {x}] \in Q[r \ {x}] => f[r] \in Q[r]
    BY <1>6
  <2>3. f[{}] \in Q[{}]
    BY <1>5
  <2>4. QED
    BY <2>1, <2>2, <2>3, FoldInduction
<1>8. \A s \in SUBSET S : s # {} => f[s] = g[<<Chosen(s), f[s \ {Chosen(s)}]>>]
  BY <1>6, <1>7 DEF Chosen
<1>9. IsFold(f, S, base, g)
  BY <1>5, <1>8 DEF IsFold
<1>10. QED
  BY <1>4, <1>7, <1>9

-----------------------------------------------------------------------------
(* The records the handlers work on, and what each handler leaves alone. *)

\* The counters are integers here: that none is decremented below zero follows
\* from what they count.
States ==
  [phase : [Services -> Phase], uses : [Services -> Int],
   inner : [Services -> Int], markStop : [Heads -> BOOLEAN],
   markStart : [Heads -> BOOLEAN], override : [Heads -> BOOLEAN],
   target : [Heads -> {"none", "start", "stop"}], promise : [Heads -> BOOLEAN],
   running : [Heads -> Int], outer : [Heads -> Int], pushes : [Heads -> Int],
   pulls : [Heads -> Int], conn : SUBSET Usages, released : SUBSET Usages,
   down : SUBSET Services, up : SUBSET Services, processing : BOOLEAN,
   dispatched : BOOLEAN, recheck : SUBSET Heads]

\* The fields the parts of the invariant are about are the same.
EqLife(a, b) == b.phase = a.phase /\ b.running = a.running
EqUses(a, b) == b.uses = a.uses
EqReq(a, b) == b.inner = a.inner /\ b.outer = a.outer
EqPush(a, b) == b.pushes = a.pushes /\ b.override = a.override
EqPull(a, b) == b.pulls = a.pulls /\ b.markStop = a.markStop
EqConn(a, b) == b.conn = a.conn /\ b.released = a.released

EqCounters(a, b) ==
  /\ EqLife(a, b) /\ EqUses(a, b) /\ EqReq(a, b) /\ EqPush(a, b)
  /\ EqPull(a, b) /\ EqConn(a, b)

\* Iterate changes no counter.
LEMMA IterateFrame ==
  ASSUME NEW st \in States
  PROVE  Iterate(st) \in States /\ EqCounters(st, Iterate(st))
BY DEF Iterate, States, EqCounters, EqLife, EqUses, EqReq, EqPush, EqPull, EqConn

\* Queueing services to be stopped changes no counter.
LEMMA PushDownFrame ==
  ASSUME NEW st \in States, NEW S \in SUBSET Services
  PROVE  PushDown(st, S) \in States /\ EqCounters(st, PushDown(st, S))
BY DEF PushDown, Iterate, States, EqCounters, EqLife, EqUses, EqReq, EqPush,
       EqPull, EqConn

\* Queueing services to be started changes no counter.
LEMMA PushUpFrame ==
  ASSUME NEW st \in States, NEW S \in SUBSET Services
  PROVE  PushUp(st, S) \in States /\ EqCounters(st, PushUp(st, S))
BY DEF PushUp, Iterate, States, EqCounters, EqLife, EqUses, EqReq, EqPush,
       EqPull, EqConn

\* Looking for stoppable services changes no counter.
LEMMA CheckStoppableFrame ==
  ASSUME NEW st \in States, NEW S \in SUBSET Services
  PROVE  /\ CheckStoppable(st, S) \in States
         /\ EqCounters(st, CheckStoppable(st, S))
<1>1. {s \in S : IsStoppable(st, s) /\ ShallStop(st, Head[s])} \in SUBSET Services
  OBVIOUS
<1>2. QED
  BY <1>1, PushDownFrame DEF CheckStoppable

\* Looking for startable services of a cluster changes no counter.
LEMMA CheckAnyFrame ==
  ASSUME NEW st \in States, NEW H
  PROVE  /\ CheckAnyInClusterStartable(st, H) \in States
         /\ EqCounters(st, CheckAnyInClusterStartable(st, H))
BY PushUpFrame DEF CheckAnyInClusterStartable

\* Looking for startable parents changes no counter.
LEMMA CheckInnerFrame ==
  ASSUME NEW st \in States, NEW S \in SUBSET Services
  PROVE  /\ CheckInnerStartable(st, S) \in States
         /\ EqCounters(st, CheckInnerStartable(st, S))
<1>1. {s \in S : IsStartable(st, s) /\ ShallStart(st, Head[s])} \in SUBSET Services
  OBVIOUS
<1>2. QED
  BY <1>1, PushUpFrame DEF CheckInnerStartable

\* Replacing one field keeps the record a state.
LEMMA PutPhase ==
  ASSUME NEW st \in States, NEW v \in [Services -> Phase]
  PROVE  [st EXCEPT !.phase = v] \in States
BY DEF States

\* The same for uses_.
LEMMA PutUses ==
  ASSUME NEW st \in States, NEW v \in [Services -> Int]
  PROVE  [st EXCEPT !.uses = v] \in States
BY DEF States

\* The same for inner_deps_missing_.
LEMMA PutInner ==
  ASSUME NEW st \in States, NEW v \in [Services -> Int]
  PROVE  [st EXCEPT !.inner = v] \in States
BY DEF States

\* For the count of running members.
LEMMA PutRunning ==
  ASSUME NEW st \in States, NEW v \in [Heads -> Int]
  PROVE  [st EXCEPT !.running = v] \in States
BY DEF States

\* For outer_deps_missing_.
LEMMA PutOuter ==
  ASSUME NEW st \in States, NEW v \in [Heads -> Int]
  PROVE  [st EXCEPT !.outer = v] \in States
BY DEF States

\* For pushes_.
LEMMA PutPushes ==
  ASSUME NEW st \in States, NEW v \in [Heads -> Int]
  PROVE  [st EXCEPT !.pushes = v] \in States
BY DEF States

\* For pulls_.
LEMMA PutPulls ==
  ASSUME NEW st \in States, NEW v \in [Heads -> Int]
  PROVE  [st EXCEPT !.pulls = v] \in States
BY DEF States

\* For the start marks.
LEMMA PutMarkStart ==
  ASSUME NEW st \in States, NEW v \in [Heads -> BOOLEAN]
  PROVE  [st EXCEPT !.markStart = v] \in States
BY DEF States

\* For the stop marks.
LEMMA PutMarkStop ==
  ASSUME NEW st \in States, NEW v \in [Heads -> BOOLEAN]
  PROVE  [st EXCEPT !.markStop = v] \in States
BY DEF States

\* For the overrides.
LEMMA PutOverride ==
  ASSUME NEW st \in States, NEW v \in [Heads -> BOOLEAN]
  PROVE  [st EXCEPT !.override = v] \in States
BY DEF States

\* Adding to a counter, or subtracting from it and checking, changes it only.
LEMMA UsesIncrementFrame ==
  ASSUME NEW st \in States, NEW by \in [Services -> Int],
         NEW nx, nx = OnOutgoingIncrement(st, by)
  PROVE  /\ nx \in States
         /\ EqLife(st, nx) /\ EqReq(st, nx) /\ EqPush(st, nx) /\ EqPull(st, nx) /\ EqConn(st, nx)
         /\ \A s \in Services : nx.uses[s] = st.uses[s] + by[s]
<1> DEFINE v == [s \in Services |-> st.uses[s] + by[s]]
           md == [st EXCEPT !.uses = v]
<1>1. st.uses \in [Services -> Int]
  BY DEF States
<1>2. v \in [Services -> Int]
  BY <1>1
<1>3. \A s \in Services : v[s] = st.uses[s] + by[s]
  OBVIOUS
<1> HIDE DEF v
<1>4. md \in States
  BY <1>2, PutUses
<1>5. /\ EqLife(st, md) /\ EqReq(st, md) /\ EqPush(st, md) /\ EqPull(st, md) /\ EqConn(st, md)
      /\ md.uses = v
  BY DEF States, EqLife, EqReq, EqPush, EqPull, EqConn
<1>6. nx = md
  BY DEF OnOutgoingIncrement, v
<1>7. QED
  BY <1>3, <1>4, <1>5, <1>6

\* on_outgoing_decrement takes by off uses_, no more.
LEMMA UsesDecrementFrame ==
  ASSUME NEW st \in States, NEW by \in [Services -> Int],
         NEW nx, nx = OnOutgoingDecrement(st, by)
  PROVE  /\ nx \in States
         /\ EqLife(st, nx) /\ EqReq(st, nx) /\ EqPush(st, nx) /\ EqPull(st, nx) /\ EqConn(st, nx)
         /\ \A s \in Services : nx.uses[s] = st.uses[s] - by[s]
<1> DEFINE v == [s \in Services |-> st.uses[s] - by[s]]
           md == [st EXCEPT !.uses = v]
<1>1. st.uses \in [Services -> Int]
  BY DEF States
<1>2. v \in [Services -> Int]
  BY <1>1
<1>3. \A s \in Services : v[s] = st.uses[s] - by[s]
  OBVIOUS
<1> HIDE DEF v
<1>4. md \in States
  BY <1>2, PutUses
<1>5. /\ EqLife(st, md) /\ EqReq(st, md) /\ EqPush(st, md) /\ EqPull(st, md) /\ EqConn(st, md)
      /\ md.uses = v
  BY DEF States, EqLife, EqReq, EqPush, EqPull, EqConn
<1> DEFINE unused == {s \in Services : by[s] # 0 /\ md.uses[s] = 1}
           parents == {s \in Members : md.uses[s] <= 2 /\ 2 < st.uses[s]}
           S == unused \cup {Head[s] : s \in parents}
<1>6. S \in SUBSET Services
  BY GraphAssumption
<1>7. nx = CheckStoppable(md, S)
  BY DEF OnOutgoingDecrement, v
<1> HIDE DEF md, S
<1>8. nx \in States /\ EqCounters(md, nx)
  BY <1>4, <1>6, <1>7, CheckStoppableFrame
<1>9. QED
  BY <1>3, <1>5, <1>8 DEF EqCounters, EqLife, EqUses, EqReq, EqPush, EqPull, EqConn

\* on_outer_required_increment adds by to outer_deps_missing_.
LEMMA OuterIncrementFrame ==
  ASSUME NEW st \in States, NEW by \in [Heads -> Int],
         NEW nx, nx = OnOuterRequiredIncrement(st, by)
  PROVE  /\ nx \in States
         /\ EqLife(st, nx) /\ EqUses(st, nx) /\ EqPush(st, nx) /\ EqPull(st, nx) /\ EqConn(st, nx)
         /\ nx.inner = st.inner
         /\ \A h \in Heads : nx.outer[h] = st.outer[h] + by[h]
<1> DEFINE v == [h \in Heads |-> st.outer[h] + by[h]]
           md == [st EXCEPT !.outer = v]
<1>1. st.outer \in [Heads -> Int]
  BY DEF States
<1>2. v \in [Heads -> Int]
  BY <1>1
<1>3. \A h \in Heads : v[h] = st.outer[h] + by[h]
  OBVIOUS
<1> HIDE DEF v
<1>4. md \in States
  BY <1>2, PutOuter
<1>5. /\ EqLife(st, md) /\ EqUses(st, md) /\ EqPush(st, md) /\ EqPull(st, md) /\ EqConn(st, md)
      /\ md.inner = st.inner
      /\ md.outer = v
  BY DEF States, EqLife, EqUses, EqPush, EqPull, EqConn
<1>6. nx = md
  BY DEF OnOuterRequiredIncrement, v
<1>7. QED
  BY <1>3, <1>4, <1>5, <1>6

\* on_outer_required_decrement takes by off outer_deps_missing_.
LEMMA OuterDecrementFrame ==
  ASSUME NEW st \in States, NEW by \in [Heads -> Int],
         NEW nx, nx = OnOuterRequiredDecrement(st, by)
  PROVE  /\ nx \in States
         /\ EqLife(st, nx) /\ EqUses(st, nx) /\ EqPush(st, nx) /\ EqPull(st, nx) /\ EqConn(st, nx)
         /\ nx.inner = st.inner
         /\ \A h \in Heads : nx.outer[h] = st.outer[h] - by[h]
<1> DEFINE v == [h \in Heads |-> st.outer[h] - by[h]]
           md == [st EXCEPT !.outer = v]
<1>1. st.outer \in [Heads -> Int]
  BY DEF States
<1>2. v \in [Heads -> Int]
  BY <1>1
<1>3. \A h \in Heads : v[h] = st.outer[h] - by[h]
  OBVIOUS
<1> HIDE DEF v
<1>4. md \in States
  BY <1>2, PutOuter
<1>5. /\ EqLife(st, md) /\ EqUses(st, md) /\ EqPush(st, md) /\ EqPull(st, md) /\ EqConn(st, md)
      /\ md.inner = st.inner
      /\ md.outer = v
  BY DEF States, EqLife, EqUses, EqPush, EqPull, EqConn
<1>6. nx = CheckAnyInClusterStartable(md, {h \in Heads : by[h] # 0 /\ md.outer[h] = 0})
  BY DEF OnOuterRequiredDecrement, v
<1> HIDE DEF md
<1>7. nx \in States /\ EqCounters(md, nx)
  BY <1>4, <1>6, CheckAnyFrame
<1>8. QED
  BY <1>3, <1>5, <1>7 DEF EqCounters, EqLife, EqUses, EqReq, EqPush, EqPull, EqConn

\* on_pulls_increment adds by to pulls_.
LEMMA PullsIncrementFrame ==
  ASSUME NEW st \in States, NEW by \in [Heads -> Int],
         NEW nx, nx = OnPullsIncrement(st, by)
  PROVE  /\ nx \in States
         /\ EqLife(st, nx) /\ EqUses(st, nx) /\ EqReq(st, nx) /\ EqPush(st, nx) /\ EqConn(st, nx)
         /\ nx.markStop = st.markStop
         /\ \A h \in Heads : nx.pulls[h] = st.pulls[h] + by[h]
<1> DEFINE v == [h \in Heads |-> st.pulls[h] + by[h]]
           md == [st EXCEPT !.pulls = v]
<1>1. st.pulls \in [Heads -> Int]
  BY DEF States
<1>2. v \in [Heads -> Int]
  BY <1>1
<1>3. \A h \in Heads : v[h] = st.pulls[h] + by[h]
  OBVIOUS
<1> HIDE DEF v
<1>4. md \in States
  BY <1>2, PutPulls
<1>5. /\ EqLife(st, md) /\ EqUses(st, md) /\ EqReq(st, md) /\ EqPush(st, md) /\ EqConn(st, md)
      /\ md.markStop = st.markStop
      /\ md.pulls = v
  BY DEF States, EqLife, EqUses, EqReq, EqPush, EqConn
<1>6. nx = md
  BY DEF OnPullsIncrement, v
<1>7. QED
  BY <1>3, <1>4, <1>5, <1>6

\* on_pulls_decrement takes by off pulls_.
LEMMA PullsDecrementFrame ==
  ASSUME NEW st \in States, NEW by \in [Heads -> Int],
         NEW nx, nx = OnPullsDecrement(st, by)
  PROVE  /\ nx \in States
         /\ EqLife(st, nx) /\ EqUses(st, nx) /\ EqReq(st, nx) /\ EqPush(st, nx) /\ EqConn(st, nx)
         /\ nx.markStop = st.markStop
         /\ \A h \in Heads : nx.pulls[h] = st.pulls[h] - by[h]
<1> DEFINE v == [h \in Heads |-> st.pulls[h] - by[h]]
           md == [st EXCEPT !.pulls = v]
<1>1. st.pulls \in [Heads -> Int]
  BY DEF States
<1>2. v \in [Heads -> Int]
  BY <1>1
<1>3. \A h \in Heads : v[h] = st.pulls[h] - by[h]
  OBVIOUS
<1> HIDE DEF v
<1>4. md \in States
  BY <1>2, PutPulls
<1>5. /\ EqLife(st, md) /\ EqUses(st, md) /\ EqReq(st, md) /\ EqPush(st, md) /\ EqConn(st, md)
      /\ md.markStop = st.markStop
      /\ md.pulls = v
  BY DEF States, EqLife, EqUses, EqReq, EqPush, EqConn
<1>6. nx = CheckAnyInClusterStartable(md, {h \in Heads : by[h] # 0 /\ md.pulls[h] = 0})
  BY DEF OnPullsDecrement, v
<1> HIDE DEF md
<1>7. nx \in States /\ EqCounters(md, nx)
  BY <1>4, <1>6, CheckAnyFrame
<1>8. QED
  BY <1>3, <1>5, <1>7 DEF EqCounters, EqLife, EqUses, EqReq, EqPush, EqPull, EqConn

-----------------------------------------------------------------------------
(* What the counters of a record count. *)

UseEdges(st, s) == {e \in OutEdges(st.conn, s) : st.phase[Dst(e)] # "stopped"}
LockedSet(st) == {x \in Services : st.phase[x] # "stopped"}
Users(st, s) == Cardinality(UseEdges(st, s)) + ImplicitUses(LockedSet(st), s)
UsedByParent(st, s) ==
  IF s \in Members /\ st.phase[Parent[s]] \in {"starting", "running", "stopping"}
  THEN 1 ELSE 0

UsesCount(st, hd, s) ==
  IF st.phase[s] = "running" THEN 1 + hd[s] + UsedByParent(st, s) + Users(st, s)
  ELSE IF st.phase[s] = "starting" THEN 1 + hd[s] + UsedByParent(st, s)
  ELSE 0

UsesOf(st, hd) == \A s \in Services : st.uses[s] = UsesCount(st, hd, s)

\* Other threads hold uses of services that are up only.
HeldOf(st, hd) ==
  /\ hd \in [Services -> Nat]
  /\ \A s \in Services : st.phase[s] \notin {"starting", "running"} => hd[s] = 0

MissingInner(st, s) == {x \in InnerChildren(s) : st.phase[x] # "running"}
InnerOf(st) == \A s \in Services : st.inner[s] = Cardinality(MissingInner(st, s))

MissingEdges(st, h) ==
  {e \in StrongEdges(ClusterInEdges(st.conn, h)) : st.phase[Src(e)] # "running"}
MissingRoot(st, h) ==
  {s \in ClusterMembers(h) : HasImplicitRootEdge(s) /\ st.phase[Root] # "running"}
OuterOf(st) ==
  \A h \in Heads : st.outer[h] = Cardinality(MissingEdges(st, h))
                                 + Cardinality(MissingRoot(st, h))

PullEdges(st, h) == {e \in ClusterInEdges(st.conn, h) : st.markStop[Head[Src(e)]]}
PullsOf(st) == \A h \in Heads : st.pulls[h] = Cardinality(PullEdges(st, h))

ActiveMembers(st, h) ==
  {s \in ClusterMembers(h) : st.phase[s] \notin {"stopped", "pending"}}
RunsOf(st) == \A h \in Heads : st.running[h] = Cardinality(ActiveMembers(st, h))

\* Strong usages stay connected, and only weak ones are asked to be released.
ConnOf(st) == Usages \ Weak \subseteq st.conn /\ st.released \subseteq st.conn \cap Weak

\* No cycle of usages and parents: clusters have a rank.
Acyclic ==
  \E rank \in [Heads -> Nat] :
    \A e \in Edges(Usages) : rank[Head[Src(e)]] < rank[Head[Dst(e)]]

PushEdges(st, h) ==
  {e \in ClusterOutEdges(st.conn, h) : st.pushes[Head[Dst(e)]] # 0}
OwnPush(st, h) == IF st.override[h] THEN 1 ELSE 0
PushesOf(st) ==
  \A h \in Heads : st.pushes[h] = OwnPush(st, h) + Cardinality(PushEdges(st, h))

Exact(st, hd) ==
  /\ UsesOf(st, hd) /\ HeldOf(st, hd) /\ InnerOf(st) /\ OuterOf(st)
  /\ PullsOf(st) /\ RunsOf(st) /\ ConnOf(st)
  /\ Acyclic => PushesOf(st)

\* The parts depend on their own fields.
LEMMA UsesSame ==
  ASSUME NEW a, NEW b, NEW hd, UsesOf(a, hd), b.phase = a.phase,
         b.conn = a.conn, b.uses = a.uses
  PROVE  UsesOf(b, hd)
BY DEF UsesOf, UsesCount, UsedByParent, Users, UseEdges, LockedSet

\* HeldOf reads the phases only.
LEMMA HeldSame ==
  ASSUME NEW a, NEW b, NEW hd, HeldOf(a, hd), b.phase = a.phase
  PROVE  HeldOf(b, hd)
BY DEF HeldOf

\* Missing dependencies depend on phases and connections.
LEMMA ReqSame ==
  ASSUME NEW a, NEW b, b.phase = a.phase, b.conn = a.conn, EqReq(a, b),
         InnerOf(a), OuterOf(a)
  PROVE  InnerOf(b) /\ OuterOf(b)
BY DEF InnerOf, MissingInner, OuterOf, MissingEdges, MissingRoot, EqReq

\* pulls_ depend on connections and stop marks.
LEMMA PullsSame ==
  ASSUME NEW a, NEW b, b.conn = a.conn, EqPull(a, b), PullsOf(a)
  PROVE  PullsOf(b)
BY DEF PullsOf, PullEdges, EqPull

\* The running count depends on the phases.
LEMMA RunsSame ==
  ASSUME NEW a, NEW b, EqLife(a, b), RunsOf(a)
  PROVE  RunsOf(b)
BY DEF RunsOf, ActiveMembers, EqLife

\* pushes_ depend on connections, overrides and themselves.
LEMMA PushesSame ==
  ASSUME NEW a, NEW b, b.conn = a.conn, EqPush(a, b), PushesOf(a)
  PROVE  PushesOf(b)
BY DEF PushesOf, PushEdges, OwnPush, EqPush

\* A step that changes no counter keeps them exact.
LEMMA ExactSame ==
  ASSUME NEW a, NEW b, NEW hd, Exact(a, hd), EqCounters(a, b)
  PROVE  Exact(b, hd)
<1>1. /\ EqLife(a, b) /\ EqReq(a, b) /\ EqPush(a, b) /\ EqPull(a, b)
      /\ b.phase = a.phase /\ b.uses = a.uses /\ b.conn = a.conn
      /\ b.released = a.released
  BY DEF EqCounters, EqLife, EqUses, EqConn
<1>2. UsesOf(b, hd) /\ HeldOf(b, hd)
  BY <1>1, UsesSame, HeldSame DEF Exact
<1>3. InnerOf(b) /\ OuterOf(b)
  BY <1>1, ReqSame DEF Exact
<1>4. PullsOf(b)
  BY <1>1, PullsSame DEF Exact
<1>5. RunsOf(b)
  BY <1>1, RunsSame DEF Exact
<1>6. Acyclic => PushesOf(b)
  BY <1>1, PushesSame DEF Exact
<1>7. ConnOf(b)
  BY <1>1 DEF Exact, ConnOf
<1>8. QED
  BY <1>2, <1>3, <1>4, <1>5, <1>6, <1>7 DEF Exact

-----------------------------------------------------------------------------
(* The graph. *)

\* What the assumptions say of heads, members and the root.
LEMMA GraphFacts ==
  /\ Root \in Services /\ Root \in Heads /\ Head[Root] = Root
  /\ Heads \subseteq Services
  /\ \A s \in Services : Head[s] \in Heads /\ Head[s] \in Services
  /\ \A h \in Heads : Head[h] = h
  /\ \A m \in Members : /\ m \in Services /\ m # Root /\ Parent[m] \in Services
                        /\ Parent[m] # Root /\ Head[m] = Head[Parent[m]]
  /\ ClusterMembers(Root) = {Root} /\ InnerChildren(Root) = {}
BY GraphAssumption, RootAssumption DEF Heads, ClusterMembers, InnerChildren

\* The ends of an edge are services, and no edge ends in the root.
LEMMA EdgeFacts ==
  ASSUME NEW conns \in SUBSET Usages, NEW e \in Edges(conns)
  PROVE  /\ Src(e) \in Services /\ Dst(e) \in Services
         /\ Dst(e) # Root /\ Head[Dst(e)] # Root
BY GraphAssumption, RootAssumption DEF Edges, ExportEdges, Heads, Src, Dst

\* A usage joins two services of different clusters, never the root.
LEMMA UsageFacts ==
  ASSUME NEW u \in Usages
  PROVE  /\ Src(u) = Used[u] /\ Dst(u) = User[u]
         /\ Used[u] \in Services /\ User[u] \in Services
         /\ Used[u] # Root /\ User[u] # Root
         /\ u \notin ExportEdges /\ Head[Used[u]] # Head[User[u]]
BY GraphAssumption, RootAssumption, NoInnerUsage DEF ExportEdges, Heads, Src, Dst

\* What the handlers ask of the graph are sets of edges.
LEMMA EdgeSets ==
  ASSUME NEW conns \in SUBSET Usages
  PROVE  /\ \A s : OutEdges(conns, s) \subseteq Edges(conns)
         /\ \A h : ClusterInEdges(conns, h) \subseteq Edges(conns)
         /\ \A h : ClusterOutEdges(conns, h) \subseteq Edges(conns)
         /\ \A h : StrongEdges(ClusterInEdges(conns, h)) \subseteq Edges(conns)
         /\ \A s : StrongEdges(OutEdges(conns, s)) \subseteq Edges(conns)
BY DEF OutEdges, ClusterInEdges, ClusterOutEdges, StrongEdges

-----------------------------------------------------------------------------
(* The handlers that change one kind of counter. *)

\* The types of the fields of a record.
LEMMA StateFields ==
  ASSUME NEW st \in States
  PROVE  /\ st.phase \in [Services -> Phase] /\ st.uses \in [Services -> Int]
         /\ st.inner \in [Services -> Int] /\ st.running \in [Heads -> Int]
         /\ st.outer \in [Heads -> Int] /\ st.pushes \in [Heads -> Int]
         /\ st.pulls \in [Heads -> Int] /\ st.conn \in SUBSET Usages
         /\ st.released \in SUBSET Usages /\ st.down \in SUBSET Services
         /\ st.up \in SUBSET Services /\ st.recheck \in SUBSET Heads
         /\ st.target \in [Heads -> {"none", "start", "stop"}]
BY DEF States

\* What a service is required by is a number for every cluster.
LEMMA RequiredByType ==
  ASSUME NEW st \in States, NEW s \in Services
  PROVE  RequiredBy(st, s) \in [Heads -> Int]
<1>1. \A h \in Heads : Cardinality(ClusterMembers(h) \ {Root}) \in Nat
  BY ServicesFinite DEF ClusterMembers
<1>2. \A h \in Heads : Cardinality({e \in StrongEdges(OutEdges(st.conn, s)) :
                                     Head[Dst(e)] = h}) \in Nat
  BY StateFields, EdgeSets, EdgesFinite
<1>3. QED
  BY <1>1, <1>2 DEF RequiredBy

\* A service that runs is missed by its parent and its users no more.
LEMMA RequiredDecrementFrame ==
  ASSUME NEW st \in States, NEW s \in Services,
         NEW nx, nx = CallOnRequiredDecrement(st, s)
  PROVE  /\ nx \in States
         /\ EqLife(st, nx) /\ EqUses(st, nx) /\ EqPush(st, nx) /\ EqPull(st, nx)
         /\ EqConn(st, nx)
         /\ \A x \in Services : nx.inner[x] = st.inner[x] -
                 (IF s \in Members /\ x = Parent[s] THEN 1 ELSE 0)
         /\ \A h \in Heads : nx.outer[h] = st.outer[h] - RequiredBy(st, s)[h]
<1> DEFINE p == IF s \in Members THEN {Parent[s]} ELSE {}
           v == [x \in Services |-> st.inner[x] - IF x \in p THEN 1 ELSE 0]
           md == [st EXCEPT !.inner = v]
           ck == CheckInnerStartable(md, {x \in p : md.inner[x] = 0})
<1>1. v \in [Services -> Int]
  BY StateFields
<1>2. \A x \in Services : v[x] = st.inner[x] -
                 (IF s \in Members /\ x = Parent[s] THEN 1 ELSE 0)
  OBVIOUS
<1>3. nx = OnOuterRequiredDecrement(ck, RequiredBy(st, s))
  BY DEF CallOnRequiredDecrement
<1>4. p \in SUBSET Services
  BY GraphFacts
<1> HIDE DEF v, p
<1>5. md \in States
  BY <1>1, PutInner
<1>6. /\ EqLife(st, md) /\ EqUses(st, md) /\ EqPush(st, md) /\ EqPull(st, md)
      /\ EqConn(st, md) /\ md.outer = st.outer /\ md.inner = v
  BY DEF States, EqLife, EqUses, EqPush, EqPull, EqConn
<1>7. {x \in p : md.inner[x] = 0} \in SUBSET Services
  BY <1>4
<1> HIDE DEF md
<1>8. ck \in States /\ EqCounters(md, ck)
  BY <1>5, <1>7, CheckInnerFrame
<1> HIDE DEF ck
<1>9. RequiredBy(st, s) \in [Heads -> Int]
  BY RequiredByType
<1>10. /\ nx \in States
       /\ EqLife(ck, nx) /\ EqUses(ck, nx) /\ EqPush(ck, nx) /\ EqPull(ck, nx)
       /\ EqConn(ck, nx) /\ nx.inner = ck.inner
       /\ \A h \in Heads : nx.outer[h] = ck.outer[h] - RequiredBy(st, s)[h]
  BY <1>3, <1>8, <1>9, OuterDecrementFrame
<1>11. /\ EqLife(st, nx) /\ EqUses(st, nx) /\ EqPush(st, nx) /\ EqPull(st, nx)
       /\ EqConn(st, nx) /\ nx.inner = v /\ ck.outer = st.outer
  BY <1>6, <1>8, <1>10 DEF EqCounters, EqLife, EqUses, EqReq, EqPush, EqPull, EqConn
<1>12. QED
  BY <1>2, <1>10, <1>11

\* A service that stops is missed by its parent and its users.
LEMMA RequiredIncrementFrame ==
  ASSUME NEW st \in States, NEW s \in Services,
         NEW nx, nx = CallOnRequiredIncrement(st, s)
  PROVE  /\ nx \in States
         /\ EqLife(st, nx) /\ EqUses(st, nx) /\ EqPush(st, nx) /\ EqPull(st, nx)
         /\ EqConn(st, nx)
         /\ \A x \in Services : nx.inner[x] = st.inner[x] +
                 (IF s \in Members /\ x = Parent[s] THEN 1 ELSE 0)
         /\ \A h \in Heads : nx.outer[h] = st.outer[h] + RequiredBy(st, s)[h]
<1> DEFINE v == [x \in Services |-> st.inner[x] + IF s \in Members /\ x = Parent[s]
                                                   THEN 1 ELSE 0]
           md == [st EXCEPT !.inner = v]
<1>1. v \in [Services -> Int]
  BY StateFields
<1>2. \A x \in Services : v[x] = st.inner[x] +
                 (IF s \in Members /\ x = Parent[s] THEN 1 ELSE 0)
  OBVIOUS
<1>3. nx = OnOuterRequiredIncrement(md, RequiredBy(st, s))
  BY DEF CallOnRequiredIncrement
<1> HIDE DEF v
<1>5. md \in States
  BY <1>1, PutInner
<1>6. /\ EqLife(st, md) /\ EqUses(st, md) /\ EqPush(st, md) /\ EqPull(st, md)
      /\ EqConn(st, md) /\ md.outer = st.outer /\ md.inner = v
  BY DEF States, EqLife, EqUses, EqPush, EqPull, EqConn
<1> HIDE DEF md
<1>9. RequiredBy(st, s) \in [Heads -> Int]
  BY RequiredByType
<1>10. /\ nx \in States
       /\ EqLife(md, nx) /\ EqUses(md, nx) /\ EqPush(md, nx) /\ EqPull(md, nx)
       /\ EqConn(md, nx) /\ nx.inner = md.inner
       /\ \A h \in Heads : nx.outer[h] = md.outer[h] + RequiredBy(st, s)[h]
  BY <1>3, <1>5, <1>9, OuterIncrementFrame
<1>11. /\ EqLife(st, nx) /\ EqUses(st, nx) /\ EqPush(st, nx) /\ EqPull(st, nx)
       /\ EqConn(st, nx) /\ nx.inner = v
  BY <1>6, <1>10 DEF EqLife, EqUses, EqReq, EqPush, EqPull, EqConn
<1>12. QED
  BY <1>2, <1>6, <1>10, <1>11

\* The numbers of edges a handler goes through.
CountedInto(st, S, s) ==
  Cardinality({e \in EdgesInto(st, S, s) : e \notin Weak \/ IsRunning(st, s)})
AllInto(st, S, s) == Cardinality(EdgesInto(st, S, s))
LockedOut(st, s) == Cardinality({e \in OutEdges(st.conn, s) : IsLocked(st, Dst(e))})

\* The counts of edges into a set of services are natural numbers.
LEMMA EdgeCounts ==
  ASSUME NEW st \in States, NEW S \in SUBSET Services, NEW s \in Services
  PROVE  /\ EdgesInto(st, S, s) \subseteq Edges(st.conn)
         /\ AllInto(st, S, s) \in Nat /\ CountedInto(st, S, s) \in Nat
         /\ ImplicitUses(S, s) \in Nat
<1>1. st.conn \in SUBSET Usages
  BY StateFields
<1>2. EdgesInto(st, S, s) \subseteq Edges(st.conn)
  BY <1>1, EdgeSets DEF EdgesInto
<1>3. AllInto(st, S, s) \in Nat /\ CountedInto(st, S, s) \in Nat
  BY <1>1, <1>2, EdgesFinite DEF AllInto, CountedInto
<1>4. ImplicitUses(S, s) \in Nat
  BY ServicesFinite DEF ImplicitUses
<1>5. QED
  BY <1>2, <1>3, <1>4

\* So is the count of the edges to locked users.
LEMMA LockedOutType ==
  ASSUME NEW st \in States, NEW s \in Services
  PROVE  LockedOut(st, s) \in Nat
BY StateFields, EdgeSets, EdgesFinite DEF LockedOut

\* Locking a set of services adds its uses of running services.
LEMMA OuterOutgoingIncrementFrame ==
  ASSUME NEW st \in States, NEW S \in SUBSET Services,
         NEW nx, nx = CallOnOuterOutgoingIncrement(st, S)
  PROVE  /\ nx \in States
         /\ EqLife(st, nx) /\ EqReq(st, nx) /\ EqPush(st, nx) /\ EqPull(st, nx)
         /\ EqConn(st, nx)
         /\ \A s \in Services : nx.uses[s] = st.uses[s]
              + (CountedInto(st, S, s) + ImplicitUses(S, s))
<1> DEFINE by == [s \in Services |->
                   CountedInto(st, S, s) + ImplicitUses(S, s)]
<1>1. by \in [Services -> Int]
  BY EdgeCounts
<1>2. nx = OnOutgoingIncrement(st, by)
  BY DEF CallOnOuterOutgoingIncrement, CountedInto
<1>3. \A s \in Services : by[s] = CountedInto(st, S, s) + ImplicitUses(S, s)
  OBVIOUS
<1> HIDE DEF by
<1>4. QED
  BY <1>1, <1>2, <1>3, UsesIncrementFrame

\* Unlocking a set of services takes its uses off.
LEMMA OuterOutgoingDecrementFrame ==
  ASSUME NEW st \in States, NEW S \in SUBSET Services,
         NEW nx, nx = CallOnOuterOutgoingDecrement(st, S)
  PROVE  /\ nx \in States
         /\ EqLife(st, nx) /\ EqReq(st, nx) /\ EqPush(st, nx) /\ EqPull(st, nx)
         /\ EqConn(st, nx)
         /\ \A s \in Services : nx.uses[s] = st.uses[s]
              - ((IF IsRunning(st, s) THEN AllInto(st, S, s) ELSE 0)
                 + ImplicitUses(S, s))
<1> DEFINE by == [s \in Services |->
              (IF IsRunning(st, s) THEN AllInto(st, S, s) ELSE 0)
                 + ImplicitUses(S, s)]
<1>1. by \in [Services -> Int]
  <2>1. \A s \in Services : AllInto(st, S, s) \in Int /\ ImplicitUses(S, s) \in Int
    BY EdgeCounts
  <2>2. \A s \in Services : (IF IsRunning(st, s) THEN AllInto(st, S, s) ELSE 0)
                             + ImplicitUses(S, s) \in Int
    BY <2>1
  <2>3. QED
    BY <2>2
<1>2. nx = OnOutgoingDecrement(st, by)
  BY DEF CallOnOuterOutgoingDecrement, AllInto
<1>3. \A s \in Services : by[s] =
              (IF IsRunning(st, s) THEN AllInto(st, S, s) ELSE 0)
                 + ImplicitUses(S, s)
  OBVIOUS
<1> HIDE DEF by
<1>4. QED
  BY <1>1, <1>2, <1>3, UsesDecrementFrame

\* A service that runs gets the uses of its users that were locked before.
LEMMA DelayedIncrementFrame ==
  ASSUME NEW st \in States, NEW s \in Services,
         NEW nx, nx = CallOnOuterDelayedOutgoingIncrement(st, s)
  PROVE  /\ nx \in States
         /\ EqLife(st, nx) /\ EqReq(st, nx) /\ EqPush(st, nx) /\ EqPull(st, nx)
         /\ EqConn(st, nx)
         /\ \A x \in Services : nx.uses[x] = st.uses[x] +
              (IF x = s THEN LockedOut(st, s) ELSE 0)
<1> DEFINE by == [x \in Services |->
              IF x = s THEN LockedOut(st, s) ELSE 0]
<1>1. by \in [Services -> Int]
  BY LockedOutType
<1>2. nx = OnOutgoingIncrement(st, by)
  BY DEF CallOnOuterDelayedOutgoingIncrement, LockedOut
<1>3. \A x \in Services : by[x] =
              IF x = s THEN LockedOut(st, s) ELSE 0
  OBVIOUS
<1> HIDE DEF by
<1>4. QED
  BY <1>1, <1>2, <1>3, UsesIncrementFrame

-----------------------------------------------------------------------------
(* pushes_. *)

\* The edges from the cluster x into the clusters of C.
OutInto(conns, x, C) == {e \in ClusterOutEdges(conns, x) : Head[Dst(e)] \in C}
OutCount(conns, x, C) == Cardinality(OutInto(conns, x, C))
One(h, x) == IF x = h THEN 1 ELSE 0

\* The count of the edges into a set of clusters is a natural number.
LEMMA OutCountType ==
  ASSUME NEW conns \in SUBSET Usages, NEW x, NEW C
  PROVE  /\ OutCount(conns, x, C) \in Nat
         /\ OutCount(conns, x, C) = 0 <=> OutInto(conns, x, C) = {}
<1>1. OutInto(conns, x, C) \subseteq Edges(conns)
  BY EdgeSets DEF OutInto
<1>2. QED
  BY <1>1, EdgesFinite DEF OutCount

\* Counts of edges into disjoint sets add up.
LEMMA OutCountSplit ==
  ASSUME NEW conns \in SUBSET Usages, NEW x, NEW A, NEW B, A \cap B = {}
  PROVE  OutCount(conns, x, A \cup B) = OutCount(conns, x, A) + OutCount(conns, x, B)
<1>1. OutInto(conns, x, A \cup B) = OutInto(conns, x, A) \cup OutInto(conns, x, B)
  BY DEF OutInto
<1>2. OutInto(conns, x, A) \cap OutInto(conns, x, B) = {}
  BY DEF OutInto
<1>3. IsFiniteSet(OutInto(conns, x, A \cup B))
  BY EdgeSets, EdgesFinite DEF OutInto
<1>4. QED
  BY <1>1, <1>2, <1>3, SplitCount DEF OutCount

\* The clusters that get their first push, or lose their last one.
Gained(st, h) == IF IsPushed(st, h) THEN {} ELSE NewlyPushed(st, h)
Lost(st, h, A) == IF st.pushes[h] = 1 THEN NoLongerPushed(st, h, A) ELSE {}

\* Pushing a cluster adds one push along each edge that is newly pushed.
LEMMA PushesIncrementFrame ==
  ASSUME NEW st \in States, NEW h \in Heads,
         NEW nx, nx = CallOnPushesIncrement(st, h),
         NEW new, new = Gained(st, h)
  PROVE  /\ nx \in States
         /\ EqLife(st, nx) /\ EqUses(st, nx) /\ EqReq(st, nx) /\ EqPull(st, nx)
         /\ EqConn(st, nx) /\ nx.override = st.override
         /\ \A x \in Heads : nx.pushes[x] =
              st.pushes[x] + One(h, x) + OutCount(st.conn, x, new)
<1> DEFINE v == [x \in Heads |->
                   st.pushes[x] + One(h, x) + OutCount(st.conn, x, new)]
           md == [st EXCEPT !.pushes = v]
<1>1. \A x \in Heads : OutCount(st.conn, x, new) \in Nat
  BY StateFields, OutCountType
<1>2. v \in [Heads -> Int]
  <2>1. \A x \in Heads : st.pushes[x] \in Int /\ One(h, x) \in Int
    BY StateFields DEF One
  <2>2. \A x \in Heads : st.pushes[x] + One(h, x) + OutCount(st.conn, x, new) \in Int
    BY <1>1, <2>1
  <2>3. QED
    BY <2>2
<1>3. nx = md
  <2>1. \A x \in Heads : Only(h, Heads)[x] = One(h, x)
    BY DEF Only, One
  <2>2. \A x \in Heads : OutCount(st.conn, x, new) =
           Cardinality({e \in ClusterOutEdges(st.conn, x) : Head[Dst(e)] \in new})
    BY DEF OutCount, OutInto
  <2>3. v = [x \in Heads |-> st.pushes[x] + Only(h, Heads)[x]
               + Cardinality({e \in ClusterOutEdges(st.conn, x) : Head[Dst(e)] \in new})]
    BY <2>1, <2>2
  <2> HIDE DEF v
  <2>4. QED
    BY <2>3 DEF CallOnPushesIncrement, Gained
<1>4. \A x \in Heads : v[x] = st.pushes[x] + One(h, x) + OutCount(st.conn, x, new)
  OBVIOUS
<1> HIDE DEF v
<1>5. md \in States
  BY <1>2, PutPushes
<1>6. /\ EqLife(st, md) /\ EqUses(st, md) /\ EqReq(st, md) /\ EqPull(st, md)
      /\ EqConn(st, md) /\ md.override = st.override /\ md.pushes = v
  BY DEF States, EqLife, EqUses, EqReq, EqPull, EqConn
<1>7. QED
  BY <1>3, <1>4, <1>5, <1>6

\* What y loses when the clusters of C have lost their last push.
Loses(st, h, C, A, y) == One(h, y) + OutCount(st.conn, y, C \ A)

\* Releasing a push takes one off along each edge that is pushed no more.
LEMMA PushesDecrementFrame ==
  ASSUME NEW st \in States, NEW h \in Heads, NEW A,
         NEW nx, nx = CallOnPushesDecrement(st, h, A),
         NEW gone, gone = Lost(st, h, A)
  PROVE  /\ nx \in States
         /\ EqLife(st, nx) /\ EqUses(st, nx) /\ EqReq(st, nx) /\ EqPull(st, nx)
         /\ EqConn(st, nx) /\ nx.override = st.override
         /\ \A x \in Heads : nx.pushes[x] = st.pushes[x] - Loses(st, h, gone, A, x)
<1>0. PICK C : C = gone \ A
  OBVIOUS
<1> DEFINE v == [x \in Heads |->
                   st.pushes[x] - (One(h, x) + OutCount(st.conn, x, C))]
           md == [st EXCEPT !.pushes = v]
<1>1. \A x \in Heads : OutCount(st.conn, x, C) \in Nat
  BY StateFields, OutCountType
<1>2. v \in [Heads -> Int]
  <2>1. \A x \in Heads : st.pushes[x] \in Int /\ One(h, x) \in Int
    BY StateFields DEF One
  <2>2. \A x \in Heads :
          st.pushes[x] - (One(h, x) + OutCount(st.conn, x, C)) \in Int
    BY <1>1, <2>1
  <2>3. QED
    BY <2>2
<1>3. gone \in SUBSET Services
  BY GraphFacts DEF NoLongerPushed, Lost
<1>4. nx = CheckStoppable(md, gone)
  <2> DEFINE lost == LostPushes(st, h, gone, A)
  <2>1. \A x \in Heads : lost[x] = One(h, x) + OutCount(st.conn, x, C)
    BY <1>0 DEF Only, One, OutCount, OutInto, LostPushes
  <2> HIDE DEF lost
  <2>2. v = [x \in Heads |-> st.pushes[x] - lost[x]]
    BY <2>1
  <2> HIDE DEF v
  <2>3. QED
    BY <2>2 DEF CallOnPushesDecrement, lost, Lost
<1>5. \A x \in Heads : v[x] =
        st.pushes[x] - (One(h, x) + OutCount(st.conn, x, C))
  OBVIOUS
<1> HIDE DEF v
<1>6. md \in States
  BY <1>2, PutPushes
<1>7. /\ EqLife(st, md) /\ EqUses(st, md) /\ EqReq(st, md) /\ EqPull(st, md)
      /\ EqConn(st, md) /\ md.override = st.override /\ md.pushes = v
  BY DEF States, EqLife, EqUses, EqReq, EqPull, EqConn
<1> HIDE DEF md
<1>8. nx \in States /\ EqCounters(md, nx)
  BY <1>3, <1>4, <1>6, CheckStoppableFrame
<1>9. \A x \in Heads : v[x] = st.pushes[x] - Loses(st, h, gone, A, x)
  BY <1>0, <1>5 DEF Loses
<1>10. QED
  BY <1>7, <1>8, <1>9 DEF EqCounters, EqLife, EqUses, EqReq, EqPush, EqPull, EqConn

Pushed(st) == {x \in Heads : st.pushes[x] # 0}

\* The search of an increment reaches, from h, exactly the clusters without a
\* push that one of the clusters it reached needs.
LEMMA NewlyPushedFacts ==
  ASSUME NEW st \in States, NEW h \in Heads, ~IsPushed(st, h),
         NEW new, new = NewlyPushed(st, h)
  PROVE  /\ h \in new /\ new \subseteq Heads /\ new \cap Pushed(st) = {}
         /\ \A x \in Heads \ Pushed(st) : OutInto(st.conn, x, new) # {} => x \in new
         /\ \A x \in new : x = h \/ OutInto(st.conn, x, new) # {}
<1> DEFINE Closed(C) == /\ h \in C
                        /\ \A e \in Edges(st.conn) :
                             Head[Dst(e)] \in C /\ ~IsPushed(st, Head[Src(e)])
                               => Head[Src(e)] \in C
<1>1. new = {x \in Heads : \A C \in SUBSET Heads : Closed(C) => x \in C}
  BY DEF NewlyPushed
<1>2. \A e \in Edges(st.conn) : Head[Src(e)] \in Heads /\ Head[Dst(e)] \in Heads
  BY StateFields, EdgeFacts, GraphFacts
<1>3. Closed(new)
  BY <1>1, <1>2
<1>4. \A C \in SUBSET Heads : Closed(C) => new \subseteq C
  BY <1>1
<1>5. new \subseteq Heads
  BY <1>1
<1>6. Closed(Heads \ Pushed(st))
  BY <1>2 DEF Pushed, IsPushed
<1>7. new \cap Pushed(st) = {}
  <2>1. Heads \ Pushed(st) \in SUBSET Heads
    OBVIOUS
  <2> HIDE DEF Closed
  <2>2. QED
    BY <1>4, <1>6, <2>1
<1>8. ASSUME NEW x \in Heads \ Pushed(st), OutInto(st.conn, x, new) # {}
      PROVE  x \in new
  BY <1>3, <1>8 DEF OutInto, ClusterOutEdges, Pushed, IsPushed
<1>9. ASSUME NEW x \in new, x # h, OutInto(st.conn, x, new) = {}
      PROVE  FALSE
  <2>1. Closed(new \ {x})
    BY <1>3, <1>9 DEF OutInto, ClusterOutEdges
  <2>2. new \ {x} \in SUBSET Heads
    BY <1>5
  <2> HIDE DEF Closed
  <2>3. QED
    BY <1>4, <1>9, <2>1, <2>2
<1> HIDE DEF Closed
<1>10. h \in new
  BY <1>3 DEF Closed
<1>11. QED
  BY <1>5, <1>7, <1>8, <1>9, <1>10

\* An increment leaves every pushes_ exact, where own is what a cluster has
\* besides the pushes of its edges.
LEMMA PushesIncrementExact ==
  ASSUME NEW st \in States, NEW h \in Heads, NEW own \in [Heads -> Int],
         \A x \in Heads : st.pushes[x] \in Nat,
         \A x \in Heads : st.pushes[x] = own[x] + OutCount(st.conn, x, Pushed(st)),
         NEW nx, nx = CallOnPushesIncrement(st, h)
  PROVE  \A x \in Heads :
           nx.pushes[x] = own[x] + One(h, x) + OutCount(st.conn, x, Pushed(nx))
<1>1. PICK new : new = Gained(st, h)
  OBVIOUS
<1>2. \A x \in Heads : nx.pushes[x] =
              st.pushes[x] + One(h, x) + OutCount(st.conn, x, new)
  BY <1>1, PushesIncrementFrame
<1>3. st.conn \in SUBSET Usages
  BY StateFields
<1>4. \A x \in Heads : /\ OutCount(st.conn, x, new) \in Nat
                       /\ OutCount(st.conn, x, new) = 0 <=> OutInto(st.conn, x, new) = {}
  BY <1>3, OutCountType
<1>5. \A x \in Heads : One(h, x) \in {0, 1} /\ (One(h, x) = 1 <=> x = h)
  BY DEF One
<1>6. new \cap Pushed(st) = {} /\ Pushed(nx) = Pushed(st) \cup new
  <2>1. CASE IsPushed(st, h)
    <3>1. new = {} /\ \A x \in Heads : OutCount(st.conn, x, new) = 0
      BY <1>1, <1>4, <2>1 DEF OutInto, Gained
    <3>2. \A x \in Heads : nx.pushes[x] # 0 <=> st.pushes[x] # 0
      BY <1>2, <1>5, <2>1, <3>1 DEF IsPushed
    <3>3. QED
      BY <3>1, <3>2 DEF Pushed
  <2>2. CASE ~IsPushed(st, h)
    <3>1. new = NewlyPushed(st, h)
      BY <1>1, <2>2 DEF Gained
    <3>2. /\ h \in new /\ new \subseteq Heads /\ new \cap Pushed(st) = {}
          /\ \A x \in Heads \ Pushed(st) : OutInto(st.conn, x, new) # {} => x \in new
          /\ \A x \in new : x = h \/ OutInto(st.conn, x, new) # {}
      BY <2>2, <3>1, NewlyPushedFacts
    <3>3. ASSUME NEW x \in Heads
          PROVE  nx.pushes[x] # 0 <=> x \in Pushed(st) \cup new
      <4>1. CASE x \in Pushed(st)
        BY <1>2, <1>4, <1>5, <4>1 DEF Pushed
      <4>2. CASE x \notin Pushed(st) /\ x \in new
        BY <1>2, <1>4, <1>5, <3>2, <4>2 DEF Pushed
      <4>3. CASE x \notin Pushed(st) /\ x \notin new
        <5>1. st.pushes[x] = 0 /\ One(h, x) = 0 /\ OutCount(st.conn, x, new) = 0
          BY <1>4, <1>5, <3>2, <4>3 DEF Pushed
        <5>2. QED
          BY <1>2, <4>3, <5>1
      <4>4. QED
        BY <4>1, <4>2, <4>3
    <3>4. QED
      BY <3>2, <3>3 DEF Pushed
  <2>3. QED
    BY <2>1, <2>2
<1>7. \A x \in Heads : OutCount(st.conn, x, Pushed(nx)) =
         OutCount(st.conn, x, Pushed(st)) + OutCount(st.conn, x, new)
  BY <1>3, <1>6, OutCountSplit
<1>8. \A x \in Heads : OutCount(st.conn, x, Pushed(st)) \in Nat
  BY <1>3, OutCountType
<1>9. QED
  <2> TAKE x \in Heads
  <2>1. /\ nx.pushes[x] = st.pushes[x] + One(h, x) + OutCount(st.conn, x, new)
        /\ st.pushes[x] = own[x] + OutCount(st.conn, x, Pushed(st))
        /\ OutCount(st.conn, x, Pushed(nx)) =
             OutCount(st.conn, x, Pushed(st)) + OutCount(st.conn, x, new)
        /\ own[x] \in Int /\ One(h, x) \in Int
        /\ OutCount(st.conn, x, Pushed(st)) \in Nat
        /\ OutCount(st.conn, x, new) \in Nat
    BY <1>2, <1>4, <1>5, <1>7, <1>8
  <2>2. QED
    BY <2>1

\* More clusters are reached by at least as many edges.
LEMMA OutCountMono ==
  ASSUME NEW conns \in SUBSET Usages, NEW x, NEW C, NEW D, C \subseteq D
  PROVE  OutCount(conns, x, C) <= OutCount(conns, x, D)
<1>1. PICK E : E = D \ C
  OBVIOUS
<1>2. D = C \cup E /\ C \cap E = {}
  BY <1>1
<1>3. OutCount(conns, x, C \cup E) = OutCount(conns, x, C) + OutCount(conns, x, E)
  BY <1>2, OutCountSplit
<1>4. OutCount(conns, x, C) \in Nat /\ OutCount(conns, x, E) \in Nat
  BY OutCountType
<1>5. QED
  BY <1>2, <1>3, <1>4

\* What a cluster loses grows with the set of clusters that are pushed no more.
LEMMA LosesFacts ==
  ASSUME NEW st \in States, NEW h, NEW A, NEW C, NEW D, C \subseteq D, NEW y
  PROVE  /\ Loses(st, h, C, A, y) \in Nat /\ Loses(st, h, D, A, y) \in Nat
         /\ Loses(st, h, C, A, y) <= Loses(st, h, D, A, y)
<1>1. PICK CA, DA : CA = C \ A /\ DA = D \ A
  OBVIOUS
<1>2. CA \subseteq DA /\ st.conn \in SUBSET Usages
  BY <1>1, StateFields
<1>3. OutCount(st.conn, y, CA) <= OutCount(st.conn, y, DA)
  BY <1>2, OutCountMono
<1>4. OutCount(st.conn, y, CA) \in Nat /\ OutCount(st.conn, y, DA) \in Nat
  BY <1>2, OutCountType
<1>5. One(h, y) \in {0, 1}
  BY DEF One
<1>6. /\ Loses(st, h, C, A, y) = One(h, y) + OutCount(st.conn, y, CA)
      /\ Loses(st, h, D, A, y) = One(h, y) + OutCount(st.conn, y, DA)
  BY <1>1 DEF Loses
<1>7. QED
  BY <1>3, <1>4, <1>5, <1>6

\* The search of a decrement reaches exactly the pushed clusters that lose as many
\* pushes as they have.
LEMMA NoLongerPushedFacts ==
  ASSUME NEW st \in States, NEW h \in Heads, NEW A,
         \A x \in Heads : st.pushes[x] \in Nat,
         \A x \in Heads : Loses(st, h, Pushed(st), A, x) <= st.pushes[x],
         NEW gone, gone = NoLongerPushed(st, h, A)
  PROVE  /\ gone \subseteq Pushed(st)
         /\ \A y \in Heads : y \in gone <=> /\ Loses(st, h, gone, A, y) # 0
                                           /\ st.pushes[y] <= Loses(st, h, gone, A, y)
<1> DEFINE Hit(C, y) == /\ Loses(st, h, C, A, y) # 0
                        /\ st.pushes[y] <= Loses(st, h, C, A, y)
           Closed(C) == \A y \in Heads : Hit(C, y) => y \in C
<1>1. gone = {x \in Heads : \A C \in SUBSET Heads : Closed(C) => x \in C}
  <2>1. \A C, y : y \in Heads => LostPushes(st, h, C, A)[y] = Loses(st, h, C, A, y)
    BY DEF LostPushes, Loses, Only, One, OutCount, OutInto
  <2>2. QED
    BY <2>1 DEF NoLongerPushed
<1>2. ASSUME NEW C, NEW D, C \subseteq D, NEW y \in Heads, Hit(C, y)
      PROVE  Hit(D, y)
  <2>1. /\ Loses(st, h, C, A, y) \in Nat /\ Loses(st, h, D, A, y) \in Nat
        /\ Loses(st, h, C, A, y) <= Loses(st, h, D, A, y)
    BY <1>2, LosesFacts
  <2>2. QED
    BY <1>2, <2>1
<1>3. \A C \in SUBSET Heads : Closed(C) => gone \subseteq C
  BY <1>1
<1>4. gone \subseteq Heads
  BY <1>1
<1>5. Closed(gone)
  <2>1. SUFFICES ASSUME NEW y \in Heads, Hit(gone, y), NEW C \in SUBSET Heads, Closed(C)
                 PROVE  y \in C
    BY <1>1
  <2>2. gone \subseteq C
    BY <1>3, <2>1
  <2> HIDE DEF Hit
  <2>3. Hit(C, y)
    BY <1>2, <2>1, <2>2
  <2>4. QED
    BY <2>1, <2>3
<1>6. Closed(gone \cap Pushed(st))
  <2>1. SUFFICES ASSUME NEW y \in Heads, Hit(gone \cap Pushed(st), y)
                 PROVE  y \in gone /\ y \in Pushed(st)
    OBVIOUS
  <2>2. PICK C : C = gone \cap Pushed(st)
    OBVIOUS
  <2>3. C \subseteq gone /\ C \subseteq Pushed(st) /\ Hit(C, y)
    BY <2>1, <2>2
  <2>4. y \in gone
    <3> HIDE DEF Hit
    <3>1. Hit(gone, y)
      BY <1>2, <2>3
    <3>2. QED
      BY <1>5, <3>1
  <2>5. /\ Loses(st, h, C, A, y) \in Nat /\ Loses(st, h, Pushed(st), A, y) \in Nat
        /\ Loses(st, h, C, A, y) <= Loses(st, h, Pushed(st), A, y)
    BY <2>3, LosesFacts
  <2>6. st.pushes[y] # 0
    BY <2>3, <2>5
  <2>7. QED
    BY <2>4, <2>6 DEF Pushed
<1>7. gone \subseteq Pushed(st)
  <2>1. gone \cap Pushed(st) \in SUBSET Heads
    BY <1>4
  <2> HIDE DEF Closed
  <2>2. QED
    BY <1>3, <1>6, <2>1
<1>8. ASSUME NEW y \in Heads, y \in gone, ~Hit(gone, y)
      PROVE  FALSE
  <2>1. PICK C : C = gone \ {y}
    OBVIOUS
  <2>2. C \subseteq gone /\ C \in SUBSET Heads
    BY <1>4, <2>1
  <2>3. Closed(C)
    <3> HIDE DEF Hit
    <3>1. SUFFICES ASSUME NEW z \in Heads, Hit(C, z) PROVE z \in C
      OBVIOUS
    <3>2. Hit(gone, z)
      BY <1>2, <2>2, <3>1
    <3>3. QED
      BY <1>5, <1>8, <2>1, <3>2
  <2> HIDE DEF Closed
  <2>4. QED
    BY <1>3, <1>8, <2>1, <2>2, <2>3
<1>9. QED
  BY <1>5, <1>7, <1>8

\* Releasing one push of h keeps pushes_ exact, if no ancestor is reached.
LEMMA PushesDecrementExact ==
  ASSUME NEW st \in States, NEW h \in Heads, NEW A, NEW own \in [Heads -> Int],
         \A x \in Heads : st.pushes[x] \in Nat,
         \A x \in Heads : st.pushes[x] = own[x] + OutCount(st.conn, x, Pushed(st)),
         \A x \in Heads : Loses(st, h, Pushed(st), A, x) <= st.pushes[x],
         Lost(st, h, A) \cap A = {},
         NEW nx, nx = CallOnPushesDecrement(st, h, A)
  PROVE  /\ Pushed(nx) = Pushed(st) \ Lost(st, h, A)
         /\ \A x \in Heads :
              /\ nx.pushes[x] \in Nat
              /\ nx.pushes[x] = (own[x] - One(h, x)) + OutCount(st.conn, x, Pushed(nx))
<1>1. PICK gone : gone = Lost(st, h, A)
  OBVIOUS
<1>2. gone \ A = gone
  BY <1>1
<1>3. \A x \in Heads : nx.pushes[x] = st.pushes[x] - Loses(st, h, gone, A, x)
  BY <1>1, PushesDecrementFrame
<1>4. st.conn \in SUBSET Usages
  BY StateFields
<1>5. \A x \in Heads : Loses(st, h, gone, A, x) = One(h, x) + OutCount(st.conn, x, gone)
  BY <1>2 DEF Loses
<1>6. \A x \in Heads : One(h, x) \in {0, 1} /\ (One(h, x) = 1 <=> x = h)
  BY DEF One
<1>7. gone \subseteq Pushed(st)
  <2>1. CASE st.pushes[h] = 1
    <3>1. gone = NoLongerPushed(st, h, A)
      BY <1>1, <2>1 DEF Lost
    <3>2. QED
      BY <3>1, NoLongerPushedFacts
  <2>2. CASE st.pushes[h] # 1
    BY <1>1, <2>2 DEF Lost
  <2>3. QED
    BY <2>1, <2>2
<1>8. \A x \in Heads : /\ Loses(st, h, gone, A, x) \in Nat
                       /\ Loses(st, h, gone, A, x) <= st.pushes[x]
  <2>1. \A x \in Heads : /\ Loses(st, h, gone, A, x) \in Nat
                         /\ Loses(st, h, Pushed(st), A, x) \in Nat
                         /\ Loses(st, h, gone, A, x) <= Loses(st, h, Pushed(st), A, x)
    BY <1>7, LosesFacts
  <2>2. QED
    BY <2>1
<1>9. \A x \in Heads : nx.pushes[x] # 0 <=> x \in Pushed(st) /\ x \notin gone
  <2>1. CASE st.pushes[h] = 1
    <3>1. gone = NoLongerPushed(st, h, A)
      BY <1>1, <2>1 DEF Lost
    <3>2. \A y \in Heads : y \in gone <=> /\ Loses(st, h, gone, A, y) # 0
                                          /\ st.pushes[y] <= Loses(st, h, gone, A, y)
      BY <3>1, NoLongerPushedFacts
    <3>3. QED
      BY <1>3, <1>8, <3>2 DEF Pushed
  <2>2. CASE st.pushes[h] # 1
    <3>1. gone = {}
      BY <1>1, <2>2 DEF Lost
    <3>2. \A x \in Heads : OutCount(st.conn, x, gone) = 0
      BY <1>4, <3>1, OutCountType DEF OutInto
    <3>3. \A x \in Heads : Loses(st, h, gone, A, x) = One(h, x)
      BY <1>5, <1>6, <3>2
    <3>4. QED
      BY <1>3, <1>6, <1>8, <2>2, <3>1, <3>3 DEF Pushed
  <2>3. QED
    BY <2>1, <2>2
<1>10. Pushed(nx) = Pushed(st) \ gone
  BY <1>9 DEF Pushed
<1>11. Pushed(st) = Pushed(nx) \cup gone /\ Pushed(nx) \cap gone = {}
  BY <1>7, <1>10
<1>12. \A x \in Heads : OutCount(st.conn, x, Pushed(st)) =
         OutCount(st.conn, x, Pushed(nx)) + OutCount(st.conn, x, gone)
  BY <1>4, <1>11, OutCountSplit
<1>13. \A x \in Heads : /\ OutCount(st.conn, x, Pushed(nx)) \in Nat
                        /\ OutCount(st.conn, x, gone) \in Nat
  BY <1>4, OutCountType
<1>14. ASSUME NEW x \in Heads
       PROVE  /\ nx.pushes[x] \in Nat
              /\ nx.pushes[x] = (own[x] - One(h, x)) + OutCount(st.conn, x, Pushed(nx))
  <2>1. /\ nx.pushes[x] = st.pushes[x] - Loses(st, h, gone, A, x)
        /\ Loses(st, h, gone, A, x) = One(h, x) + OutCount(st.conn, x, gone)
        /\ Loses(st, h, gone, A, x) \in Nat /\ Loses(st, h, gone, A, x) <= st.pushes[x]
        /\ st.pushes[x] = own[x] + OutCount(st.conn, x, Pushed(st))
        /\ OutCount(st.conn, x, Pushed(st)) =
             OutCount(st.conn, x, Pushed(nx)) + OutCount(st.conn, x, gone)
        /\ st.pushes[x] \in Nat /\ own[x] \in Int /\ One(h, x) \in Int
        /\ OutCount(st.conn, x, Pushed(nx)) \in Nat /\ OutCount(st.conn, x, gone) \in Nat
    BY <1>3, <1>5, <1>6, <1>8, <1>12, <1>13
  <2>2. QED
    BY <2>1
<1>15. QED
  BY <1>1, <1>10, <1>14

\* PushesOf in terms of the clusters that are pushed.
LEMMA PushesMeaning ==
  ASSUME NEW st \in States
  PROVE  PushesOf(st) <=> \A x \in Heads :
           st.pushes[x] = OwnPush(st, x) + OutCount(st.conn, x, Pushed(st))
<1>1. \A e \in Edges(st.conn) : Head[Dst(e)] \in Heads
  BY StateFields, EdgeFacts, GraphFacts
<1>2. \A x \in Heads : PushEdges(st, x) = OutInto(st.conn, x, Pushed(st))
  BY <1>1 DEF PushEdges, OutInto, Pushed, ClusterOutEdges
<1>3. QED
  BY <1>2 DEF PushesOf, OutCount

\* Exact pushes_ are natural numbers.
LEMMA PushesNat ==
  ASSUME NEW st \in States, PushesOf(st)
  PROVE  /\ \A x \in Heads : st.pushes[x] \in Nat /\ OwnPush(st, x) \in {0, 1}
         /\ [x \in Heads |-> OwnPush(st, x)] \in [Heads -> Int]
<1>1. \A x \in Heads : OutCount(st.conn, x, Pushed(st)) \in Nat
  BY StateFields, OutCountType
<1>2. \A x \in Heads : OwnPush(st, x) \in {0, 1}
  BY DEF OwnPush
<1>3. QED
  BY <1>1, <1>2, PushesMeaning

\* SetOverride changes pushes_ and the override mark only.
LEMMA OverrideFrame ==
  ASSUME NEW st \in States, NEW h \in Heads, NEW b \in BOOLEAN,
         NEW md, md = [st EXCEPT !.override[h] = b]
  PROVE  /\ md \in States
         /\ EqLife(st, md) /\ EqUses(st, md) /\ EqReq(st, md) /\ EqPull(st, md)
         /\ EqConn(st, md) /\ md.pushes = st.pushes
         /\ \A x \in Heads : OwnPush(md, x) = IF x = h THEN IF b THEN 1 ELSE 0
                                              ELSE OwnPush(st, x)
<1>1. md \in States
  BY DEF States
<1>2. /\ EqLife(st, md) /\ EqUses(st, md) /\ EqReq(st, md) /\ EqPull(st, md)
      /\ EqConn(st, md) /\ md.pushes = st.pushes
  BY DEF States, EqLife, EqUses, EqReq, EqPull, EqConn
<1>3. md.override = [st.override EXCEPT ![h] = b] /\ st.override \in [Heads -> BOOLEAN]
  BY DEF States
<1>4. \A x \in Heads : OwnPush(md, x) = IF x = h THEN IF b THEN 1 ELSE 0
                                        ELSE OwnPush(st, x)
  BY <1>3 DEF OwnPush
<1>5. QED
  BY <1>1, <1>2, <1>4

\* The parts that do not read pushes_ or override_.
LEMMA ExactButPushes ==
  ASSUME NEW a \in States, NEW b \in States, NEW hd, Exact(a, hd),
         EqLife(a, b), EqUses(a, b), EqReq(a, b), EqPull(a, b), EqConn(a, b),
         Acyclic => PushesOf(b)
  PROVE  Exact(b, hd)
<1>1. /\ b.phase = a.phase /\ b.uses = a.uses /\ b.conn = a.conn
      /\ b.released = a.released
  BY DEF EqLife, EqUses, EqConn
<1>2. UsesOf(b, hd) /\ HeldOf(b, hd)
  BY <1>1, UsesSame, HeldSame DEF Exact
<1>3. InnerOf(b) /\ OuterOf(b)
  BY <1>1, ReqSame DEF Exact
<1>4. PullsOf(b)
  BY <1>1, PullsSame DEF Exact
<1>5. RunsOf(b)
  BY <1>1, RunsSame DEF Exact
<1>6. ConnOf(b)
  BY <1>1 DEF Exact, ConnOf
<1>7. QED
  BY <1>2, <1>3, <1>4, <1>5, <1>6 DEF Exact

\* Setting or clearing the request of a cluster.
LEMMA SetOverrideExact ==
  ASSUME NEW st \in States, NEW h \in Heads, NEW b \in BOOLEAN, NEW hd,
         Exact(st, hd), NEW nx, nx = SetOverride(st, h, b)
  PROVE  /\ nx \in States /\ Exact(nx, hd)
         /\ EqLife(st, nx) /\ EqUses(st, nx) /\ EqReq(st, nx) /\ EqPull(st, nx)
         /\ EqConn(st, nx)
<1>1. PICK md : md = [st EXCEPT !.override[h] = b]
  OBVIOUS
<1>2. /\ md \in States
      /\ EqLife(st, md) /\ EqUses(st, md) /\ EqReq(st, md) /\ EqPull(st, md)
      /\ EqConn(st, md) /\ md.pushes = st.pushes
      /\ \A x \in Heads : OwnPush(md, x) = IF x = h THEN IF b THEN 1 ELSE 0
                                           ELSE OwnPush(st, x)
  BY <1>1, OverrideFrame
<1>3. Pushed(md) = Pushed(st) /\ md.conn = st.conn
  BY <1>2 DEF Pushed, EqConn
<1>4. PICK own : own = [x \in Heads |-> OwnPush(st, x)]
  OBVIOUS
<1>5. CASE st.override[h] = b
  <2>1. nx = st
    BY <1>5 DEF SetOverride
  <2>2. QED
    BY <2>1 DEF EqLife, EqUses, EqReq, EqPull, EqConn
<1>6. CASE b = TRUE /\ st.override[h] # b
  <2>1. nx = CallOnPushesIncrement(md, h)
    BY <1>1, <1>6 DEF SetOverride
  <2>2. /\ nx \in States
        /\ EqLife(md, nx) /\ EqUses(md, nx) /\ EqReq(md, nx) /\ EqPull(md, nx)
        /\ EqConn(md, nx) /\ nx.override = md.override
    BY <1>2, <2>1, PushesIncrementFrame
  <2>3. /\ EqLife(st, nx) /\ EqUses(st, nx) /\ EqReq(st, nx) /\ EqPull(st, nx)
        /\ EqConn(st, nx)
    BY <1>2, <2>2 DEF EqLife, EqUses, EqReq, EqPull, EqConn
  <2>4. ASSUME PushesOf(st) PROVE PushesOf(nx)
    <3>1. /\ \A x \in Heads : st.pushes[x] = OwnPush(st, x)
                + OutCount(st.conn, x, Pushed(st))
          /\ \A x \in Heads : st.pushes[x] \in Nat /\ OwnPush(st, x) \in {0, 1}
          /\ own \in [Heads -> Int]
      BY <1>4, <2>4, PushesMeaning, PushesNat
    <3>2. \A x \in Heads : /\ md.pushes[x] \in Nat
                           /\ md.pushes[x] = own[x] + OutCount(md.conn, x, Pushed(md))
      BY <1>2, <1>3, <1>4, <3>1
    <3>3. \A x \in Heads : nx.pushes[x] =
             own[x] + One(h, x) + OutCount(md.conn, x, Pushed(nx))
      BY <1>2, <2>1, <3>1, <3>2, PushesIncrementExact
    <3>4. \A x \in Heads : OwnPush(nx, x) = own[x] + One(h, x)
      <4>1. st.override \in [Heads -> BOOLEAN]
        BY DEF States
      <4>2. OwnPush(st, h) = 0
        BY <1>6, <4>1 DEF OwnPush
      <4>3. \A x \in Heads : OwnPush(nx, x) = OwnPush(md, x)
        BY <2>2 DEF OwnPush
      <4>4. /\ OwnPush(md, h) = 1
            /\ \A x \in Heads : x # h => OwnPush(md, x) = OwnPush(st, x)
        BY <1>2, <1>6
      <4>5. \A x \in Heads : own[x] = OwnPush(st, x) /\ own[x] \in Int
        BY <1>4, <3>1
      <4>6. \A x \in Heads : (One(h, x) = 1 /\ x = h) \/ (One(h, x) = 0 /\ x # h)
        BY DEF One
      <4>7. QED
        BY <4>2, <4>3, <4>4, <4>5, <4>6
    <3>5. \A x \in Heads : nx.pushes[x] =
             OwnPush(nx, x) + OutCount(nx.conn, x, Pushed(nx))
      BY <2>2, <3>3, <3>4 DEF EqConn
    <3>6. QED
      BY <2>2, <3>5, PushesMeaning
  <2>5. Exact(nx, hd)
    <3>1. Acyclic => PushesOf(nx)
      BY <2>4 DEF Exact
    <3>2. QED
      BY <2>2, <2>3, <3>1, ExactButPushes
  <2>6. QED
    BY <2>2, <2>3, <2>5
<1>7. CASE b = FALSE /\ st.override[h] # b
  <2>0. PICK A : A = {}
    OBVIOUS
  <2>1. nx = CallOnPushesDecrement(md, h, A)
    BY <1>1, <1>7, <2>0 DEF SetOverride
  <2>2. /\ nx \in States
        /\ EqLife(md, nx) /\ EqUses(md, nx) /\ EqReq(md, nx) /\ EqPull(md, nx)
        /\ EqConn(md, nx) /\ nx.override = md.override
    BY <1>2, <2>1, PushesDecrementFrame
  <2>3. /\ EqLife(st, nx) /\ EqUses(st, nx) /\ EqReq(st, nx) /\ EqPull(st, nx)
        /\ EqConn(st, nx)
    BY <1>2, <2>2 DEF EqLife, EqUses, EqReq, EqPull, EqConn
  <2>4. ASSUME PushesOf(st) PROVE PushesOf(nx)
    <3>1. /\ \A x \in Heads : st.pushes[x] = OwnPush(st, x)
                + OutCount(st.conn, x, Pushed(st))
          /\ \A x \in Heads : st.pushes[x] \in Nat /\ OwnPush(st, x) \in {0, 1}
          /\ own \in [Heads -> Int]
      BY <1>4, <2>4, PushesMeaning, PushesNat
    <3>2. \A x \in Heads : /\ md.pushes[x] \in Nat
                           /\ md.pushes[x] = own[x] + OutCount(md.conn, x, Pushed(md))
      BY <1>2, <1>3, <1>4, <3>1
    <3>3. OwnPush(st, h) = 1
      <4>1. st.override \in [Heads -> BOOLEAN]
        BY DEF States
      <4>2. QED
        BY <1>7, <4>1 DEF OwnPush
    <3>4. \A x \in Heads : Loses(md, h, Pushed(md), A, x) <= md.pushes[x]
      <4>1. Pushed(md) \ A = Pushed(md)
        BY <2>0
      <4>2. \A x \in Heads : Loses(md, h, Pushed(md), A, x) =
              One(h, x) + OutCount(md.conn, x, Pushed(md))
        BY <4>1 DEF Loses
      <4>3. \A x \in Heads : OutCount(md.conn, x, Pushed(md)) \in Nat
        BY <1>2, StateFields, OutCountType
      <4>4. \A x \in Heads : One(h, x) \in {0, 1} /\ One(h, x) <= own[x]
        BY <1>4, <3>1, <3>3 DEF One
      <4>5. QED
        BY <3>1, <3>2, <4>2, <4>3, <4>4
    <3>5. Lost(md, h, A) \cap A = {}
      BY <2>0
    <3>6. \A x \in Heads : nx.pushes[x] =
             (own[x] - One(h, x)) + OutCount(md.conn, x, Pushed(nx))
      BY <1>2, <2>1, <3>1, <3>2, <3>4, <3>5, PushesDecrementExact
    <3>7. \A x \in Heads : OwnPush(nx, x) = own[x] - One(h, x)
      <4>3. \A x \in Heads : OwnPush(nx, x) = OwnPush(md, x)
        BY <2>2 DEF OwnPush
      <4>4. /\ OwnPush(md, h) = 0
            /\ \A x \in Heads : x # h => OwnPush(md, x) = OwnPush(st, x)
        BY <1>2, <1>7
      <4>5. \A x \in Heads : own[x] = OwnPush(st, x) /\ own[x] \in Int
        BY <1>4, <3>1
      <4>6. \A x \in Heads : (One(h, x) = 1 /\ x = h) \/ (One(h, x) = 0 /\ x # h)
        BY DEF One
      <4>7. QED
        BY <3>3, <4>3, <4>4, <4>5, <4>6
    <3>8. \A x \in Heads : nx.pushes[x] =
             OwnPush(nx, x) + OutCount(nx.conn, x, Pushed(nx))
      BY <2>2, <3>6, <3>7 DEF EqConn
    <3>9. QED
      BY <2>2, <3>8, PushesMeaning
  <2>5. Exact(nx, hd)
    <3>1. Acyclic => PushesOf(nx)
      BY <2>4 DEF Exact
    <3>2. QED
      BY <2>2, <2>3, <3>1, ExactButPushes
  <2>6. QED
    BY <2>2, <2>3, <2>5
<1>8. QED
  BY <1>5, <1>6, <1>7

-----------------------------------------------------------------------------
(* pulls_. *)

\* The edges from the cluster h into the cluster x.
PullsFrom(st, h, x) == {e \in ClusterOutEdges(st.conn, h) : Head[Dst(e)] = x}

\* A cluster is pulled along finitely many edges.
LEMMA PullsFromFinite ==
  ASSUME NEW st \in States, NEW h, NEW x
  PROVE  /\ IsFiniteSet(PullsFrom(st, h, x)) /\ Cardinality(PullsFrom(st, h, x)) \in Nat
         /\ IsFiniteSet(PullEdges(st, x)) /\ Cardinality(PullEdges(st, x)) \in Nat
<1>1. st.conn \in SUBSET Usages
  BY StateFields
<1>2. PullsFrom(st, h, x) \subseteq Edges(st.conn) /\ PullEdges(st, x) \subseteq Edges(st.conn)
  BY <1>1, EdgeSets DEF PullsFrom, PullEdges
<1>3. QED
  BY <1>1, <1>2, EdgesFinite

\* Mark changes pulls_ and the stop mark only.
LEMMA MarkFrame ==
  ASSUME NEW st \in States, NEW h \in Heads, NEW b \in BOOLEAN,
         NEW md, md = [st EXCEPT !.markStop[h] = b]
  PROVE  /\ md \in States
         /\ EqLife(st, md) /\ EqUses(st, md) /\ EqReq(st, md) /\ EqPush(st, md)
         /\ EqConn(st, md) /\ md.pulls = st.pulls
         /\ md.markStop[h] = b
         /\ \A x \in Heads : x # h => md.markStop[x] = st.markStop[x]
         /\ st.markStop \in [Heads -> BOOLEAN]
<1>1. md \in States
  BY DEF States
<1>2. /\ EqLife(st, md) /\ EqUses(st, md) /\ EqReq(st, md) /\ EqPush(st, md)
      /\ EqConn(st, md) /\ md.pulls = st.pulls
  BY DEF States, EqLife, EqUses, EqReq, EqPush, EqConn
<1>3. md.markStop = [st.markStop EXCEPT ![h] = b] /\ st.markStop \in [Heads -> BOOLEAN]
  BY DEF States
<1>4. QED
  BY <1>1, <1>2, <1>3

\* b is a with a mark more.
MarkAdded(a, b, h) ==
  /\ b.conn = a.conn /\ a.markStop[h] = FALSE /\ b.markStop[h] = TRUE
  /\ \A y \in Heads : y # h => b.markStop[y] = a.markStop[y]

\* A mark changes pulls_ of the clusters that use h by the number of edges.
LEMMA MarkedPulls ==
  ASSUME NEW a \in States, NEW b, NEW h \in Heads, MarkAdded(a, b, h),
         NEW x
  PROVE  Cardinality(PullEdges(b, x)) =
           Cardinality(PullEdges(a, x)) + Cardinality(PullsFrom(a, h, x))
<1>0. \A e \in Edges(a.conn) : Head[Src(e)] \in Heads
  BY StateFields, EdgeFacts, GraphFacts
<1>1. PullEdges(b, x) = PullEdges(a, x) \cup PullsFrom(a, h, x)
  BY <1>0 DEF MarkAdded, PullEdges, PullsFrom, ClusterInEdges, ClusterOutEdges
<1>2. PullEdges(a, x) \cap PullsFrom(a, h, x) = {}
  BY DEF MarkAdded, PullEdges, PullsFrom, ClusterInEdges, ClusterOutEdges
<1>3. IsFiniteSet(PullEdges(b, x))
  <2>1. IsFiniteSet(PullEdges(a, x)) /\ IsFiniteSet(PullsFrom(a, h, x))
    BY PullsFromFinite
  <2>2. QED
    BY <1>1, <2>1, FS_Union, Zenon
<1>4. QED
  BY <1>1, <1>2, <1>3, SplitCount

\* Only pulls_ depend on the stop marks.
LEMMA ExactButPulls ==
  ASSUME NEW a \in States, NEW b \in States, NEW hd, Exact(a, hd),
         EqLife(a, b), EqUses(a, b), EqReq(a, b), EqPush(a, b), EqConn(a, b),
         PullsOf(b)
  PROVE  Exact(b, hd)
<1>1. /\ b.phase = a.phase /\ b.uses = a.uses /\ b.conn = a.conn
      /\ b.released = a.released
  BY DEF EqLife, EqUses, EqConn
<1>2. UsesOf(b, hd) /\ HeldOf(b, hd)
  BY <1>1, UsesSame, HeldSame DEF Exact
<1>3. InnerOf(b) /\ OuterOf(b)
  BY <1>1, ReqSame DEF Exact
<1>4. Acyclic => PushesOf(b)
  BY <1>1, PushesSame DEF Exact
<1>5. RunsOf(b)
  BY RunsSame DEF Exact
<1>6. ConnOf(b)
  BY <1>1 DEF Exact, ConnOf
<1>7. QED
  BY <1>2, <1>3, <1>4, <1>5, <1>6 DEF Exact

\* Setting or clearing a stop mark keeps the counters exact.
LEMMA MarkExact ==
  ASSUME NEW st \in States, NEW h \in Heads, NEW b \in BOOLEAN, NEW hd,
         Exact(st, hd), NEW nx, nx = DoMarkClusterForStop(st, h, b)
  PROVE  /\ nx \in States /\ Exact(nx, hd)
         /\ EqLife(st, nx) /\ EqUses(st, nx) /\ EqReq(st, nx) /\ EqPush(st, nx)
         /\ EqConn(st, nx)
<1>1. PICK md : md = [st EXCEPT !.markStop[h] = b]
  OBVIOUS
<1>2. /\ md \in States
      /\ EqLife(st, md) /\ EqUses(st, md) /\ EqReq(st, md) /\ EqPush(st, md)
      /\ EqConn(st, md) /\ md.pulls = st.pulls
      /\ md.markStop[h] = b
      /\ \A x \in Heads : x # h => md.markStop[x] = st.markStop[x]
      /\ st.markStop \in [Heads -> BOOLEAN]
  BY <1>1, MarkFrame
<1>3. PICK by : by = OutgoingPulls(st, h)
  OBVIOUS
<1>4. /\ by \in [Heads -> Int]
      /\ \A x \in Heads : by[x] = Cardinality(PullsFrom(st, h, x))
  BY <1>3, PullsFromFinite DEF OutgoingPulls, PullsFrom
<1>5. \A x \in Heads : st.pulls[x] = Cardinality(PullEdges(st, x))
  BY DEF Exact, PullsOf
<1>6. CASE st.markStop[h] = b
  <2>1. nx = st
    BY <1>6 DEF DoMarkClusterForStop
  <2>2. QED
    BY <2>1 DEF EqLife, EqUses, EqReq, EqPush, EqConn
<1>7. CASE b = TRUE /\ st.markStop[h] # b
  <2>1. nx = OnPullsIncrement(md, by)
    BY <1>1, <1>3, <1>7 DEF DoMarkClusterForStop
  <2>2. /\ nx \in States
        /\ EqLife(md, nx) /\ EqUses(md, nx) /\ EqReq(md, nx) /\ EqPush(md, nx)
        /\ EqConn(md, nx) /\ nx.markStop = md.markStop
        /\ \A x \in Heads : nx.pulls[x] = md.pulls[x] + by[x]
    BY <1>2, <1>4, <2>1, PullsIncrementFrame
  <2>3. /\ EqLife(st, nx) /\ EqUses(st, nx) /\ EqReq(st, nx) /\ EqPush(st, nx)
        /\ EqConn(st, nx) /\ nx.conn = st.conn
    BY <1>2, <2>2 DEF EqLife, EqUses, EqReq, EqPush, EqConn
  <2>4. MarkAdded(st, nx, h)
    BY <1>2, <1>7, <2>2, <2>3 DEF MarkAdded
  <2>5. \A x \in Heads : Cardinality(PullEdges(nx, x)) =
           Cardinality(PullEdges(st, x)) + Cardinality(PullsFrom(st, h, x))
    BY <1>2, <2>3, <2>4, MarkedPulls
  <2>6. PullsOf(nx)
    BY <1>2, <1>4, <1>5, <2>2, <2>5 DEF PullsOf
  <2>7. QED
    BY <2>2, <2>3, <2>6, ExactButPulls
<1>8. CASE b = FALSE /\ st.markStop[h] # b
  <2>1. nx = OnPullsDecrement(md, by)
    BY <1>1, <1>3, <1>8 DEF DoMarkClusterForStop
  <2>2. /\ nx \in States
        /\ EqLife(md, nx) /\ EqUses(md, nx) /\ EqReq(md, nx) /\ EqPush(md, nx)
        /\ EqConn(md, nx) /\ nx.markStop = md.markStop
        /\ \A x \in Heads : nx.pulls[x] = md.pulls[x] - by[x]
    BY <1>2, <1>4, <2>1, PullsDecrementFrame
  <2>3. /\ EqLife(st, nx) /\ EqUses(st, nx) /\ EqReq(st, nx) /\ EqPush(st, nx)
        /\ EqConn(st, nx) /\ nx.conn = st.conn
    BY <1>2, <2>2 DEF EqLife, EqUses, EqReq, EqPush, EqConn
  <2>4. MarkAdded(nx, st, h)
    BY <1>2, <1>8, <2>2, <2>3 DEF MarkAdded
  <2>5. \A x \in Heads : Cardinality(PullEdges(st, x)) =
           Cardinality(PullEdges(nx, x)) + Cardinality(PullsFrom(nx, h, x))
    BY <2>2, <2>3, <2>4, MarkedPulls
  <2>6. \A x \in Heads : /\ PullsFrom(nx, h, x) = PullsFrom(st, h, x)
                         /\ Cardinality(PullEdges(nx, x)) \in Nat
                         /\ Cardinality(PullsFrom(nx, h, x)) \in Nat
    BY <2>2, <2>3, PullsFromFinite DEF PullsFrom
  <2>7. PullsOf(nx)
    BY <1>2, <1>4, <1>5, <2>2, <2>5, <2>6 DEF PullsOf
  <2>8. QED
    BY <2>2, <2>3, <2>7, ExactButPulls
<1>9. QED
  BY <1>6, <1>7, <1>8

-----------------------------------------------------------------------------
(* Connecting and disconnecting a weak usage. *)

\* What the usage u adds to the counters that count edges.
UseOne(st, u, x) == IF x = Used[u] /\ st.phase[User[u]] # "stopped" THEN 1 ELSE 0
PullOne(st, u, x) == IF x = Head[User[u]] /\ st.markStop[Head[Used[u]]] THEN 1 ELSE 0
PushOne(u, x, C) == IF x = Head[Used[u]] /\ Head[User[u]] \in C THEN 1 ELSE 0

\* A finite set grows by the one element that is added.
LEMMA AddOne ==
  ASSUME NEW A, NEW B, IsFiniteSet(A), NEW u, NEW n,
         (n = 1 /\ u \notin A /\ B = A \cup {u}) \/ (n = 0 /\ B = A)
  PROVE  Cardinality(B) = Cardinality(A) + n /\ n \in {0, 1} /\ Cardinality(A) \in Nat
<1>1. Cardinality(A) \in Nat
  BY FS_CardinalityType
<1>2. u \notin A => Cardinality(A \cup {u}) = Cardinality(A) + 1
  BY FS_AddElement
<1>3. QED
  BY <1>1, <1>2

\* b is a with the weak usage u connected.
UsageAdded(a, b, u) ==
  /\ u \in Weak /\ u \notin a.conn /\ b.conn = a.conn \cup {u}
  /\ b.phase = a.phase

\* A usage of a locked user adds one use of what it uses.
LEMMA UseAdded ==
  ASSUME NEW a \in States, NEW b, NEW u, UsageAdded(a, b, u), NEW x \in Services
  PROVE  /\ Cardinality(UseEdges(b, x)) = Cardinality(UseEdges(a, x)) + UseOne(a, u, x)
         /\ UseOne(a, u, x) \in {0, 1} /\ Cardinality(UseEdges(a, x)) \in Nat
         /\ LockedSet(b) = LockedSet(a)
<1>1. u \in Usages /\ Src(u) = Used[u] /\ Dst(u) = User[u]
  BY UsageFacts, GraphAssumption DEF UsageAdded
<1>2. u \notin UseEdges(a, x)
  BY <1>1, UsageFacts DEF UsageAdded, UseEdges, OutEdges, Edges
<1>3. IsFiniteSet(UseEdges(a, x))
  BY StateFields, EdgeSets, EdgesFinite DEF UseEdges
<1>4. CASE x = Used[u] /\ a.phase[User[u]] # "stopped"
  <2>1. UseEdges(b, x) = UseEdges(a, x) \cup {u} /\ UseOne(a, u, x) = 1
    BY <1>1, <1>4 DEF UsageAdded, UseEdges, OutEdges, Edges, UseOne
  <2>2. QED
    BY <1>2, <1>3, <2>1, AddOne DEF UsageAdded, LockedSet
<1>5. CASE ~(x = Used[u] /\ a.phase[User[u]] # "stopped")
  <2>1. UseEdges(b, x) = UseEdges(a, x) /\ UseOne(a, u, x) = 0
    BY <1>1, <1>5 DEF UsageAdded, UseEdges, OutEdges, Edges, UseOne
  <2>2. QED
    BY <1>2, <1>3, <2>1, AddOne DEF UsageAdded, LockedSet
<1>6. QED
  BY <1>4, <1>5

\* A usage of a cluster marked to stop adds one pull.
LEMMA PullAdded ==
  ASSUME NEW a \in States, NEW b, NEW u, UsageAdded(a, b, u),
         b.markStop = a.markStop, NEW x \in Heads
  PROVE  /\ Cardinality(PullEdges(b, x)) = Cardinality(PullEdges(a, x)) + PullOne(a, u, x)
         /\ PullOne(a, u, x) \in {0, 1} /\ Cardinality(PullEdges(a, x)) \in Nat
<1>1. u \in Usages /\ Src(u) = Used[u] /\ Dst(u) = User[u]
  BY UsageFacts, GraphAssumption DEF UsageAdded
<1>2. u \notin PullEdges(a, x)
  BY <1>1, UsageFacts DEF UsageAdded, PullEdges, ClusterInEdges, Edges
<1>3. IsFiniteSet(PullEdges(a, x))
  BY PullsFromFinite
<1>4. CASE x = Head[User[u]] /\ a.markStop[Head[Used[u]]]
  <2>1. PullEdges(b, x) = PullEdges(a, x) \cup {u} /\ PullOne(a, u, x) = 1
    BY <1>1, <1>4 DEF UsageAdded, PullEdges, ClusterInEdges, Edges, PullOne
  <2>2. QED
    BY <1>2, <1>3, <2>1, AddOne
<1>5. CASE ~(x = Head[User[u]] /\ a.markStop[Head[Used[u]]])
  <2>1. PullEdges(b, x) = PullEdges(a, x) /\ PullOne(a, u, x) = 0
    BY <1>1, <1>5 DEF UsageAdded, PullEdges, ClusterInEdges, Edges, PullOne
  <2>2. QED
    BY <1>2, <1>3, <2>1, AddOne
<1>6. QED
  BY <1>4, <1>5

\* A usage of a pushed user adds one push.
LEMMA PushAdded ==
  ASSUME NEW a \in States, NEW b, NEW u, UsageAdded(a, b, u), NEW C, NEW x \in Heads
  PROVE  /\ OutCount(b.conn, x, C) = OutCount(a.conn, x, C) + PushOne(u, x, C)
         /\ PushOne(u, x, C) \in {0, 1} /\ OutCount(a.conn, x, C) \in Nat
<1>1. u \in Usages /\ Src(u) = Used[u] /\ Dst(u) = User[u]
  BY UsageFacts, GraphAssumption DEF UsageAdded
<1>2. u \notin OutInto(a.conn, x, C)
  BY <1>1, UsageFacts DEF UsageAdded, OutInto, ClusterOutEdges, Edges
<1>3. IsFiniteSet(OutInto(a.conn, x, C))
  BY StateFields, EdgeSets, EdgesFinite DEF OutInto
<1>4. CASE x = Head[Used[u]] /\ Head[User[u]] \in C
  <2>1. OutInto(b.conn, x, C) = OutInto(a.conn, x, C) \cup {u} /\ PushOne(u, x, C) = 1
    BY <1>1, <1>4 DEF UsageAdded, OutInto, ClusterOutEdges, Edges, PushOne
  <2>2. QED
    BY <1>2, <1>3, <2>1, AddOne DEF OutCount
<1>5. CASE ~(x = Head[Used[u]] /\ Head[User[u]] \in C)
  <2>1. OutInto(b.conn, x, C) = OutInto(a.conn, x, C) /\ PushOne(u, x, C) = 0
    BY <1>1, <1>5 DEF UsageAdded, OutInto, ClusterOutEdges, Edges, PushOne
  <2>2. QED
    BY <1>2, <1>3, <2>1, AddOne DEF OutCount
<1>6. QED
  BY <1>4, <1>5

\* A weak usage is no requirement.
LEMMA RequirementsAdded ==
  ASSUME NEW a \in States, NEW b, NEW u, UsageAdded(a, b, u), EqReq(a, b)
  PROVE  /\ InnerOf(a) <=> InnerOf(b)
         /\ OuterOf(a) <=> OuterOf(b)
<1>1. \A h : StrongEdges(ClusterInEdges(b.conn, h)) = StrongEdges(ClusterInEdges(a.conn, h))
  BY DEF UsageAdded, StrongEdges, ClusterInEdges, Edges
<1>2. \A h \in Heads : /\ MissingEdges(b, h) = MissingEdges(a, h)
                       /\ MissingRoot(b, h) = MissingRoot(a, h)
  BY <1>1 DEF UsageAdded, MissingEdges, MissingRoot
<1>3. \A s \in Services : MissingInner(b, s) = MissingInner(a, s)
  BY DEF UsageAdded, MissingInner
<1>4. QED
  BY <1>2, <1>3 DEF InnerOf, OuterOf, EqReq

\* The number of users is a natural number.
LEMMA UsersType ==
  ASSUME NEW st \in States, NEW x \in Services
  PROVE  Users(st, x) \in Nat
<1>1. Cardinality(UseEdges(st, x)) \in Nat
  BY StateFields, EdgeSets, EdgesFinite DEF UseEdges
<1>2. ImplicitUses(LockedSet(st), x) \in Nat
  BY EdgeCounts DEF LockedSet
<1>3. QED
  BY <1>1, <1>2 DEF Users

\* The uses of a usage are counted while the service it uses runs.
LEMMA UsesAdded ==
  ASSUME NEW a \in States, NEW b \in States, NEW u, UsageAdded(a, b, u), NEW hd,
         HeldOf(a, hd),
         \A x \in Services : b.uses[x] = a.uses[x] +
            (IF a.phase[x] = "running" THEN UseOne(a, u, x) ELSE 0)
  PROVE  UsesOf(a, hd) <=> UsesOf(b, hd)
<1>1. \A x \in Services :
        /\ Cardinality(UseEdges(b, x)) = Cardinality(UseEdges(a, x)) + UseOne(a, u, x)
        /\ UseOne(a, u, x) \in {0, 1} /\ Cardinality(UseEdges(a, x)) \in Nat
  BY UseAdded
<1>2. LockedSet(b) = LockedSet(a) /\ b.phase = a.phase
  BY DEF LockedSet, UsageAdded
<1>3. \A x \in Services : UsedByParent(b, x) = UsedByParent(a, x)
  BY <1>2 DEF UsedByParent
<1>4. \A x \in Services : Users(b, x) = Users(a, x) + UseOne(a, u, x)
  <2>1. \A x \in Services : ImplicitUses(LockedSet(a), x) \in Nat
    BY EdgeCounts DEF LockedSet
  <2>2. QED
    BY <1>1, <1>2, <2>1 DEF Users
<1>5. \A x \in Services : a.uses[x] \in Int
  BY StateFields
<1>6. ASSUME NEW x \in Services
      PROVE  a.uses[x] = UsesCount(a, hd, x) <=> b.uses[x] = UsesCount(b, hd, x)
  <2>1. CASE a.phase[x] = "running"
    <3>1. /\ hd[x] \in Nat /\ UsedByParent(a, x) \in {0, 1} /\ Users(a, x) \in Nat
          /\ UseOne(a, u, x) \in {0, 1}
      BY <1>1, UsersType DEF HeldOf, UsedByParent
    <3>2. /\ UsesCount(a, hd, x) = 1 + hd[x] + UsedByParent(a, x) + Users(a, x)
          /\ UsesCount(b, hd, x) = 1 + hd[x] + UsedByParent(a, x)
                                     + (Users(a, x) + UseOne(a, u, x))
          /\ b.uses[x] = a.uses[x] + UseOne(a, u, x)
      BY <1>2, <1>3, <1>4, <2>1 DEF UsesCount
    <3>3. QED
      BY <1>5, <3>1, <3>2
  <2>2. CASE a.phase[x] # "running"
    BY <1>2, <1>3, <1>5, <2>2 DEF UsesCount
  <2>3. QED
    BY <2>1, <2>2
<1>7. QED
  BY <1>6 DEF UsesOf

\* A count for one service or cluster is a function of all of them.
LEMMA OnlyFacts ==
  /\ \A x \in Services : Only(x, Services) \in [Services -> Int]
  /\ \A x, y \in Services : Only(x, Services)[y] = One(x, y)
  /\ \A x \in Heads : Only(x, Heads) \in [Heads -> Int]
  /\ \A x, y \in Heads : Only(x, Heads)[y] = One(x, y)
BY DEF Only, One

\* Connecting a weak usage keeps the counters exact.
LEMMA ConnectExact ==
  ASSUME NEW st \in States, NEW u \in Weak, u \notin st.conn, NEW hd, Exact(st, hd),
         NEW nx, nx = OnUsageConnected(st, u)
  PROVE  /\ nx \in States /\ Exact(nx, hd) /\ EqLife(st, nx)
         /\ nx.conn = st.conn \cup {u}
<1>1. /\ u \in Usages /\ Used[u] \in Services /\ User[u] \in Services
      /\ Head[Used[u]] \in Heads /\ Head[User[u]] \in Heads
  BY GraphAssumption, UsageFacts, GraphFacts
<1>2. PICK s, h, k : s = Used[u] /\ h = Head[User[u]] /\ k = Head[s]
  OBVIOUS
<1>3. s \in Services /\ h \in Heads /\ k \in Heads
  BY <1>1, <1>2
<1>4. PICK a : a = [st EXCEPT !.conn = @ \cup {u}]
  OBVIOUS
<1>5. /\ a \in States /\ EqLife(st, a) /\ EqUses(st, a) /\ EqReq(st, a)
      /\ EqPush(st, a) /\ EqPull(st, a) /\ a.conn = st.conn \cup {u}
      /\ a.released = st.released
  <2>1. st.conn \cup {u} \in SUBSET Usages
    BY <1>1, StateFields
  <2>2. PICK v : v = st.conn \cup {u}
    OBVIOUS
  <2>3. v \in SUBSET Usages /\ a = [st EXCEPT !.conn = v]
    BY <1>4, <2>1, <2>2
  <2>4. a \in States
    BY <2>3 DEF States
  <2>5. QED
    BY <2>2, <2>3, <2>4 DEF States, EqLife, EqUses, EqReq, EqPush, EqPull
<1>6. PICK b : b = IF IsRunning(st, s) /\ IsLocked(st, User[u])
                   THEN OnOutgoingIncrement(a, Only(s, Services)) ELSE a
  OBVIOUS
<1>7. /\ b \in States /\ EqLife(a, b) /\ EqReq(a, b) /\ EqPush(a, b) /\ EqPull(a, b)
      /\ EqConn(a, b)
      /\ \A x \in Services : b.uses[x] = a.uses[x] +
            (IF st.phase[x] = "running" THEN UseOne(st, u, x) ELSE 0)
  <2>1. CASE IsRunning(st, s) /\ IsLocked(st, User[u])
    <3>1. b = OnOutgoingIncrement(a, Only(s, Services))
      BY <1>6, <2>1
    <3>2. PICK by : by = Only(s, Services)
      OBVIOUS
    <3>3. by \in [Services -> Int] /\ \A y \in Services : by[y] = One(s, y)
      BY <1>3, <3>2, OnlyFacts
    <3>4. /\ b \in States /\ EqLife(a, b) /\ EqReq(a, b) /\ EqPush(a, b) /\ EqPull(a, b)
          /\ EqConn(a, b)
          /\ \A x \in Services : b.uses[x] = a.uses[x] + by[x]
      BY <1>5, <3>1, <3>2, <3>3, UsesIncrementFrame
    <3>5. \A x \in Services : One(s, x) =
            IF st.phase[x] = "running" THEN UseOne(st, u, x) ELSE 0
      BY <1>2, <2>1 DEF One, UseOne, IsRunning, IsLocked
    <3>6. QED
      BY <3>3, <3>4, <3>5
  <2>2. CASE ~(IsRunning(st, s) /\ IsLocked(st, User[u]))
    <3>1. b = a
      BY <1>6, <2>2
    <3>2. \A x \in Services :
            (IF st.phase[x] = "running" THEN UseOne(st, u, x) ELSE 0) = 0
      BY <1>2, <2>2 DEF UseOne, IsRunning, IsLocked
    <3>3. \A x \in Services : a.uses[x] \in Int
      BY <1>5, StateFields
    <3>4. QED
      BY <1>5, <3>1, <3>2, <3>3 DEF EqLife, EqReq, EqPush, EqPull, EqConn
  <2>3. QED
    BY <2>1, <2>2
<1>8. PICK c : c = IF IsPushed(st, h) THEN CallOnPushesIncrement(b, k) ELSE b
  OBVIOUS
<1>9. /\ c \in States /\ EqLife(b, c) /\ EqUses(b, c) /\ EqReq(b, c) /\ EqPull(b, c)
      /\ EqConn(b, c) /\ c.override = b.override
  <2>1. CASE IsPushed(st, h)
    BY <1>3, <1>7, <1>8, <2>1, PushesIncrementFrame
  <2>2. CASE ~IsPushed(st, h)
    BY <1>7, <1>8, <2>2 DEF EqLife, EqUses, EqReq, EqPull, EqConn
  <2>3. QED
    BY <2>1, <2>2
<1>10. nx = IF st.markStop[k] THEN OnPullsIncrement(c, Only(h, Heads)) ELSE c
  BY <1>2, <1>4, <1>6, <1>8 DEF OnUsageConnected
<1>11. /\ nx \in States /\ EqLife(c, nx) /\ EqUses(c, nx) /\ EqReq(c, nx)
       /\ EqPush(c, nx) /\ EqConn(c, nx) /\ nx.markStop = c.markStop
       /\ \A x \in Heads : nx.pulls[x] = c.pulls[x] + PullOne(st, u, x)
  <2>1. CASE st.markStop[k]
    <3>1. nx = OnPullsIncrement(c, Only(h, Heads))
      BY <1>10, <2>1
    <3>2. PICK by : by = Only(h, Heads)
      OBVIOUS
    <3>3. by \in [Heads -> Int] /\ \A y \in Heads : by[y] = One(h, y)
      BY <1>3, <3>2, OnlyFacts
    <3>4. /\ nx \in States /\ EqLife(c, nx) /\ EqUses(c, nx) /\ EqReq(c, nx)
          /\ EqPush(c, nx) /\ EqConn(c, nx) /\ nx.markStop = c.markStop
          /\ \A x \in Heads : nx.pulls[x] = c.pulls[x] + by[x]
      BY <1>9, <3>1, <3>2, <3>3, PullsIncrementFrame
    <3>5. \A x \in Heads : One(h, x) = PullOne(st, u, x)
      BY <1>2, <2>1 DEF One, PullOne
    <3>6. QED
      BY <3>3, <3>4, <3>5
  <2>2. CASE ~st.markStop[k]
    <3>1. nx = c
      BY <1>10, <2>2
    <3>2. \A x \in Heads : PullOne(st, u, x) = 0
      BY <1>2, <2>2 DEF PullOne
    <3>3. \A x \in Heads : c.pulls[x] \in Int
      BY <1>9, StateFields
    <3>4. QED
      BY <1>9, <3>1, <3>2, <3>3 DEF EqLife, EqUses, EqReq, EqPush, EqConn
  <2>3. QED
    BY <2>1, <2>2
<1>12. /\ EqLife(st, nx) /\ EqReq(st, nx) /\ nx.conn = st.conn \cup {u}
       /\ nx.released = st.released /\ nx.markStop = st.markStop
       /\ nx.override = st.override /\ nx.phase = st.phase
  BY <1>5, <1>7, <1>9, <1>11 DEF EqLife, EqReq, EqPush, EqPull, EqConn
<1>13. UsageAdded(st, nx, u)
  BY <1>12 DEF UsageAdded
<1>14. UsesOf(nx, hd) /\ HeldOf(nx, hd)
  <2>1. nx.uses = b.uses /\ a.uses = st.uses
    BY <1>5, <1>9, <1>11 DEF EqUses
  <2>2. \A x \in Services : nx.uses[x] = st.uses[x] +
            (IF st.phase[x] = "running" THEN UseOne(st, u, x) ELSE 0)
    BY <1>7, <2>1
  <2>3. UsesOf(st, hd) /\ HeldOf(st, hd)
    BY DEF Exact
  <2>4. UsesOf(st, hd) <=> UsesOf(nx, hd)
    BY <1>11, <1>13, <2>2, <2>3, UsesAdded
  <2>5. QED
    BY <1>12, <2>3, <2>4, HeldSame
<1>15. InnerOf(nx) /\ OuterOf(nx)
  BY <1>12, <1>13, RequirementsAdded DEF Exact
<1>16. PullsOf(nx)
  <2>1. \A x \in Heads : nx.pulls[x] = st.pulls[x] + PullOne(st, u, x)
    BY <1>5, <1>7, <1>9, <1>11 DEF EqPull
  <2>2. \A x \in Heads :
          Cardinality(PullEdges(nx, x)) = Cardinality(PullEdges(st, x)) + PullOne(st, u, x)
    BY <1>12, <1>13, PullAdded
  <2>3. QED
    BY <2>1, <2>2 DEF Exact, PullsOf
<1>17. RunsOf(nx)
  BY <1>12, RunsSame DEF Exact
<1>18. ConnOf(nx)
  BY <1>12 DEF Exact, ConnOf
<1>19. ASSUME PushesOf(st) PROVE PushesOf(nx)
  <2>1. /\ \A x \in Heads : st.pushes[x] = OwnPush(st, x)
              + OutCount(st.conn, x, Pushed(st))
        /\ \A x \in Heads : st.pushes[x] \in Nat /\ OwnPush(st, x) \in {0, 1}
    BY <1>19, PushesMeaning, PushesNat
  <2>2. PICK P : P = Pushed(st)
    OBVIOUS
  <2>3. \A x \in Heads :
          /\ OutCount(nx.conn, x, P) = OutCount(st.conn, x, P) + PushOne(u, x, P)
          /\ PushOne(u, x, P) \in {0, 1} /\ OutCount(st.conn, x, P) \in Nat
    BY <1>13, PushAdded
  <2>4. /\ b.pushes = st.pushes /\ b.conn = nx.conn /\ nx.pushes = c.pushes
        /\ Pushed(nx) = Pushed(c) /\ Pushed(b) = P
    BY <1>5, <1>7, <1>9, <1>11, <2>2 DEF EqPush, EqConn, Pushed
  <2>5. \A x \in Heads : OwnPush(nx, x) = OwnPush(st, x)
    BY <1>12 DEF OwnPush
  <2>6. h \in P <=> IsPushed(st, h)
    BY <1>3, <2>2 DEF Pushed, IsPushed
  <2>7. CASE IsPushed(st, h)
    <3>1. PICK own : own = [x \in Heads |-> OwnPush(st, x) - One(k, x)]
      OBVIOUS
    <3>2. \A x \in Heads : OwnPush(st, x) - One(k, x) \in Int
      BY <2>1 DEF One
    <3>3. own \in [Heads -> Int] /\ \A x \in Heads : own[x] = OwnPush(st, x) - One(k, x)
      BY <3>1, <3>2
    <3>4. \A x \in Heads : PushOne(u, x, P) = One(k, x)
      BY <1>2, <2>6, <2>7 DEF PushOne, One
    <3>5. \A x \in Heads : /\ b.pushes[x] \in Nat
                           /\ b.pushes[x] = own[x] + OutCount(b.conn, x, Pushed(b))
      BY <2>1, <2>2, <2>3, <2>4, <3>3, <3>4
    <3>6. c = CallOnPushesIncrement(b, k)
      BY <1>8, <2>7
    <3>7. \A x \in Heads : c.pushes[x] =
             own[x] + One(k, x) + OutCount(b.conn, x, Pushed(c))
      BY <1>3, <1>7, <3>3, <3>5, <3>6, PushesIncrementExact
    <3>8. \A x \in Heads : One(k, x) \in {0, 1}
      BY DEF One
    <3>9. \A x \in Heads : nx.pushes[x] =
             OwnPush(nx, x) + OutCount(nx.conn, x, Pushed(nx))
      BY <2>1, <2>4, <2>5, <3>3, <3>7, <3>8
    <3>10. QED
      BY <1>11, <3>9, PushesMeaning
  <2>8. CASE ~IsPushed(st, h)
    <3>1. c = b
      BY <1>8, <2>8
    <3>2. \A x \in Heads : PushOne(u, x, P) = 0
      BY <1>2, <2>6, <2>8 DEF PushOne
    <3>3. \A x \in Heads : nx.pushes[x] =
             OwnPush(nx, x) + OutCount(nx.conn, x, Pushed(nx))
      BY <2>1, <2>2, <2>3, <2>4, <2>5, <3>1, <3>2
    <3>4. QED
      BY <1>11, <3>3, PushesMeaning
  <2>9. QED
    BY <2>7, <2>8
<1>20. Exact(nx, hd)
  BY <1>14, <1>15, <1>16, <1>17, <1>18, <1>19 DEF Exact
<1>21. QED
  BY <1>11, <1>12, <1>20

\* In a graph without cycles the search for lost pushes does not come back to the
\* user of the usage that is disconnected.
LEMMA AncestorKept ==
  ASSUME NEW st \in States, NEW u \in Usages, u \in st.conn, Acyclic,
         NEW h, NEW k, h = Head[User[u]], k = Head[Used[u]], NEW A, A = {h}
  PROVE  Lost(st, k, A) \cap A = {}
<1>1. PICK rank \in [Heads -> Nat] :
        \A e \in Edges(Usages) : rank[Head[Src(e)]] < rank[Head[Dst(e)]]
  BY DEF Acyclic
<1>2. \A e \in Edges(st.conn) : /\ rank[Head[Src(e)]] < rank[Head[Dst(e)]]
                                /\ Head[Src(e)] \in Heads /\ Head[Dst(e)] \in Heads
  <2>1. Edges(st.conn) \subseteq Edges(Usages)
    BY StateFields DEF Edges
  <2>2. QED
    BY <1>1, <2>1, StateFields, EdgeFacts, GraphFacts
<1>3. h \in Heads /\ k \in Heads /\ rank[k] < rank[h]
  <2>1. u \in Edges(st.conn)
    BY DEF Edges
  <2>2. QED
    BY <1>2, <2>1, UsageFacts
<1> DEFINE C == {y \in Heads : rank[y] < rank[h]}
<1>4. ASSUME NEW y \in Heads, LostPushes(st, k, C, A)[y] # 0 PROVE y \in C
  <2>1. CASE y = k
    BY <1>3, <2>1
  <2>2. CASE y # k
    <3>1. LostPushes(st, k, C, A)[y] =
            0 + Cardinality({e \in ClusterOutEdges(st.conn, y) : Head[Dst(e)] \in C \ A})
      BY <2>2 DEF LostPushes, Only
    <3>2. PICK E : E = {e \in ClusterOutEdges(st.conn, y) : Head[Dst(e)] \in C \ A}
      OBVIOUS
    <3>3. E \subseteq Edges(st.conn) /\ st.conn \in SUBSET Usages
      BY <3>2, StateFields DEF ClusterOutEdges
    <3>4. Cardinality(E) \in Nat /\ (Cardinality(E) = 0 <=> E = {})
      BY <3>3, EdgesFinite
    <3>5. E # {}
      BY <1>4, <3>1, <3>2, <3>4
    <3>6. PICK e \in Edges(st.conn) : Head[Src(e)] = y /\ Head[Dst(e)] \in C
      BY <3>2, <3>5 DEF ClusterOutEdges
    <3>7. rank[y] < rank[Head[Dst(e)]] /\ rank[Head[Dst(e)]] < rank[h]
          /\ Head[Dst(e)] \in Heads
      BY <1>2, <3>6
    <3>8. QED
      BY <1>3, <3>7
  <2>3. QED
    BY <2>1, <2>2
<1>5. NoLongerPushed(st, k, A) \subseteq C
  <2>1. C \in SUBSET Heads
    OBVIOUS
  <2> HIDE DEF C
  <2>2. QED
    BY <1>4, <2>1 DEF NoLongerPushed
<1>6. h \notin C
  BY <1>3
<1>7. QED
  BY <1>5, <1>6 DEF Lost

\* Disconnecting a weak usage keeps the counters exact.
LEMMA DisconnectExact ==
  ASSUME NEW st \in States, NEW u \in Weak, u \in st.conn, NEW hd, Exact(st, hd),
         NEW nx, nx = OnUsageDisconnect(st, u)
  PROVE  /\ nx \in States /\ Exact(nx, hd) /\ EqLife(st, nx)
         /\ nx.conn = st.conn \ {u}
<1>1. /\ u \in Usages /\ Used[u] \in Services /\ User[u] \in Services
      /\ Head[Used[u]] \in Heads /\ Head[User[u]] \in Heads
      /\ Head[Used[u]] # Head[User[u]]
  BY GraphAssumption, UsageFacts, GraphFacts
<1>2. PICK s, h, k : s = Used[u] /\ h = Head[User[u]] /\ k = Head[s]
  OBVIOUS
<1>3. s \in Services /\ h \in Heads /\ k \in Heads /\ h # k
  BY <1>1, <1>2
<1>4. PICK a : a = IF st.markStop[k] THEN OnPullsDecrement(st, Only(h, Heads)) ELSE st
  OBVIOUS
<1>5. /\ a \in States /\ EqLife(st, a) /\ EqUses(st, a) /\ EqReq(st, a)
      /\ EqPush(st, a) /\ EqConn(st, a) /\ a.markStop = st.markStop
      /\ \A x \in Heads : a.pulls[x] = st.pulls[x] - PullOne(st, u, x)
  <2>1. CASE st.markStop[k]
    <3>1. a = OnPullsDecrement(st, Only(h, Heads))
      BY <1>4, <2>1
    <3>2. PICK by : by = Only(h, Heads)
      OBVIOUS
    <3>3. by \in [Heads -> Int] /\ \A y \in Heads : by[y] = One(h, y)
      BY <1>3, <3>2, OnlyFacts
    <3>4. /\ a \in States /\ EqLife(st, a) /\ EqUses(st, a) /\ EqReq(st, a)
          /\ EqPush(st, a) /\ EqConn(st, a) /\ a.markStop = st.markStop
          /\ \A x \in Heads : a.pulls[x] = st.pulls[x] - by[x]
      BY <3>1, <3>2, <3>3, PullsDecrementFrame
    <3>5. \A x \in Heads : One(h, x) = PullOne(st, u, x)
      BY <1>2, <2>1 DEF One, PullOne
    <3>6. QED
      BY <3>3, <3>4, <3>5
  <2>2. CASE ~st.markStop[k]
    <3>1. a = st
      BY <1>4, <2>2
    <3>2. \A x \in Heads : PullOne(st, u, x) = 0
      BY <1>2, <2>2 DEF PullOne
    <3>3. \A x \in Heads : st.pulls[x] \in Int
      BY StateFields
    <3>4. QED
      BY <3>1, <3>2, <3>3 DEF EqLife, EqUses, EqReq, EqPush, EqConn
  <2>3. QED
    BY <2>1, <2>2
<1>6. PICK A : A = {h}
  OBVIOUS
<1>7. PICK b : b = IF IsPushed(st, h) THEN CallOnPushesDecrement(a, k, A) ELSE a
  OBVIOUS
<1>8. /\ b \in States /\ EqLife(a, b) /\ EqUses(a, b) /\ EqReq(a, b) /\ EqPull(a, b)
      /\ EqConn(a, b) /\ b.override = a.override
  <2>1. CASE IsPushed(st, h)
    BY <1>3, <1>5, <1>7, <2>1, PushesDecrementFrame
  <2>2. CASE ~IsPushed(st, h)
    BY <1>5, <1>7, <2>2 DEF EqLife, EqUses, EqReq, EqPull, EqConn
  <2>3. QED
    BY <2>1, <2>2
<1>9. PICK c : c = IF IsRunning(st, s) /\ IsLocked(st, User[u])
                   THEN OnOutgoingDecrement(b, Only(s, Services)) ELSE b
  OBVIOUS
<1>10. /\ c \in States /\ EqLife(b, c) /\ EqReq(b, c) /\ EqPush(b, c) /\ EqPull(b, c)
       /\ EqConn(b, c)
       /\ \A x \in Services : c.uses[x] = b.uses[x] -
             (IF st.phase[x] = "running" THEN UseOne(st, u, x) ELSE 0)
  <2>1. CASE IsRunning(st, s) /\ IsLocked(st, User[u])
    <3>1. c = OnOutgoingDecrement(b, Only(s, Services))
      BY <1>9, <2>1
    <3>2. PICK by : by = Only(s, Services)
      OBVIOUS
    <3>3. by \in [Services -> Int] /\ \A y \in Services : by[y] = One(s, y)
      BY <1>3, <3>2, OnlyFacts
    <3>4. /\ c \in States /\ EqLife(b, c) /\ EqReq(b, c) /\ EqPush(b, c) /\ EqPull(b, c)
          /\ EqConn(b, c)
          /\ \A x \in Services : c.uses[x] = b.uses[x] - by[x]
      BY <1>8, <3>1, <3>2, <3>3, UsesDecrementFrame
    <3>5. \A x \in Services : One(s, x) =
            IF st.phase[x] = "running" THEN UseOne(st, u, x) ELSE 0
      BY <1>2, <2>1 DEF One, UseOne, IsRunning, IsLocked
    <3>6. QED
      BY <3>3, <3>4, <3>5
  <2>2. CASE ~(IsRunning(st, s) /\ IsLocked(st, User[u]))
    <3>1. c = b
      BY <1>9, <2>2
    <3>2. \A x \in Services :
            (IF st.phase[x] = "running" THEN UseOne(st, u, x) ELSE 0) = 0
      BY <1>2, <2>2 DEF UseOne, IsRunning, IsLocked
    <3>3. \A x \in Services : b.uses[x] \in Int
      BY <1>8, StateFields
    <3>4. QED
      BY <1>8, <3>1, <3>2, <3>3 DEF EqLife, EqReq, EqPush, EqPull, EqConn
  <2>3. QED
    BY <2>1, <2>2
<1>11. nx = [c EXCEPT !.conn = @ \ {u}, !.released = @ \ {u}]
  BY <1>2, <1>4, <1>6, <1>7, <1>9 DEF OnUsageDisconnect
<1>12. /\ nx \in States /\ EqLife(c, nx) /\ EqUses(c, nx) /\ EqReq(c, nx)
       /\ EqPush(c, nx) /\ EqPull(c, nx) /\ nx.conn = c.conn \ {u}
       /\ nx.released = c.released \ {u}
  <2>1. PICK v, w : v = c.conn \ {u} /\ w = c.released \ {u}
    OBVIOUS
  <2>2. v \in SUBSET Usages /\ w \in SUBSET Usages
    BY <1>10, <2>1, StateFields
  <2>3. nx = [c EXCEPT !.conn = v, !.released = w]
    BY <1>11, <2>1
  <2>4. nx \in States
    BY <1>10, <2>2, <2>3 DEF States
  <2>5. QED
    BY <1>10, <2>1, <2>3, <2>4 DEF States, EqLife, EqUses, EqReq, EqPush, EqPull
<1>13. /\ EqLife(st, nx) /\ EqReq(st, nx) /\ nx.conn = st.conn \ {u}
       /\ nx.released = st.released \ {u} /\ nx.markStop = st.markStop
       /\ nx.override = st.override /\ nx.phase = st.phase
  BY <1>5, <1>8, <1>10, <1>12 DEF EqLife, EqReq, EqPush, EqPull, EqConn
<1>14. UsageAdded(nx, st, u) /\ EqReq(nx, st)
  BY <1>13 DEF UsageAdded, EqReq
<1>15. UsesOf(nx, hd) /\ HeldOf(nx, hd)
  <2>1. nx.uses = c.uses /\ b.uses = st.uses
    BY <1>5, <1>8, <1>12 DEF EqUses
  <2>2. \A x \in Services : /\ UseOne(st, u, x) = UseOne(nx, u, x)
                            /\ UseOne(st, u, x) \in {0, 1} /\ st.uses[x] \in Int
    BY <1>13, StateFields DEF UseOne
  <2>3. \A x \in Services : st.uses[x] = nx.uses[x] +
            (IF nx.phase[x] = "running" THEN UseOne(nx, u, x) ELSE 0)
    BY <1>10, <1>13, <2>1, <2>2
  <2>4. UsesOf(st, hd) /\ HeldOf(nx, hd)
    BY <1>13, HeldSame DEF Exact
  <2>5. UsesOf(nx, hd) <=> UsesOf(st, hd)
    BY <1>12, <1>14, <2>3, <2>4, UsesAdded
  <2>6. QED
    BY <2>4, <2>5
<1>16. InnerOf(nx) /\ OuterOf(nx)
  BY <1>12, <1>14, RequirementsAdded DEF Exact
<1>17. PullsOf(nx)
  <2>1. \A x \in Heads : nx.pulls[x] = st.pulls[x] - PullOne(st, u, x)
    BY <1>5, <1>8, <1>10, <1>12 DEF EqPull
  <2>2. \A x \in Heads : PullOne(st, u, x) = PullOne(nx, u, x)
    BY <1>13 DEF PullOne
  <2>3. \A x \in Heads :
          /\ Cardinality(PullEdges(st, x)) = Cardinality(PullEdges(nx, x)) + PullOne(nx, u, x)
          /\ PullOne(nx, u, x) \in {0, 1} /\ Cardinality(PullEdges(nx, x)) \in Nat
    BY <1>12, <1>13, <1>14, PullAdded
  <2>4. \A x \in Heads : st.pulls[x] = Cardinality(PullEdges(st, x))
    BY DEF Exact, PullsOf
  <2>5. QED
    BY <2>1, <2>2, <2>3, <2>4 DEF PullsOf
<1>18. RunsOf(nx)
  BY <1>13, RunsSame DEF Exact
<1>19. ConnOf(nx)
  BY <1>13 DEF Exact, ConnOf
<1>20. ASSUME Acyclic, PushesOf(st) PROVE PushesOf(nx)
  <2>1. /\ \A x \in Heads : st.pushes[x] = OwnPush(st, x)
              + OutCount(st.conn, x, Pushed(st))
        /\ \A x \in Heads : st.pushes[x] \in Nat /\ OwnPush(st, x) \in {0, 1}
    BY <1>20, PushesMeaning, PushesNat
  <2>2. PICK P, R : P = Pushed(st) /\ R = Pushed(nx)
    OBVIOUS
  <2>3. ASSUME NEW x \in Heads, NEW C
        PROVE  /\ OutCount(st.conn, x, C) = OutCount(nx.conn, x, C) + PushOne(u, x, C)
               /\ PushOne(u, x, C) \in {0, 1} /\ OutCount(nx.conn, x, C) \in Nat
    <3>1. nx \in States /\ UsageAdded(nx, st, u)
      BY <1>12, <1>14
    <3>2. QED
      BY <3>1, PushAdded
  <2>4. /\ a.pushes = st.pushes /\ a.conn = st.conn /\ nx.pushes = b.pushes
        /\ R = Pushed(b) /\ Pushed(a) = P
    BY <1>5, <1>8, <1>10, <1>12, <2>2 DEF EqPush, EqConn, Pushed
  <2>5. \A x \in Heads : OwnPush(nx, x) = OwnPush(st, x)
    BY <1>13 DEF OwnPush
  <2>6. h \in P <=> IsPushed(st, h)
    BY <1>3, <2>2 DEF Pushed, IsPushed
  <2>7. CASE IsPushed(st, h)
    <3>1. PICK own : own = [x \in Heads |-> OwnPush(st, x)]
      OBVIOUS
    <3>3. own \in [Heads -> Int] /\ \A x \in Heads : own[x] = OwnPush(st, x)
      BY <2>1, <3>1
    <3>4. \A x \in Heads : PushOne(u, x, A) = One(k, x)
      BY <1>2, <1>6 DEF PushOne, One
    <3>5. \A x \in Heads : /\ a.pushes[x] \in Nat
                           /\ a.pushes[x] = own[x] + OutCount(a.conn, x, Pushed(a))
      BY <2>1, <2>2, <2>4, <3>3
    <3>6. \A x \in Heads : Loses(a, k, Pushed(a), A, x) <= a.pushes[x]
      <4>1. PICK D : D = P \ A
        OBVIOUS
      <4>2. P = D \cup A /\ D \cap A = {}
        BY <1>6, <2>6, <2>7, <4>1
      <4>3. \A x \in Heads : OutCount(st.conn, x, D \cup A) =
               OutCount(st.conn, x, D) + OutCount(st.conn, x, A)
        BY <4>2, OutCountSplit, StateFields
      <4>4. \A x \in Heads : Loses(a, k, Pushed(a), A, x) =
               One(k, x) + OutCount(st.conn, x, D)
        BY <2>4, <4>1 DEF Loses
      <4>5. \A x \in Heads : /\ OutCount(st.conn, x, D) \in Nat
                             /\ OutCount(st.conn, x, A) \in Nat
                             /\ One(k, x) <= OutCount(st.conn, x, A)
                             /\ One(k, x) \in {0, 1}
        BY <2>3, <3>4 DEF One
      <4>6. \A x \in Heads : st.pushes[x] = OwnPush(st, x)
               + (OutCount(st.conn, x, D) + OutCount(st.conn, x, A))
        BY <2>1, <2>2, <4>2, <4>3
      <4>7. QED
        BY <2>1, <2>4, <4>4, <4>5, <4>6
    <3>7. b = CallOnPushesDecrement(a, k, A)
      BY <1>7, <2>7
    <3>8. Lost(a, k, A) \cap A = {}
      BY <1>1, <1>2, <1>5, <1>6, <1>20, <2>4, AncestorKept
    <3>9. /\ Pushed(b) = Pushed(a) \ Lost(a, k, A)
          /\ \A x \in Heads : b.pushes[x] =
               (own[x] - One(k, x)) + OutCount(a.conn, x, Pushed(b))
      BY <1>3, <1>5, <3>3, <3>5, <3>6, <3>7, <3>8, PushesDecrementExact
    <3>10. h \in R
      BY <1>6, <2>4, <2>6, <2>7, <3>8, <3>9
    <3>11. \A x \in Heads : PushOne(u, x, R) = One(k, x) /\ One(k, x) \in {0, 1}
      BY <1>2, <3>10 DEF PushOne, One
    <3>12. \A x \in Heads : nx.pushes[x] = OwnPush(nx, x) + OutCount(nx.conn, x, R)
      <4>1. \A x \in Heads : OutCount(st.conn, x, R) = OutCount(nx.conn, x, R) + One(k, x)
        BY <2>3, <3>11
      <4>2. \A x \in Heads : nx.pushes[x] =
               (OwnPush(st, x) - One(k, x)) + OutCount(st.conn, x, R)
        BY <2>4, <3>3, <3>9
      <4>3. \A x \in Heads : OutCount(nx.conn, x, R) \in Nat
        BY <2>3
      <4>4. QED
        BY <2>1, <2>5, <3>11, <4>1, <4>2, <4>3
    <3>13. QED
      BY <1>12, <2>2, <3>12, PushesMeaning
  <2>8. CASE ~IsPushed(st, h)
    <3>1. b = a /\ R = P
      BY <1>7, <2>4, <2>8
    <3>2. \A x \in Heads : PushOne(u, x, P) = 0
      BY <1>2, <2>6, <2>8 DEF PushOne
    <3>3. \A x \in Heads : nx.pushes[x] = OwnPush(nx, x) + OutCount(nx.conn, x, R)
      <4>1. \A x \in Heads : OutCount(st.conn, x, P) = OutCount(nx.conn, x, P)
        BY <2>3, <3>2
      <4>2. QED
        BY <2>1, <2>2, <2>4, <2>5, <3>1, <4>1
    <3>4. QED
      BY <1>12, <2>2, <3>3, PushesMeaning
  <2>9. QED
    BY <2>7, <2>8
<1>21. Exact(nx, hd)
  BY <1>15, <1>16, <1>17, <1>18, <1>19, <1>20 DEF Exact
<1>22. QED
  BY <1>12, <1>13, <1>21

-----------------------------------------------------------------------------
(* The queue.  A service is queued to be stopped while it runs, and to be  *)
(* started while it does not.  The root is the exception: Run starts it    *)
(* although it may be queued already, and the entry remains until the      *)
(* queue is processed.  It cannot be queued to be stopped as well: Run     *)
(* pushes the root, and stop_root, which takes the push away, clears the   *)
(* queue.                                                                  *)

Busy(st) == st.processing \/ st.dispatched
Waits(st, s) == st.phase[s] \in {"stopped", "locked"}
Marked(st) == st.markStop[Root]
Kept(st) == st.override[Root] /\ ~Marked(st)

QInv(st) ==
  /\ \A s \in st.down : st.phase[s] = "running"
  /\ \A s \in st.up : s = Root \/ Waits(st, s)
  /\ (st.down = {} /\ st.up = {}) \/ Busy(st)
  /\ Root \in st.up => ~Marked(st)
  /\ Root \in st.up => Waits(st, Root) \/ (Kept(st) /\ Root \notin st.down)

\* What a handler that changes no phase does to the queue.
Adds(a, b) ==
  /\ b.phase = a.phase
  /\ Busy(a) => Busy(b)
  /\ (b.down = a.down /\ b.up = a.up) \/ Busy(b)
  /\ \A s \in b.down : s \in a.down \/ b.phase[s] = "running"
  /\ \A s \in b.up : s \in a.up \/ Waits(b, s)

\* The root is queued to be started only if it is not marked to stop.
RootUp(a, b) ==
  /\ Marked(b) => Marked(a)
  /\ Root \in b.up => Root \in a.up \/ ~Marked(b)

\* A root that was started and that nobody stopped is not queued to be stopped.
RootKept(a, b) == Kept(a) => Kept(b) /\ (Root \in b.down => Root \in a.down)

Grows(a, b) == Adds(a, b) /\ RootUp(a, b) /\ RootKept(a, b)

EqQueue(a, b) ==
  /\ b.phase = a.phase /\ b.down = a.down /\ b.up = a.up
  /\ b.processing = a.processing /\ b.dispatched = a.dispatched
EqRoot(a, b) == b.override = a.override /\ b.markStop = a.markStop

\* A queue that grows stays sound.
LEMMA GrowsKeeps ==
  ASSUME NEW a, NEW b, QInv(a), Grows(a, b)
  PROVE  QInv(b)
<1>1. \A s : Waits(a, s) <=> Waits(b, s)
  BY DEF Grows, Adds, Waits
<1>2. QED
  BY <1>1 DEF QInv, Grows, Adds, RootUp, RootKept

\* To add to the queue is transitive.
LEMMA AddsTrans ==
  ASSUME NEW a, NEW b, NEW c, Adds(a, b), Adds(b, c)
  PROVE  Adds(a, c)
BY DEF Adds, Waits

\* So is to grow.
LEMMA GrowsTrans ==
  ASSUME NEW a, NEW b, NEW c, Grows(a, b), Grows(b, c)
  PROVE  Grows(a, c)
<1>1. Adds(a, c)
  BY AddsTrans DEF Grows
<1>2. RootUp(a, c) /\ RootKept(a, c)
  BY DEF Grows, RootUp, RootKept
<1>3. QED
  BY <1>1, <1>2 DEF Grows

\* What is proved of handlers, in graphs without cycles: only there pushes_ tell
\* whether the root was started.
Added(a, b) == Acyclic => Adds(a, b)
Grown(a, b) == Acyclic => Grows(a, b)
Sound(a, b) == Acyclic /\ QInv(a) => QInv(b)

\* A handler that lets the queue grow keeps it sound.
LEMMA GrownSound ==
  ASSUME NEW a, NEW b, Grown(a, b)
  PROVE  Sound(a, b) /\ Added(a, b)
BY GrowsKeeps DEF Grown, Sound, Added, Grows

\* The three are transitive.
LEMMA AddedTrans ==
  ASSUME NEW a, NEW b, NEW c, Added(a, b), Added(b, c)
  PROVE  Added(a, c)
BY AddsTrans DEF Added

\* One handler after another: the queue grows.
LEMMA GrownTrans ==
  ASSUME NEW a, NEW b, NEW c, Grown(a, b), Grown(b, c)
  PROVE  Grown(a, c)
BY GrowsTrans DEF Grown

\* One handler after another: the queue stays sound.
LEMMA SoundTrans ==
  ASSUME NEW a, NEW b, NEW c, Sound(a, b), Sound(b, c)
  PROVE  Sound(a, c)
BY DEF Sound

\* Handlers that leave the queue alone.
LEMMA SameAdds ==
  ASSUME NEW a, NEW b, EqQueue(a, b)
  PROVE  Adds(a, b)
<1>1. Busy(b) = Busy(a)
  BY Zenon DEF EqQueue, Busy
<1>2. QED
  BY <1>1 DEF EqQueue, Adds

\* Without an override or a stop mark of its own the root is kept as before.
LEMMA SameRoot ==
  ASSUME NEW a, NEW b, EqRoot(a, b)
  PROVE  (Marked(b) <=> Marked(a)) /\ (Kept(b) <=> Kept(a))
<1>1. b.markStop[Root] = a.markStop[Root] /\ b.override[Root] = a.override[Root]
  BY DEF EqRoot
<1>2. QED
  BY <1>1, Zenon DEF Marked, Kept

\* A queue left alone has grown, by nothing.
LEMMA SameGrows ==
  ASSUME NEW a, NEW b, EqQueue(a, b), EqRoot(a, b)
  PROVE  Grows(a, b) /\ Grown(a, b)
<1>1. Adds(a, b)
  BY SameAdds
<1>2. RootUp(a, b) /\ RootKept(a, b)
  BY SameRoot DEF EqQueue, RootUp, RootKept
<1>3. QED
  BY <1>1, <1>2 DEF Grows, Grown

\* A root that was started is pushed.
PushedRoot(st) == Kept(st) => st.pushes[Root] # 0

\* Exact pushes count the override of the root.
LEMMA ExactPushed ==
  ASSUME NEW st \in States, NEW hd, Exact(st, hd), Acyclic
  PROVE  PushedRoot(st)
<1>1. st.pushes[Root] = OwnPush(st, Root) + Cardinality(PushEdges(st, Root))
  BY GraphFacts DEF Exact, PushesOf
<1>2. PushEdges(st, Root) \subseteq Edges(st.conn)
  BY EdgeSets, StateFields DEF PushEdges
<1>3. Cardinality(PushEdges(st, Root)) \in Nat
  BY <1>2, EdgesFinite, StateFields
<1>4. Kept(st) => OwnPush(st, Root) = 1
  BY DEF Kept, OwnPush
<1>5. QED
  BY <1>1, <1>3, <1>4 DEF PushedRoot

\* This depends on pushes_, the overrides and the stop marks only.
LEMMA SamePushed ==
  ASSUME NEW a, NEW b, b.pushes = a.pushes, EqRoot(a, b), PushedRoot(a)
  PROVE  PushedRoot(b)
BY SameRoot DEF PushedRoot

\* iterate and the two queues.
LEMMA IterateGrows ==
  ASSUME NEW st \in States, NEW nx, nx = Iterate(st)
  PROVE  /\ Grows(st, nx) /\ EqRoot(st, nx) /\ nx.phase = st.phase
         /\ nx.down = st.down /\ nx.up = st.up /\ Busy(nx)
<1>1. nx.phase = st.phase /\ nx.down = st.down /\ nx.up = st.up /\ EqRoot(st, nx)
  BY DEF Iterate, States, EqRoot
<1>2. nx.processing = st.processing /\ nx.dispatched = (st.dispatched \/ ~st.processing)
  BY DEF Iterate, States
<1>3. Busy(nx)
  BY <1>2, Zenon DEF Busy
<1>4. Adds(st, nx)
  BY <1>1, <1>3 DEF Adds
<1>5. RootUp(st, nx) /\ RootKept(st, nx)
  BY <1>1, SameRoot DEF RootUp, RootKept
<1>6. QED
  BY <1>1, <1>3, <1>4, <1>5 DEF Grows

\* Queueing running services to be stopped; the root only if nobody keeps it.
LEMMA PushDownAdds ==
  ASSUME NEW st \in States, NEW S \in SUBSET Services,
         \A s \in S : st.phase[s] = "running", NEW nx, nx = PushDown(st, S)
  PROVE  /\ Adds(st, nx) /\ RootUp(st, nx)
         /\ (Root \in S => ~Kept(st)) => RootKept(st, nx)
<1>1. CASE S = {}
  <2>1. nx = st
    BY <1>1 DEF PushDown
  <2>2. EqQueue(st, nx) /\ EqRoot(st, nx)
    BY <2>1 DEF EqQueue, EqRoot
  <2>3. QED
    BY <2>2, SameGrows DEF Grows
<1>2. CASE S # {}
  <2>1. PICK d : d = st.down \cup S
    OBVIOUS
  <2>2. PICK md : md = [st EXCEPT !.down = d]
    OBVIOUS
  <2>3. /\ md \in States /\ md.phase = st.phase /\ md.down = st.down \cup S
        /\ md.up = st.up /\ EqRoot(st, md)
    BY <2>1, <2>2 DEF States, EqRoot
  <2>4. nx = Iterate(md)
    BY <1>2, <2>1, <2>2 DEF PushDown
  <2>5. /\ EqRoot(md, nx) /\ nx.phase = md.phase /\ nx.down = md.down
        /\ nx.up = md.up /\ Busy(nx)
    BY <2>3, <2>4, IterateGrows
  <2>6. EqRoot(st, nx)
    BY <2>3, <2>5 DEF EqRoot
  <2>7. Adds(st, nx)
    BY <2>3, <2>5 DEF Adds
  <2>8. /\ RootUp(st, nx)
        /\ (Root \in S => ~Kept(st)) => RootKept(st, nx)
    BY <2>3, <2>5, <2>6, SameRoot DEF RootUp, RootKept
  <2>9. QED
    BY <2>7, <2>8
<1>3. QED
  BY <1>1, <1>2

\* Queueing services that wait to be started.
LEMMA PushUpGrows ==
  ASSUME NEW st \in States, NEW S \in SUBSET Services,
         \A s \in S : Waits(st, s), Root \in S => ~Marked(st),
         NEW nx, nx = PushUp(st, S)
  PROVE  Grows(st, nx)
<1>1. CASE S = {}
  <2>1. nx = st
    BY <1>1 DEF PushUp
  <2>2. EqQueue(st, nx) /\ EqRoot(st, nx)
    BY <2>1 DEF EqQueue, EqRoot
  <2>3. QED
    BY <2>2, SameGrows
<1>2. CASE S # {}
  <2>1. PICK d : d = st.up \cup S
    OBVIOUS
  <2>2. PICK md : md = [st EXCEPT !.up = d]
    OBVIOUS
  <2>3. /\ md \in States /\ md.phase = st.phase /\ md.up = st.up \cup S
        /\ md.down = st.down /\ EqRoot(st, md)
    BY <2>1, <2>2 DEF States, EqRoot
  <2>4. nx = Iterate(md)
    BY <1>2, <2>1, <2>2 DEF PushUp
  <2>5. /\ EqRoot(md, nx) /\ nx.phase = md.phase /\ nx.down = md.down
        /\ nx.up = md.up /\ Busy(nx)
    BY <2>3, <2>4, IterateGrows
  <2>6. EqRoot(st, nx)
    BY <2>3, <2>5 DEF EqRoot
  <2>7. \A s : Waits(nx, s) <=> Waits(st, s)
    BY <2>3, <2>5 DEF Waits
  <2>8. Adds(st, nx)
    BY <2>3, <2>5, <2>7 DEF Adds
  <2>9. RootUp(st, nx) /\ RootKept(st, nx)
    BY <2>3, <2>5, <2>6, SameRoot DEF RootUp, RootKept
  <2>10. QED
    BY <2>8, <2>9 DEF Grows
<1>3. QED
  BY <1>1, <1>2

\* The checks that fill the queue.
LEMMA CheckStoppableGrows ==
  ASSUME NEW st \in States, NEW S \in SUBSET Services,
         NEW nx, nx = CheckStoppable(st, S)
  PROVE  Adds(st, nx) /\ RootUp(st, nx) /\ (PushedRoot(st) => RootKept(st, nx))
<1>1. PICK T : T = {s \in S : IsStoppable(st, s) /\ ShallStop(st, Head[s])}
  OBVIOUS
<1>2. T \in SUBSET Services /\ \A s \in T : st.phase[s] = "running"
  BY <1>1 DEF IsStoppable, IsRunning
<1>3. nx = PushDown(st, T)
  BY <1>1 DEF CheckStoppable
<1>4. Root \in T => ShallStop(st, Root)
  BY <1>1, GraphFacts
<1>5. PushedRoot(st) => (Root \in T => ~Kept(st))
  BY <1>4 DEF ShallStop, IsPushed, PushedRoot, Kept, Marked
<1>6. QED
  BY <1>2, <1>3, <1>5, PushDownAdds

\* Only services that wait are startable: a root that is marked is not.
LEMMA CheckAnyGrows ==
  ASSUME NEW st \in States, NEW H, NEW nx, nx = CheckAnyInClusterStartable(st, H)
  PROVE  Grows(st, nx)
<1>1. PICK T : T = {s \in Services : /\ Head[s] \in H /\ ShallStart(st, Head[s])
                                     /\ InnerChildren(s) = {} /\ IsStartable(st, s)}
  OBVIOUS
<1>2. T \in SUBSET Services /\ \A s \in T : Waits(st, s)
  BY <1>1 DEF IsStartable, Waits
<1>3. nx = PushUp(st, T)
  BY <1>1 DEF CheckAnyInClusterStartable
<1>4. Root \in T => ShallStart(st, Root)
  BY <1>1, GraphFacts
<1>5. Root \in T => ~Marked(st)
  BY <1>4 DEF ShallStart, Marked
<1>6. QED
  BY <1>2, <1>3, <1>5, PushUpGrows

\* The same for the parents of a service that runs.
LEMMA CheckInnerGrows ==
  ASSUME NEW st \in States, NEW S \in SUBSET Services,
         NEW nx, nx = CheckInnerStartable(st, S)
  PROVE  Grows(st, nx)
<1>1. PICK T : T = {s \in S : IsStartable(st, s) /\ ShallStart(st, Head[s])}
  OBVIOUS
<1>2. T \in SUBSET Services /\ \A s \in T : Waits(st, s)
  BY <1>1 DEF IsStartable, Waits
<1>3. nx = PushUp(st, T)
  BY <1>1 DEF CheckInnerStartable
<1>4. Root \in T => ShallStart(st, Root)
  BY <1>1, GraphFacts
<1>5. Root \in T => ~Marked(st)
  BY <1>4 DEF ShallStart, Marked
<1>6. QED
  BY <1>2, <1>3, <1>5, PushUpGrows

\* One service takes a step: it is not queued to be stopped, and it waits then,
\* or is not queued to be started, or is the root that was started.
LEMMA PhaseSound ==
  ASSUME NEW a \in States, NEW b, QInv(a), NEW s \in Services, s \notin a.down,
         b.down = a.down, b.up = a.up, b.processing = a.processing,
         b.dispatched = a.dispatched, EqRoot(a, b),
         \A x \in Services : x # s => b.phase[x] = a.phase[x],
         Waits(b, s) \/ s \notin a.up \/ (s = Root /\ Kept(a))
  PROVE  QInv(b)
<1>1. Busy(b) <=> Busy(a)
  BY Zenon DEF Busy
<1>2. a.down \subseteq Services /\ a.up \subseteq Services
  BY DEF States
<1>3. \A x \in Services : x # s => (Waits(b, x) <=> Waits(a, x))
  BY DEF Waits
<1>4. (Marked(b) <=> Marked(a)) /\ (Kept(b) <=> Kept(a))
  BY SameRoot
<1>5. \A x \in b.down : b.phase[x] = "running"
  BY <1>2 DEF QInv
<1>6. \A x \in b.up : x = Root \/ Waits(b, x)
  BY <1>2, <1>3 DEF QInv
<1>7. Root \in b.up => Waits(b, Root) \/ (Kept(b) /\ Root \notin b.down)
  BY <1>2, <1>3, <1>4 DEF QInv
<1>8. QED
  BY <1>1, <1>4, <1>5, <1>6, <1>7 DEF QInv


EqQueues(a, b) ==
  /\ b.down = a.down /\ b.up = a.up
  /\ b.processing = a.processing /\ b.dispatched = a.dispatched

\* The phases of two records differ in one service.
PhaseStep(a, b, s, p) ==
  /\ b.phase[s] = p
  /\ \A x \in Services : x # s => b.phase[x] = a.phase[x]

\* A service that is starting, stopping or pending is not queued.
LEMMA MiddleSound ==
  ASSUME NEW a \in States, NEW b, NEW s \in Services, NEW p, PhaseStep(a, b, s, p),
         a.phase[s] \in {"starting", "stopping", "pending"},
         EqQueues(a, b), EqRoot(a, b)
  PROVE  Sound(a, b)
<1>1. SUFFICES ASSUME QInv(a) PROVE QInv(b)
  BY DEF Sound
<1>2. s \notin a.down /\ ~Waits(a, s)
  BY <1>1 DEF QInv, Waits
<1>3. s \notin a.up \/ (s = Root /\ Kept(a))
  BY <1>1, <1>2 DEF QInv
<1>4. QED
  BY <1>1, <1>2, <1>3, PhaseSound DEF PhaseStep, EqQueues

\* The checks grow the queue where the pushes are exact.
LEMMA ExactGrows ==
  ASSUME NEW a \in States, NEW b, NEW hd, Exact(a, hd), PushedRoot(a) => Grows(a, b)
  PROVE  Sound(a, b) /\ Grown(a, b)
BY ExactPushed, GrowsKeeps DEF Sound, Grown

\* A queue that only adds is sound if the root is queued to be started only while
\* it waits.
LEMMA AddsSound ==
  ASSUME NEW a, NEW b, QInv(a), Adds(a, b), RootUp(a, b),
         Root \in b.up => Waits(b, Root)
  PROVE  QInv(b)
<1>1. \A s : Waits(a, s) <=> Waits(b, s)
  BY DEF Adds, Waits
<1>2. QED
  BY <1>1 DEF QInv, Adds, RootUp
\* The handlers of the counters.  Increments leave the queue alone.
LEMMA UsesIncrementQueue ==
  ASSUME NEW st \in States, NEW by, NEW nx, nx = OnOutgoingIncrement(st, by)
  PROVE  EqQueue(st, nx) /\ EqRoot(st, nx)
BY DEF OnOutgoingIncrement, States, EqQueue, EqRoot

\* The same for outer_deps_missing_.
LEMMA OuterIncrementQueue ==
  ASSUME NEW st \in States, NEW by, NEW nx, nx = OnOuterRequiredIncrement(st, by)
  PROVE  EqQueue(st, nx) /\ EqRoot(st, nx)
BY DEF OnOuterRequiredIncrement, States, EqQueue, EqRoot

\* For pulls_.
LEMMA PullsIncrementQueue ==
  ASSUME NEW st \in States, NEW by, NEW nx, nx = OnPullsIncrement(st, by)
  PROVE  EqQueue(st, nx) /\ EqRoot(st, nx)
BY DEF OnPullsIncrement, States, EqQueue, EqRoot

\* For pushes_.
LEMMA PushesIncrementQueue ==
  ASSUME NEW st \in States, NEW h, NEW nx, nx = CallOnPushesIncrement(st, h)
  PROVE  EqQueue(st, nx) /\ EqRoot(st, nx)
BY DEF CallOnPushesIncrement, States, EqQueue, EqRoot

\* Decrements check what may be stopped or started then.
LEMMA UsesDecrementGrows ==
  ASSUME NEW st \in States, PushedRoot(st), NEW by \in [Services -> Int],
         NEW nx, nx = OnOutgoingDecrement(st, by)
  PROVE  Grows(st, nx)
<1>1. PICK v : v = [s \in Services |-> st.uses[s] - by[s]]
  OBVIOUS
<1>2. PICK md : md = [st EXCEPT !.uses = v]
  OBVIOUS
<1>3. md \in States /\ EqQueue(st, md) /\ EqRoot(st, md) /\ md.pushes = st.pushes
  <2>1. v \in [Services -> Int]
    BY <1>1 DEF States
  <2>2. md \in States
    BY <1>2, <2>1, PutUses
  <2>3. QED
    BY <1>2, <2>2 DEF States, EqQueue, EqRoot
<1>4. PICK A : A = {s \in Services : by[s] # 0 /\ md.uses[s] = 1}
  OBVIOUS
<1>5. PICK B : B = {s \in Members : md.uses[s] <= 2 /\ 2 < st.uses[s]}
  OBVIOUS
<1>6. PICK C : C = A \cup {Head[s] : s \in B}
  OBVIOUS
<1>7. C \in SUBSET Services
  BY <1>4, <1>5, <1>6, GraphFacts
<1>8. nx = CheckStoppable(md, C)
  BY <1>1, <1>2, <1>4, <1>5, <1>6 DEF OnOutgoingDecrement
<1>9. PushedRoot(md)
  BY <1>3, SamePushed
<1>10. Grows(md, nx)
  BY <1>3, <1>7, <1>8, <1>9, CheckStoppableGrows DEF Grows
<1>11. QED
  BY <1>3, <1>10, SameGrows, GrowsTrans

\* A cluster that misses nothing any more may be startable.
LEMMA OuterDecrementGrows ==
  ASSUME NEW st \in States, NEW by \in [Heads -> Int],
         NEW nx, nx = OnOuterRequiredDecrement(st, by)
  PROVE  Grows(st, nx)
<1>1. PICK v : v = [h \in Heads |-> st.outer[h] - by[h]]
  OBVIOUS
<1>2. PICK md : md = [st EXCEPT !.outer = v]
  OBVIOUS
<1>3. md \in States /\ EqQueue(st, md) /\ EqRoot(st, md)
  <2>1. v \in [Heads -> Int]
    BY <1>1 DEF States
  <2>2. md \in States
    BY <1>2, <2>1, PutOuter
  <2>3. QED
    BY <1>2, <2>2 DEF States, EqQueue, EqRoot
<1>4. PICK H : H = {h \in Heads : by[h] # 0 /\ md.outer[h] = 0}
  OBVIOUS
<1>5. nx = CheckAnyInClusterStartable(md, H)
  BY <1>1, <1>2, <1>4 DEF OnOuterRequiredDecrement
<1>6. Grows(md, nx)
  BY <1>3, <1>5, CheckAnyGrows
<1>7. QED
  BY <1>3, <1>6, SameGrows, GrowsTrans

\* A cluster that nothing pulls down any more may be startable.
LEMMA PullsDecrementGrows ==
  ASSUME NEW st \in States, NEW by \in [Heads -> Int],
         NEW nx, nx = OnPullsDecrement(st, by)
  PROVE  Grows(st, nx)
<1>1. PICK v : v = [h \in Heads |-> st.pulls[h] - by[h]]
  OBVIOUS
<1>2. PICK md : md = [st EXCEPT !.pulls = v]
  OBVIOUS
<1>3. md \in States /\ EqQueue(st, md) /\ EqRoot(st, md)
  <2>1. v \in [Heads -> Int]
    BY <1>1 DEF States
  <2>2. md \in States
    BY <1>2, <2>1, PutPulls
  <2>3. QED
    BY <1>2, <2>2 DEF States, EqQueue, EqRoot
<1>4. PICK H : H = {h \in Heads : by[h] # 0 /\ md.pulls[h] = 0}
  OBVIOUS
<1>5. nx = CheckAnyInClusterStartable(md, H)
  BY <1>1, <1>2, <1>4 DEF OnPullsDecrement
<1>6. Grows(md, nx)
  BY <1>3, <1>5, CheckAnyGrows
<1>7. QED
  BY <1>3, <1>6, SameGrows, GrowsTrans

\* A service that runs may make its parent and its users startable.
LEMMA RequiredDecrementGrows ==
  ASSUME NEW st \in States, NEW s \in Services,
         NEW nx, nx = CallOnRequiredDecrement(st, s)
  PROVE  Grows(st, nx)
<1>1. PICK p : p = IF s \in Members THEN {Parent[s]} ELSE {}
  OBVIOUS
<1>2. p \subseteq Services
  BY <1>1, GraphFacts
<1>3. PICK v : v = [x \in Services |-> st.inner[x] - IF x \in p THEN 1 ELSE 0]
  OBVIOUS
<1>4. PICK md : md = [st EXCEPT !.inner = v]
  OBVIOUS
<1>5. md \in States /\ EqQueue(st, md) /\ EqRoot(st, md)
  <2>1. v \in [Services -> Int]
    BY <1>3 DEF States
  <2>2. md \in States
    BY <1>4, <2>1, PutInner
  <2>3. QED
    BY <1>4, <2>2 DEF States, EqQueue, EqRoot
<1>6. PICK T : T = {x \in p : md.inner[x] = 0}
  OBVIOUS
<1>7. PICK ck : ck = CheckInnerStartable(md, T)
  OBVIOUS
<1>8. T \in SUBSET Services
  BY <1>2, <1>6
<1>9. ck \in States /\ Grows(md, ck)
  BY <1>5, <1>7, <1>8, CheckInnerFrame, CheckInnerGrows
<1>10. nx = OnOuterRequiredDecrement(ck, RequiredBy(st, s))
  BY <1>1, <1>3, <1>4, <1>6, <1>7 DEF CallOnRequiredDecrement
<1>11. Grows(ck, nx)
  BY <1>9, <1>10, RequiredByType, OuterDecrementGrows
<1>12. Grows(st, ck)
  BY <1>5, <1>9, SameGrows, GrowsTrans
<1>13. QED
  BY <1>11, <1>12, GrowsTrans

\* Dependencies that go missing queue nothing.
LEMMA RequiredIncrementQueue ==
  ASSUME NEW st \in States, NEW s, NEW nx, nx = CallOnRequiredIncrement(st, s)
  PROVE  EqQueue(st, nx) /\ EqRoot(st, nx)
BY DEF CallOnRequiredIncrement, OnOuterRequiredIncrement, States, EqQueue, EqRoot

\* Unlocking services.
LEMMA OuterOutgoingDecrementGrows ==
  ASSUME NEW st \in States, PushedRoot(st), NEW S \in SUBSET Services,
         NEW nx, nx = CallOnOuterOutgoingDecrement(st, S)
  PROVE  Grows(st, nx)
<1> DEFINE by == [s \in Services |->
              (IF IsRunning(st, s) THEN AllInto(st, S, s) ELSE 0)
                 + ImplicitUses(S, s)]
<1>1. by \in [Services -> Int]
  <2>1. \A s \in Services : AllInto(st, S, s) \in Int /\ ImplicitUses(S, s) \in Int
    BY EdgeCounts
  <2>2. \A s \in Services : (IF IsRunning(st, s) THEN AllInto(st, S, s) ELSE 0)
                             + ImplicitUses(S, s) \in Int
    BY <2>1
  <2>3. QED
    BY <2>2
<1>2. nx = OnOutgoingDecrement(st, by)
  BY DEF CallOnOuterOutgoingDecrement, AllInto
<1> HIDE DEF by
<1>3. QED
  BY <1>1, <1>2, UsesDecrementGrows

\* The inner children that a parent lets go may be stoppable.
LEMMA InnerDecrementGrows ==
  ASSUME NEW st \in States, PushedRoot(st), NEW s \in Services,
         NEW nx, nx = CallOnInnerOutgoingDecrement(st, s)
  PROVE  Grows(st, nx)
<1>1. PICK by : by = [x \in Services |-> IF x \in InnerChildren(s) THEN 1 ELSE 0]
  OBVIOUS
<1>2. by \in [Services -> Int]
  BY <1>1
<1>3. nx = OnOutgoingDecrement(st, by)
  BY <1>1 DEF CallOnInnerOutgoingDecrement
<1>4. QED
  BY <1>2, <1>3, UsesDecrementGrows

\* Clusters that are pushed no more may stop.
LEMMA PushesDecrementAdds ==
  ASSUME NEW st \in States, NEW h \in Heads, NEW A,
         NEW nx, nx = CallOnPushesDecrement(st, h, A)
  PROVE  Adds(st, nx) /\ RootUp(st, nx) /\ (PushedRoot(nx) => RootKept(st, nx))
<1>1. PICK gone : gone = IF st.pushes[h] = 1 THEN NoLongerPushed(st, h, A) ELSE {}
  OBVIOUS
<1>2. gone \in SUBSET Services
  BY <1>1, GraphFacts DEF NoLongerPushed
<1>3. PICK lost : lost = LostPushes(st, h, gone, A)
  OBVIOUS
<1>4. PICK v : v = [x \in Heads |-> st.pushes[x] - lost[x]]
  OBVIOUS
<1>5. PICK md : md = [st EXCEPT !.pushes = v]
  OBVIOUS
<1>6. nx = CheckStoppable(md, gone)
  BY <1>1, <1>3, <1>4, <1>5 DEF CallOnPushesDecrement
<1>7. v \in [Heads -> Int]
  <2>1. \A x \in Heads : lost[x] \in Int
    <3>1. PICK C : C = gone \ A
      OBVIOUS
    <3>2. \A x \in Heads : lost[x] = One(h, x) + OutCount(st.conn, x, C)
      BY <1>3, <3>1 DEF Only, One, OutCount, OutInto, LostPushes
    <3>3. \A x \in Heads : OutCount(st.conn, x, C) \in Nat
      BY StateFields, OutCountType
    <3>4. \A x \in Heads : One(h, x) \in {0, 1}
      BY DEF One
    <3>5. QED
      BY <3>2, <3>3, <3>4
  <2>2. QED
    BY <1>4, <2>1, StateFields
<1>8. md \in States
  BY <1>5, <1>7, PutPushes
<1>9. EqQueue(st, md) /\ EqRoot(st, md)
  BY <1>5, <1>8 DEF States, EqQueue, EqRoot
<1>10. Adds(md, nx) /\ RootUp(md, nx) /\ (PushedRoot(md) => RootKept(md, nx))
  BY <1>2, <1>6, <1>8, CheckStoppableGrows
<1>11. PushedRoot(nx) => PushedRoot(md)
  <2>1. EqCounters(md, nx)
    BY <1>2, <1>6, <1>8, CheckStoppableFrame
  <2>2. md.pushes = nx.pushes /\ EqRoot(nx, md)
    BY <2>1 DEF EqCounters, EqPush, EqPull, EqRoot
  <2>3. QED
    BY <2>2, SamePushed
<1>12. Grows(st, md)
  BY <1>9, SameGrows
<1>13. QED
  BY <1>10, <1>11, <1>12, AddsTrans DEF Grows, RootUp, RootKept

\* An override queues what it leaves to be stopped; the root only if it lost its own.
LEMMA SetOverrideAdds ==
  ASSUME NEW st \in States, NEW h \in Heads, NEW b \in BOOLEAN,
         NEW nx, nx = SetOverride(st, h, b)
  PROVE  /\ Adds(st, nx) /\ RootUp(st, nx)
         /\ PushedRoot(nx) /\ (h # Root \/ b) => RootKept(st, nx)
<1>1. PICK md : md = [st EXCEPT !.override[h] = b]
  OBVIOUS
<1>2. /\ md \in States /\ EqQueue(st, md) /\ md.markStop = st.markStop
      /\ md.override = [st.override EXCEPT ![h] = b]
      /\ st.override \in [Heads -> BOOLEAN]
  BY <1>1 DEF States, EqQueue
<1>3. Adds(st, md) /\ RootUp(st, md)
  <2>1. Marked(md) <=> Marked(st)
    <3>1. md.markStop[Root] = st.markStop[Root]
      BY <1>2
    <3>2. QED
      BY <3>1, Zenon DEF Marked
  <2>2. QED
    BY <1>2, <2>1, SameAdds DEF RootUp, EqQueue
<1>4. h # Root \/ b => RootKept(st, md)
  <2>1. md.markStop[Root] = st.markStop[Root] /\ md.down = st.down
    BY <1>2 DEF EqQueue
  <2>2. CASE h # Root
    <3>1. md.override[Root] = st.override[Root]
      BY <1>2, <2>2, GraphFacts
    <3>2. Kept(md) <=> Kept(st)
      BY <2>1, <3>1, Zenon DEF Kept, Marked
    <3>3. QED
      BY <2>1, <3>2 DEF RootKept
  <2>3. CASE h = Root /\ b
    <3>1. md.override[Root] = b
      BY <1>2, <2>3, GraphFacts
    <3>2. Kept(st) => Kept(md)
      BY <2>1, <2>3, <3>1, Zenon DEF Kept, Marked
    <3>3. QED
      BY <2>1, <3>2 DEF RootKept
  <2>4. QED
    BY <2>2, <2>3
<1>5. CASE st.override[h] = b
  <2>1. nx = st
    BY <1>5 DEF SetOverride
  <2>2. EqQueue(st, nx) /\ EqRoot(st, nx)
    BY <2>1 DEF EqQueue, EqRoot
  <2>3. QED
    BY <2>2, SameGrows DEF Grows
<1>6. CASE b = TRUE /\ st.override[h] # b
  <2>1. nx = CallOnPushesIncrement(md, h)
    BY <1>1, <1>6 DEF SetOverride
  <2>2. Grows(md, nx)
    BY <1>2, <2>1, PushesIncrementQueue, SameGrows
  <2>3. Adds(md, nx) /\ RootUp(md, nx) /\ RootKept(md, nx)
    BY <2>2 DEF Grows
  <2>4. Adds(st, nx)
    BY <1>3, <2>3, AddsTrans
  <2>5. QED
    BY <1>3, <1>4, <2>3, <2>4 DEF RootUp, RootKept
<1>7. CASE b = FALSE /\ st.override[h] # b
  <2>1. PICK A : A = {}
    OBVIOUS
  <2>2. nx = CallOnPushesDecrement(md, h, A)
    BY <1>1, <1>7, <2>1 DEF SetOverride
  <2>3. Adds(md, nx) /\ RootUp(md, nx) /\ (PushedRoot(nx) => RootKept(md, nx))
    BY <1>2, <2>2, PushesDecrementAdds
  <2>4. Adds(st, nx)
    BY <1>3, <2>3, AddsTrans
  <2>5. QED
    BY <1>3, <1>4, <2>3, <2>4 DEF RootUp, RootKept
<1>8. QED
  BY <1>5, <1>6, <1>7

\* Marks for a stop.  Only the mark of the root matters for the queue.
LEMMA MarkAdds ==
  ASSUME NEW st \in States, NEW h \in Heads, NEW b \in BOOLEAN,
         NEW nx, nx = DoMarkClusterForStop(st, h, b)
  PROVE  /\ Adds(st, nx)
         /\ h # Root \/ ~b => RootUp(st, nx) /\ RootKept(st, nx)
<1>1. PICK md : md = [st EXCEPT !.markStop[h] = b]
  OBVIOUS
<1>2. /\ md \in States /\ EqQueue(st, md) /\ md.override = st.override
      /\ md.markStop = [st.markStop EXCEPT ![h] = b]
      /\ st.markStop \in [Heads -> BOOLEAN]
  BY <1>1 DEF States, EqQueue
<1>3. Adds(st, md)
  BY <1>2, SameAdds
<1>4. h # Root \/ ~b => RootUp(st, md) /\ RootKept(st, md)
  <2>1. /\ md.override[Root] = st.override[Root] /\ md.down = st.down
        /\ md.up = st.up
    BY <1>2 DEF EqQueue
  <2>2. CASE h # Root
    <3>1. md.markStop[Root] = st.markStop[Root]
      BY <1>2, <2>2, GraphFacts
    <3>2. (Kept(md) <=> Kept(st)) /\ (Marked(md) <=> Marked(st))
      BY <2>1, <3>1, Zenon DEF Kept, Marked
    <3>3. QED
      BY <2>1, <3>2 DEF RootKept, RootUp
  <2>3. CASE h = Root /\ ~b
    <3>1. md.markStop[Root] = b
      BY <1>2, <2>3, GraphFacts
    <3>2. ~Marked(md) /\ (Kept(st) => Kept(md))
      BY <2>1, <2>3, <3>1, Zenon DEF Kept, Marked
    <3>3. QED
      BY <2>1, <3>2 DEF RootKept, RootUp
  <2>4. QED
    BY <2>2, <2>3
<1>5. PICK by : by = OutgoingPulls(st, h)
  OBVIOUS
<1>6. by \in [Heads -> Int]
  <2>1. \A x \in Heads : Cardinality(PullsFrom(st, h, x)) \in Int
    BY PullsFromFinite
  <2>2. by = [x \in Heads |-> Cardinality(PullsFrom(st, h, x))]
    BY <1>5 DEF OutgoingPulls, PullsFrom
  <2>3. QED
    BY <2>1, <2>2
<1>7. CASE st.markStop[h] = b
  <2>1. nx = st
    BY <1>7 DEF DoMarkClusterForStop
  <2>2. EqQueue(st, nx) /\ EqRoot(st, nx)
    BY <2>1 DEF EqQueue, EqRoot
  <2>3. QED
    BY <2>2, SameGrows DEF Grows
<1>8. CASE st.markStop[h] # b
  <2>1. Grows(md, nx)
    <3>1. CASE b = TRUE
      <4>1. nx = OnPullsIncrement(md, by)
        BY <1>1, <1>5, <1>8, <3>1 DEF DoMarkClusterForStop
      <4>2. QED
        BY <1>2, <4>1, PullsIncrementQueue, SameGrows
    <3>2. CASE b = FALSE
      <4>1. nx = OnPullsDecrement(md, by)
        BY <1>1, <1>5, <1>8, <3>2 DEF DoMarkClusterForStop
      <4>2. QED
        BY <1>2, <1>6, <4>1, PullsDecrementGrows
    <3>3. QED
      BY <3>1, <3>2
  <2>2. Adds(md, nx) /\ RootUp(md, nx) /\ RootKept(md, nx)
    BY <2>1 DEF Grows
  <2>3. Adds(st, nx)
    BY <1>3, <2>2, AddsTrans
  <2>4. QED
    BY <1>4, <2>2, <2>3 DEF RootUp, RootKept
<1>9. QED
  BY <1>7, <1>8

\* Connecting a usage queues nothing.
LEMMA ConnectQueue ==
  ASSUME NEW st \in States, NEW u \in Weak, NEW nx, nx = OnUsageConnected(st, u)
  PROVE  EqQueue(st, nx) /\ EqRoot(st, nx)
<1>1. /\ u \in Usages /\ Used[u] \in Services /\ User[u] \in Services
      /\ Head[Used[u]] \in Heads /\ Head[User[u]] \in Heads
  BY GraphAssumption, UsageFacts, GraphFacts
<1>2. PICK s, h, k : s = Used[u] /\ h = Head[User[u]] /\ k = Head[s]
  OBVIOUS
<1>3. s \in Services /\ h \in Heads /\ k \in Heads
  BY <1>1, <1>2
<1>4. PICK bh, bs : bh = Only(h, Heads) /\ bs = Only(s, Services)
  OBVIOUS
<1>5. bh \in [Heads -> Int] /\ bs \in [Services -> Int]
  BY <1>3, <1>4, OnlyFacts
<1>6. PICK v : v = st.conn \cup {u}
  OBVIOUS
<1>7. PICK a : a = [st EXCEPT !.conn = v]
  OBVIOUS
<1>8. a \in States /\ EqQueue(st, a) /\ EqRoot(st, a)
  <2>1. v \in SUBSET Usages
    BY <1>1, <1>6, StateFields
  <2>2. QED
    BY <1>7, <2>1 DEF States, EqQueue, EqRoot
<1>9. PICK b : b = IF IsRunning(st, s) /\ IsLocked(st, User[u])
                   THEN OnOutgoingIncrement(a, bs) ELSE a
  OBVIOUS
<1>10. b \in States /\ EqQueue(a, b) /\ EqRoot(a, b)
  <2>1. CASE IsRunning(st, s) /\ IsLocked(st, User[u])
    BY <1>5, <1>8, <1>9, <2>1, UsesIncrementFrame, UsesIncrementQueue
  <2>2. CASE ~(IsRunning(st, s) /\ IsLocked(st, User[u]))
    BY <1>8, <1>9, <2>2 DEF EqQueue, EqRoot
  <2>3. QED
    BY <2>1, <2>2
<1>11. PICK c : c = IF IsPushed(st, h) THEN CallOnPushesIncrement(b, k) ELSE b
  OBVIOUS
<1>12. c \in States /\ EqQueue(b, c) /\ EqRoot(b, c)
  <2>1. CASE IsPushed(st, h)
    BY <1>3, <1>10, <1>11, <2>1, PushesIncrementFrame, PushesIncrementQueue
  <2>2. CASE ~IsPushed(st, h)
    BY <1>10, <1>11, <2>2 DEF EqQueue, EqRoot
  <2>3. QED
    BY <2>1, <2>2
<1>13. nx = IF st.markStop[k] THEN OnPullsIncrement(c, bh) ELSE c
  BY <1>2, <1>4, <1>6, <1>7, <1>9, <1>11 DEF OnUsageConnected
<1>14. EqQueue(c, nx) /\ EqRoot(c, nx)
  <2>1. CASE st.markStop[k]
    BY <1>12, <1>13, <2>1, PullsIncrementQueue
  <2>2. CASE ~st.markStop[k]
    BY <1>12, <1>13, <2>2 DEF EqQueue, EqRoot
  <2>3. QED
    BY <2>1, <2>2
<1>15. QED
  BY <1>8, <1>10, <1>12, <1>14 DEF EqQueue, EqRoot

\* Disconnecting one may make services stoppable or startable.
LEMMA DisconnectGrows ==
  ASSUME NEW st \in States, NEW u \in Weak, u \in st.conn, NEW hd, Exact(st, hd), Acyclic,
         NEW nx, nx = OnUsageDisconnect(st, u)
  PROVE  Grows(st, nx)
<1>1. /\ u \in Usages /\ Used[u] \in Services /\ User[u] \in Services
      /\ Head[Used[u]] \in Heads /\ Head[User[u]] \in Heads
  BY GraphAssumption, UsageFacts, GraphFacts
<1>2. PICK s, h, k : s = Used[u] /\ h = Head[User[u]] /\ k = Head[s]
  OBVIOUS
<1>3. s \in Services /\ h \in Heads /\ k \in Heads
  BY <1>1, <1>2
<1>4. PICK bh, bs : bh = Only(h, Heads) /\ bs = Only(s, Services)
  OBVIOUS
<1>5. bh \in [Heads -> Int] /\ bs \in [Services -> Int]
  BY <1>3, <1>4, OnlyFacts
<1>6. PICK a : a = IF st.markStop[k] THEN OnPullsDecrement(st, bh) ELSE st
  OBVIOUS
<1>7. a \in States /\ Grows(st, a)
  <2>1. CASE st.markStop[k]
    BY <1>5, <1>6, <2>1, PullsDecrementFrame, PullsDecrementGrows
  <2>2. CASE ~st.markStop[k]
    <3>1. a = st
      BY <1>6, <2>2
    <3>2. EqQueue(st, a) /\ EqRoot(st, a)
      BY <3>1 DEF EqQueue, EqRoot
    <3>3. QED
      BY <3>1, <3>2, SameGrows
  <2>3. QED
    BY <2>1, <2>2
<1>8. PICK A : A = {h}
  OBVIOUS
<1>9. PICK b : b = IF IsPushed(st, h) THEN CallOnPushesDecrement(a, k, A) ELSE a
  OBVIOUS
<1>10. /\ b \in States /\ Adds(a, b) /\ RootUp(a, b)
       /\ PushedRoot(b) => RootKept(a, b)
  <2>1. CASE IsPushed(st, h)
    BY <1>3, <1>7, <1>9, <2>1, PushesDecrementFrame, PushesDecrementAdds
  <2>2. CASE ~IsPushed(st, h)
    <3>1. b = a
      BY <1>9, <2>2
    <3>2. EqQueue(a, b) /\ EqRoot(a, b)
      BY <3>1 DEF EqQueue, EqRoot
    <3>3. QED
      BY <1>7, <3>1, <3>2, SameGrows DEF Grows
  <2>3. QED
    BY <2>1, <2>2
<1>11. PICK c : c = IF IsRunning(st, s) /\ IsLocked(st, User[u])
                    THEN OnOutgoingDecrement(b, bs) ELSE b
  OBVIOUS
<1>12. /\ c \in States /\ EqPush(b, c) /\ EqPull(b, c)
       /\ PushedRoot(b) => Grows(b, c)
  <2>1. CASE IsRunning(st, s) /\ IsLocked(st, User[u])
    BY <1>5, <1>10, <1>11, <2>1, UsesDecrementFrame, UsesDecrementGrows
  <2>2. CASE ~(IsRunning(st, s) /\ IsLocked(st, User[u]))
    <3>1. c = b
      BY <1>11, <2>2
    <3>2. EqQueue(b, c) /\ EqRoot(b, c) /\ EqPush(b, c) /\ EqPull(b, c)
      BY <3>1 DEF EqQueue, EqRoot, EqPush, EqPull
    <3>3. QED
      BY <1>10, <3>1, <3>2, SameGrows
  <2>3. QED
    BY <2>1, <2>2
<1>13. nx = [c EXCEPT !.conn = @ \ {u}, !.released = @ \ {u}]
  BY <1>2, <1>4, <1>6, <1>8, <1>9, <1>11 DEF OnUsageDisconnect
<1>14. EqQueue(c, nx) /\ EqRoot(c, nx) /\ nx.pushes = c.pushes
  BY <1>12, <1>13 DEF States, EqQueue, EqRoot
<1>15. PushedRoot(b)
  <2>1. nx \in States /\ Exact(nx, hd)
    BY DisconnectExact
  <2>2. PushedRoot(nx)
    BY <2>1, ExactPushed
  <2>3. b.pushes = nx.pushes /\ EqRoot(nx, b)
    BY <1>12, <1>14 DEF EqPush, EqPull, EqRoot
  <2>4. QED
    BY <2>2, <2>3, SamePushed
<1>16. Grows(a, b) /\ Grows(b, c)
  BY <1>10, <1>12, <1>15 DEF Grows
<1>17. Grows(st, b)
  BY <1>7, <1>16, GrowsTrans
<1>18. Grows(st, c)
  BY <1>16, <1>17, GrowsTrans
<1>19. QED
  BY <1>14, <1>18, SameGrows, GrowsTrans

\* A weak usage that is released at once.
LEMMA ReleaseGrows ==
  ASSUME NEW st \in States, NEW u \in Weak, u \in st.conn, NEW hd, Exact(st, hd), Acyclic,
         NEW nx, nx = RequestRelease(st, u)
  PROVE  Grows(st, nx)
<1>1. CASE u \in st.released
  <2>1. nx = st
    BY <1>1 DEF RequestRelease
  <2>2. EqQueue(st, nx) /\ EqRoot(st, nx)
    BY <2>1 DEF EqQueue, EqRoot
  <2>3. QED
    BY <2>2, SameGrows
<1>2. CASE u \notin st.released /\ u \in replyNow
  <2>1. nx = OnUsageDisconnect(st, u)
    BY <1>2 DEF RequestRelease
  <2>2. QED
    BY <2>1, DisconnectGrows
<1>3. CASE u \notin st.released /\ u \notin replyNow
  <2>1. nx = [st EXCEPT !.released = @ \cup {u}]
    BY <1>3 DEF RequestRelease
  <2>2. EqQueue(st, nx) /\ EqRoot(st, nx)
    BY <2>1 DEF States, EqQueue, EqRoot
  <2>3. QED
    BY <2>2, SameGrows
<1>4. QED
  BY <1>1, <1>2, <1>3

-----------------------------------------------------------------------------
(* The loops over usages. *)

\* So does asking a weak usage to be released.
LEMMA ReleaseExact ==
  ASSUME NEW st \in States, NEW u \in Weak, u \in st.conn, NEW hd, Exact(st, hd),
         NEW nx, nx = RequestRelease(st, u)
  PROVE  /\ nx \in States /\ Exact(nx, hd) /\ EqLife(st, nx)
         /\ st.conn \ {u} \subseteq nx.conn
<1>1. CASE u \in st.released
  BY <1>1 DEF RequestRelease, EqLife
<1>2. CASE u \notin st.released /\ u \in replyNow
  <2>1. nx = OnUsageDisconnect(st, u)
    BY <1>2 DEF RequestRelease
  <2>2. QED
    BY <2>1, DisconnectExact
<1>3. CASE u \notin st.released /\ u \notin replyNow
  <2>1. PICK v : v = st.released \cup {u}
    OBVIOUS
  <2>2. nx = [st EXCEPT !.released = v] /\ v \in SUBSET Usages
    BY <1>3, <2>1, StateFields, GraphAssumption DEF RequestRelease
  <2>3. nx \in States
    BY <2>2 DEF States
  <2>4. /\ EqLife(st, nx) /\ EqUses(st, nx) /\ EqReq(st, nx) /\ EqPush(st, nx)
        /\ EqPull(st, nx) /\ nx.conn = st.conn /\ nx.released = v
    BY <2>2, <2>3 DEF States, EqLife, EqUses, EqReq, EqPush, EqPull
  <2>5. Exact(nx, hd)
    <3>1. nx.phase = st.phase /\ nx.uses = st.uses
      BY <2>4 DEF EqLife, EqUses
    <3>2. UsesOf(nx, hd) /\ HeldOf(nx, hd)
      BY <2>4, <3>1, UsesSame, HeldSame DEF Exact
    <3>3. InnerOf(nx) /\ OuterOf(nx)
      BY <2>4, <3>1, ReqSame DEF Exact
    <3>4. PullsOf(nx) /\ RunsOf(nx) /\ (Acyclic => PushesOf(nx))
      BY <2>4, PullsSame, RunsSame, PushesSame DEF Exact
    <3>5. ConnOf(nx)
      BY <2>1, <2>4 DEF Exact, ConnOf
    <3>6. QED
      BY <3>2, <3>3, <3>4, <3>5 DEF Exact
  <2>6. QED
    BY <2>3, <2>4, <2>5
<1>4. QED
  BY <1>1, <1>2, <1>3

\* And asking several of them, one after the other.
LEMMA ReleasesExact ==
  ASSUME NEW st \in States, NEW hd, Exact(st, hd), NEW U, U \subseteq Weak \cap st.conn,
         NEW nx, nx = RequestReleases(st, U)
  PROVE  nx \in States /\ Exact(nx, hd) /\ EqLife(st, nx) /\ Grown(st, nx)
<1> DEFINE Good(s) == {t \in States : /\ Exact(t, hd) /\ EqLife(st, t)
                                      /\ U \ s \subseteq t.conn /\ Grown(st, t)}
           Q == [s \in SUBSET U |-> Good(s)]
           g == [p \in U \X States |-> RequestRelease(p[2], p[1])]
           Body(f) == [s \in SUBSET U |->
              IF s = {} THEN st
              ELSE RequestRelease(f[s \ {CHOOSE x \in s : TRUE}], CHOOSE x \in s : TRUE)]
           iter == CHOOSE f : f = Body(f)
<1>1. nx = iter[U]
  BY DEF RequestReleases, FoldSet, MapThenFoldSet
<1>2. IsFiniteSet(U)
  BY FS_Subset, GraphAssumption
<1>3. \A s \in SUBSET U : Q[s] \subseteq States
  OBVIOUS
<1>4. st \in Q[{}]
  <2>1. EqQueue(st, st) /\ EqRoot(st, st)
    BY DEF EqQueue, EqRoot
  <2>2. QED
    BY <2>1, SameGrows DEF EqLife
<1>5. FoldStep(U, Q, g)
  <2>1. SUFFICES ASSUME NEW s \in SUBSET U, NEW x \in s, NEW t \in Q[s \ {x}]
                 PROVE  g[<<x, t>>] \in Q[s]
    BY DEF FoldStep
  <2>2. /\ t \in States /\ Exact(t, hd) /\ EqLife(st, t) /\ U \ (s \ {x}) \subseteq t.conn
        /\ x \in U /\ x \in Weak /\ x \in t.conn /\ Grown(st, t)
    OBVIOUS
  <2>3. PICK n : n = RequestRelease(t, x)
    OBVIOUS
  <2>4. n \in States /\ Exact(n, hd) /\ EqLife(t, n) /\ t.conn \ {x} \subseteq n.conn
    BY <2>2, <2>3, ReleaseExact
  <2>5. EqLife(st, n) /\ U \ s \subseteq n.conn /\ Grown(st, n)
    <3>1. Grown(t, n)
      BY <2>2, <2>3, ReleaseGrows DEF Grown
    <3>2. Grown(st, n)
      BY <2>2, <3>1, GrownTrans
    <3>3. QED
      BY <2>2, <2>4, <3>2 DEF EqLife
  <2>6. n \in Q[s]
    BY <2>4, <2>5
  <2>7. g[<<x, t>>] = n
    BY <2>2, <2>3
  <2>8. QED
    BY <2>6, <2>7
<1>6. PICK f \in [SUBSET U -> States] :
        IsFold(f, U, st, g) /\ \A s \in SUBSET U : f[s] \in Q[s]
  <2> HIDE DEF Q, g
  <2> QED BY <1>2, <1>3, <1>4, <1>5, FoldGuarded, Zenon
<1>7. f = Body(f)
  <2>1. \A s \in SUBSET U : s # {} =>
          Chosen(s) \in U /\ f[s \ {Chosen(s)}] \in States /\ Chosen(s) \in s
    BY <1>6 DEF Chosen
  <2>2. \A s \in SUBSET U : f[s] =
          IF s = {} THEN st ELSE RequestRelease(f[s \ {Chosen(s)}], Chosen(s))
    BY <1>6, <2>1 DEF IsFold
  <2>3. QED
    BY <1>6, <2>2 DEF Chosen
<1>8. iter = Body(iter)
  <2> HIDE DEF Body
  <2> QED BY <1>7, Zenon
<1>9. \A s \in SUBSET U : iter[s] =
        IF s = {} THEN st ELSE RequestRelease(iter[s \ {Chosen(s)}], Chosen(s))
  <2> HIDE DEF iter
  <2> QED BY <1>8 DEF Chosen
<1> HIDE DEF iter
<1>10. iter[U] \in Q[U]
  <2>1. iter[{}] \in Q[{}]
    BY <1>4, <1>9
  <2>2. ASSUME NEW s \in SUBSET U, NEW x \in s, x = Chosen(s),
               iter[s \ {x}] \in Q[s \ {x}]
        PROVE  iter[s] \in Q[s]
    <3>1. iter[s] = RequestRelease(iter[s \ {x}], x)
      BY <1>9, <2>2
    <3>2. g[<<x, iter[s \ {x}]>>] \in Q[s]
      BY <1>5, <2>2 DEF FoldStep
    <3>3. iter[s \ {x}] \in States /\ x \in U
      BY <1>3, <2>2
    <3>4. QED
      BY <3>1, <3>2, <3>3
  <2> HIDE DEF Q
  <2>3. QED
    BY <1>2, <2>1, <2>2, FoldInduction
<1>11. QED
  BY <1>1, <1>10

\* Connecting the weak usages that wait keeps the counters exact.
LEMMA ConnectAllExact ==
  ASSUME NEW st \in States, NEW hd, Exact(st, hd), NEW U, U \subseteq Weak,
         U \cap st.conn = {}, NEW nx, nx = ConnectAll(st, U)
  PROVE  /\ nx \in States /\ Exact(nx, hd) /\ EqLife(st, nx)
         /\ EqQueue(st, nx) /\ EqRoot(st, nx)
<1> DEFINE Good(s) == {t \in States : /\ Exact(t, hd) /\ EqLife(st, t)
                                      /\ (U \ s) \cap t.conn = {}
                                      /\ EqQueue(st, t) /\ EqRoot(st, t)}
           Q == [s \in SUBSET U |-> Good(s)]
           g == [p \in U \X States |-> OnUsageConnected(p[2], p[1])]
           Body(f) == [s \in SUBSET U |->
              IF s = {} THEN st
              ELSE OnUsageConnected(f[s \ {CHOOSE x \in s : TRUE}], CHOOSE x \in s : TRUE)]
           iter == CHOOSE f : f = Body(f)
<1>1. nx = iter[U]
  BY DEF ConnectAll, FoldSet, MapThenFoldSet
<1>2. IsFiniteSet(U)
  BY FS_Subset, GraphAssumption
<1>3. \A s \in SUBSET U : Q[s] \subseteq States
  OBVIOUS
<1>4. st \in Q[{}]
  BY DEF EqLife, EqQueue, EqRoot
<1>5. FoldStep(U, Q, g)
  <2>1. SUFFICES ASSUME NEW s \in SUBSET U, NEW x \in s, NEW t \in Q[s \ {x}]
                 PROVE  g[<<x, t>>] \in Q[s]
    BY DEF FoldStep
  <2>2. /\ t \in States /\ Exact(t, hd) /\ EqLife(st, t)
        /\ EqQueue(st, t) /\ EqRoot(st, t)
        /\ (U \ (s \ {x})) \cap t.conn = {} /\ x \in U /\ x \in Weak /\ x \notin t.conn
    OBVIOUS
  <2>3. PICK n : n = OnUsageConnected(t, x)
    OBVIOUS
  <2>4. n \in States /\ Exact(n, hd) /\ EqLife(t, n) /\ n.conn = t.conn \cup {x}
    BY <2>2, <2>3, ConnectExact
  <2>5. EqLife(st, n) /\ (U \ s) \cap n.conn = {} /\ EqQueue(st, n) /\ EqRoot(st, n)
    <3>1. EqQueue(t, n) /\ EqRoot(t, n)
      BY <2>2, <2>3, ConnectQueue
    <3>2. QED
      BY <2>2, <2>4, <3>1 DEF EqLife, EqQueue, EqRoot
  <2>6. n \in Q[s]
    BY <2>4, <2>5
  <2>7. g[<<x, t>>] = n
    BY <2>2, <2>3
  <2>8. QED
    BY <2>6, <2>7
<1>6. PICK f \in [SUBSET U -> States] :
        IsFold(f, U, st, g) /\ \A s \in SUBSET U : f[s] \in Q[s]
  <2> HIDE DEF Q, g
  <2> QED BY <1>2, <1>3, <1>4, <1>5, FoldGuarded, Zenon
<1>7. f = Body(f)
  <2>1. \A s \in SUBSET U : s # {} =>
          Chosen(s) \in U /\ f[s \ {Chosen(s)}] \in States /\ Chosen(s) \in s
    BY <1>6 DEF Chosen
  <2>2. \A s \in SUBSET U : f[s] =
          IF s = {} THEN st ELSE OnUsageConnected(f[s \ {Chosen(s)}], Chosen(s))
    BY <1>6, <2>1 DEF IsFold
  <2>3. QED
    BY <1>6, <2>2 DEF Chosen
<1>8. iter = Body(iter)
  <2> HIDE DEF Body
  <2> QED BY <1>7, Zenon
<1>9. \A s \in SUBSET U : iter[s] =
        IF s = {} THEN st ELSE OnUsageConnected(iter[s \ {Chosen(s)}], Chosen(s))
  <2> HIDE DEF iter
  <2> QED BY <1>8 DEF Chosen
<1> HIDE DEF iter
<1>10. iter[U] \in Q[U]
  <2>1. iter[{}] \in Q[{}]
    BY <1>4, <1>9
  <2>2. ASSUME NEW s \in SUBSET U, NEW x \in s, x = Chosen(s),
               iter[s \ {x}] \in Q[s \ {x}]
        PROVE  iter[s] \in Q[s]
    <3>1. iter[s] = OnUsageConnected(iter[s \ {x}], x)
      BY <1>9, <2>2
    <3>2. g[<<x, iter[s \ {x}]>>] \in Q[s]
      <4> HIDE DEF Q, g
      <4> QED BY <1>5, <2>2 DEF FoldStep
    <3>3. iter[s \ {x}] \in States /\ x \in U
      BY <1>3, <2>2
    <3>4. QED
      BY <3>1, <3>2, <3>3
  <2> HIDE DEF Q
  <2>3. QED
    BY <1>2, <2>1, <2>2, FoldInduction
<1>11. QED
  BY <1>1, <1>10

-----------------------------------------------------------------------------
(* The handlers that change no counter. *)

\* To change no counter is reflexive.
LEMMA EqRefl ==
  ASSUME NEW a
  PROVE  EqCounters(a, a)
BY DEF EqCounters, EqLife, EqUses, EqReq, EqPush, EqPull, EqConn

\* And transitive.
LEMMA EqTrans ==
  ASSUME NEW a, NEW b, NEW c, EqCounters(a, b), EqCounters(b, c)
  PROVE  EqCounters(a, c)
BY DEF EqCounters, EqLife, EqUses, EqReq, EqPush, EqPull, EqConn

\* A transition target counts nothing.
LEMMA TargetFrame ==
  ASSUME NEW st \in States, NEW h \in Heads, NEW t \in {"none", "start", "stop"},
         NEW nx, nx = TransitionTargetSet(st, h, t)
  PROVE  nx \in States /\ EqCounters(st, nx) /\ EqQueue(st, nx)
<1>1. PICK v, w : /\ v = [st.target EXCEPT ![h] = t]
                  /\ w = [st.promise EXCEPT ![h] =
                            @ /\ (st.target[h] = t \/ st.target[h] = "none")]
  OBVIOUS
<1>2. v \in [Heads -> {"none", "start", "stop"}]
  BY <1>1, StateFields
<1>3. w \in [Heads -> BOOLEAN]
  <2>1. st.promise \in [Heads -> BOOLEAN]
    BY DEF States
  <2>2. QED
    BY <1>1, <2>1
<1>4. nx = [st EXCEPT !.target = v, !.promise = w]
  BY <1>1 DEF TransitionTargetSet
<1>5. nx \in States
  BY <1>2, <1>3, <1>4 DEF States
<1>6. EqCounters(st, nx) /\ EqQueue(st, nx)
  BY <1>4 DEF States, EqCounters, EqLife, EqUses, EqReq, EqPush, EqPull, EqConn, EqQueue
<1>7. QED
  BY <1>5, <1>6

\* Nor does completing it.
LEMMA CompleteFrame ==
  ASSUME NEW st \in States, NEW h \in Heads, NEW t,
         NEW nx, nx = TransitionTargetCompleteIf(st, h, t)
  PROVE  nx \in States /\ EqCounters(st, nx) /\ EqQueue(st, nx)
<1>1. PICK v, w : /\ v = [st.target EXCEPT ![h] = "none"]
                  /\ w = [st.promise EXCEPT ![h] = FALSE]
  OBVIOUS
<1>2. v \in [Heads -> {"none", "start", "stop"}]
  BY <1>1, StateFields
<1>3. w \in [Heads -> BOOLEAN]
  <2>1. st.promise \in [Heads -> BOOLEAN]
    BY DEF States
  <2>2. QED
    BY <1>1, <2>1
<1>4. nx = [st EXCEPT !.target = v, !.promise = w] \/ nx = st
  BY <1>1 DEF TransitionTargetCompleteIf
<1>5. CASE nx = [st EXCEPT !.target = v, !.promise = w]
  <2>1. nx \in States
    BY <1>2, <1>3, <1>5 DEF States
  <2>2. EqCounters(st, nx) /\ EqQueue(st, nx)
    BY <1>5 DEF States, EqCounters, EqLife, EqUses, EqReq, EqPush, EqPull, EqConn, EqQueue
  <2>3. QED
    BY <2>1, <2>2
<1>6. CASE nx = st
  BY <1>6, EqRefl DEF EqQueue
<1>7. QED
  BY <1>4, <1>5, <1>6

\* Nor does a promise.
LEMMA PromiseFrame ==
  ASSUME NEW st \in States, NEW h \in Heads, NEW nx, nx = ChainPromise(st, h)
  PROVE  nx \in States /\ EqCounters(st, nx) /\ EqQueue(st, nx)
<1>1. PICK w : w = [st.promise EXCEPT ![h] = TRUE]
  OBVIOUS
<1>2. w \in [Heads -> BOOLEAN]
  <2>1. st.promise \in [Heads -> BOOLEAN]
    BY DEF States
  <2>2. QED
    BY <1>1, <2>1
<1>3. nx = [st EXCEPT !.promise = w]
  BY <1>1 DEF ChainPromise
<1>4. nx \in States
  BY <1>2, <1>3 DEF States
<1>5. EqCounters(st, nx) /\ EqQueue(st, nx)
  BY <1>3 DEF States, EqCounters, EqLife, EqUses, EqReq, EqPush, EqPull, EqConn, EqQueue
<1>6. QED
  BY <1>4, <1>5

\* Nor does the start mark.
LEMMA MarkStartFrame ==
  ASSUME NEW st \in States, NEW v \in [Heads -> BOOLEAN],
         NEW nx, nx = [st EXCEPT !.markStart = v]
  PROVE  nx \in States /\ EqCounters(st, nx) /\ EqQueue(st, nx)
<1>1. nx \in States
  BY PutMarkStart
<1>2. EqCounters(st, nx) /\ EqQueue(st, nx)
  BY DEF States, EqCounters, EqLife, EqUses, EqReq, EqPush, EqPull, EqConn, EqQueue
<1>3. QED
  BY <1>1, <1>2

\* Finalizing a cluster changes no counter.
LEMMA FinalizeFrame ==
  ASSUME NEW st \in States, NEW h \in Heads, NEW nx, nx = DoFinalizeCluster(st, h)
  PROVE  nx \in States /\ EqCounters(st, nx) /\ EqQueue(st, nx)
<1>1. PICK v : v = [st.markStart EXCEPT ![h] = FALSE]
  OBVIOUS
<1>2. v \in [Heads -> BOOLEAN]
  <2>1. st.markStart \in [Heads -> BOOLEAN]
    BY DEF States
  <2>2. QED
    BY <1>1, <2>1
<1>3. PICK md : md = [st EXCEPT !.markStart = v]
  OBVIOUS
<1>4. md \in States /\ EqCounters(st, md) /\ EqQueue(st, md)
  BY <1>2, <1>3, MarkStartFrame
<1>5. PICK t : t = "start"
  OBVIOUS
<1>6. nx = TransitionTargetCompleteIf(md, h, t)
  BY <1>1, <1>3, <1>5 DEF DoFinalizeCluster
<1>7. nx \in States /\ EqCounters(md, nx) /\ EqQueue(md, nx)
  BY <1>4, <1>6, CompleteFrame
<1>8. QED
  BY <1>4, <1>7, EqTrans DEF EqQueue

\* A start request changes no counter: it marks and queues.
LEMMA StartRequestFrame ==
  ASSUME NEW st \in States, NEW h \in Heads, NEW nx, nx = OnServiceStartRequest(st, h)
  PROVE  nx \in States /\ EqCounters(st, nx) /\ Grows(st, nx)
<1>1. PICK v : v = [x \in Heads |-> st.markStart[x] \/ x \in StartVisited(st, h)]
  OBVIOUS
<1>2. v \in [Heads -> BOOLEAN]
  BY <1>1
<1>3. PICK md : md = [st EXCEPT !.markStart = v]
  OBVIOUS
<1>4. md \in States /\ EqCounters(st, md) /\ EqQueue(st, md)
  BY <1>2, <1>3, MarkStartFrame
<1> DEFINE V == StartVisited(st, h)
           leaves == V \cup {Head[Src(e)] : e \in UNION {ClusterInEdges(st.conn, x) :
                                                          x \in V}}
           T == {s \in Services : /\ Head[s] \in leaves /\ ShallStart(md, Head[s])
                                  /\ IsStartable(md, s)}
<1>5. PICK S \in SUBSET Services :
        /\ nx = Iterate(PushUp(md, S))
        /\ \A s \in S : ShallStart(md, Head[s]) /\ IsStartable(md, s)
  <2>1. nx = Iterate(PushUp(md, T))
    BY <1>1, <1>3, Zenon DEF OnServiceStartRequest
  <2>2. T \in SUBSET Services /\ \A s \in T : ShallStart(md, Head[s]) /\ IsStartable(md, s)
    OBVIOUS
  <2> HIDE DEF T
  <2>3. QED
    BY <2>1, <2>2
<1>6. PICK pu : pu = PushUp(md, S)
  OBVIOUS
<1>7. pu \in States /\ EqCounters(md, pu)
  BY <1>4, <1>6, PushUpFrame
<1>8. nx \in States /\ EqCounters(pu, nx)
  BY <1>5, <1>6, <1>7, IterateFrame
<1>9. Grows(st, md)
  BY <1>4, SameGrows DEF EqCounters, EqPush, EqPull, EqRoot
<1>10. Grows(md, pu)
  <2>1. (\A s \in S : Waits(md, s)) /\ (Root \in S => ShallStart(md, Root))
    BY <1>5, GraphFacts DEF IsStartable, Waits
  <2>2. Root \in S => ~Marked(md)
    BY <2>1 DEF ShallStart, Marked
  <2>3. QED
    BY <1>4, <1>6, <2>1, <2>2, PushUpGrows
<1>11. Grows(pu, nx)
  BY <1>5, <1>6, <1>7, IterateGrows
<1>12. Grows(st, nx)
  <2>1. Grows(st, pu)
    BY <1>9, <1>10, GrowsTrans
  <2>2. QED
    BY <1>11, <2>1, GrowsTrans
<1>13. QED
  BY <1>4, <1>7, <1>8, <1>12, EqTrans
-----------------------------------------------------------------------------
(* What the start and the stop of a service change. *)

\* s runs in a and not in b, which is the only difference in what runs.
RunDiffers(a, b, s) ==
  /\ b.conn = a.conn /\ a.phase[s] = "running" /\ b.phase[s] # "running"
  /\ \A x \in Services : x # s => (b.phase[x] = "running" <=> a.phase[x] = "running")

InnerOne(s, x) == IF s \in Members /\ x = Parent[s] THEN 1 ELSE 0

\* A member that runs no more is missed by its parent alone.
LEMMA InnerCounts ==
  ASSUME NEW a, NEW b, NEW s \in Services, RunDiffers(a, b, s), NEW x \in Services
  PROVE  /\ Cardinality(MissingInner(b, x)) = Cardinality(MissingInner(a, x)) + InnerOne(s, x)
         /\ InnerOne(s, x) \in {0, 1} /\ Cardinality(MissingInner(a, x)) \in Nat
<1>1. \A m \in InnerChildren(x) : m \in Services
  BY GraphFacts DEF InnerChildren
<1>2. IsFiniteSet(MissingInner(a, x))
  BY <1>1, ServicesFinite DEF MissingInner
<1>3. s \notin MissingInner(a, x)
  BY DEF MissingInner, RunDiffers
<1>4. CASE s \in Members /\ x = Parent[s]
  <2>1. MissingInner(b, x) = MissingInner(a, x) \cup {s} /\ InnerOne(s, x) = 1
    BY <1>1, <1>4 DEF MissingInner, InnerChildren, RunDiffers, InnerOne
  <2>2. QED
    BY <1>2, <1>3, <2>1, AddOne
<1>5. CASE ~(s \in Members /\ x = Parent[s])
  <2>1. MissingInner(b, x) = MissingInner(a, x) /\ InnerOne(s, x) = 0
    BY <1>1, <1>5 DEF MissingInner, InnerChildren, RunDiffers, InnerOne
  <2>2. QED
    BY <1>2, <1>3, <2>1, AddOne
<1>6. QED
  BY <1>4, <1>5

\* The strong edges from s into the cluster h.
StrongInto(st, s, h) == {e \in StrongEdges(OutEdges(st.conn, s)) : Head[Dst(e)] = h}
ImplicitMembers(h) == {x \in ClusterMembers(h) : HasImplicitRootEdge(x)}

\* Clusters require the root through edges and implicitly.
LEMMA RequiredByRoot ==
  ASSUME NEW st \in States, NEW h \in Heads
  PROVE  /\ RequiredBy(st, Root)[h] = Cardinality(StrongInto(st, Root, h))
                                      + Cardinality(ImplicitMembers(h))
         /\ Cardinality(StrongInto(st, Root, h)) \in Nat
         /\ Cardinality(ImplicitMembers(h)) \in Nat
<1>1. st.conn \in SUBSET Usages
  BY StateFields
<1>2. StrongInto(st, Root, h) = {e \in {h} : e # Root /\ Parent[e] = Root}
  <2>1. ASSUME NEW e \in StrongInto(st, Root, h)
        PROVE  e = h /\ e # Root /\ Parent[e] = Root
    <3>1. e \in Edges(st.conn) /\ Src(e) = Root /\ Head[Dst(e)] = h
      BY DEF StrongInto, StrongEdges, OutEdges
    <3>2. e \notin Usages
      BY <3>1, UsageFacts
    <3>3. e \in ExportEdges
      BY <1>1, <3>1, <3>2 DEF Edges
    <3>4. QED
      BY <3>1, <3>2, <3>3, GraphFacts DEF Src, Dst, ExportEdges
  <2>2. ASSUME h # Root, Parent[h] = Root PROVE h \in StrongInto(st, Root, h)
    <3>1. h \in ExportEdges /\ h \notin Usages /\ h \notin Weak
      BY <2>2, GraphFacts, GraphAssumption DEF ExportEdges
    <3>2. Src(h) = Root /\ Dst(h) = h /\ Head[h] = h
      BY <2>2, <3>1, GraphFacts DEF Src, Dst
    <3>3. QED
      BY <3>1, <3>2 DEF StrongInto, StrongEdges, OutEdges, Edges
  <2>3. QED
    BY <2>1, <2>2
<1>3. StrongInto(st, Root, h) \cap ImplicitMembers(h) = {}
  BY <1>2 DEF ImplicitMembers, HasImplicitRootEdge
<1>4. ClusterMembers(h) \ {Root} = StrongInto(st, Root, h) \cup ImplicitMembers(h)
  <2>1. \A x \in ClusterMembers(h) : x \in Services /\ Head[x] = h
    BY DEF ClusterMembers
  <2>2. \A x \in Services : x # Root /\ Parent[x] = Root => x = Head[x]
    BY GraphFacts, GraphAssumption
  <2>3. h \in ClusterMembers(h)
    BY GraphFacts DEF ClusterMembers
  <2>4. QED
    BY <1>2, <2>1, <2>2, <2>3 DEF ImplicitMembers, HasImplicitRootEdge
<1>5. PICK M : M = ClusterMembers(h) \ {Root}
  OBVIOUS
<1>6. IsFiniteSet(M)
  BY <1>5, ServicesFinite DEF ClusterMembers
<1>7. /\ Cardinality(M) = Cardinality(StrongInto(st, Root, h))
                          + Cardinality(ImplicitMembers(h))
      /\ Cardinality(StrongInto(st, Root, h)) \in Nat
      /\ Cardinality(ImplicitMembers(h)) \in Nat
  BY <1>3, <1>4, <1>5, <1>6, SplitCount
<1>8. QED
  BY <1>5, <1>7 DEF RequiredBy

\* A service that runs no more is missed by the clusters that require it.
LEMMA OuterCounts ==
  ASSUME NEW a \in States, NEW b \in States, NEW s \in Services, RunDiffers(a, b, s),
         NEW h \in Heads
  PROVE  /\ Cardinality(MissingEdges(b, h)) + Cardinality(MissingRoot(b, h)) =
              Cardinality(MissingEdges(a, h)) + Cardinality(MissingRoot(a, h))
              + RequiredBy(a, s)[h]
         /\ Cardinality(MissingEdges(a, h)) + Cardinality(MissingRoot(a, h)) \in Nat
         /\ RequiredBy(a, s)[h] \in Int /\ RequiredBy(b, s) = RequiredBy(a, s)
<1>1. a.conn \in SUBSET Usages /\ b.conn = a.conn
  BY StateFields DEF RunDiffers
<1>2. \A e \in Edges(a.conn) : Src(e) \in Services
  BY <1>1, EdgeFacts
<1>3. MissingEdges(b, h) = MissingEdges(a, h) \cup StrongInto(a, s, h)
  BY <1>1, <1>2 DEF MissingEdges, StrongInto, StrongEdges, ClusterInEdges, OutEdges,
     RunDiffers
<1>4. MissingEdges(a, h) \cap StrongInto(a, s, h) = {}
  BY DEF MissingEdges, StrongInto, StrongEdges, ClusterInEdges, OutEdges, RunDiffers
<1>5. MissingEdges(b, h) \subseteq Edges(b.conn)
  BY <1>1, EdgeSets DEF MissingEdges
<1>6. IsFiniteSet(MissingEdges(b, h))
  BY <1>1, <1>5, EdgesFinite
<1>7. /\ Cardinality(MissingEdges(b, h)) =
           Cardinality(MissingEdges(a, h)) + Cardinality(StrongInto(a, s, h))
      /\ Cardinality(MissingEdges(a, h)) \in Nat
      /\ Cardinality(StrongInto(a, s, h)) \in Nat
  BY <1>3, <1>4, <1>6, SplitCount
<1>8. Cardinality(MissingRoot(a, h)) \in Nat
  BY ServicesFinite DEF MissingRoot, ClusterMembers
<1>9. RequiredBy(b, s) = RequiredBy(a, s)
  BY <1>1 DEF RequiredBy
<1>10. CASE s # Root
  <2>1. MissingRoot(b, h) = MissingRoot(a, h)
    BY <1>10, GraphFacts DEF MissingRoot, RunDiffers
  <2>2. RequiredBy(a, s)[h] = Cardinality(StrongInto(a, s, h))
    BY <1>10 DEF RequiredBy, StrongInto
  <2>3. QED
    BY <1>7, <1>8, <1>9, <2>1, <2>2
<1>11. CASE s = Root
  <2>1. MissingRoot(b, h) = ImplicitMembers(h) /\ MissingRoot(a, h) = {}
    BY <1>11 DEF MissingRoot, RunDiffers, ImplicitMembers
  <2>2. Cardinality(MissingRoot(a, h)) = 0
    BY <2>1, FS_EmptySet
  <2>3. /\ RequiredBy(a, s)[h] = Cardinality(StrongInto(a, s, h))
                                 + Cardinality(ImplicitMembers(h))
        /\ Cardinality(ImplicitMembers(h)) \in Nat
    BY <1>11, RequiredByRoot
  <2>4. QED
    BY <1>7, <1>9, <2>1, <2>2, <2>3
<1>12. QED
  BY <1>10, <1>11

\* A service that can stop is used by nobody.
LEMMA UnusedFacts ==
  ASSUME NEW st \in States, NEW hd, UsesOf(st, hd), HeldOf(st, hd), NEW s \in Services,
         st.phase[s] = "running", st.uses[s] = 1
  PROVE  /\ hd[s] = 0 /\ UsedByParent(st, s) = 0
         /\ UseEdges(st, s) = {} /\ ImplicitUses(LockedSet(st), s) = 0
<1>1. hd[s] \in Nat /\ UsedByParent(st, s) \in {0, 1}
  BY DEF HeldOf, UsedByParent
<1>2. /\ Cardinality(UseEdges(st, s)) \in Nat
      /\ Cardinality(UseEdges(st, s)) = 0 <=> UseEdges(st, s) = {}
  BY StateFields, EdgeSets, EdgesFinite DEF UseEdges
<1>3. ImplicitUses(LockedSet(st), s) \in Nat
  BY EdgeCounts DEF LockedSet
<1>4. 1 = 1 + hd[s] + UsedByParent(st, s)
            + (Cardinality(UseEdges(st, s)) + ImplicitUses(LockedSet(st), s))
  BY DEF UsesOf, UsesCount, Users
<1>5. QED
  BY <1>1, <1>2, <1>3, <1>4

\* A step of one service that stays locked, out of which no parent is counted.
LEMMA UsersKept ==
  ASSUME NEW a \in States, NEW b, NEW s \in Services, NEW p, PhaseStep(a, b, s, p),
         b.conn = a.conn, a.phase[s] # "stopped" <=> p # "stopped", NEW x \in Services
  PROVE  UseEdges(b, x) = UseEdges(a, x) /\ LockedSet(b) = LockedSet(a)
         /\ Users(b, x) = Users(a, x)
<1>1. \A e \in Edges(a.conn) : Dst(e) \in Services
  BY StateFields, EdgeFacts
<1>2. \A y \in Services : b.phase[y] # "stopped" <=> a.phase[y] # "stopped"
  BY DEF PhaseStep
<1>3. UseEdges(b, x) = UseEdges(a, x)
  BY <1>1, <1>2 DEF UseEdges, OutEdges
<1>4. LockedSet(b) = LockedSet(a)
  BY <1>2 DEF LockedSet
<1>5. QED
  BY <1>3, <1>4 DEF Users

\* A step of s that keeps it up, or down, keeps the use of its children.
LEMMA ParentKept ==
  ASSUME NEW a, NEW b, NEW s \in Services, NEW p, PhaseStep(a, b, s, p),
         NEW x \in Services,
         x \notin InnerChildren(s)
           \/ (a.phase[s] \in {"starting", "running", "stopping"}
               <=> p \in {"starting", "running", "stopping"})
  PROVE  UsedByParent(b, x) = UsedByParent(a, x)
<1>1. CASE x \in Members
  <2>1. Parent[x] \in Services
    BY <1>1, GraphFacts
  <2>2. CASE Parent[x] = s
    BY <1>1, <2>2 DEF UsedByParent, PhaseStep, InnerChildren
  <2>3. CASE Parent[x] # s
    BY <1>1, <2>1, <2>3 DEF UsedByParent, PhaseStep
  <2>4. QED
    BY <2>2, <2>3
<1>2. CASE x \notin Members
  BY <1>2 DEF UsedByParent
<1>3. QED
  BY <1>1, <1>2

\* A service that is active before and after its step.
LEMMA RunsKept ==
  ASSUME NEW a, NEW b, NEW s \in Services, NEW p, PhaseStep(a, b, s, p),
         b.running = a.running, RunsOf(a),
         a.phase[s] \in {"stopped", "pending"} <=> p \in {"stopped", "pending"}
  PROVE  RunsOf(b)
<1>1. \A h \in Heads : ActiveMembers(b, h) = ActiveMembers(a, h)
  BY DEF ActiveMembers, ClusterMembers, PhaseStep
<1>2. QED
  BY <1>1 DEF RunsOf

\* do_stop_eager: a running service of no use but its own begins to stop.
LEMMA StopEagerExact ==
  ASSUME NEW st \in States, NEW hd, Exact(st, hd), NEW s \in Services,
         st.phase[s] = "running", st.uses[s] = 1,
         NEW nx, nx = DoStopEager(st, s)
  PROVE  /\ nx \in States /\ Exact(nx, hd)
         /\ nx.phase = [st.phase EXCEPT ![s] = "stopping"] /\ nx.running = st.running
         /\ s \notin st.down /\ s \notin st.up => Sound(st, nx)
<1>1. PICK v, w : v = [st.phase EXCEPT ![s] = "stopping"] /\ w = [st.uses EXCEPT ![s] = 0]
  OBVIOUS
<1>2. /\ v \in [Services -> Phase] /\ w \in [Services -> Int]
      /\ v[s] = "stopping" /\ \A x \in Services : x # s => v[x] = st.phase[x]
      /\ w[s] = 0 /\ \A x \in Services : x # s => w[x] = st.uses[x]
  BY <1>1, StateFields DEF Phase
<1>3. PICK md : md = [st EXCEPT !.phase = v, !.uses = w]
  OBVIOUS
<1>4. /\ md \in States /\ md.phase = v /\ md.uses = w /\ md.running = st.running
      /\ EqReq(st, md) /\ EqPush(st, md) /\ EqPull(st, md) /\ EqConn(st, md)
  <2>1. md \in States
    BY <1>2, <1>3 DEF States
  <2>2. QED
    BY <1>3, <2>1 DEF States, EqReq, EqPush, EqPull, EqConn
<1>5. nx = CallOnRequiredIncrement(md, s)
  BY <1>1, <1>3 DEF DoStopEager
<1>6. /\ nx \in States
      /\ EqLife(md, nx) /\ EqUses(md, nx) /\ EqPush(md, nx) /\ EqPull(md, nx)
      /\ EqConn(md, nx)
      /\ \A x \in Services : nx.inner[x] = md.inner[x] + InnerOne(s, x)
      /\ \A h \in Heads : nx.outer[h] = md.outer[h] + RequiredBy(md, s)[h]
  BY <1>4, <1>5, RequiredIncrementFrame DEF InnerOne
<1>7. /\ nx.phase = v /\ nx.uses = w /\ nx.running = st.running
      /\ EqPush(st, nx) /\ EqPull(st, nx) /\ EqConn(st, nx) /\ nx.conn = st.conn
      /\ nx.released = st.released
      /\ md.inner = st.inner /\ md.outer = st.outer
  BY <1>4, <1>6 DEF EqLife, EqUses, EqReq, EqPush, EqPull, EqConn
<1>8. UsesOf(st, hd) /\ HeldOf(st, hd)
  BY DEF Exact
<1>9. hd[s] = 0
  BY <1>8, UnusedFacts
<1>10. PhaseStep(st, nx, s, "stopping")
  BY <1>2, <1>7 DEF PhaseStep
<1>11. UsesOf(nx, hd) /\ HeldOf(nx, hd)
  <2>1. HeldOf(nx, hd)
    BY <1>2, <1>7, <1>8, <1>9 DEF HeldOf
  <2>2. ASSUME NEW x \in Services PROVE nx.uses[x] = UsesCount(nx, hd, x)
    <3>1. CASE x = s
      BY <1>2, <1>7, <3>1 DEF UsesCount
    <3>2. CASE x # s
      <4>1. Users(nx, x) = Users(st, x)
        BY <1>7, <1>10, UsersKept
      <4>2. UsedByParent(nx, x) = UsedByParent(st, x)
        BY <1>10, ParentKept
      <4>3. nx.phase[x] = st.phase[x] /\ nx.uses[x] = st.uses[x]
        BY <1>2, <1>7, <3>2
      <4>4. QED
        BY <1>8, <4>1, <4>2, <4>3 DEF UsesOf, UsesCount
    <3>3. QED
      BY <3>1, <3>2
  <2>3. QED
    BY <2>1, <2>2 DEF UsesOf
<1>12. RunDiffers(st, nx, s)
  BY <1>2, <1>7 DEF RunDiffers
<1>13. InnerOf(nx)
  <2>1. \A x \in Services :
          Cardinality(MissingInner(nx, x)) = Cardinality(MissingInner(st, x)) + InnerOne(s, x)
    BY <1>12, InnerCounts
  <2>2. QED
    BY <1>6, <1>7, <2>1 DEF Exact, InnerOf
<1>14. OuterOf(nx)
  <2>1. \A h \in Heads :
          /\ Cardinality(MissingEdges(nx, h)) + Cardinality(MissingRoot(nx, h)) =
               Cardinality(MissingEdges(st, h)) + Cardinality(MissingRoot(st, h))
               + RequiredBy(st, s)[h]
    BY <1>6, <1>12, OuterCounts
  <2>2. RequiredBy(md, s) = RequiredBy(st, s)
    BY <1>4 DEF RequiredBy, EqConn
  <2>3. QED
    BY <1>6, <1>7, <2>1, <2>2 DEF Exact, OuterOf
<1>15. PullsOf(nx) /\ (Acyclic => PushesOf(nx))
  BY <1>7, PullsSame, PushesSame DEF Exact
<1>16. RunsOf(nx)
  <2>1. PICK p : p = "stopping"
    OBVIOUS
  <2>2. PhaseStep(st, nx, s, p) /\ nx.running = st.running /\ RunsOf(st)
        /\ st.phase[s] \notin {"stopped", "pending"} /\ p \notin {"stopped", "pending"}
    BY <1>7, <1>10, <2>1 DEF Exact
  <2>3. QED
    BY <2>2, RunsKept
<1>17. ConnOf(nx)
  BY <1>7 DEF Exact, ConnOf
<1>18. Exact(nx, hd)
  BY <1>11, <1>13, <1>14, <1>15, <1>16, <1>17 DEF Exact
<1>19. ASSUME s \notin st.down, s \notin st.up PROVE Sound(st, nx)
  <2>1. EqQueues(st, md)
    BY <1>3 DEF States, EqQueues
  <2>2. EqQueue(md, nx)
    BY <1>4, <1>5, RequiredIncrementQueue
  <2>3. EqQueues(st, nx) /\ EqRoot(st, nx)
    BY <1>7, <2>1, <2>2 DEF EqQueue, EqQueues, EqRoot, EqPush, EqPull
  <2>4. QED
    BY <1>10, <1>19, <2>3, PhaseSound DEF Sound, PhaseStep, EqQueues
<1>20. QED
  BY <1>1, <1>6, <1>7, <1>18, <1>19

SameRunning(a, b) ==
  \A x \in Services : b.phase[x] = "running" <=> a.phase[x] = "running"

\* What is required is about what runs.
LEMMA RunningKept ==
  ASSUME NEW a \in States, NEW b, b.conn = a.conn, EqReq(a, b),
         SameRunning(a, b),
         InnerOf(a), OuterOf(a)
  PROVE  InnerOf(b) /\ OuterOf(b)
<1>1. \A e \in Edges(a.conn) : Src(e) \in Services
  BY StateFields, EdgeFacts
<1>2. \A h \in Heads : MissingEdges(b, h) = MissingEdges(a, h)
  BY <1>1 DEF SameRunning, MissingEdges, StrongEdges, ClusterInEdges
<1>3. \A h \in Heads : MissingRoot(b, h) = MissingRoot(a, h)
  BY GraphFacts DEF SameRunning, MissingRoot
<1>4. \A s \in Services : MissingInner(b, s) = MissingInner(a, s)
  <2>1. \A s \in Services : \A m \in InnerChildren(s) : m \in Services
    BY GraphFacts DEF InnerChildren
  <2>2. QED
    BY <2>1 DEF SameRunning, MissingInner
<1>5. QED
  BY <1>2, <1>3, <1>4 DEF InnerOf, OuterOf, EqReq

\* A service that starts uses its inner children.
LEMMA InnerIncrementFrame ==
  ASSUME NEW st \in States, NEW s \in Services,
         NEW nx, nx = CallOnInnerOutgoingIncrement(st, s)
  PROVE  /\ nx \in States
         /\ EqLife(st, nx) /\ EqReq(st, nx) /\ EqPush(st, nx) /\ EqPull(st, nx)
         /\ EqConn(st, nx)
         /\ \A x \in Services : nx.uses[x] = st.uses[x] +
              (IF x \in InnerChildren(s) THEN 1 ELSE 0)
<1> DEFINE by == [x \in Services |-> IF x \in InnerChildren(s) THEN 1 ELSE 0]
<1>1. by \in [Services -> Int]
  OBVIOUS
<1>2. \A x \in Services : by[x] = IF x \in InnerChildren(s) THEN 1 ELSE 0
  OBVIOUS
<1>3. nx = OnOutgoingIncrement(st, by)
  BY DEF CallOnInnerOutgoingIncrement
<1> HIDE DEF by
<1>4. QED
  BY <1>1, <1>2, <1>3, UsesIncrementFrame

\* A service that is stopped uses them no more.
LEMMA InnerDecrementFrame ==
  ASSUME NEW st \in States, NEW s \in Services,
         NEW nx, nx = CallOnInnerOutgoingDecrement(st, s)
  PROVE  /\ nx \in States
         /\ EqLife(st, nx) /\ EqReq(st, nx) /\ EqPush(st, nx) /\ EqPull(st, nx)
         /\ EqConn(st, nx)
         /\ \A x \in Services : nx.uses[x] = st.uses[x] -
              (IF x \in InnerChildren(s) THEN 1 ELSE 0)
<1> DEFINE by == [x \in Services |-> IF x \in InnerChildren(s) THEN 1 ELSE 0]
<1>1. by \in [Services -> Int]
  OBVIOUS
<1>2. \A x \in Services : by[x] = IF x \in InnerChildren(s) THEN 1 ELSE 0
  OBVIOUS
<1>3. nx = OnOutgoingDecrement(st, by)
  BY DEF CallOnInnerOutgoingDecrement
<1> HIDE DEF by
<1>4. QED
  BY <1>1, <1>2, <1>3, UsesDecrementFrame

\* post_stop_actions before it unlocks the cluster.
Pended(st, s) ==
  [CallOnInnerOutgoingDecrement(st, s)
     EXCEPT !.phase[s] = "pending", !.running[Head[s]] = @ - 1]

\* A service that has stopped is pending until its cluster is unlocked.
LEMMA PendingExact ==
  ASSUME NEW st \in States, NEW hd, Exact(st, hd), NEW s \in Services, NEW h, h = Head[s],
         st.phase[s] = "stopping",
         \A m \in InnerChildren(s) : st.phase[m] = "running",
         NEW nx, nx = Pended(st, s)
  PROVE  /\ nx \in States /\ Exact(nx, hd)
         /\ nx.phase = [st.phase EXCEPT ![s] = "pending"] /\ Sound(st, nx)
<1>1. PICK ip : ip = CallOnInnerOutgoingDecrement(st, s)
  OBVIOUS
<1>2. h \in Heads
  BY GraphFacts
<1>3. /\ ip \in States /\ EqLife(st, ip) /\ EqReq(st, ip) /\ EqPush(st, ip)
      /\ EqPull(st, ip) /\ EqConn(st, ip)
      /\ \A x \in Services : ip.uses[x] = st.uses[x] -
              (IF x \in InnerChildren(s) THEN 1 ELSE 0)
  BY <1>1, InnerDecrementFrame
<1>4. PICK v, w : /\ v = [ip.phase EXCEPT ![s] = "pending"]
                  /\ w = [ip.running EXCEPT ![h] = @ - 1]
  OBVIOUS
<1>5. v = [st.phase EXCEPT ![s] = "pending"] /\ w = [st.running EXCEPT ![h] = @ - 1]
  BY <1>3, <1>4 DEF EqLife
<1>6. /\ v \in [Services -> Phase] /\ w \in [Heads -> Int]
      /\ v[s] = "pending" /\ \A x \in Services : x # s => v[x] = st.phase[x]
      /\ w[h] = st.running[h] - 1 /\ \A x \in Heads : x # h => w[x] = st.running[x]
  BY <1>2, <1>5, StateFields DEF Phase
<1>7. nx = [ip EXCEPT !.phase = v, !.running = w]
  BY <1>1, <1>4 DEF Pended
<1>8. /\ nx \in States /\ nx.phase = v /\ nx.running = w /\ nx.uses = ip.uses
      /\ EqReq(ip, nx) /\ EqPush(ip, nx) /\ EqPull(ip, nx) /\ EqConn(ip, nx)
  <2>0. ip \in States /\ v \in [Services -> Phase] /\ w \in [Heads -> Int]
    BY <1>3, <1>6
  <2>1. PICK r : r = [ip EXCEPT !.phase = v]
    OBVIOUS
  <2>2. r \in States
    BY <2>0, <2>1, PutPhase
  <2>3. /\ r.phase = v /\ r.running = ip.running /\ EqUses(ip, r)
        /\ EqReq(ip, r) /\ EqPush(ip, r) /\ EqPull(ip, r) /\ EqConn(ip, r)
    BY <2>0, <2>1 DEF States, EqUses, EqReq, EqPush, EqPull, EqConn
  <2>4. nx = [r EXCEPT !.running = w]
    BY <1>7, <2>1
  <2>5. nx \in States
    BY <2>0, <2>2, <2>4, PutRunning
  <2>6. /\ nx.phase = r.phase /\ nx.running = w /\ EqUses(r, nx)
        /\ EqReq(r, nx) /\ EqPush(r, nx) /\ EqPull(r, nx) /\ EqConn(r, nx)
    BY <2>2, <2>4 DEF States, EqUses, EqReq, EqPush, EqPull, EqConn
  <2>7. QED
    BY <2>3, <2>5, <2>6 DEF EqUses, EqReq, EqPush, EqPull, EqConn
<1>9. /\ EqReq(st, nx) /\ EqPush(st, nx) /\ EqPull(st, nx) /\ nx.conn = st.conn
      /\ nx.released = st.released /\ nx.inner = st.inner /\ nx.outer = st.outer
  BY <1>3, <1>8 DEF EqReq, EqPush, EqPull, EqConn
<1>10. UsesOf(st, hd) /\ HeldOf(st, hd)
  BY DEF Exact
<1>11. PICK p : p = "pending"
  OBVIOUS
<1>12. PhaseStep(st, nx, s, p)
  BY <1>6, <1>8, <1>11 DEF PhaseStep
<1>13. UsesOf(nx, hd) /\ HeldOf(nx, hd)
  <2>1. HeldOf(nx, hd)
    BY <1>6, <1>8, <1>10 DEF HeldOf
  <2>2. ASSUME NEW x \in Services PROVE nx.uses[x] = UsesCount(nx, hd, x)
    <3>1. Users(nx, x) = Users(st, x) /\ Users(st, x) \in Nat
      <4>1. nx.conn = st.conn /\ (st.phase[s] # "stopped" <=> p # "stopped")
        BY <1>9, <1>11
      <4>2. Users(nx, x) = Users(st, x)
        BY <1>12, <4>1, UsersKept
      <4>3. QED
        BY <4>2, UsersType
    <3>2. hd[x] \in Nat /\ st.uses[x] \in Int
      BY <1>10, StateFields DEF HeldOf
    <3>3. CASE x = s
      <4>1. x \notin InnerChildren(s)
        BY <3>3
      <4>2. QED
        BY <1>3, <1>6, <1>8, <1>10, <3>2, <3>3, <4>1 DEF UsesOf, UsesCount
    <3>4. CASE x # s /\ x \notin InnerChildren(s)
      <4>1. UsedByParent(nx, x) = UsedByParent(st, x)
        BY <1>12, <3>4, ParentKept
      <4>2. nx.phase[x] = st.phase[x] /\ nx.uses[x] = st.uses[x]
        BY <1>3, <1>6, <1>8, <3>2, <3>4
      <4>3. QED
        BY <1>10, <3>1, <4>1, <4>2 DEF UsesOf, UsesCount
    <3>5. CASE x # s /\ x \in InnerChildren(s)
      <4>1. x \in Members /\ Parent[x] = s
        BY <3>5 DEF InnerChildren
      <4>2. UsedByParent(st, x) = 1 /\ UsedByParent(nx, x) = 0
        BY <1>6, <1>8, <4>1 DEF UsedByParent
      <4>3. nx.phase[x] = "running" /\ st.phase[x] = "running"
        BY <1>6, <1>8, <3>5
      <4>4. nx.uses[x] = st.uses[x] - 1
        BY <1>3, <1>8, <3>2, <3>5
      <4>5. st.uses[x] = 1 + hd[x] + 1 + Users(st, x)
        BY <1>10, <4>2, <4>3 DEF UsesOf, UsesCount
      <4>6. UsesCount(nx, hd, x) = 1 + hd[x] + 0 + Users(st, x)
        BY <3>1, <4>2, <4>3 DEF UsesCount
      <4>7. QED
        BY <3>1, <3>2, <4>4, <4>5, <4>6
    <3>6. QED
      BY <3>3, <3>4, <3>5
  <2>3. QED
    BY <2>1, <2>2 DEF UsesOf
<1>14. InnerOf(nx) /\ OuterOf(nx)
  <2>1. SameRunning(st, nx)
    BY <1>6, <1>8 DEF SameRunning
  <2>2. InnerOf(st) /\ OuterOf(st)
    BY DEF Exact
  <2>3. QED
    BY <1>9, <2>1, <2>2, RunningKept
<1>15. PullsOf(nx) /\ (Acyclic => PushesOf(nx))
  BY <1>9, PullsSame, PushesSame DEF Exact
<1>16. RunsOf(nx)
  <2>1. \A x \in Heads : st.running[x] = Cardinality(ActiveMembers(st, x))
    BY DEF Exact, RunsOf
  <2>2. \A x \in Heads : x # h => ActiveMembers(nx, x) = ActiveMembers(st, x)
    BY <1>12 DEF PhaseStep, ActiveMembers, ClusterMembers
  <2>3. ActiveMembers(st, h) = ActiveMembers(nx, h) \cup {s} /\ s \notin ActiveMembers(nx, h)
    BY <1>11, <1>12 DEF PhaseStep, ActiveMembers, ClusterMembers
  <2>4. IsFiniteSet(ActiveMembers(nx, h))
    BY ServicesFinite DEF ActiveMembers, ClusterMembers
  <2>5. PICK n : n = 1
    OBVIOUS
  <2>6. /\ Cardinality(ActiveMembers(st, h)) = Cardinality(ActiveMembers(nx, h)) + n
        /\ Cardinality(ActiveMembers(nx, h)) \in Nat
    BY <2>3, <2>4, <2>5, AddOne
  <2>7. ASSUME NEW x \in Heads PROVE nx.running[x] = Cardinality(ActiveMembers(nx, x))
    <3>1. CASE x = h
      BY <1>6, <1>8, <2>1, <2>5, <2>6, <3>1
    <3>2. CASE x # h
      BY <1>6, <1>8, <2>1, <2>2, <3>2
    <3>3. QED
      BY <3>1, <3>2
  <2>8. QED
    BY <2>7 DEF RunsOf
<1>17. ConnOf(nx)
  BY <1>9 DEF Exact, ConnOf
<1>18. Exact(nx, hd)
  BY <1>13, <1>14, <1>15, <1>16, <1>17 DEF Exact
<1>19. Sound(st, nx)
  <2>1. Sound(st, ip)
    BY <1>1, InnerDecrementGrows, ExactGrows
  <2>2. EqQueues(ip, nx)
    BY <1>3, <1>7 DEF States, EqQueues
  <2>3. PhaseStep(ip, nx, s, p) /\ ip.phase[s] = "stopping"
    BY <1>3, <1>12 DEF PhaseStep, EqLife
  <2>4. EqRoot(ip, nx)
    BY <1>8 DEF EqRoot, EqPush, EqPull
  <2>5. Sound(ip, nx)
    BY <1>3, <2>2, <2>3, <2>4, MiddleSound
  <2>6. QED
    BY <2>1, <2>5, SoundTrans
<1>20. QED
  BY <1>5, <1>8, <1>18, <1>19

\* A member that is unlocked, or a cluster that is locked, changes the users.
ImplicitIn(S) == {x \in S : HasImplicitRootEdge(x)}

\* The services of S are locked in a and not in b.
LockedMore(a, b, S) ==
  /\ b.conn = a.conn
  /\ LockedSet(a) = LockedSet(b) \cup S /\ LockedSet(b) \cap S = {}

\* The users of a service are those in S and those that stay locked.
LEMMA UsersSplit ==
  ASSUME NEW a \in States, NEW b, NEW S \in SUBSET Services, LockedMore(a, b, S),
         NEW x \in Services
  PROVE  /\ Users(a, x) = Users(b, x) + (AllInto(a, S, x) + ImplicitUses(S, x))
         /\ Users(b, x) \in Nat /\ AllInto(a, S, x) \in Nat /\ ImplicitUses(S, x) \in Nat
<1>1. \A e \in Edges(a.conn) : Dst(e) \in Services
  BY StateFields, EdgeFacts
<1>2. UseEdges(a, x) = UseEdges(b, x) \cup EdgesInto(a, S, x)
      /\ UseEdges(b, x) \cap EdgesInto(a, S, x) = {}
  <2>1. UseEdges(a, x) = {e \in OutEdges(a.conn, x) : Dst(e) \in LockedSet(a)}
    BY <1>1 DEF UseEdges, LockedMore, LockedSet, OutEdges
  <2>2. UseEdges(b, x) = {e \in OutEdges(a.conn, x) : Dst(e) \in LockedSet(b)}
    BY <1>1 DEF UseEdges, LockedMore, LockedSet, OutEdges
  <2>3. QED
    BY <2>1, <2>2 DEF EdgesInto, LockedMore
<1>3. IsFiniteSet(UseEdges(a, x))
  BY StateFields, EdgeSets, EdgesFinite DEF UseEdges
<1>4. /\ Cardinality(UseEdges(a, x)) = Cardinality(UseEdges(b, x)) + AllInto(a, S, x)
      /\ Cardinality(UseEdges(b, x)) \in Nat /\ AllInto(a, S, x) \in Nat
  <2>1. IsSplit(UseEdges(a, x), UseEdges(b, x), EdgesInto(a, S, x))
    BY <1>2 DEF IsSplit
  <2>2. QED
    BY <1>3, <2>1, SplitSum DEF AllInto
<1>5. /\ ImplicitUses(LockedSet(a), x) = ImplicitUses(LockedSet(b), x) + ImplicitUses(S, x)
      /\ ImplicitUses(LockedSet(b), x) \in Nat /\ ImplicitUses(S, x) \in Nat
  <2>1. CASE x # Root
    BY <2>1 DEF ImplicitUses
  <2>2. CASE x = Root
    <3>1. /\ ImplicitIn(LockedSet(a)) = ImplicitIn(LockedSet(b)) \cup ImplicitIn(S)
          /\ ImplicitIn(LockedSet(b)) \cap ImplicitIn(S) = {}
      BY DEF ImplicitIn, LockedMore
    <3>2. IsFiniteSet(ImplicitIn(LockedSet(a)))
      BY ServicesFinite DEF ImplicitIn, LockedSet
    <3>3. /\ Cardinality(ImplicitIn(LockedSet(a))) =
               Cardinality(ImplicitIn(LockedSet(b))) + Cardinality(ImplicitIn(S))
          /\ Cardinality(ImplicitIn(LockedSet(b))) \in Nat
          /\ Cardinality(ImplicitIn(S)) \in Nat
      <4>1. IsSplit(ImplicitIn(LockedSet(a)), ImplicitIn(LockedSet(b)), ImplicitIn(S))
        BY <3>1 DEF IsSplit
      <4>2. QED
        BY <3>2, <4>1, SplitSum
    <3>4. QED
      <4>1. /\ ImplicitUses(LockedSet(a), x) = Cardinality(ImplicitIn(LockedSet(a)))
            /\ ImplicitUses(LockedSet(b), x) = Cardinality(ImplicitIn(LockedSet(b)))
            /\ ImplicitUses(S, x) = Cardinality(ImplicitIn(S))
        BY <2>2 DEF ImplicitUses, ImplicitIn
      <4>2. QED
        BY <3>3, <4>1
  <2>3. QED
    BY <2>1, <2>2
<1>6. QED
  BY <1>4, <1>5 DEF Users

\* Unlocking one member takes its uses off and connects its waiting usages.
LEMMA UnlockMemberExact ==
  ASSUME NEW st \in States, NEW hd, Exact(st, hd), NEW s \in Services,
         st.phase[s] = "pending", s # Root => st.phase[Root] = "running",
         NEW nx, nx = UnlockMember(st, s)
  PROVE  /\ nx \in States /\ Exact(nx, hd)
         /\ nx.phase = [st.phase EXCEPT ![s] = "stopped"] /\ nx.running = st.running
         /\ Sound(st, nx)
<1>1. PICK U : U = {u \in Weak \ st.conn : User[u] = s}
  OBVIOUS
<1>2. PICK c : c = ConnectAll(st, U)
  OBVIOUS
<1>3. /\ c \in States /\ Exact(c, hd) /\ EqLife(st, c)
      /\ EqQueue(st, c) /\ EqRoot(st, c)
  BY <1>1, <1>2, ConnectAllExact
<1>4. PICK S : S = {s}
  OBVIOUS
<1>5. PICK d : d = CallOnOuterOutgoingDecrement(c, S)
  OBVIOUS
<1>6. S \in SUBSET Services
  BY <1>4
<1>7. /\ d \in States
      /\ EqLife(c, d) /\ EqReq(c, d) /\ EqPush(c, d) /\ EqPull(c, d) /\ EqConn(c, d)
      /\ \A x \in Services : d.uses[x] = c.uses[x]
              - ((IF IsRunning(c, x) THEN AllInto(c, S, x) ELSE 0) + ImplicitUses(S, x))
  BY <1>3, <1>5, <1>6, OuterOutgoingDecrementFrame
<1>8. PICK v : v = [d.phase EXCEPT ![s] = "stopped"]
  OBVIOUS
<1>9. nx = [d EXCEPT !.phase = v]
  BY <1>1, <1>2, <1>4, <1>5, <1>8 DEF UnlockMember, ImportUnlock
<1>10. /\ v = [st.phase EXCEPT ![s] = "stopped"] /\ v = [c.phase EXCEPT ![s] = "stopped"]
       /\ c.phase = st.phase /\ c.running = st.running
  BY <1>3, <1>7, <1>8 DEF EqLife
<1>11. /\ v \in [Services -> Phase] /\ v[s] = "stopped"
       /\ \A x \in Services : x # s => v[x] = c.phase[x]
  BY <1>10, StateFields DEF Phase
<1>12. /\ nx \in States /\ nx.phase = v /\ nx.running = c.running /\ nx.uses = d.uses
       /\ EqReq(c, nx) /\ EqPush(c, nx) /\ EqPull(c, nx) /\ EqConn(c, nx)
       /\ nx.conn = c.conn /\ nx.released = c.released
  <2>0. d \in States /\ v \in [Services -> Phase]
    BY <1>7, <1>11
  <2>1. nx \in States
    BY <1>9, <2>0, PutPhase
  <2>2. /\ nx.phase = v /\ nx.running = d.running /\ nx.uses = d.uses
        /\ EqReq(d, nx) /\ EqPush(d, nx) /\ EqPull(d, nx) /\ EqConn(d, nx)
    BY <1>9, <2>0 DEF States, EqReq, EqPush, EqPull, EqConn
  <2>3. QED
    BY <1>7, <2>1, <2>2 DEF EqLife, EqReq, EqPush, EqPull, EqConn
<1>13. UsesOf(c, hd) /\ HeldOf(c, hd)
  BY <1>3 DEF Exact
<1>14. PICK p : p = "stopped"
  OBVIOUS
<1>15. PhaseStep(c, nx, s, p) /\ c.phase[s] = "pending"
  BY <1>10, <1>11, <1>12, <1>14 DEF PhaseStep
<1>16. UsesOf(nx, hd) /\ HeldOf(nx, hd)
  <2>1. HeldOf(nx, hd)
    BY <1>13, <1>14, <1>15 DEF HeldOf, PhaseStep
  <2>2. LockedMore(c, nx, S)
    BY <1>4, <1>12, <1>14, <1>15 DEF LockedMore, LockedSet, PhaseStep
  <2>3. ASSUME NEW x \in Services PROVE nx.uses[x] = UsesCount(nx, hd, x)
    <3>1. UsedByParent(nx, x) = UsedByParent(c, x) /\ UsedByParent(c, x) \in {0, 1}
      <4>1. c.phase[s] \in {"starting", "running", "stopping"}
              <=> p \in {"starting", "running", "stopping"}
        BY <1>14, <1>15
      <4>2. UsedByParent(nx, x) = UsedByParent(c, x)
        BY <1>15, <4>1, ParentKept
      <4>3. QED
        BY <4>2 DEF UsedByParent
    <3>2. /\ Users(c, x) = Users(nx, x) + (AllInto(c, S, x) + ImplicitUses(S, x))
          /\ Users(nx, x) \in Nat /\ AllInto(c, S, x) \in Nat /\ ImplicitUses(S, x) \in Nat
      BY <1>3, <1>6, <2>2, UsersSplit
    <3>3. hd[x] \in Nat /\ c.uses[x] \in Int /\ c.uses[x] = UsesCount(c, hd, x)
      BY <1>3, <1>13, StateFields DEF HeldOf, UsesOf
    <3>4. CASE c.phase[x] = "running"
      <4>1. x # s /\ nx.phase[x] = "running"
        BY <1>11, <1>12, <1>15, <3>4
      <4>2. nx.uses[x] = c.uses[x] - (AllInto(c, S, x) + ImplicitUses(S, x))
        BY <1>7, <1>12, <3>4 DEF IsRunning
      <4>3. c.uses[x] = 1 + hd[x] + UsedByParent(c, x) + Users(c, x)
        BY <3>3, <3>4 DEF UsesCount
      <4>4. UsesCount(nx, hd, x) = 1 + hd[x] + UsedByParent(c, x) + Users(nx, x)
        BY <3>1, <4>1 DEF UsesCount
      <4>5. QED
        BY <3>1, <3>2, <3>3, <4>2, <4>3, <4>4
    <3>5. CASE c.phase[x] # "running"
      <4>1. ImplicitUses(S, x) = 0
        <5>1. CASE x # Root
          BY <5>1 DEF ImplicitUses
        <5>2. CASE x = Root
          <6>1. s = Root
            BY <1>10, <3>5, <5>2
          <6>2. {y \in S : HasImplicitRootEdge(y)} = {}
            BY <1>4, <6>1 DEF HasImplicitRootEdge
          <6>3. QED
            BY <6>2, FS_EmptySet DEF ImplicitUses
        <5>3. QED
          BY <5>1, <5>2
      <4>2. nx.uses[x] = c.uses[x]
        BY <1>7, <1>12, <3>3, <3>5, <4>1 DEF IsRunning
      <4>3. CASE x = s
        BY <1>14, <1>15, <3>3, <4>2, <4>3 DEF UsesCount, PhaseStep
      <4>4. CASE x # s
        <5>1. nx.phase[x] = c.phase[x]
          BY <1>15, <4>4 DEF PhaseStep
        <5>2. QED
          BY <3>1, <3>3, <3>5, <4>2, <5>1 DEF UsesCount
      <4>5. QED
        BY <4>3, <4>4
    <3>6. QED
      BY <3>4, <3>5
  <2>4. QED
    BY <2>1, <2>3 DEF UsesOf
<1>17. InnerOf(nx) /\ OuterOf(nx)
  <2>1. SameRunning(c, nx)
    BY <1>14, <1>15 DEF SameRunning, PhaseStep
  <2>2. InnerOf(c) /\ OuterOf(c)
    BY <1>3 DEF Exact
  <2>3. QED
    BY <1>3, <1>12, <2>1, <2>2, RunningKept
<1>18. PullsOf(nx) /\ (Acyclic => PushesOf(nx))
  BY <1>3, <1>12, PullsSame, PushesSame DEF Exact
<1>19. RunsOf(nx)
  <2>1. RunsOf(c) /\ (c.phase[s] \in {"stopped", "pending"} <=> p \in {"stopped", "pending"})
    BY <1>3, <1>14, <1>15 DEF Exact
  <2>2. QED
    BY <1>12, <1>15, <2>1, RunsKept
<1>20. ConnOf(nx)
  BY <1>3, <1>12 DEF Exact, ConnOf
<1>21. Exact(nx, hd)
  BY <1>16, <1>17, <1>18, <1>19, <1>20 DEF Exact
<1>22. Sound(st, nx)
  <2>1. Sound(st, c)
    BY <1>3, SameGrows, GrownSound
  <2>2. Sound(c, d)
    BY <1>3, <1>5, <1>6, OuterOutgoingDecrementGrows, ExactGrows
  <2>3. EqQueues(d, nx) /\ EqRoot(d, nx)
    BY <1>7, <1>9 DEF States, EqQueues, EqRoot
  <2>4. PhaseStep(d, nx, s, p) /\ d.phase[s] = "pending"
    BY <1>7, <1>15 DEF PhaseStep, EqLife
  <2>5. Sound(d, nx)
    BY <1>7, <2>3, <2>4, MiddleSound
  <2>6. QED
    BY <2>1, <2>2, <2>5, SoundTrans
<1>23. QED
  BY <1>10, <1>12, <1>21, <1>22

AllPending(st, h) == \A x \in ClusterMembers(h) : st.phase[x] = "pending"

\* The loop of do_unlock_cluster.
UnlockedAll(st, h) ==
  FoldSet(LAMBDA s, acc : UnlockMember(acc, s), st, ClusterMembers(h))

\* Unlocking all members of a cluster, in any order.
LEMMA UnlockedAllExact ==
  ASSUME NEW st \in States, NEW hd, Exact(st, hd), NEW h \in Heads,
         AllPending(st, h),
         h # Root => st.phase[Root] = "running",
         NEW M, M = ClusterMembers(h), NEW nx, nx = UnlockedAll(st, h)
  PROVE  /\ nx \in States /\ Exact(nx, hd) /\ nx.running = st.running /\ Sound(st, nx)
         /\ \A y \in Services : nx.phase[y] = IF y \in M THEN "stopped" ELSE st.phase[y]
<1>0. /\ M \subseteq Services /\ (h # Root => Root \notin M) /\ (h = Root => M = {Root})
      /\ \A y \in M : st.phase[y] = "pending"
  BY GraphFacts DEF ClusterMembers, AllPending
<1> DEFINE Good(s) == {t \in States : /\ Exact(t, hd) /\ t.running = st.running /\ Sound(st, t)
                                      /\ \A y \in Services : t.phase[y] =
                                           IF y \in s THEN "stopped" ELSE st.phase[y]}
           Q == [s \in SUBSET M |-> Good(s)]
           g == [p \in M \X States |-> UnlockMember(p[2], p[1])]
           Body(f) == [s \in SUBSET M |->
              IF s = {} THEN st
              ELSE UnlockMember(f[s \ {CHOOSE x \in s : TRUE}], CHOOSE x \in s : TRUE)]
           iter == CHOOSE f : f = Body(f)
<1>1. nx = iter[M]
  BY DEF UnlockedAll, FoldSet, MapThenFoldSet
<1>2. IsFiniteSet(M)
  BY FS_Subset, GraphAssumption, <1>0
<1>3. \A s \in SUBSET M : Q[s] \subseteq States
  OBVIOUS
<1>4. st \in Q[{}]
  BY DEF Sound
<1>5. FoldStep(M, Q, g)
  <2>1. SUFFICES ASSUME NEW s \in SUBSET M, NEW x \in s, NEW t \in Q[s \ {x}]
                 PROVE  g[<<x, t>>] \in Q[s]
    BY DEF FoldStep
  <2>2. /\ t \in States /\ Exact(t, hd) /\ t.running = st.running /\ Sound(st, t)
        /\ \A y \in Services : t.phase[y] =
             IF y \in s \ {x} THEN "stopped" ELSE st.phase[y]
    OBVIOUS
  <2>3. x \in M /\ x \in Services /\ Root \in Services
    BY <1>0, GraphFacts
  <2>4. t.phase[x] = "pending"
    BY <1>0, <2>2, <2>3
  <2>5. x # Root => t.phase[Root] = "running"
    BY <1>0, <2>2, <2>3
  <2>6. PICK n : n = UnlockMember(t, x)
    OBVIOUS
  <2>7. /\ n \in States /\ Exact(n, hd) /\ n.running = t.running /\ Sound(st, n)
        /\ n.phase = [t.phase EXCEPT ![x] = "stopped"]
    BY <2>2, <2>3, <2>4, <2>5, <2>6, UnlockMemberExact, SoundTrans
  <2>8. \A y \in Services : n.phase[y] = IF y \in s THEN "stopped" ELSE st.phase[y]
    BY <2>2, <2>3, <2>7, StateFields
  <2>9. n \in Q[s]
    BY <2>2, <2>7, <2>8
  <2>10. g[<<x, t>>] = n
    BY <2>2, <2>3, <2>6
  <2>11. QED
    BY <2>9, <2>10
<1>6. PICK f \in [SUBSET M -> States] :
        IsFold(f, M, st, g) /\ \A s \in SUBSET M : f[s] \in Q[s]
  <2> HIDE DEF Q, g
  <2> QED BY <1>2, <1>3, <1>4, <1>5, FoldGuarded, Zenon
<1>7. f = Body(f)
  <2>1. \A s \in SUBSET M : s # {} =>
          Chosen(s) \in M /\ f[s \ {Chosen(s)}] \in States /\ Chosen(s) \in s
    BY <1>6 DEF Chosen
  <2>2. \A s \in SUBSET M : f[s] =
          IF s = {} THEN st ELSE UnlockMember(f[s \ {Chosen(s)}], Chosen(s))
    BY <1>6, <2>1 DEF IsFold
  <2>3. QED
    BY <1>6, <2>2 DEF Chosen
<1>8. iter = Body(iter)
  <2> HIDE DEF Body
  <2> QED BY <1>7, Zenon
<1>9. \A s \in SUBSET M : iter[s] =
        IF s = {} THEN st ELSE UnlockMember(iter[s \ {Chosen(s)}], Chosen(s))
  <2> HIDE DEF iter
  <2> QED BY <1>8 DEF Chosen
<1> HIDE DEF iter
<1>10. iter[M] \in Q[M]
  <2>1. iter[{}] \in Q[{}]
    BY <1>4, <1>9
  <2>2. ASSUME NEW s \in SUBSET M, NEW x \in s, x = Chosen(s),
               iter[s \ {x}] \in Q[s \ {x}]
        PROVE  iter[s] \in Q[s]
    <3>1. iter[s] = UnlockMember(iter[s \ {x}], x)
      BY <1>9, <2>2
    <3>2. g[<<x, iter[s \ {x}]>>] \in Q[s]
      <4> HIDE DEF Q, g
      <4> QED BY <1>5, <2>2 DEF FoldStep
    <3>3. iter[s \ {x}] \in States /\ x \in M
      BY <1>3, <2>2
    <3>4. QED
      BY <3>1, <3>2, <3>3
  <2> HIDE DEF Q
  <2>3. QED
    BY <1>2, <2>1, <2>2, FoldInduction
<1>11. iter[M] \in Good(M)
  BY <1>10
<1>12. QED
  BY <1>1, <1>11

\* Adding to recheck changes no counter.
LEMMA RecheckFrame ==
  ASSUME NEW st \in States, NEW v \in SUBSET Heads, NEW nx, nx = [st EXCEPT !.recheck = v]
  PROVE  nx \in States /\ EqCounters(st, nx) /\ EqQueue(st, nx)
<1>1. nx \in States
  BY DEF States
<1>2. EqCounters(st, nx) /\ EqQueue(st, nx)
  BY DEF States, EqQueue, EqCounters, EqLife, EqUses, EqReq, EqPush, EqPull, EqConn
<1>3. QED
  BY <1>1, <1>2

\* do_unlock_cluster keeps the counters exact.
LEMMA UnlockExact ==
  ASSUME NEW st \in States, NEW hd, Exact(st, hd), NEW h \in Heads,
         AllPending(st, h),
         h # Root => st.phase[Root] = "running",
         NEW nx, nx = DoUnlockCluster(st, h)
  PROVE  /\ nx \in States /\ Exact(nx, hd) /\ Sound(st, nx)
         /\ \A x \in Services : nx.phase[x] = IF Head[x] = h THEN "stopped" ELSE st.phase[x]
<1>1. PICK a, M : a = UnlockedAll(st, h) /\ M = ClusterMembers(h)
  OBVIOUS
<1>2. /\ a \in States /\ Exact(a, hd) /\ Sound(st, a)
      /\ \A y \in Services : a.phase[y] = IF y \in M THEN "stopped" ELSE st.phase[y]
  BY <1>1, UnlockedAllExact
<1>3. PICK U : U = {u \in Weak \ a.conn : Used[u] = h /\ ~IsLocked(a, User[u])}
  OBVIOUS
<1>4. PICK b : b = ConnectAll(a, U)
  OBVIOUS
<1>5. b \in States /\ Exact(b, hd) /\ EqLife(a, b) /\ EqQueue(a, b) /\ EqRoot(a, b)
  BY <1>2, <1>3, <1>4, ConnectAllExact
<1>6. PICK t : t = "stop"
  OBVIOUS
<1>7. PICK c : c = TransitionTargetCompleteIf(b, h, t)
  OBVIOUS
<1>8. c \in States /\ EqCounters(b, c) /\ EqQueue(b, c)
  BY <1>5, <1>7, CompleteFrame
<1>9. Exact(c, hd) /\ EqLife(b, c)
  BY <1>5, <1>8, ExactSame DEF EqCounters
<1>10. PICK f \in BOOLEAN : f = FALSE
  OBVIOUS
<1>11. PICK d : d = DoMarkClusterForStop(c, h, f)
  OBVIOUS
<1>12. d \in States /\ Exact(d, hd) /\ EqLife(c, d)
  BY <1>8, <1>9, <1>11, MarkExact
<1>13. nx = IF IsClusterStartable(d, h) /\ ShallStart(d, h) /\ h # Root
            THEN [d EXCEPT !.recheck = @ \cup {h}] ELSE d
  BY <1>1, <1>3, <1>4, <1>6, <1>7, <1>10, <1>11
     DEF DoUnlockCluster, UnlockedAll, InterfaceUnlock
<1>14. nx \in States /\ Exact(nx, hd) /\ nx.phase = a.phase /\ Sound(d, nx)
  <2>1. d.phase = a.phase
    BY <1>5, <1>9, <1>12 DEF EqLife
  <2>2. CASE nx = d
    BY <1>12, <2>1, <2>2 DEF Sound
  <2>3. CASE nx = [d EXCEPT !.recheck = @ \cup {h}]
    <3>1. PICK v : v = d.recheck \cup {h}
      OBVIOUS
    <3>2. v \in SUBSET Heads /\ nx = [d EXCEPT !.recheck = v]
      BY <1>12, <2>3, <3>1, StateFields
    <3>3. nx \in States /\ EqCounters(d, nx) /\ EqQueue(d, nx)
      BY <1>12, <3>2, RecheckFrame
    <3>4. Exact(nx, hd)
      BY <1>12, <3>3, ExactSame
    <3>5. QED
      <4>1. Sound(d, nx)
        BY <3>3, SameGrows, GrownSound DEF EqCounters, EqPush, EqPull, EqRoot
      <4>2. QED
        BY <2>1, <3>3, <3>4, <4>1 DEF EqCounters, EqLife
  <2>4. QED
    BY <1>13, <2>2, <2>3
<1>15. \A x \in Services : nx.phase[x] = IF Head[x] = h THEN "stopped" ELSE st.phase[x]
  BY <1>1, <1>2, <1>14 DEF ClusterMembers
<1>16. Sound(st, nx)
  <2>1. Sound(a, b)
    BY <1>5, SameGrows, GrownSound
  <2>2. Sound(b, c)
    BY <1>8, SameGrows, GrownSound DEF EqCounters, EqPush, EqPull, EqRoot
  <2>3. Sound(c, d)
    BY <1>8, <1>10, <1>11, MarkAdds, GrowsKeeps DEF Sound, Grows
  <2>4. QED
    BY <1>2, <1>14, <2>1, <2>2, <2>3, SoundTrans
<1>17. QED
  BY <1>14, <1>15, <1>16

\* The phases of a member that has stopped, as in ServiceLifecycle.
PhaseAfter(ph, s) ==
  IF \A t \in ClusterMembers(Head[s]) \ {s} : ph[t] = "pending"
  THEN [t \in Services |-> IF Head[t] = Head[s] THEN "stopped" ELSE ph[t]]
  ELSE [ph EXCEPT ![s] = "pending"]

\* post_stop keeps the counters exact, unlocking the cluster or not.
LEMMA PostStopExact ==
  ASSUME NEW st \in States, NEW hd, Exact(st, hd), NEW s \in Services,
         st.phase[s] = "stopping",
         \A m \in InnerChildren(s) : st.phase[m] = "running",
         \A t \in ClusterMembers(Head[s]) : st.phase[t] # "stopped",
         s # Root => st.phase[Root] = "running",
         NEW nx, nx = PostStop(st, s)
  PROVE  /\ nx \in States /\ Exact(nx, hd) /\ nx.phase = PhaseAfter(st.phase, s)
         /\ Sound(st, nx)
<1>1. PICK a, h : a = Pended(st, s) /\ h = Head[s]
  OBVIOUS
<1>2. /\ a \in States /\ Exact(a, hd) /\ a.phase = [st.phase EXCEPT ![s] = "pending"]
      /\ Sound(st, a)
  BY <1>1, PendingExact
<1>3. h \in Heads
  BY <1>1, GraphFacts
<1>4. nx = IF a.running[h] # 0 THEN a ELSE DoUnlockCluster(a, h)
  BY <1>1 DEF PostStop, Pended
<1>5. a.running[h] = Cardinality(ActiveMembers(a, h))
  BY <1>2, <1>3 DEF Exact, RunsOf
<1>6. Cardinality(ActiveMembers(a, h)) = 0 <=> ActiveMembers(a, h) = {}
  BY ServicesFinite DEF ActiveMembers, ClusterMembers
<1>7. \A t \in Services : a.phase[t] = IF t = s THEN "pending" ELSE st.phase[t]
  BY <1>2, StateFields
<1>8. ActiveMembers(a, h) = {} <=> \A t \in ClusterMembers(h) \ {s} : st.phase[t] = "pending"
  BY <1>1, <1>7 DEF ActiveMembers, ClusterMembers
<1>9. CASE a.running[h] # 0
  <2>1. ~\A t \in ClusterMembers(Head[s]) \ {s} : st.phase[t] = "pending"
    BY <1>1, <1>5, <1>6, <1>8, <1>9
  <2>2. PhaseAfter(st.phase, s) = [st.phase EXCEPT ![s] = "pending"]
    BY <2>1 DEF PhaseAfter
  <2>3. QED
    BY <1>2, <1>4, <1>9, <2>2
<1>10. CASE a.running[h] = 0
  <2>1. \A t \in ClusterMembers(h) \ {s} : st.phase[t] = "pending"
    BY <1>5, <1>6, <1>8, <1>10
  <2>2. AllPending(a, h)
    BY <1>7, <2>1 DEF ClusterMembers, AllPending
  <2>3. h # Root => a.phase[Root] = "running"
    BY <1>1, <1>7, GraphFacts
  <2>4. nx = DoUnlockCluster(a, h)
    BY <1>4, <1>10
  <2>5. /\ nx \in States /\ Exact(nx, hd) /\ Sound(a, nx)
        /\ \A x \in Services : nx.phase[x] = IF Head[x] = h THEN "stopped" ELSE a.phase[x]
    <3>1. a \in States /\ Exact(a, hd)
      BY <1>2
    <3>2. QED
      BY <1>3, <2>2, <2>3, <2>4, <3>1, UnlockExact
  <2>6. PhaseAfter(st.phase, s) =
          [t \in Services |-> IF Head[t] = h THEN "stopped" ELSE st.phase[t]]
    BY <1>1, <2>1 DEF PhaseAfter
  <2>7. nx.phase = [t \in Services |-> IF Head[t] = h THEN "stopped" ELSE st.phase[t]]
    <3>1. nx.phase \in [Services -> Phase]
      BY <2>5, StateFields
    <3>2. \A t \in Services : nx.phase[t] = IF Head[t] = h THEN "stopped" ELSE st.phase[t]
      BY <1>1, <1>7, <2>5
    <3>3. QED
      BY <3>1, <3>2
  <2>8. Sound(st, nx)
    BY <1>2, <2>5, SoundTrans
  <2>9. QED
    BY <2>5, <2>6, <2>7, <2>8
<1>11. QED
  BY <1>9, <1>10

OnlyRootUp(st) == \A x \in Services : x # Root => st.phase[x] = "stopped"

\* post_start_actions up to the check whether the service shall stop again.
Ran(st, s) ==
  CallOnRequiredDecrement(
    CallOnOuterDelayedOutgoingIncrement([st EXCEPT !.phase[s] = "running"], s), s)

\* A service that has started runs: it is missed no more.
LEMMA RanExact ==
  ASSUME NEW st \in States, NEW hd, Exact(st, hd), NEW s \in Services,
         st.phase[s] = "starting", s = Root => OnlyRootUp(st),
         NEW nx, nx = Ran(st, s)
  PROVE  /\ nx \in States /\ Exact(nx, hd)
         /\ nx.phase = [st.phase EXCEPT ![s] = "running"] /\ Sound(st, nx)
<1>1. PICK v : v = [st.phase EXCEPT ![s] = "running"]
  OBVIOUS
<1>2. /\ v \in [Services -> Phase] /\ v[s] = "running"
      /\ \A x \in Services : x # s => v[x] = st.phase[x]
  BY <1>1, StateFields DEF Phase
<1>3. PICK a : a = [st EXCEPT !.phase = v]
  OBVIOUS
<1>4. a \in States
  BY <1>2, <1>3, PutPhase
<1>5. /\ a.phase = v /\ a.running = st.running /\ EqUses(st, a) /\ EqReq(st, a)
      /\ EqPush(st, a) /\ EqPull(st, a) /\ EqConn(st, a)
  BY <1>3 DEF States, EqUses, EqReq, EqPush, EqPull, EqConn
<1>6. PICK b : b = CallOnOuterDelayedOutgoingIncrement(a, s)
  OBVIOUS
<1>7. /\ b \in States
      /\ EqLife(a, b) /\ EqReq(a, b) /\ EqPush(a, b) /\ EqPull(a, b) /\ EqConn(a, b)
      /\ \A x \in Services : b.uses[x] = a.uses[x] +
              (IF x = s THEN LockedOut(a, s) ELSE 0)
  BY <1>4, <1>6, DelayedIncrementFrame
<1>8. nx = CallOnRequiredDecrement(b, s)
  BY <1>1, <1>3, <1>6 DEF Ran
<1>9. /\ nx \in States
      /\ EqLife(b, nx) /\ EqUses(b, nx) /\ EqPush(b, nx) /\ EqPull(b, nx)
      /\ EqConn(b, nx)
      /\ \A x \in Services : nx.inner[x] = b.inner[x] - InnerOne(s, x)
      /\ \A h \in Heads : nx.outer[h] = b.outer[h] - RequiredBy(b, s)[h]
  BY <1>7, <1>8, RequiredDecrementFrame DEF InnerOne
<1>10. /\ nx.phase = v /\ nx.running = st.running /\ nx.conn = st.conn
       /\ nx.released = st.released /\ EqPush(st, nx) /\ EqPull(st, nx)
       /\ a.phase = v /\ a.conn = st.conn /\ a.uses = st.uses /\ nx.uses = b.uses
       /\ b.inner = st.inner /\ b.outer = st.outer /\ b.conn = st.conn
  BY <1>5, <1>7, <1>9 DEF EqLife, EqUses, EqReq, EqPush, EqPull, EqConn
<1>11. UsesOf(st, hd) /\ HeldOf(st, hd)
  BY DEF Exact
<1>12. PICK p : p = "running"
  OBVIOUS
<1>13. PhaseStep(st, nx, s, p)
  BY <1>2, <1>10, <1>12 DEF PhaseStep
<1>14. LockedOut(a, s) = Cardinality(UseEdges(nx, s))
  BY <1>10 DEF LockedOut, UseEdges, IsLocked
<1>15. ImplicitUses(LockedSet(nx), s) = 0
  <2>1. CASE s # Root
    BY <2>1 DEF ImplicitUses
  <2>2. CASE s = Root
    <3>1. {x \in LockedSet(nx) : HasImplicitRootEdge(x)} = {}
      BY <1>2, <1>10, <2>2 DEF LockedSet, OnlyRootUp, HasImplicitRootEdge
    <3>2. QED
      BY <3>1, FS_EmptySet DEF ImplicitUses
  <2>3. QED
    BY <2>1, <2>2
<1>16. UsesOf(nx, hd) /\ HeldOf(nx, hd)
  <2>1. HeldOf(nx, hd)
    BY <1>11, <1>12, <1>13 DEF HeldOf, PhaseStep
  <2>2. ASSUME NEW x \in Services PROVE nx.uses[x] = UsesCount(nx, hd, x)
    <3>1. UsedByParent(nx, x) = UsedByParent(st, x) /\ UsedByParent(st, x) \in {0, 1}
      <4>1. st.phase[s] \in {"starting", "running", "stopping"}
              <=> p \in {"starting", "running", "stopping"}
        BY <1>12
      <4>2. UsedByParent(nx, x) = UsedByParent(st, x)
        BY <1>13, <4>1, ParentKept
      <4>3. QED
        BY <4>2 DEF UsedByParent
    <3>2. hd[x] \in Nat /\ st.uses[x] \in Int /\ st.uses[x] = UsesCount(st, hd, x)
      BY <1>11, StateFields DEF HeldOf, UsesOf
    <3>3. CASE x = s
      <4>1. nx.uses[x] = st.uses[x] + Cardinality(UseEdges(nx, s))
        BY <1>7, <1>10, <1>14, <3>3
      <4>2. st.uses[x] = 1 + hd[x] + UsedByParent(st, x)
        BY <3>2, <3>3 DEF UsesCount
      <4>3. Cardinality(UseEdges(nx, s)) \in Nat
        BY <1>4, <1>14, LockedOutType
      <4>4. nx.phase[x] = "running"
        BY <1>2, <1>10, <3>3
      <4>5. UsesCount(nx, hd, x) = 1 + hd[x] + UsedByParent(st, x)
                                    + (Cardinality(UseEdges(nx, s)) + 0)
        BY <1>15, <3>1, <3>3, <4>4 DEF UsesCount, Users
      <4>6. QED
        BY <3>1, <3>2, <4>1, <4>2, <4>3, <4>5
    <3>4. CASE x # s
      <4>1. nx.conn = st.conn /\ (st.phase[s] # "stopped" <=> p # "stopped")
        BY <1>10, <1>12
      <4>2. Users(nx, x) = Users(st, x)
        BY <1>13, <4>1, UsersKept
      <4>3. nx.uses[x] = st.uses[x] /\ nx.phase[x] = st.phase[x]
        BY <1>2, <1>7, <1>10, <3>2, <3>4
      <4>4. QED
        BY <3>1, <3>2, <4>2, <4>3 DEF UsesCount
    <3>5. QED
      BY <3>3, <3>4
  <2>3. QED
    BY <2>1, <2>2 DEF UsesOf
<1>17. RunDiffers(nx, st, s)
  BY <1>10, <1>12, <1>13 DEF RunDiffers, PhaseStep
<1>18. InnerOf(nx)
  <2>1. \A x \in Services :
          /\ Cardinality(MissingInner(st, x)) = Cardinality(MissingInner(nx, x)) + InnerOne(s, x)
          /\ InnerOne(s, x) \in {0, 1} /\ Cardinality(MissingInner(nx, x)) \in Nat
    BY <1>17, InnerCounts
  <2>2. \A x \in Services : st.inner[x] = Cardinality(MissingInner(st, x))
    BY DEF Exact, InnerOf
  <2>3. QED
    BY <1>9, <1>10, <2>1, <2>2 DEF InnerOf
<1>19. OuterOf(nx)
  <2>1. \A h \in Heads :
          /\ Cardinality(MissingEdges(st, h)) + Cardinality(MissingRoot(st, h)) =
               Cardinality(MissingEdges(nx, h)) + Cardinality(MissingRoot(nx, h))
               + RequiredBy(nx, s)[h]
          /\ Cardinality(MissingEdges(nx, h)) + Cardinality(MissingRoot(nx, h)) \in Nat
          /\ RequiredBy(nx, s)[h] \in Int
    BY <1>9, <1>17, OuterCounts
  <2>2. RequiredBy(b, s) = RequiredBy(nx, s)
    BY <1>10 DEF RequiredBy
  <2>3. \A h \in Heads : st.outer[h] = Cardinality(MissingEdges(st, h))
                                       + Cardinality(MissingRoot(st, h))
    BY DEF Exact, OuterOf
  <2>4. QED
    BY <1>9, <1>10, <2>1, <2>2, <2>3 DEF OuterOf
<1>20. PullsOf(nx) /\ (Acyclic => PushesOf(nx))
  BY <1>10, PullsSame, PushesSame DEF Exact
<1>21. RunsOf(nx)
  <2>1. /\ RunsOf(st) /\ nx.running = st.running
        /\ st.phase[s] \in {"stopped", "pending"} <=> p \in {"stopped", "pending"}
    BY <1>10, <1>12 DEF Exact
  <2>2. QED
    BY <1>13, <2>1, RunsKept
<1>22. ConnOf(nx)
  BY <1>10 DEF Exact, ConnOf
<1>23. Exact(nx, hd)
  BY <1>16, <1>18, <1>19, <1>20, <1>21, <1>22 DEF Exact
<1>24. Sound(st, nx)
  <2>1. EqQueues(st, a) /\ EqRoot(st, a) /\ PhaseStep(st, a, s, p)
    BY <1>2, <1>3, <1>12 DEF States, EqQueues, EqRoot, PhaseStep
  <2>2. Sound(st, a)
    BY <2>1, MiddleSound
  <2>3. EqQueue(a, b) /\ EqRoot(a, b)
    BY <1>4, <1>6, UsesIncrementQueue DEF CallOnOuterDelayedOutgoingIncrement
  <2>4. Sound(a, b)
    BY <2>3, SameGrows, GrownSound
  <2>5. Sound(b, nx)
    BY <1>7, <1>8, RequiredDecrementGrows, GrowsKeeps DEF Sound
  <2>6. QED
    BY <2>2, <2>4, <2>5, SoundTrans
<1>25. QED
  BY <1>1, <1>9, <1>10, <1>23, <1>24

\* post_start keeps the counters exact.
LEMMA PostStartExact ==
  ASSUME NEW st \in States, NEW hd, Exact(st, hd), NEW s \in Services,
         st.phase[s] = "starting", s = Root => OnlyRootUp(st),
         NEW nx, nx = PostStart(st, s)
  PROVE  /\ nx \in States /\ Exact(nx, hd)
         /\ nx.phase = [st.phase EXCEPT ![s] = "running"] /\ Sound(st, nx)
<1>1. PICK a, S : a = Ran(st, s) /\ S = {s}
  OBVIOUS
<1>2. /\ a \in States /\ Exact(a, hd) /\ a.phase = [st.phase EXCEPT ![s] = "running"]
      /\ Sound(st, a)
  BY <1>1, RanExact
<1>3. nx = IF ShallStop(a, Head[s]) THEN PushDown(a, S)
           ELSE IF s \in Heads THEN DoFinalizeCluster(a, s) ELSE a
  BY <1>1 DEF PostStart, Ran
<1>4. a \in States /\ S \in SUBSET Services
  BY <1>1, <1>2
<1>5. nx \in States /\ EqCounters(a, nx)
  <2>1. CASE nx = PushDown(a, S)
    BY <1>4, <2>1, PushDownFrame
  <2>2. CASE s \in Heads /\ nx = DoFinalizeCluster(a, s)
    BY <1>4, <2>2, FinalizeFrame
  <2>3. CASE nx = a
    BY <1>4, <2>3, EqRefl
  <2>4. QED
    BY <1>3, <2>1, <2>2, <2>3
<1>6. Exact(nx, hd) /\ nx.phase = a.phase
  <2>1. Exact(a, hd)
    BY <1>2
  <2>2. Exact(nx, hd)
    BY <1>5, <2>1, ExactSame
  <2>3. QED
    BY <1>5, <2>2 DEF EqCounters, EqLife
<1>7. Sound(a, nx)
  <2>1. CASE ShallStop(a, Head[s]) /\ nx = PushDown(a, S)
    <3>1. \A x \in S : a.phase[x] = "running"
      BY <1>1, <1>2, StateFields
    <3>2. PushedRoot(a) => (Root \in S => ~Kept(a))
      BY <1>1, <2>1, GraphFacts DEF ShallStop, IsPushed, PushedRoot, Kept, Marked
    <3>3. PushedRoot(a) => Grows(a, nx)
      BY <1>4, <2>1, <3>1, <3>2, PushDownAdds DEF Grows
    <3>4. QED
      BY <1>2, <3>3, ExactGrows
  <2>2. CASE s \in Heads /\ nx = DoFinalizeCluster(a, s)
    <3>1. EqQueue(a, nx)
      BY <1>4, <2>2, FinalizeFrame
    <3>2. QED
      BY <1>5, <3>1, SameGrows, GrownSound DEF EqCounters, EqPush, EqPull, EqRoot
  <2>3. CASE nx = a
    BY <2>3 DEF Sound
  <2>4. QED
    BY <1>3, <2>1, <2>2, <2>3
<1>8. QED
  BY <1>2, <1>5, <1>6, <1>7, SoundTrans

-----------------------------------------------------------------------------
(* Locking a cluster and starting a service. *)

AllStopped(st, h) == \A x \in ClusterMembers(h) : st.phase[x] = "stopped"

\* Nothing that a cluster needs is missing.
LEMMA NothingMissing ==
  ASSUME NEW st \in States, OuterOf(st), NEW h \in Heads, st.outer[h] = 0
  PROVE  MissingEdges(st, h) = {} /\ MissingRoot(st, h) = {}
<1>1. st.conn \in SUBSET Usages
  BY StateFields
<1>2. MissingEdges(st, h) \subseteq Edges(st.conn)
  BY <1>1, EdgeSets DEF MissingEdges
<1>3. /\ Cardinality(MissingEdges(st, h)) \in Nat
      /\ Cardinality(MissingEdges(st, h)) = 0 <=> MissingEdges(st, h) = {}
  BY <1>1, <1>2, EdgesFinite
<1>4. /\ Cardinality(MissingRoot(st, h)) \in Nat
      /\ Cardinality(MissingRoot(st, h)) = 0 <=> MissingRoot(st, h) = {}
  BY ServicesFinite DEF MissingRoot, ClusterMembers
<1>5. 0 = Cardinality(MissingEdges(st, h)) + Cardinality(MissingRoot(st, h))
  BY DEF OuterOf
<1>6. QED
  BY <1>3, <1>4, <1>5

\* do_lock_cluster: a cluster that misses nothing uses what it needs.
LEMMA LockExact ==
  ASSUME NEW st \in States, NEW hd, Exact(st, hd), NEW h \in Heads,
         AllStopped(st, h), st.outer[h] = 0, NEW nx, nx = DoLockCluster(st, h)
  PROVE  /\ nx \in States /\ Exact(nx, hd)
         /\ \A x \in Services : nx.phase[x] = IF Head[x] = h THEN "locked" ELSE st.phase[x]
         /\ Sound(st, nx) /\ EqQueues(st, nx) /\ EqRoot(st, nx)
<1>1. PICK M : M = ClusterMembers(h)
  OBVIOUS
<1>2. /\ M \in SUBSET Services /\ \A x \in Services : x \in M <=> Head[x] = h
      /\ \A x \in M : st.phase[x] = "stopped"
  BY <1>1 DEF ClusterMembers, AllStopped
<1>3. PICK v : v = [s \in Services |-> IF s \in M THEN "locked" ELSE st.phase[s]]
  OBVIOUS
<1>4. /\ v \in [Services -> Phase]
      /\ \A x \in Services : v[x] = IF x \in M THEN "locked" ELSE st.phase[x]
  BY <1>3, StateFields DEF Phase
<1>5. PICK a : a = [st EXCEPT !.phase = v]
  OBVIOUS
<1>6. a \in States
  BY <1>4, <1>5, PutPhase
<1>7. /\ a.phase = v /\ a.running = st.running /\ EqUses(st, a) /\ EqReq(st, a)
      /\ EqPush(st, a) /\ EqPull(st, a) /\ EqConn(st, a)
  BY <1>5 DEF States, EqUses, EqReq, EqPush, EqPull, EqConn
<1>8. PICK b : b = CallOnOuterOutgoingIncrement(a, M)
  OBVIOUS
<1>9. /\ b \in States
      /\ EqLife(a, b) /\ EqReq(a, b) /\ EqPush(a, b) /\ EqPull(a, b) /\ EqConn(a, b)
      /\ \A x \in Services : b.uses[x] = a.uses[x]
              + (CountedInto(a, M, x) + ImplicitUses(M, x))
  BY <1>2, <1>6, <1>8, OuterOutgoingIncrementFrame
<1>10. PICK w : w = [b.running EXCEPT ![h] = @ + Cardinality(M)]
  OBVIOUS
<1>11. Cardinality(M) \in Nat
  BY <1>2, ServicesFinite
<1>12. /\ b.running = st.running /\ w \in [Heads -> Int]
       /\ w[h] = st.running[h] + Cardinality(M)
       /\ \A x \in Heads : x # h => w[x] = st.running[x]
  <2>1. b.running = st.running
    BY <1>7, <1>9 DEF EqLife
  <2>2. QED
    BY <1>10, <1>11, <2>1, StateFields
<1>13. nx = [b EXCEPT !.running = w]
  BY <1>1, <1>3, <1>5, <1>8, <1>10 DEF DoLockCluster
<1>14. /\ nx \in States /\ nx.phase = b.phase /\ nx.running = w /\ nx.uses = b.uses
       /\ EqReq(b, nx) /\ EqPush(b, nx) /\ EqPull(b, nx) /\ EqConn(b, nx)
  <2>1. b \in States /\ w \in [Heads -> Int]
    BY <1>9, <1>12
  <2>2. nx \in States
    BY <1>13, <2>1, PutRunning
  <2>3. QED
    BY <1>13, <2>1, <2>2 DEF States, EqReq, EqPush, EqPull, EqConn
<1>15. /\ nx.phase = v /\ nx.conn = st.conn /\ nx.released = st.released
       /\ EqReq(st, nx) /\ EqPush(st, nx) /\ EqPull(st, nx)
       /\ a.uses = st.uses /\ a.conn = st.conn
  BY <1>7, <1>9, <1>14 DEF EqLife, EqUses, EqReq, EqPush, EqPull, EqConn
<1>16. UsesOf(st, hd) /\ HeldOf(st, hd) /\ InnerOf(st) /\ OuterOf(st)
  BY DEF Exact
<1>17. MissingEdges(st, h) = {} /\ MissingRoot(st, h) = {}
  BY <1>16, NothingMissing
<1>18. LockedMore(nx, st, M)
  BY <1>2, <1>4, <1>15 DEF LockedMore, LockedSet
<1>19. UsesOf(nx, hd) /\ HeldOf(nx, hd)
  <2>1. HeldOf(nx, hd)
    BY <1>2, <1>4, <1>15, <1>16 DEF HeldOf
  <2>2. ASSUME NEW x \in Services PROVE nx.uses[x] = UsesCount(nx, hd, x)
    <3>1. UsedByParent(nx, x) = UsedByParent(st, x) /\ UsedByParent(st, x) \in {0, 1}
      <4>1. CASE x \in Members
        <5>1. Parent[x] \in Services
          BY <4>1, GraphFacts
        <5>2. CASE Parent[x] \in M
          BY <1>2, <1>4, <1>15, <5>1, <5>2 DEF UsedByParent
        <5>3. CASE Parent[x] \notin M
          BY <1>2, <1>4, <1>15, <5>1, <5>3 DEF UsedByParent
        <5>4. QED
          BY <5>2, <5>3
      <4>2. CASE x \notin Members
        BY <4>2 DEF UsedByParent
      <4>3. QED
        BY <4>1, <4>2
    <3>2. hd[x] \in Nat /\ st.uses[x] \in Int /\ st.uses[x] = UsesCount(st, hd, x)
      BY <1>16, StateFields DEF HeldOf, UsesOf
    <3>3. nx.uses[x] = st.uses[x] + (CountedInto(a, M, x) + ImplicitUses(M, x))
      BY <1>9, <1>14, <1>15
    <3>4. CASE st.phase[x] = "running"
      <4>1. x \notin M /\ nx.phase[x] = "running" /\ a.phase[x] = "running"
        BY <1>2, <1>4, <1>7, <1>15, <3>4
      <4>2. CountedInto(a, M, x) = AllInto(nx, M, x)
        <5>1. EdgesInto(a, M, x) = EdgesInto(nx, M, x)
          BY <1>15 DEF EdgesInto
        <5>2. {e \in EdgesInto(a, M, x) : e \notin Weak \/ IsRunning(a, x)}
                = EdgesInto(nx, M, x)
          BY <4>1, <5>1 DEF IsRunning
        <5>3. QED
          BY <5>2 DEF CountedInto, AllInto
      <4>3. /\ Users(nx, x) = Users(st, x) + (AllInto(nx, M, x) + ImplicitUses(M, x))
            /\ Users(st, x) \in Nat /\ AllInto(nx, M, x) \in Nat
            /\ ImplicitUses(M, x) \in Nat
        BY <1>2, <1>14, <1>18, UsersSplit
      <4>4. st.uses[x] = 1 + hd[x] + UsedByParent(st, x) + Users(st, x)
        BY <3>2, <3>4 DEF UsesCount
      <4>5. UsesCount(nx, hd, x) = 1 + hd[x] + UsedByParent(st, x) + Users(nx, x)
        BY <3>1, <4>1 DEF UsesCount
      <4>6. QED
        BY <3>1, <3>2, <3>3, <4>2, <4>3, <4>4, <4>5
    <3>5. CASE st.phase[x] # "running"
      <4>1. a.phase[x] # "running" /\ nx.phase[x] # "running"
        BY <1>2, <1>4, <1>7, <1>15, <3>5
      <4>2. CountedInto(a, M, x) = 0
        <5>1. ASSUME NEW e \in EdgesInto(a, M, x), e \notin Weak PROVE FALSE
          <6>1. e \in Edges(st.conn) /\ Src(e) = x /\ Dst(e) \in M
            BY <1>15 DEF EdgesInto, OutEdges
          <6>2. Head[Dst(e)] = h
            BY <1>2, <6>1
          <6>3. e \in MissingEdges(st, h)
            BY <3>5, <5>1, <6>1, <6>2 DEF MissingEdges, StrongEdges, ClusterInEdges
          <6>4. QED
            BY <1>17, <6>3
        <5>2. {e \in EdgesInto(a, M, x) : e \notin Weak \/ IsRunning(a, x)} = {}
          BY <4>1, <5>1 DEF IsRunning
        <5>3. QED
          BY <5>2, FS_EmptySet DEF CountedInto
      <4>3. ImplicitUses(M, x) = 0
        <5>1. CASE x # Root
          BY <5>1 DEF ImplicitUses
        <5>2. CASE x = Root
          <6>1. {y \in M : HasImplicitRootEdge(y)} = MissingRoot(st, h)
            BY <1>1, <3>5, <5>2 DEF MissingRoot
          <6>2. QED
            BY <1>17, <5>2, <6>1, FS_EmptySet DEF ImplicitUses
        <5>3. QED
          BY <5>1, <5>2
      <4>4. nx.uses[x] = st.uses[x]
        BY <3>2, <3>3, <4>2, <4>3
      <4>5. CASE x \in M
        BY <1>2, <1>4, <1>15, <3>2, <4>4, <4>5 DEF UsesCount
      <4>6. CASE x \notin M
        <5>1. nx.phase[x] = st.phase[x]
          BY <1>4, <1>15, <4>6
        <5>2. QED
          BY <3>1, <3>2, <3>5, <4>4, <5>1 DEF UsesCount
      <4>7. QED
        BY <4>5, <4>6
    <3>6. QED
      BY <3>4, <3>5
  <2>3. QED
    BY <2>1, <2>2 DEF UsesOf
<1>20. InnerOf(nx) /\ OuterOf(nx)
  <2>1. SameRunning(st, nx)
    BY <1>2, <1>4, <1>15 DEF SameRunning
  <2>2. QED
    BY <1>15, <1>16, <2>1, RunningKept
<1>21. PullsOf(nx) /\ (Acyclic => PushesOf(nx))
  BY <1>15, PullsSame, PushesSame DEF Exact
<1>22. RunsOf(nx)
  <2>1. \A x \in Heads : st.running[x] = Cardinality(ActiveMembers(st, x))
    BY DEF Exact, RunsOf
  <2>2. \A x \in Heads : x # h => ActiveMembers(nx, x) = ActiveMembers(st, x)
    BY <1>2, <1>4, <1>15 DEF ActiveMembers, ClusterMembers
  <2>3. ActiveMembers(st, h) = {} /\ ActiveMembers(nx, h) = M
    BY <1>1, <1>2, <1>4, <1>15 DEF ActiveMembers, ClusterMembers
  <2>4. Cardinality(ActiveMembers(st, h)) = 0
    BY <2>3, FS_EmptySet
  <2>5. ASSUME NEW x \in Heads PROVE nx.running[x] = Cardinality(ActiveMembers(nx, x))
    <3>1. CASE x = h
      BY <1>11, <1>12, <1>14, <2>1, <2>3, <2>4, <3>1
    <3>2. CASE x # h
      BY <1>12, <1>14, <2>1, <2>2, <3>2
    <3>3. QED
      BY <3>1, <3>2
  <2>6. QED
    BY <2>5 DEF RunsOf
<1>23. ConnOf(nx)
  BY <1>15 DEF Exact, ConnOf
<1>24. Exact(nx, hd)
  BY <1>19, <1>20, <1>21, <1>22, <1>23 DEF Exact
<1>25. \A x \in Services : nx.phase[x] = IF Head[x] = h THEN "locked" ELSE st.phase[x]
  BY <1>2, <1>4, <1>15
<1>26. EqQueues(st, nx) /\ EqRoot(st, nx)
  <2>1. EqQueues(st, a)
    BY <1>5 DEF States, EqQueues
  <2>2. EqQueue(a, b)
    BY <1>6, <1>8, UsesIncrementQueue DEF CallOnOuterOutgoingIncrement
  <2>3. EqQueues(b, nx)
    BY <1>9, <1>13 DEF States, EqQueues
  <2>4. QED
    BY <1>15, <2>1, <2>2, <2>3 DEF EqQueue, EqQueues, EqRoot, EqPush, EqPull
<1>27. Sound(st, nx)
  <2>1. SUFFICES ASSUME QInv(st) PROVE QInv(nx)
    BY DEF Sound
  <2>2. st.down \subseteq Services /\ st.up \subseteq Services /\ Root \in Services
    BY StateFields, GraphFacts
  <2>3. \A x \in Services : Waits(nx, x) <=> Waits(st, x)
    BY <1>2, <1>4, <1>15 DEF Waits
  <2>4. \A x \in Services : st.phase[x] = "running" => nx.phase[x] = "running"
    BY <1>2, <1>4, <1>15
  <2>5. (Marked(nx) <=> Marked(st)) /\ (Kept(nx) <=> Kept(st))
    BY <1>26, SameRoot
  <2>6. Busy(nx) <=> Busy(st)
    BY <1>26, Zenon DEF Busy, EqQueues
  <2>7. nx.down = st.down /\ nx.up = st.up
    BY <1>26 DEF EqQueues
  <2>8. QED
    BY <2>1, <2>2, <2>3, <2>4, <2>5, <2>6, <2>7 DEF QInv
<1>28. QED
  BY <1>14, <1>24, <1>25, <1>26, <1>27

ChildrenUp(st, s) == \A m \in InnerChildren(s) : st.phase[m] = "running"
ParentDown(st, s) ==
  s \in Members => st.phase[Parent[s]] \notin {"starting", "running", "stopping"}

\* do_start_eager after the cluster is locked.
Starting(st, s) ==
  CallOnInnerOutgoingIncrement(
    [st EXCEPT !.phase[s] = "starting", !.uses[s] = @ + 1], s)

\* A locked service whose children run begins to start.
LEMMA StartingExact ==
  ASSUME NEW st \in States, NEW hd, Exact(st, hd), NEW s \in Services,
         st.phase[s] = "locked", ChildrenUp(st, s), ParentDown(st, s),
         NEW nx, nx = Starting(st, s)
  PROVE  /\ nx \in States /\ Exact(nx, hd)
         /\ nx.phase = [st.phase EXCEPT ![s] = "starting"]
         /\ s \notin st.up \/ (s = Root /\ Kept(st)) => Sound(st, nx)
<1>1. PICK v, w : /\ v = [st.phase EXCEPT ![s] = "starting"]
                  /\ w = [st.uses EXCEPT ![s] = @ + 1]
  OBVIOUS
<1>2. /\ v \in [Services -> Phase] /\ w \in [Services -> Int]
      /\ v[s] = "starting" /\ \A x \in Services : x # s => v[x] = st.phase[x]
      /\ w[s] = st.uses[s] + 1 /\ \A x \in Services : x # s => w[x] = st.uses[x]
  BY <1>1, StateFields DEF Phase
<1>3. PICK r : r = [st EXCEPT !.phase = v]
  OBVIOUS
<1>4. r \in States
  BY <1>2, <1>3, PutPhase
<1>5. /\ r.phase = v /\ r.running = st.running /\ EqUses(st, r)
      /\ EqReq(st, r) /\ EqPush(st, r) /\ EqPull(st, r) /\ EqConn(st, r)
  BY <1>3 DEF States, EqUses, EqReq, EqPush, EqPull, EqConn
<1>6. PICK a : a = [r EXCEPT !.uses = w]
  OBVIOUS
<1>7. a \in States
  BY <1>2, <1>4, <1>6, PutUses
<1>8. /\ a.phase = r.phase /\ a.running = r.running /\ a.uses = w
      /\ EqReq(r, a) /\ EqPush(r, a) /\ EqPull(r, a) /\ EqConn(r, a)
  BY <1>4, <1>6 DEF States, EqReq, EqPush, EqPull, EqConn
<1>9. nx = CallOnInnerOutgoingIncrement(a, s)
  BY <1>1, <1>3, <1>6 DEF Starting
<1>10. /\ nx \in States
       /\ EqLife(a, nx) /\ EqReq(a, nx) /\ EqPush(a, nx) /\ EqPull(a, nx) /\ EqConn(a, nx)
       /\ \A x \in Services : nx.uses[x] = a.uses[x] +
              (IF x \in InnerChildren(s) THEN 1 ELSE 0)
  BY <1>7, <1>9, InnerIncrementFrame
<1>11. /\ nx.phase = v /\ nx.running = st.running /\ nx.conn = st.conn
       /\ nx.released = st.released
       /\ EqReq(st, nx) /\ EqPush(st, nx) /\ EqPull(st, nx)
  BY <1>5, <1>8, <1>10 DEF EqLife, EqReq, EqPush, EqPull, EqConn
<1>12. UsesOf(st, hd) /\ HeldOf(st, hd) /\ InnerOf(st) /\ OuterOf(st)
  BY DEF Exact
<1>13. PICK p : p = "starting"
  OBVIOUS
<1>14. PhaseStep(st, nx, s, p)
  BY <1>2, <1>11, <1>13 DEF PhaseStep
<1>15. s \notin InnerChildren(s)
  BY DEF ChildrenUp
<1>16. UsesOf(nx, hd) /\ HeldOf(nx, hd)
  <2>1. HeldOf(nx, hd)
    BY <1>2, <1>11, <1>12 DEF HeldOf
  <2>2. ASSUME NEW x \in Services PROVE nx.uses[x] = UsesCount(nx, hd, x)
    <3>1. Users(nx, x) = Users(st, x) /\ Users(st, x) \in Nat
      <4>1. nx.conn = st.conn /\ (st.phase[s] # "stopped" <=> p # "stopped")
        BY <1>11, <1>13
      <4>2. Users(nx, x) = Users(st, x)
        BY <1>14, <4>1, UsersKept
      <4>3. QED
        BY <4>2, UsersType
    <3>2. hd[x] \in Nat /\ st.uses[x] \in Int
      BY <1>12, StateFields DEF HeldOf
    <3>3. CASE x = s
      <4>1. st.uses[x] = 0 /\ hd[x] = 0
        BY <1>12, <3>3 DEF UsesOf, UsesCount, HeldOf
      <4>2. nx.uses[x] = 1
        BY <1>2, <1>8, <1>10, <1>15, <3>3, <4>1
      <4>3. UsedByParent(nx, x) = 0
        <5>1. UsedByParent(st, x) = 0
          BY <3>3 DEF UsedByParent, ParentDown
        <5>2. x \notin InnerChildren(s)
          BY <1>15, <3>3
        <5>3. QED
          BY <1>14, <5>1, <5>2, ParentKept
      <4>4. nx.phase[x] = "starting"
        BY <1>2, <1>11, <3>3
      <4>5. QED
        BY <4>1, <4>2, <4>3, <4>4 DEF UsesCount
    <3>4. CASE x # s /\ x \notin InnerChildren(s)
      <4>1. UsedByParent(nx, x) = UsedByParent(st, x)
        BY <1>14, <3>4, ParentKept
      <4>2. nx.phase[x] = st.phase[x] /\ nx.uses[x] = st.uses[x]
        BY <1>2, <1>8, <1>10, <1>11, <3>2, <3>4
      <4>3. QED
        BY <1>12, <3>1, <4>1, <4>2 DEF UsesOf, UsesCount
    <3>5. CASE x # s /\ x \in InnerChildren(s)
      <4>1. x \in Members /\ Parent[x] = s
        BY <3>5 DEF InnerChildren
      <4>2. UsedByParent(st, x) = 0 /\ UsedByParent(nx, x) = 1
        BY <1>2, <1>11, <4>1 DEF UsedByParent
      <4>3. nx.phase[x] = "running" /\ st.phase[x] = "running"
        BY <1>2, <1>11, <3>5 DEF ChildrenUp
      <4>4. nx.uses[x] = st.uses[x] + 1
        BY <1>2, <1>8, <1>10, <3>2, <3>5
      <4>5. st.uses[x] = 1 + hd[x] + 0 + Users(st, x)
        BY <1>12, <4>2, <4>3 DEF UsesOf, UsesCount
      <4>6. UsesCount(nx, hd, x) = 1 + hd[x] + 1 + Users(st, x)
        BY <3>1, <4>2, <4>3 DEF UsesCount
      <4>7. QED
        BY <3>1, <3>2, <4>4, <4>5, <4>6
    <3>6. QED
      BY <3>3, <3>4, <3>5
  <2>3. QED
    BY <2>1, <2>2 DEF UsesOf
<1>17. InnerOf(nx) /\ OuterOf(nx)
  <2>1. SameRunning(st, nx)
    BY <1>2, <1>11 DEF SameRunning
  <2>2. QED
    BY <1>11, <1>12, <2>1, RunningKept
<1>18. PullsOf(nx) /\ (Acyclic => PushesOf(nx))
  BY <1>11, PullsSame, PushesSame DEF Exact
<1>19. RunsOf(nx)
  <2>1. /\ RunsOf(st) /\ nx.running = st.running
        /\ st.phase[s] \in {"stopped", "pending"} <=> p \in {"stopped", "pending"}
    BY <1>11, <1>13 DEF Exact
  <2>2. QED
    BY <1>14, <2>1, RunsKept
<1>20. ConnOf(nx)
  BY <1>11 DEF Exact, ConnOf
<1>21. Exact(nx, hd)
  BY <1>16, <1>17, <1>18, <1>19, <1>20 DEF Exact
<1>22. ASSUME s \notin st.up \/ (s = Root /\ Kept(st)) PROVE Sound(st, nx)
  <2>1. EqQueues(st, r) /\ EqQueues(r, a)
    BY <1>3, <1>4, <1>6 DEF States, EqQueues
  <2>2. EqQueue(a, nx)
    BY <1>7, <1>9, UsesIncrementQueue DEF CallOnInnerOutgoingIncrement
  <2>3. EqQueues(st, nx) /\ EqRoot(st, nx)
    BY <1>11, <2>1, <2>2 DEF EqQueue, EqQueues, EqRoot, EqPush, EqPull
  <2>4. QInv(st) => s \notin st.down
    BY DEF QInv
  <2>5. QED
    BY <1>14, <1>22, <2>3, <2>4, PhaseSound DEF Sound, PhaseStep, EqQueues
<1>23. QED
  BY <1>1, <1>10, <1>11, <1>21, <1>22

\* The phases after do_lock_cluster, if the cluster was not locked yet.
PhaseLocked(ph, s) ==
  IF ph[s] = "locked" THEN ph
  ELSE [x \in Services |-> IF Head[x] = Head[s] THEN "locked" ELSE ph[x]]

\* do_start_eager keeps the counters exact, locking the cluster or not.
LEMMA StartEagerExact ==
  ASSUME NEW st \in States, NEW hd, Exact(st, hd), NEW s \in Services,
         IsStartable(st, s), ParentDown(st, s),
         st.phase[s] = "stopped" => AllStopped(st, Head[s]),
         NEW nx, nx = DoStartEager(st, s)
  PROVE  /\ nx \in States /\ Exact(nx, hd)
         /\ nx.phase = [PhaseLocked(st.phase, s) EXCEPT ![s] = "starting"]
         /\ s \notin st.up \/ (s = Root /\ Kept(st)) => Sound(st, nx)
<1>1. PICK h : h = Head[s]
  OBVIOUS
<1>2. h \in Heads
  BY <1>1, GraphFacts
<1>3. ChildrenUp(st, s)
  <2>1. \A m \in InnerChildren(s) : m \in Services
    BY GraphFacts DEF InnerChildren
  <2>2. st.inner[s] = Cardinality(MissingInner(st, s)) /\ st.inner[s] = 0
    BY DEF Exact, InnerOf, IsStartable
  <2>3. MissingInner(st, s) = {}
    BY <2>1, <2>2, ServicesFinite DEF MissingInner
  <2>4. QED
    BY <2>3 DEF MissingInner, ChildrenUp
<1>4. PICK a : a = IF IsLocked(st, s) THEN st ELSE DoLockCluster(st, h)
  OBVIOUS
<1>5. nx = Starting(a, s)
  BY <1>1, <1>4 DEF DoStartEager, Starting
<1>6. CASE st.phase[s] = "locked"
  <2>1. a = st
    BY <1>4, <1>6 DEF IsLocked
  <2>2. /\ nx \in States /\ Exact(nx, hd)
        /\ nx.phase = [st.phase EXCEPT ![s] = "starting"]
        /\ s \notin st.up \/ (s = Root /\ Kept(st)) => Sound(st, nx)
    BY <1>3, <1>5, <1>6, <2>1, StartingExact
  <2>3. QED
    BY <1>6, <2>2 DEF PhaseLocked
<1>7. CASE st.phase[s] = "stopped"
  <2>1. a = DoLockCluster(st, h)
    BY <1>4, <1>7 DEF IsLocked
  <2>2. st.outer[h] = 0 /\ AllStopped(st, h)
    BY <1>1, <1>7 DEF IsStartable
  <2>3. /\ a \in States /\ Exact(a, hd)
        /\ \A x \in Services : a.phase[x] = IF Head[x] = h THEN "locked" ELSE st.phase[x]
        /\ Sound(st, a) /\ EqQueues(st, a) /\ EqRoot(st, a)
    BY <1>2, <2>1, <2>2, LockExact
  <2>4. InnerChildren(s) = {}
    <3>1. \A m \in InnerChildren(s) : m \in ClusterMembers(h)
      BY <1>1, GraphFacts DEF InnerChildren, ClusterMembers
    <3>2. QED
      BY <1>3, <2>2, <3>1 DEF ChildrenUp, AllStopped
  <2>5. a.phase[s] = "locked" /\ ChildrenUp(a, s)
    BY <1>1, <2>3, <2>4 DEF ChildrenUp
  <2>6. ParentDown(a, s)
    <3>1. s \in Members => Parent[s] \in Services /\ Head[Parent[s]] = h
      BY <1>1, GraphFacts
    <3>2. QED
      BY <2>3, <3>1 DEF ParentDown
  <2>7. a \in States /\ Exact(a, hd)
    BY <2>3
  <2>8. /\ nx \in States /\ Exact(nx, hd)
        /\ nx.phase = [a.phase EXCEPT ![s] = "starting"]
        /\ s \notin a.up \/ (s = Root /\ Kept(a)) => Sound(a, nx)
    BY <1>5, <2>5, <2>6, <2>7, StartingExact
  <2>9. a.phase = PhaseLocked(st.phase, s)
    <3>1. a.phase \in [Services -> Phase]
      BY <2>7, StateFields
    <3>2. a.phase = [x \in Services |-> IF Head[x] = Head[s] THEN "locked" ELSE st.phase[x]]
      BY <1>1, <2>3, <3>1
    <3>3. QED
      BY <1>7, <3>2 DEF PhaseLocked
  <2>10. s \notin st.up \/ (s = Root /\ Kept(st)) => Sound(st, nx)
    BY <2>3, <2>8, SameRoot, SoundTrans DEF EqQueues
  <2>11. QED
    BY <2>8, <2>9, <2>10
<1>8. QED
  BY <1>6, <1>7 DEF IsStartable

-----------------------------------------------------------------------------
(* The traversals of stop requests. *)

\* What a stop request does to each cluster it visits.
LEMMA StopVisitExact ==
  ASSUME NEW st \in States, NEW hd, Exact(st, hd), NEW h \in Heads,
         NEW nx, nx = StopVisit(st, h)
  PROVE  /\ nx \in States /\ Exact(nx, hd) /\ EqLife(st, nx)
         /\ h # Root => Grown(st, nx)
<1>1. PICK t \in BOOLEAN : t = TRUE
  OBVIOUS
<1>2. PICK a : a = DoMarkClusterForStop(st, h, t)
  OBVIOUS
<1>3. a \in States /\ Exact(a, hd) /\ EqLife(st, a)
  BY <1>2, MarkExact
<1>4. PICK S : S = {s \in {h} : IsStoppable(a, s)}
  OBVIOUS
<1>5. S \in SUBSET Services
  BY <1>4, GraphFacts
<1>6. PICK b : b = PushDown(a, S)
  OBVIOUS
<1>7. b \in States /\ EqCounters(a, b)
  BY <1>3, <1>5, <1>6, PushDownFrame
<1>8. Exact(b, hd) /\ EqLife(a, b)
  BY <1>3, <1>7, ExactSame DEF EqCounters
<1>9. PICK U : U = Weak \cap ClusterOutEdges(b.conn, h)
  OBVIOUS
<1>10. U \subseteq Weak \cap b.conn
  <2>1. Weak \cap ExportEdges = {}
    BY GraphAssumption DEF ExportEdges, Heads
  <2>2. QED
    BY <1>9, <2>1 DEF ClusterOutEdges, Edges
<1>11. nx = RequestReleases(b, U)
  BY <1>1, <1>2, <1>4, <1>6, <1>9 DEF StopVisit
<1>12. nx \in States /\ Exact(nx, hd) /\ EqLife(b, nx) /\ Grown(b, nx)
  BY <1>7, <1>8, <1>10, <1>11, ReleasesExact
<1>13. ASSUME h # Root PROVE Grown(st, nx)
  <2>1. Grown(st, a)
    BY <1>2, <1>13, MarkAdds DEF Grows, Grown
  <2>2. Root \notin S /\ \A s \in S : a.phase[s] = "running"
    BY <1>4, <1>13 DEF IsStoppable, IsRunning
  <2>3. Grown(a, b)
    BY <1>3, <1>5, <1>6, <2>2, PushDownAdds DEF Grows, Grown
  <2>4. QED
    BY <1>12, <2>1, <2>3, GrownTrans
<1>14. QED
  BY <1>3, <1>8, <1>12, <1>13 DEF EqLife

\* What the stop of the root does to each cluster it visits.
LEMMA StopRootVisitExact ==
  ASSUME NEW st \in States, NEW hd, Exact(st, hd), NEW h \in Heads,
         NEW nx, nx = StopRootVisit(st, h)
  PROVE  nx \in States /\ Exact(nx, hd) /\ EqLife(st, nx) /\ Added(st, nx)
<1>1. PICK U : U = IF IsLocked(st, h) THEN Weak \cap OutEdges(st.conn, h) ELSE {}
  OBVIOUS
<1>2. U \subseteq Weak \cap st.conn
  <2>1. Weak \cap ExportEdges = {}
    BY GraphAssumption DEF ExportEdges, Heads
  <2>2. QED
    BY <1>1, <2>1 DEF OutEdges, Edges
<1>3. PICK a : a = RequestReleases(st, U)
  OBVIOUS
<1>4. a \in States /\ Exact(a, hd) /\ EqLife(st, a) /\ Grown(st, a)
  BY <1>2, <1>3, ReleasesExact
<1>5. PICK f \in BOOLEAN : f = FALSE
  OBVIOUS
<1>6. PICK b : b = SetOverride(a, h, f)
  OBVIOUS
<1>7. b \in States /\ Exact(b, hd) /\ EqLife(a, b)
  BY <1>4, <1>6, SetOverrideExact
<1>8. PICK n \in {"none", "start", "stop"} : n = "none"
  OBVIOUS
<1>9. PICK c : c = TransitionTargetSet(b, h, n)
  OBVIOUS
<1>10. c \in States /\ EqCounters(b, c) /\ EqQueue(b, c)
  BY <1>7, <1>9, TargetFrame
<1>11. Exact(c, hd) /\ EqLife(b, c)
  BY <1>7, <1>10, ExactSame DEF EqCounters
<1>12. PICK v : v = [c.markStart EXCEPT ![h] = FALSE]
  OBVIOUS
<1>13. v \in [Heads -> BOOLEAN]
  <2>1. c.markStart \in [Heads -> BOOLEAN]
    BY <1>10 DEF States
  <2>2. QED
    BY <1>12, <2>1
<1>14. PICK d : d = [c EXCEPT !.markStart = v]
  OBVIOUS
<1>15. d \in States /\ EqCounters(c, d) /\ EqQueue(c, d)
  BY <1>10, <1>13, <1>14, MarkStartFrame
<1>16. Exact(d, hd) /\ EqLife(c, d)
  BY <1>11, <1>15, ExactSame DEF EqCounters
<1>17. PICK t \in BOOLEAN : t = TRUE
  OBVIOUS
<1>18. PICK e : e = DoMarkClusterForStop(d, h, t)
  OBVIOUS
<1>19. e \in States /\ Exact(e, hd) /\ EqLife(d, e)
  BY <1>15, <1>16, <1>18, MarkExact
<1>20. PICK S : S = {s \in {h} : IsStoppable(e, s)}
  OBVIOUS
<1>21. S \in SUBSET Services
  BY <1>20, GraphFacts
<1>22. nx = IF d.running[h] = 0 THEN d ELSE PushDown(e, S)
  BY <1>1, <1>3, <1>5, <1>6, <1>8, <1>9, <1>12, <1>14, <1>17, <1>18, <1>20
     DEF StopRootVisit
<1>23. Added(st, d)
  <2>1. Added(st, a)
    BY <1>4, GrownSound
  <2>2. Added(a, b)
    BY <1>4, <1>6, SetOverrideAdds DEF Added
  <2>3. Added(b, c) /\ Added(c, d)
    BY <1>10, <1>15, SameAdds DEF Added
  <2>4. QED
    BY <2>1, <2>2, <2>3, AddedTrans
<1>24. CASE nx = d
  BY <1>4, <1>7, <1>11, <1>15, <1>16, <1>23, <1>24 DEF EqLife
<1>25. CASE nx = PushDown(e, S)
  <2>1. nx \in States /\ EqCounters(e, nx)
    BY <1>19, <1>21, <1>25, PushDownFrame
  <2>2. Exact(nx, hd) /\ EqLife(e, nx)
    BY <1>19, <2>1, ExactSame DEF EqCounters
  <2>3. Added(d, e)
    BY <1>15, <1>18, MarkAdds DEF Added
  <2>4. \A s \in S : e.phase[s] = "running"
    BY <1>20 DEF IsStoppable, IsRunning
  <2>5. Added(e, nx)
    BY <1>19, <1>21, <1>25, <2>4, PushDownAdds DEF Added
  <2>6. Added(st, nx)
    BY <1>23, <2>3, <2>5, AddedTrans
  <2>7. QED
    BY <1>4, <1>7, <1>11, <1>16, <1>19, <2>1, <2>2, <2>6 DEF EqLife
<1>26. QED
  BY <1>22, <1>24, <1>25

\* The loops over the clusters of a stop request and of stop_root.
StopVisits(st, V) == FoldSet(LAMBDA x, acc : StopVisit(acc, x), st, V)
StopRootVisits(st, V) == FoldSet(LAMBDA h, acc : StopRootVisit(acc, h), st, V)

\* What visits that leave the root out do to the queue.
SpareRoot(V, a, b) == Root \notin V => Grown(a, b)

\* All visits of a stop request, in any order.
LEMMA StopVisitsExact ==
  ASSUME NEW st \in States, NEW hd, Exact(st, hd), NEW V, V \subseteq Heads,
         NEW nx, nx = StopVisits(st, V)
  PROVE  nx \in States /\ Exact(nx, hd) /\ EqLife(st, nx) /\ SpareRoot(V, st, nx)
<1> DEFINE Good(s) == {t \in States : Exact(t, hd) /\ EqLife(st, t) /\ SpareRoot(V, st, t)}
           Q == [s \in SUBSET V |-> Good(s)]
           g == [p \in V \X States |-> StopVisit(p[2], p[1])]
           Body(f) == [s \in SUBSET V |->
              IF s = {} THEN st
              ELSE StopVisit(f[s \ {CHOOSE x \in s : TRUE}], CHOOSE x \in s : TRUE)]
           iter == CHOOSE f : f = Body(f)
<1>1. nx = iter[V]
  BY DEF StopVisits, FoldSet, MapThenFoldSet
<1>2. IsFiniteSet(V)
  BY FS_Subset, GraphAssumption DEF Heads
<1>3. \A s \in SUBSET V : Q[s] \subseteq States
  OBVIOUS
<1>4. st \in Q[{}]
  <2>1. EqQueue(st, st) /\ EqRoot(st, st)
    BY DEF EqQueue, EqRoot
  <2>2. Grown(st, st) /\ Added(st, st)
    BY <2>1, SameGrows, GrownSound
  <2>3. SpareRoot(V, st, st)
    BY <2>2 DEF SpareRoot
  <2>4. QED
    BY <2>3 DEF EqLife
<1>5. FoldStep(V, Q, g)
  <2>1. SUFFICES ASSUME NEW s \in SUBSET V, NEW x \in s, NEW t \in Q[s \ {x}]
                 PROVE  g[<<x, t>>] \in Q[s]
    BY DEF FoldStep
  <2>2. /\ t \in States /\ Exact(t, hd) /\ EqLife(st, t) /\ x \in V /\ x \in Heads
        /\ SpareRoot(V, st, t)
    OBVIOUS
  <2>3. PICK n : n = StopVisit(t, x)
    OBVIOUS
  <2>4. n \in States /\ Exact(n, hd) /\ EqLife(t, n) /\ SpareRoot(V, t, n)
    BY <2>2, <2>3, StopVisitExact DEF SpareRoot
  <2>5. SpareRoot(V, st, n)
    BY <2>2, <2>4, GrownTrans, AddedTrans DEF SpareRoot
  <2>6. n \in Q[s]
    BY <2>2, <2>4, <2>5 DEF EqLife
  <2>7. g[<<x, t>>] = n
    BY <2>2, <2>3
  <2>8. QED
    BY <2>6, <2>7
<1>6. PICK f \in [SUBSET V -> States] :
        IsFold(f, V, st, g) /\ \A s \in SUBSET V : f[s] \in Q[s]
  <2> HIDE DEF Q, g
  <2> QED BY <1>2, <1>3, <1>4, <1>5, FoldGuarded, Zenon
<1>7. f = Body(f)
  <2>1. \A s \in SUBSET V : s # {} =>
          Chosen(s) \in V /\ f[s \ {Chosen(s)}] \in States /\ Chosen(s) \in s
    BY <1>6 DEF Chosen
  <2>2. \A s \in SUBSET V : f[s] =
          IF s = {} THEN st ELSE StopVisit(f[s \ {Chosen(s)}], Chosen(s))
    BY <1>6, <2>1 DEF IsFold
  <2>3. QED
    BY <1>6, <2>2 DEF Chosen
<1>8. iter = Body(iter)
  <2> HIDE DEF Body
  <2> QED BY <1>7, Zenon
<1>9. \A s \in SUBSET V : iter[s] =
        IF s = {} THEN st ELSE StopVisit(iter[s \ {Chosen(s)}], Chosen(s))
  <2> HIDE DEF iter
  <2> QED BY <1>8 DEF Chosen
<1> HIDE DEF iter
<1>10. iter[V] \in Q[V]
  <2>1. iter[{}] \in Q[{}]
    BY <1>4, <1>9
  <2>2. ASSUME NEW s \in SUBSET V, NEW x \in s, x = Chosen(s),
               iter[s \ {x}] \in Q[s \ {x}]
        PROVE  iter[s] \in Q[s]
    <3>1. iter[s] = StopVisit(iter[s \ {x}], x)
      BY <1>9, <2>2
    <3>2. g[<<x, iter[s \ {x}]>>] \in Q[s]
      <4> HIDE DEF Q, g
      <4> QED BY <1>5, <2>2 DEF FoldStep
    <3>3. iter[s \ {x}] \in States /\ x \in V
      BY <1>3, <2>2
    <3>4. QED
      BY <3>1, <3>2, <3>3
  <2> HIDE DEF Q
  <2>3. QED
    BY <1>2, <2>1, <2>2, FoldInduction
<1>11. QED
  BY <1>1, <1>10

\* All visits of the stop of the root, in any order.
LEMMA StopRootVisitsExact ==
  ASSUME NEW st \in States, NEW hd, Exact(st, hd), NEW V, V \subseteq Heads,
         NEW nx, nx = StopRootVisits(st, V)
  PROVE  nx \in States /\ Exact(nx, hd) /\ EqLife(st, nx) /\ Added(st, nx)
<1> DEFINE Good(s) == {t \in States : Exact(t, hd) /\ EqLife(st, t) /\ Added(st, t)}
           Q == [s \in SUBSET V |-> Good(s)]
           g == [p \in V \X States |-> StopRootVisit(p[2], p[1])]
           Body(f) == [s \in SUBSET V |->
              IF s = {} THEN st
              ELSE StopRootVisit(f[s \ {CHOOSE x \in s : TRUE}], CHOOSE x \in s : TRUE)]
           iter == CHOOSE f : f = Body(f)
<1>1. nx = iter[V]
  BY DEF StopRootVisits, FoldSet, MapThenFoldSet
<1>2. IsFiniteSet(V)
  BY FS_Subset, GraphAssumption DEF Heads
<1>3. \A s \in SUBSET V : Q[s] \subseteq States
  OBVIOUS
<1>4. st \in Q[{}]
  <2>1. EqQueue(st, st) /\ EqRoot(st, st)
    BY DEF EqQueue, EqRoot
  <2>2. Grown(st, st) /\ Added(st, st)
    BY <2>1, SameGrows, GrownSound
  <2>3. Added(st, st)
    BY <2>2 DEF SpareRoot
  <2>4. QED
    BY <2>3 DEF EqLife
<1>5. FoldStep(V, Q, g)
  <2>1. SUFFICES ASSUME NEW s \in SUBSET V, NEW x \in s, NEW t \in Q[s \ {x}]
                 PROVE  g[<<x, t>>] \in Q[s]
    BY DEF FoldStep
  <2>2. /\ t \in States /\ Exact(t, hd) /\ EqLife(st, t) /\ x \in V /\ x \in Heads
        /\ Added(st, t)
    OBVIOUS
  <2>3. PICK n : n = StopRootVisit(t, x)
    OBVIOUS
  <2>4. n \in States /\ Exact(n, hd) /\ EqLife(t, n) /\ Added(t, n)
    BY <2>2, <2>3, StopRootVisitExact
  <2>5. Added(st, n)
    BY <2>2, <2>4, GrownTrans, AddedTrans
  <2>6. n \in Q[s]
    BY <2>2, <2>4, <2>5 DEF EqLife
  <2>7. g[<<x, t>>] = n
    BY <2>2, <2>3
  <2>8. QED
    BY <2>6, <2>7
<1>6. PICK f \in [SUBSET V -> States] :
        IsFold(f, V, st, g) /\ \A s \in SUBSET V : f[s] \in Q[s]
  <2> HIDE DEF Q, g
  <2> QED BY <1>2, <1>3, <1>4, <1>5, FoldGuarded, Zenon
<1>7. f = Body(f)
  <2>1. \A s \in SUBSET V : s # {} =>
          Chosen(s) \in V /\ f[s \ {Chosen(s)}] \in States /\ Chosen(s) \in s
    BY <1>6 DEF Chosen
  <2>2. \A s \in SUBSET V : f[s] =
          IF s = {} THEN st ELSE StopRootVisit(f[s \ {Chosen(s)}], Chosen(s))
    BY <1>6, <2>1 DEF IsFold
  <2>3. QED
    BY <1>6, <2>2 DEF Chosen
<1>8. iter = Body(iter)
  <2> HIDE DEF Body
  <2> QED BY <1>7, Zenon
<1>9. \A s \in SUBSET V : iter[s] =
        IF s = {} THEN st ELSE StopRootVisit(iter[s \ {Chosen(s)}], Chosen(s))
  <2> HIDE DEF iter
  <2> QED BY <1>8 DEF Chosen
<1> HIDE DEF iter
<1>10. iter[V] \in Q[V]
  <2>1. iter[{}] \in Q[{}]
    BY <1>4, <1>9
  <2>2. ASSUME NEW s \in SUBSET V, NEW x \in s, x = Chosen(s),
               iter[s \ {x}] \in Q[s \ {x}]
        PROVE  iter[s] \in Q[s]
    <3>1. iter[s] = StopRootVisit(iter[s \ {x}], x)
      BY <1>9, <2>2
    <3>2. g[<<x, iter[s \ {x}]>>] \in Q[s]
      <4> HIDE DEF Q, g
      <4> QED BY <1>5, <2>2 DEF FoldStep
    <3>3. iter[s \ {x}] \in States /\ x \in V
      BY <1>3, <2>2
    <3>4. QED
      BY <3>1, <3>2, <3>3
  <2> HIDE DEF Q
  <2>3. QED
    BY <1>2, <2>1, <2>2, FoldInduction
<1>11. QED
  BY <1>1, <1>10

\* The queue counts nothing.
LEMMA QueueFrame ==
  ASSUME NEW st \in States, NEW d \in SUBSET Services, NEW u \in SUBSET Services,
         NEW nx, nx = [st EXCEPT !.down = d, !.up = u]
  PROVE  nx \in States /\ EqCounters(st, nx)
<1>1. nx \in States
  BY DEF States
<1>2. EqCounters(st, nx)
  BY DEF States, EqCounters, EqLife, EqUses, EqReq, EqPush, EqPull, EqConn
<1>3. QED
  BY <1>1, <1>2

\* A queue that is replaced.
IsQueue(a, b, d, u) ==
  /\ b.down = d /\ b.up = u /\ b.phase = a.phase
  /\ b.processing = a.processing /\ b.dispatched = a.dispatched

\* The fields of such a record.
LEMMA QueueFields ==
  ASSUME NEW st \in States, NEW d, NEW u, NEW nx, nx = [st EXCEPT !.down = d, !.up = u]
  PROVE  IsQueue(st, nx, d, u)
BY DEF States, IsQueue

\* The root is spared by a stop request of another cluster: nothing it visits
\* leads to the root.
LEMMA RootSpared ==
  ASSUME NEW st \in States, NEW h \in Heads, h # Root
  PROVE  Root \notin StopVisited(st, h)
<1>1. PICK C : C = Heads \ {Root}
  OBVIOUS
<1>2. C \in SUBSET Heads /\ h \in C /\ Root \notin C
  BY <1>1
<1>3. \A e \in StrongEdges(Edges(st.conn)) : Head[Dst(e)] \in C
  BY <1>1, StateFields, EdgeFacts, GraphFacts DEF StrongEdges
<1>4. QED
  BY <1>2, <1>3 DEF StopVisited

\* stop_root leaves a sound queue behind, whatever was queued before.
Restarted(st, nx) == Acyclic /\ st.phase[Root] # "locked" => QInv(nx)

\* A stop request keeps the counters exact and changes no phase.
LEMMA StopRequestExact ==
  ASSUME NEW st \in States, NEW hd, Exact(st, hd), NEW h \in Heads,
         NEW nx, nx = OnServiceStopRequest(st, h)
  PROVE  /\ nx \in States /\ Exact(nx, hd) /\ EqLife(st, nx)
         /\ h # Root => Grown(st, nx)
         /\ h = Root => \/ nx = st /\ (st.running[Root] = 0 \/ st.markStop[Root])
                        \/ Restarted(st, nx)
<1>1. CASE h = Root /\ (st.running[Root] = 0 \/ st.markStop[Root])
  <2>1. nx = st
    BY <1>1, Zenon DEF OnServiceStopRequest, StopRoot
  <2>2. QED
    BY <1>1, <2>1 DEF EqLife
<1>2. CASE h = Root /\ ~(st.running[Root] = 0 \/ st.markStop[Root])
  <2>1. PICK e : e = {}
    OBVIOUS
  <2>2. PICK a : a = [st EXCEPT !.down = e, !.up = e]
    OBVIOUS
  <2>3. e \in SUBSET Services
    BY <2>1
  <2>4. a \in States /\ EqCounters(st, a)
    BY <2>2, <2>3, QueueFrame
  <2>5. Exact(a, hd) /\ EqLife(st, a)
    BY <2>4, ExactSame DEF EqCounters
  <2>6. PICK b : b = StopRootVisits(a, Heads)
    OBVIOUS
  <2>7. b \in States /\ Exact(b, hd) /\ EqLife(a, b) /\ Added(a, b)
    <3>1. PICK V : V = Heads
      OBVIOUS
    <3>2. V \subseteq Heads /\ b = StopRootVisits(a, V)
      BY <2>6, <3>1
    <3>3. QED
      BY <2>4, <2>5, <3>2, StopRootVisitsExact
  <2>8. nx = Iterate(b)
    BY <1>2, <2>1, <2>2, <2>6, Zenon DEF OnServiceStopRequest, StopRoot, StopRootVisits
  <2>9. nx \in States /\ EqCounters(b, nx)
    BY <2>7, <2>8, IterateFrame
  <2>10. Exact(nx, hd) /\ EqLife(b, nx)
    BY <2>7, <2>9, ExactSame DEF EqCounters
  <2>11. ASSUME Acyclic, st.phase[Root] # "locked" PROVE QInv(nx)
    <3>0. a.down = {} /\ a.up = {} /\ a.phase = st.phase
      <4>1. IsQueue(st, a, e, e)
        BY <2>2, QueueFields
      <4>2. QED
        BY <2>1, <4>1 DEF IsQueue
    <3>1. Adds(a, b)
      BY <2>7, <2>11 DEF Added
    <3>2. nx.phase = b.phase /\ nx.down = b.down /\ nx.up = b.up /\ Busy(nx)
      BY <2>7, <2>8, IterateGrows
    <3>3. st.phase[Root] \notin {"stopped", "pending"}
      <4>1. st.running[Root] = Cardinality(ActiveMembers(st, Root))
        BY GraphFacts DEF Exact, RunsOf
      <4>2. ActiveMembers(st, Root) # {}
        BY <1>2, <4>1, FS_EmptySet
      <4>3. QED
        BY <4>2, GraphFacts DEF ActiveMembers
    <3>4. ~Waits(nx, Root) /\ \A s : Waits(nx, s) <=> Waits(b, s)
      BY <2>11, <3>0, <3>1, <3>2, <3>3 DEF Waits, Adds
    <3>5. Root \notin nx.up
      BY <3>0, <3>1, <3>2, <3>4 DEF Adds
    <3>6. QED
      BY <3>0, <3>1, <3>2, <3>4, <3>5 DEF QInv, Adds
  <2>12. QED
    BY <1>2, <2>5, <2>7, <2>9, <2>10, <2>11 DEF EqLife, Restarted
<1>3. CASE h # Root
  <2>1. PICK V : V = StopVisited(st, h)
    OBVIOUS
  <2>2. V \subseteq Heads
    BY <2>1 DEF StopVisited
  <2>3. PICK b : b = StopVisits(st, V)
    OBVIOUS
  <2>4. b \in States /\ Exact(b, hd) /\ EqLife(st, b) /\ Grown(st, b)
    BY <1>3, <2>1, <2>2, <2>3, StopVisitsExact, RootSpared DEF SpareRoot
  <2>5. nx = Iterate(b)
    BY <1>3, <2>1, <2>3, Zenon DEF OnServiceStopRequest, StopVisits
  <2>6. nx \in States /\ EqCounters(b, nx)
    BY <2>4, <2>5, IterateFrame
  <2>7. Exact(nx, hd) /\ EqLife(b, nx)
    BY <2>4, <2>6, ExactSame DEF EqCounters
  <2>8. Grown(b, nx)
    BY <2>4, <2>5, IterateGrows DEF Grown
  <2>9. QED
    BY <1>3, <2>4, <2>6, <2>7, <2>8, GrownTrans DEF EqLife
<1>4. QED
  BY <1>1, <1>2, <1>3

-----------------------------------------------------------------------------
(* The life cycle: IInv of ServiceLifecycle is inductive.  NeedsRun and       *)
(* ChildrenRun need LockedTogether where the first member of a cluster locks  *)
(* it or the last one unlocks it.                                             *)

\* What a service needs is a service: the source of an edge of the graph.
LEMMA NeedsAreServices ==
  ASSUME NEW s \in Services
  PROVE  Lifecycle!Needs(s) \subseteq Services
BY GraphAssumption
   DEF Lifecycle!Needs, Lifecycle!StrongEdges, Lifecycle!InEdges, Lifecycle!Edges,
       Lifecycle!ExportEdges, Lifecycle!Heads, Lifecycle!Src

\* A member shares the cluster of its parent.
LEMMA MembersFollowParents ==
  ASSUME NEW m \in Members
  PROVE  m \in Services /\ Parent[m] \in Services /\ Head[m] = Head[Parent[m]]
BY GraphAssumption

\* Nothing is locked before the context runs.
LEMMA InitIInv == Lifecycle!Init => Lifecycle!IInv
BY MembersFollowParents, GraphAssumption
   DEF Lifecycle!Init, Lifecycle!IInv, Lifecycle!TypeOK, Lifecycle!Phase,
       Lifecycle!LockedTogether, Lifecycle!NeedsRun, Lifecycle!ChildrenRun,
       Lifecycle!Up

\* Starting a service, at once or asynchronously, keeps the invariant.
LEMMA StartIInv ==
  ASSUME Lifecycle!IInv, NEW s \in Services, NEW p \in {"starting", "running"},
         Lifecycle!Start(s, p)
  PROVE  Lifecycle!IInv'
<1>1. CASE phase[s] = "locked"
  <2>1. phase' = [phase EXCEPT ![s] = p]
    BY <1>1 DEF Lifecycle!Start
  <2>2. Lifecycle!TypeOK'
    BY <2>1 DEF Lifecycle!IInv, Lifecycle!TypeOK, Lifecycle!Phase
  <2>3. Lifecycle!LockedTogether'
    BY <1>1, <2>1 DEF Lifecycle!IInv, Lifecycle!TypeOK, Lifecycle!LockedTogether
  <2>4. Lifecycle!NeedsRun'
    BY <1>1, <2>1, NeedsAreServices DEF Lifecycle!IInv, Lifecycle!TypeOK,
       Lifecycle!NeedsRun
  <2>5. Lifecycle!ChildrenRun'
    <3>1. SUFFICES ASSUME NEW m \in Members, phase'[Parent[m]] \in Lifecycle!Up
                   PROVE  phase'[m] = "running"
      BY DEF Lifecycle!ChildrenRun
    <3>2. phase[m] = "running"
      BY <2>1, <3>1, MembersFollowParents
         DEF Lifecycle!IInv, Lifecycle!TypeOK, Lifecycle!ChildrenRun,
             Lifecycle!Start, Lifecycle!Startable, Lifecycle!InnerChildren
    <3>3. QED
      BY <1>1, <2>1, <3>2, MembersFollowParents DEF Lifecycle!IInv, Lifecycle!TypeOK
  <2>6. QED
    BY <2>2, <2>3, <2>4, <2>5 DEF Lifecycle!IInv
<1>2. CASE phase[s] # "locked"
  <2>1. phase' = [Lifecycle!LockedCluster(Head[s]) EXCEPT ![s] = p]
    BY <1>2 DEF Lifecycle!Start
  <2>2. Lifecycle!Lockable(Head[s])
    BY <1>2 DEF Lifecycle!Start, Lifecycle!Startable
  <2>3. \A t \in Services :
          phase'[t] = IF t = s THEN p
                      ELSE IF Head[t] = Head[s] THEN "locked" ELSE phase[t]
    BY <2>1 DEF Lifecycle!LockedCluster
  <2>4. \A t \in Services : Head[t] = Head[s] =>
          phase[t] = "stopped" /\ \A x \in Lifecycle!Needs(t) : phase[x] = "running"
    BY <2>2 DEF Lifecycle!Lockable, Lifecycle!ClusterMembers
  <2>5. Lifecycle!TypeOK'
    <3>1. phase' \in [Services -> Lifecycle!Phase]
      BY <2>1 DEF Lifecycle!LockedCluster, Lifecycle!IInv, Lifecycle!TypeOK,
         Lifecycle!Phase
    <3>2. QED
      BY <3>1 DEF Lifecycle!TypeOK
  <2>6. Lifecycle!LockedTogether'
    BY <2>3, <2>4 DEF Lifecycle!IInv, Lifecycle!LockedTogether
  <2>7. Lifecycle!NeedsRun'
    <3>1. SUFFICES ASSUME NEW x \in Services, phase'[x] # "stopped",
                          NEW t \in Lifecycle!Needs(x)
                   PROVE  phase'[t] = "running"
      BY DEF Lifecycle!NeedsRun
    <3>2. t \in Services /\ phase[t] = "running"
      BY <2>3, <2>4, <3>1, NeedsAreServices DEF Lifecycle!IInv, Lifecycle!NeedsRun
    <3>3. QED
      BY <2>3, <2>4, <3>2
  <2>8. Lifecycle!ChildrenRun'
    <3>1. SUFFICES ASSUME NEW m \in Members, phase'[Parent[m]] \in Lifecycle!Up
                   PROVE  phase'[m] = "running"
      BY DEF Lifecycle!ChildrenRun
    <3>2. Parent[m] # s
      BY <2>4, MembersFollowParents DEF Lifecycle!Start, Lifecycle!Startable,
         Lifecycle!InnerChildren
    <3>3. Head[m] # Head[s] /\ phase[Parent[m]] \in Lifecycle!Up
      BY <2>3, <3>1, <3>2, MembersFollowParents DEF Lifecycle!Up
    <3>4. QED
      BY <2>3, <3>3, MembersFollowParents DEF Lifecycle!IInv, Lifecycle!ChildrenRun
  <2>9. QED
    BY <2>5, <2>6, <2>7, <2>8 DEF Lifecycle!IInv
<1>3. QED
  BY <1>1, <1>2

\* The end of an asynchronous start keeps the invariant.
LEMMA StartedIInv ==
  ASSUME Lifecycle!IInv, NEW s \in Services, Lifecycle!Started(s)
  PROVE  Lifecycle!IInv'
BY NeedsAreServices, MembersFollowParents
   DEF Lifecycle!Started, Lifecycle!IInv, Lifecycle!TypeOK, Lifecycle!Phase,
       Lifecycle!LockedTogether, Lifecycle!NeedsRun, Lifecycle!ChildrenRun,
       Lifecycle!Up

\* Entering the stop hook keeps the invariant.
LEMMA StopBeginIInv ==
  ASSUME Lifecycle!IInv, NEW s \in Services, Lifecycle!StopBegin(s)
  PROVE  Lifecycle!IInv'
BY NeedsAreServices, MembersFollowParents
   DEF Lifecycle!StopBegin, Lifecycle!Stoppable, Lifecycle!IInv, Lifecycle!TypeOK,
       Lifecycle!Phase, Lifecycle!LockedTogether, Lifecycle!NeedsRun,
       Lifecycle!ChildrenRun, Lifecycle!Up

\* Leaving the stop hook of a service that nothing needs keeps the invariant,
\* whether or not it was the last of its cluster.
LEMMA AfterStopIInv ==
  ASSUME Lifecycle!IInv, NEW s \in Services, phase[s] \in {"running", "stopping"},
         \A t \in Services : s \in Lifecycle!Needs(t) => phase[t] = "stopped",
         s \in Members => phase[Parent[s]] \notin Lifecycle!Up,
         phase' = Lifecycle!AfterStop(s)
  PROVE  Lifecycle!IInv'
<1>1. CASE \A t \in Lifecycle!ClusterMembers(Head[s]) \ {s} : phase[t] = "pending"
  <2>1. \A t \in Services :
          phase'[t] = IF Head[t] = Head[s] THEN "stopped" ELSE phase[t]
    BY <1>1 DEF Lifecycle!AfterStop
  <2>2. \A t \in Services : Head[t] = Head[s] /\ t # s => phase[t] = "pending"
    BY <1>1 DEF Lifecycle!ClusterMembers
  <2>3. Lifecycle!TypeOK'
    <3>1. phase' \in [Services -> Lifecycle!Phase]
      BY <1>1 DEF Lifecycle!AfterStop, Lifecycle!IInv, Lifecycle!TypeOK,
         Lifecycle!Phase
    <3>2. QED
      BY <3>1 DEF Lifecycle!TypeOK
  <2>4. Lifecycle!LockedTogether'
    BY <2>1 DEF Lifecycle!IInv, Lifecycle!LockedTogether
  <2>5. Lifecycle!NeedsRun'
    <3>1. SUFFICES ASSUME NEW x \in Services, phase'[x] # "stopped",
                          NEW t \in Lifecycle!Needs(x)
                   PROVE  phase'[t] = "running"
      BY DEF Lifecycle!NeedsRun
    <3>2. t \in Services /\ t # s /\ phase[t] = "running"
      BY <2>1, <3>1, NeedsAreServices DEF Lifecycle!IInv, Lifecycle!NeedsRun
    <3>3. QED
      BY <2>1, <2>2, <3>2
  <2>6. Lifecycle!ChildrenRun'
    BY <2>1, MembersFollowParents DEF Lifecycle!IInv, Lifecycle!ChildrenRun,
       Lifecycle!Up
  <2>7. QED
    BY <2>3, <2>4, <2>5, <2>6 DEF Lifecycle!IInv
<1>2. CASE ~ \A t \in Lifecycle!ClusterMembers(Head[s]) \ {s} : phase[t] = "pending"
  <2>1. phase' = [phase EXCEPT ![s] = "pending"]
    BY <1>2 DEF Lifecycle!AfterStop
  <2>2. Lifecycle!TypeOK' /\ Lifecycle!LockedTogether'
    BY <2>1 DEF Lifecycle!IInv, Lifecycle!TypeOK, Lifecycle!Phase,
       Lifecycle!LockedTogether
  <2>3. Lifecycle!NeedsRun'
    BY <2>1, NeedsAreServices DEF Lifecycle!IInv, Lifecycle!TypeOK,
       Lifecycle!NeedsRun
  <2>4. Lifecycle!ChildrenRun'
    BY <2>1, MembersFollowParents DEF Lifecycle!IInv, Lifecycle!TypeOK,
       Lifecycle!ChildrenRun, Lifecycle!Up
  <2>5. QED
    BY <2>2, <2>3, <2>4 DEF Lifecycle!IInv
<1>3. QED
  BY <1>1, <1>2

\* A service in its stop hook is needed by nothing that is locked, and its
\* parent is not up.
LEMMA StoppingUnused ==
  ASSUME Lifecycle!IInv, NEW s \in Services, phase[s] = "stopping"
  PROVE  /\ \A t \in Services : s \in Lifecycle!Needs(t) => phase[t] = "stopped"
         /\ s \in Members => phase[Parent[s]] \notin Lifecycle!Up
BY DEF Lifecycle!IInv, Lifecycle!NeedsRun, Lifecycle!ChildrenRun

\* Every step keeps the invariant.
LEMMA NextIInv == Lifecycle!IInv /\ [Lifecycle!Next]_phase => Lifecycle!IInv'
<1>1. SUFFICES ASSUME Lifecycle!IInv, [Lifecycle!Next]_phase PROVE Lifecycle!IInv'
  OBVIOUS
<1>2. CASE UNCHANGED phase
  BY <1>1, <1>2
     DEF Lifecycle!IInv, Lifecycle!TypeOK, Lifecycle!LockedTogether,
         Lifecycle!NeedsRun, Lifecycle!ChildrenRun
<1>3. CASE Lifecycle!Next
  <2>1. PICK s \in Services :
          \/ \E p \in {"starting", "running"} : Lifecycle!Start(s, p)
          \/ Lifecycle!Started(s) \/ Lifecycle!StopBegin(s) \/ Lifecycle!StopAtOnce(s) \/ Lifecycle!StopEnd(s)
    BY <1>3 DEF Lifecycle!Next
  <2>2. CASE \E p \in {"starting", "running"} : Lifecycle!Start(s, p)
    BY <1>1, <2>2, StartIInv
  <2>3. CASE Lifecycle!Started(s)
    BY <1>1, <2>3, StartedIInv
  <2>4. CASE Lifecycle!StopBegin(s)
    BY <1>1, <2>4, StopBeginIInv
  <2>5. CASE Lifecycle!StopAtOnce(s)
    BY <1>1, <2>5, AfterStopIInv DEF Lifecycle!StopAtOnce, Lifecycle!Stoppable
  <2>6. CASE Lifecycle!StopEnd(s)
    BY <1>1, <2>6, AfterStopIInv, StoppingUnused DEF Lifecycle!StopEnd
  <2>7. QED
    BY <2>1, <2>2, <2>3, <2>4, <2>5, <2>6
<1>4. QED
  BY <1>1, <1>2, <1>3

-----------------------------------------------------------------------------
(* What the counters say about the life cycle. *)

\* Everything but the root needs the root.
LEMMA RootNeeded ==
  ASSUME NEW s \in Services, s # Root
  PROVE  Root \in Lifecycle!Needs(s)
BY DEF Lifecycle!Needs

\* An edge of the life cycle is there all the time: a strong usage that stays
\* connected, or an edge from a parent.
LEMMA NeedsEdge ==
  ASSUME NEW st \in States, ConnOf(st), NEW s \in Services,
         NEW t \in Lifecycle!Needs(s)
  PROVE  \/ \E e \in Edges(st.conn) : e \notin Weak /\ Src(e) = t /\ Dst(e) = s
         \/ t = Root /\ HasImplicitRootEdge(s)
<1>1. CASE \E e \in Edges(Usages) : e \notin Weak /\ Src(e) = t /\ Dst(e) = s
  BY <1>1 DEF Edges, ConnOf
<1>2. CASE t = Root /\ s # Root /\ Parent[s] = Root
  <2>1. s \in ExportEdges /\ s \notin Usages /\ s \notin Weak
    BY <1>2, GraphFacts, GraphAssumption DEF ExportEdges, Heads
  <2>2. s \in Edges(st.conn) /\ Src(s) = t /\ Dst(s) = s
    BY <1>2, <2>1 DEF Edges, Src, Dst
  <2>3. QED
    BY <2>1, <2>2
<1>3. CASE t = Root /\ s # Root /\ Parent[s] # Root
  BY <1>3 DEF HasImplicitRootEdge
<1>4. \/ \E e \in Edges(Usages) : e \notin Weak /\ Src(e) = t /\ Dst(e) = s
      \/ t = Root /\ s # Root
  BY DEF Lifecycle!Needs, Lifecycle!StrongEdges, Lifecycle!InEdges, Lifecycle!Edges,
     Lifecycle!ExportEdges, Lifecycle!Heads, Lifecycle!Src, Lifecycle!Dst,
     Edges, ExportEdges, Heads, Src, Dst
<1>5. QED
  BY <1>1, <1>2, <1>3, <1>4

\* isStartable tells the truth.
LEMMA StartableFacts ==
  ASSUME Lifecycle!IInv, NEW st \in States, st.phase = phase, NEW hd, Exact(st, hd),
         NEW s \in Services, IsStartable(st, s)
  PROVE  /\ Lifecycle!Startable(s) /\ ParentDown(st, s)
         /\ st.phase[s] = "stopped" => AllStopped(st, Head[s])
         /\ s = Root => OnlyRootUp(st)
<1>1. \A m \in InnerChildren(s) : phase[m] = "running"
  <2>1. \A m \in InnerChildren(s) : m \in Services
    BY GraphFacts DEF InnerChildren
  <2>2. st.inner[s] = Cardinality(MissingInner(st, s)) /\ st.inner[s] = 0
    BY DEF Exact, InnerOf, IsStartable
  <2>3. MissingInner(st, s) = {}
    BY <2>1, <2>2, ServicesFinite DEF MissingInner
  <2>4. QED
    BY <2>3 DEF MissingInner
<1>2. phase[s] \in {"stopped", "locked"}
  BY DEF IsStartable
<1>3. ParentDown(st, s)
  BY <1>2 DEF ParentDown, Lifecycle!IInv, Lifecycle!ChildrenRun, Lifecycle!Up
<1>4. phase[s] = "stopped" => AllStopped(st, Head[s])
  BY DEF AllStopped, ClusterMembers, Lifecycle!IInv, Lifecycle!LockedTogether
<1>5. s = Root => OnlyRootUp(st)
  BY <1>2, RootNeeded DEF OnlyRootUp, Lifecycle!IInv, Lifecycle!NeedsRun
<1>6. phase[s] = "stopped" => Lifecycle!Lockable(Head[s])
  <2>1. SUFFICES ASSUME phase[s] = "stopped", NEW x \in ClusterMembers(Head[s])
                 PROVE  /\ phase[x] = "stopped"
                        /\ \A t \in Lifecycle!Needs(x) : phase[t] = "running"
    BY DEF Lifecycle!Lockable, Lifecycle!ClusterMembers, ClusterMembers
  <2>2. phase[x] = "stopped"
    BY <1>4, <2>1 DEF AllStopped
  <2>3. st.outer[Head[s]] = 0 /\ OuterOf(st) /\ ConnOf(st) /\ Head[s] \in Heads
        /\ x \in Services /\ Head[x] = Head[s]
    BY <2>1, GraphFacts DEF IsStartable, Exact, ClusterMembers
  <2>4. MissingEdges(st, Head[s]) = {} /\ MissingRoot(st, Head[s]) = {}
    BY <2>3, NothingMissing
  <2>5. ASSUME NEW t \in Lifecycle!Needs(x) PROVE phase[t] = "running"
    <3>1. CASE \E e \in Edges(st.conn) : e \notin Weak /\ Src(e) = t /\ Dst(e) = x
      BY <2>3, <2>4, <3>1 DEF MissingEdges, StrongEdges, ClusterInEdges
    <3>2. CASE t = Root /\ HasImplicitRootEdge(x)
      BY <2>1, <2>4, <3>2 DEF MissingRoot
    <3>3. QED
      BY <2>3, <3>1, <3>2, NeedsEdge
  <2>6. QED
    BY <2>2, <2>5
<1>7. Lifecycle!Startable(s)
  <2>1. Lifecycle!InnerChildren(s) = InnerChildren(s)
    BY DEF Lifecycle!InnerChildren, InnerChildren
  <2>2. QED
    BY <1>1, <1>2, <1>6, <2>1 DEF Lifecycle!Startable
<1>8. QED
  BY <1>3, <1>4, <1>5, <1>7

\* A service without external uses is needed by nothing that is locked.
LEMMA StoppableFacts ==
  ASSUME NEW st \in States, st.phase = phase, NEW hd, Exact(st, hd),
         NEW s \in Services, phase[s] = "running", st.uses[s] = 1
  PROVE  Lifecycle!Stoppable(s)
<1>1. UsesOf(st, hd) /\ HeldOf(st, hd) /\ ConnOf(st)
  BY DEF Exact
<1>2. UsedByParent(st, s) = 0 /\ UseEdges(st, s) = {} /\ ImplicitUses(LockedSet(st), s) = 0
  BY <1>1, UnusedFacts
<1>3. s \in Members => phase[Parent[s]] \notin Lifecycle!Up
  BY <1>2 DEF UsedByParent, Lifecycle!Up
<1>4. ASSUME NEW t \in Services, s \in Lifecycle!Needs(t), phase[t] # "stopped"
      PROVE  FALSE
  <2>1. CASE \E e \in Edges(st.conn) : e \notin Weak /\ Src(e) = s /\ Dst(e) = t
    BY <1>2, <1>4, <2>1 DEF UseEdges, OutEdges
  <2>2. CASE s = Root /\ HasImplicitRootEdge(t)
    <3>1. PICK A : A = {x \in LockedSet(st) : HasImplicitRootEdge(x)}
      OBVIOUS
    <3>2. Cardinality(A) = 0 /\ A \subseteq Services /\ t \in A
      BY <1>2, <1>4, <2>2, <3>1 DEF ImplicitUses, LockedSet
    <3>3. QED
      BY <3>2, ServicesFinite
  <2>3. QED
    BY <1>1, <1>4, <2>1, <2>2, NeedsEdge
<1>5. QED
  BY <1>3, <1>4 DEF Lifecycle!Stoppable

\* The phases the handlers lead to are those of the life cycle.
LEMMA AfterIsAfter ==
  ASSUME NEW s \in Services
  PROVE  /\ PhaseAfter(phase, s) = Lifecycle!AfterStop(s)
         /\ phase \in [Services -> Phase] =>
              PhaseAfter([phase EXCEPT ![s] = "stopping"], s) = Lifecycle!AfterStop(s)
<1>1. ClusterMembers(Head[s]) = Lifecycle!ClusterMembers(Head[s])
  BY DEF ClusterMembers, Lifecycle!ClusterMembers
<1>2. PhaseAfter(phase, s) = Lifecycle!AfterStop(s)
  BY <1>1 DEF PhaseAfter, Lifecycle!AfterStop
<1>3. ASSUME phase \in [Services -> Phase]
      PROVE  PhaseAfter([phase EXCEPT ![s] = "stopping"], s) = PhaseAfter(phase, s)
  <2>1. PICK ph : ph = [phase EXCEPT ![s] = "stopping"]
    OBVIOUS
  <2>2. \A t \in Services : t # s => ph[t] = phase[t]
    BY <1>3, <2>1
  <2>3. (\A t \in ClusterMembers(Head[s]) \ {s} : ph[t] = "pending")
          <=> (\A t \in ClusterMembers(Head[s]) \ {s} : phase[t] = "pending")
    BY <2>2 DEF ClusterMembers
  <2>4. [t \in Services |-> IF Head[t] = Head[s] THEN "stopped" ELSE ph[t]]
          = [t \in Services |-> IF Head[t] = Head[s] THEN "stopped" ELSE phase[t]]
    BY <2>2
  <2>5. [ph EXCEPT ![s] = "pending"] = [phase EXCEPT ![s] = "pending"]
    BY <1>3, <2>1
  <2>6. PhaseAfter(ph, s) = PhaseAfter(phase, s)
    BY <2>3, <2>4, <2>5 DEF PhaseAfter
  <2>7. QED
    BY <2>1, <2>6
<1>4. QED
  BY <1>2, <1>3

\* A start that locks the cluster is a start of ServiceLifecycle.
LEMMA LockedIsLocked ==
  ASSUME NEW s \in Services, NEW p, Lifecycle!Startable(s),
         phase' = [PhaseLocked(phase, s) EXCEPT ![s] = p]
  PROVE  Lifecycle!Start(s, p)
BY DEF PhaseLocked, Lifecycle!Start, Lifecycle!LockedCluster

-----------------------------------------------------------------------------
(* The actions. *)

\* The inductive invariant.
SInv ==
  /\ State \in States /\ Exact(State, held) /\ Lifecycle!IInv
  /\ replyNow \subseteq Weak /\ notices \subseteq Services \X {1, 2}
  /\ held \in [Services -> 0..MaxHeld]

\* The root is alone in its cluster: it is locked only within a step.
RootSettled == phase[Root] \notin {"locked", "pending"}

\* What a handler makes of a sound queue.
QueueKept(st) == Acyclic /\ RootSettled /\ QInv(State) => QInv(st)

\* What every step does: the counters stay exact, the phases take a step of the
\* life cycle or none, and a sound queue stays sound.
Step ==
  /\ State' \in States /\ Exact(State, held)' /\ (Lifecycle!Next \/ phase' = phase)
  /\ replyNow' = replyNow /\ QueueKept(State')

\* The fields of the current state.
LEMMA StateParts ==
  /\ State.phase = phase /\ State.uses = uses /\ State.inner = inner
  /\ State.markStop = markStop /\ State.markStart = markStart
  /\ State.override = override /\ State.target = target /\ State.promise = promise
  /\ State.running = running /\ State.outer = outer /\ State.pushes = pushes
  /\ State.pulls = pulls /\ State.conn = conn /\ State.released = released
  /\ State.down = down /\ State.up = up /\ State.processing = processing
  /\ State.dispatched = dispatched /\ State.recheck = recheck
BY DEF State

\* An action installs the record its handlers return.
LEMMA Installed ==
  ASSUME NEW st \in States, Become(st)
  PROVE  State' = st /\ phase' = st.phase /\ replyNow' = replyNow
BY DEF State, States, Become

\* A handler that keeps the counters exact and changes no phase, or changes
\* them as ServiceLifecycle allows, is a step.
LEMMA Settles ==
  ASSUME NEW st \in States, Exact(st, held), Become(st), held' = held,
         Lifecycle!Next \/ st.phase = phase, QueueKept(st)
  PROVE  Step
<1>1. State' = st /\ phase' = st.phase /\ replyNow' = replyNow
  BY Installed
<1>2. Exact(State', held')
  BY <1>1
<1>3. Exact(State, held)'
  BY <1>2
<1>4. QueueKept(State')
  BY <1>1
<1>5. QED
  BY <1>1, <1>3, <1>4 DEF Step

\* A sound queue stays sound from one handler to the next.
LEMMA KeptThen ==
  ASSUME NEW a, NEW b, QueueKept(a), Sound(a, b)
  PROVE  QueueKept(b)
BY DEF QueueKept, Sound

\* The state an action begins with.
LEMMA KeptState == QueueKept(State)
BY DEF QueueKept

\* A service is ready to be started if it is not queued, the root aside, and free
\* to be stopped if it is not queued at all.
ReadyIn(st, s) == QInv(State) => s \notin st.up \/ (s = Root /\ Kept(st))
FreeIn(st, s) == QInv(State) => s \notin st.down /\ s \notin st.up

\* Starting a service, and its hook if it returns at once.
LEMMA StartStep ==
  ASSUME Lifecycle!IInv, NEW st \in States, st.phase = phase, Exact(st, held),
         NEW s \in Services, IsStartable(st, s), held' = held,
         QueueKept(st), ReadyIn(st, s),
         NEW md, md = DoStartEager(st, s), Become(md) \/ Become(PostStart(md, s))
  PROVE  Step
<1>1. /\ Lifecycle!Startable(s) /\ ParentDown(st, s)
      /\ st.phase[s] = "stopped" => AllStopped(st, Head[s])
      /\ s = Root => OnlyRootUp(st)
  BY StartableFacts
<1>2. /\ md \in States /\ Exact(md, held)
      /\ md.phase = [PhaseLocked(phase, s) EXCEPT ![s] = "starting"]
      /\ s \notin st.up \/ (s = Root /\ Kept(st)) => Sound(st, md)
  BY <1>1, StartEagerExact
<1>kept. QueueKept(md)
  BY <1>2 DEF QueueKept, ReadyIn, Sound
<1>3. PhaseLocked(phase, s) \in [Services -> Phase]
  <2>1. phase \in [Services -> Phase]
    BY StateFields
  <2>2. QED
    BY <2>1 DEF PhaseLocked, Phase
<1>4. CASE Become(md)
  <2>1. PICK p : p = "starting"
    OBVIOUS
  <2>2. phase' = [PhaseLocked(phase, s) EXCEPT ![s] = p]
    BY <1>2, <1>4, <2>1, Installed
  <2>3. Lifecycle!Start(s, p)
    BY <1>1, <2>2, LockedIsLocked
  <2>4. Lifecycle!Next
    BY <2>1, <2>3 DEF Lifecycle!Next
  <2>5. QED
    BY <1>kept, <1>2, <1>4, <2>4, Settles
<1>5. CASE Become(PostStart(md, s))
  <2>1. PICK nx : nx = PostStart(md, s)
    OBVIOUS
  <2>2. md.phase[s] = "starting"
    BY <1>2, <1>3
  <2>3. s = Root => OnlyRootUp(md)
    <3>1. ASSUME s = Root, NEW x \in Services, x # Root PROVE md.phase[x] = "stopped"
      <4>1. phase[x] = "stopped" /\ Head[x] # Root /\ Head[s] = Root
        BY <1>1, <3>1, GraphFacts, RootAssumption DEF OnlyRootUp
      <4>2. PhaseLocked(phase, s)[x] = "stopped"
        BY <4>1 DEF PhaseLocked
      <4>3. QED
        BY <1>2, <1>3, <3>1, <4>2
    <3>2. QED
      BY <3>1 DEF OnlyRootUp
  <2>4. md \in States /\ Exact(md, held)
    BY <1>2
  <2>5. /\ nx \in States /\ Exact(nx, held)
        /\ nx.phase = [md.phase EXCEPT ![s] = "running"] /\ Sound(md, nx)
    BY <2>1, <2>2, <2>3, <2>4, PostStartExact
  <2>6. PICK p : p = "running"
    OBVIOUS
  <2>7. nx.phase = [PhaseLocked(phase, s) EXCEPT ![s] = p]
    BY <1>2, <1>3, <2>5, <2>6
  <2>8. Become(nx)
    BY <1>5, <2>1
  <2>9. phase' = [PhaseLocked(phase, s) EXCEPT ![s] = p]
    BY <2>5, <2>7, <2>8, Installed
  <2>10. Lifecycle!Start(s, p)
    BY <1>1, <2>9, LockedIsLocked
  <2>11. Lifecycle!Next
    BY <2>6, <2>10 DEF Lifecycle!Next
  <2>12. QueueKept(nx)
    BY <1>kept, <2>5, KeptThen
  <2>13. QED
    BY <2>5, <2>8, <2>11, <2>12, Settles
<1>6. QED
  BY <1>4, <1>5

\* Stopping a service, and its hook if it returns at once.
LEMMA StopStep ==
  ASSUME Lifecycle!IInv, NEW st \in States, st.phase = phase, Exact(st, held),
         NEW s \in Services, phase[s] = "running", st.uses[s] = 1, held' = held,
         QueueKept(st), FreeIn(st, s),
         NEW md, md = DoStopEager(st, s), Become(md) \/ Become(PostStop(md, s))
  PROVE  Step
<1>1. Lifecycle!Stoppable(s)
  BY StoppableFacts
<1>2. /\ md \in States /\ Exact(md, held)
      /\ md.phase = [phase EXCEPT ![s] = "stopping"]
      /\ s \notin st.down /\ s \notin st.up => Sound(st, md)
  BY StopEagerExact
<1>kept. QueueKept(md)
  BY <1>2 DEF QueueKept, FreeIn, Sound
<1>3. phase \in [Services -> Phase]
  BY StateFields
<1>4. CASE Become(md)
  <2>1. phase' = [phase EXCEPT ![s] = "stopping"]
    BY <1>2, <1>4, Installed
  <2>2. Lifecycle!StopBegin(s)
    BY <1>1, <2>1 DEF Lifecycle!StopBegin
  <2>3. Lifecycle!Next
    BY <2>2 DEF Lifecycle!Next
  <2>4. QED
    BY <1>kept, <1>2, <1>4, <2>3, Settles
<1>5. CASE Become(PostStop(md, s))
  <2>1. PICK nx : nx = PostStop(md, s)
    OBVIOUS
  <2>2. /\ md.phase[s] = "stopping"
        /\ \A x \in Services : x # s => md.phase[x] = phase[x]
    BY <1>2, <1>3
  <2>3. \A m \in InnerChildren(s) : md.phase[m] = "running"
    <3>1. ASSUME NEW m \in InnerChildren(s) PROVE m # s /\ m \in Services /\ phase[m] = "running"
      <4>1. m \in Members /\ Parent[m] = s /\ m \in Services
        BY GraphFacts DEF InnerChildren
      <4>2. phase[m] = "running"
        BY <4>1 DEF Lifecycle!IInv, Lifecycle!ChildrenRun, Lifecycle!Up
      <4>3. m # s
        BY <1>1, <4>1 DEF Lifecycle!Stoppable, Lifecycle!Up
      <4>4. QED
        BY <4>1, <4>2, <4>3
    <3>2. QED
      BY <2>2, <3>1
  <2>4. \A t \in ClusterMembers(Head[s]) : md.phase[t] # "stopped"
    BY <2>2 DEF ClusterMembers, Lifecycle!IInv, Lifecycle!LockedTogether
  <2>5. s # Root => md.phase[Root] = "running"
    BY <2>2, RootNeeded, GraphFacts DEF Lifecycle!IInv, Lifecycle!NeedsRun
  <2>6. md \in States /\ Exact(md, held)
    BY <1>2
  <2>7. /\ nx \in States /\ Exact(nx, held) /\ nx.phase = PhaseAfter(md.phase, s)
        /\ Sound(md, nx)
    BY <2>1, <2>2, <2>3, <2>4, <2>5, <2>6, PostStopExact
  <2>8. nx.phase = Lifecycle!AfterStop(s)
    BY <1>2, <1>3, <2>7, AfterIsAfter
  <2>9. Become(nx)
    BY <1>5, <2>1
  <2>10. phase' = Lifecycle!AfterStop(s)
    BY <2>7, <2>8, <2>9, Installed
  <2>11. Lifecycle!Next
    BY <1>1, <2>10 DEF Lifecycle!Next, Lifecycle!StopAtOnce
  <2>12. QueueKept(nx)
    BY <1>kept, <2>7, KeptThen
  <2>13. QED
    BY <2>7, <2>9, <2>11, <2>12, Settles
<1>6. QED
  BY <1>4, <1>5

\* The service that is popped leaves the queue, which changes no counter.
LEMMA PoppedFrame ==
  ASSUME State \in States, NEW s, NEW nx, nx = Popped(s)
  PROVE  nx \in States /\ EqCounters(State, nx)
<1>1. PICK d, u : /\ d = (IF down # {} THEN State.down \ {s} ELSE State.down)
                  /\ u = (IF down # {} THEN State.up ELSE State.up \ {s})
  OBVIOUS
<1>2. d \in SUBSET Services /\ u \in SUBSET Services
  BY <1>1, StateFields
<1>3. nx = [State EXCEPT !.down = d, !.up = u]
  BY <1>1 DEF Popped
<1>4. QED
  BY <1>2, <1>3, QueueFrame

\* And it is not queued any more.
LEMMA PoppedFree ==
  ASSUME State \in States, NEW s \in Services, Pop(s), NEW nx, nx = Popped(s)
  PROVE  QueueKept(nx) /\ FreeIn(nx, s) /\ ReadyIn(nx, s)
<1>1. PICK d, u : /\ d = (IF down # {} THEN State.down \ {s} ELSE State.down)
                  /\ u = (IF down # {} THEN State.up ELSE State.up \ {s})
  OBVIOUS
<1>2. IsQueue(State, nx, d, u)
  <2>1. nx = [State EXCEPT !.down = d, !.up = u]
    BY <1>1 DEF Popped
  <2>2. QED
    BY <2>1, QueueFields
<1>3. EqRoot(State, nx)
  BY PoppedFrame DEF EqRoot, EqCounters, EqPush, EqPull
<1>4. ASSUME QInv(State) PROVE QInv(nx) /\ s \notin nx.down /\ s \notin nx.up
  <2>1. Busy(nx) /\ Busy(State)
    BY <1>2, StateParts, Zenon DEF IsQueue, Busy, Pop
  <2>2. \A x : Waits(nx, x) <=> Waits(State, x)
    BY <1>2 DEF IsQueue, Waits
  <2>3. nx.down = d /\ nx.up = u /\ nx.phase = State.phase
    BY <1>2 DEF IsQueue
  <2>4. d \subseteq State.down /\ u \subseteq State.up
    BY <1>1
  <2>5. QInv(nx)
    BY <1>3, <1>4, <2>1, <2>2, <2>3, <2>4, SameRoot DEF QInv
  <2>6. CASE down # {}
    <3>1. s \in State.down /\ d = State.down \ {s} /\ u = State.up
      BY <1>1, <2>6, StateParts DEF Pop
    <3>2. s \notin State.up
      BY <1>4, <3>1 DEF QInv, Waits
    <3>3. QED
      BY <2>3, <2>5, <3>1, <3>2
  <2>7. CASE down = {}
    <3>1. d = {} /\ u = State.up \ {s}
      BY <1>1, <2>7, StateParts
    <3>2. QED
      BY <2>3, <2>5, <3>1
  <2>8. QED
    BY <2>6, <2>7
<1>5. QED
  BY <1>4 DEF QueueKept, FreeIn, ReadyIn

\* Handlers that count nothing and leave the queue alone.
LEMMA SameSound ==
  ASSUME NEW a, NEW b, EqCounters(a, b), EqQueue(a, b)
  PROVE  Sound(a, b)
<1>1. EqRoot(a, b)
  BY DEF EqCounters, EqPush, EqPull, EqRoot
<1>2. QED
  BY <1>1, SameGrows, GrownSound

\* An override that is set, or that is not the root's, lets the queue grow.
LEMMA OverrideGrown ==
  ASSUME NEW st \in States, NEW hd, Exact(st, hd), NEW h \in Heads, NEW b \in BOOLEAN,
         h # Root \/ b, NEW nx, nx = SetOverride(st, h, b)
  PROVE  Grown(st, nx)
<1>1. nx \in States /\ Exact(nx, hd)
  BY SetOverrideExact
<1>2. Acyclic => PushedRoot(nx)
  BY <1>1, ExactPushed
<1>3. Adds(st, nx) /\ RootUp(st, nx) /\ (PushedRoot(nx) => RootKept(st, nx))
  BY SetOverrideAdds
<1>4. QED
  BY <1>2, <1>3 DEF Grown, Grows

\* An override that is set is set.
LEMMA OverrideSet ==
  ASSUME NEW st \in States, NEW h \in Heads, NEW b \in BOOLEAN, b = TRUE,
         NEW nx, nx = SetOverride(st, h, b)
  PROVE  nx.override[h] = b
<1>1. CASE st.override[h] = b
  <2>1. nx = st
    BY <1>1 DEF SetOverride
  <2>2. QED
    BY <1>1, <2>1
<1>2. CASE st.override[h] # b
  <2>1. PICK md : md = [st EXCEPT !.override[h] = b]
    OBVIOUS
  <2>2. md \in States /\ md.override = [st.override EXCEPT ![h] = b]
    BY <2>1 DEF States
  <2>3. nx = CallOnPushesIncrement(md, h)
    BY <1>2, <2>1 DEF SetOverride
  <2>4. nx.override = md.override
    BY <2>2, <2>3, PushesIncrementQueue DEF EqRoot
  <2>5. st.override \in [Heads -> BOOLEAN]
    BY DEF States
  <2>6. QED
    BY <2>2, <2>4, <2>5
<1>3. QED
  BY <1>1, <1>2

\* The context is started with its root.
LEMMA RunStep == SInv /\ Run => Step
<1>1. SUFFICES ASSUME SInv, Run PROVE Step
  OBVIOUS
<1>2. State \in States /\ Exact(State, held) /\ Lifecycle!IInv
  BY <1>1 DEF SInv
<1>3. PICK t \in BOOLEAN : t = TRUE
  OBVIOUS
<1>4. PICK st : st = SetOverride(State, Root, t)
  OBVIOUS
<1>5. Root \in Heads /\ Root \in Services /\ Head[Root] = Root
  BY GraphFacts
<1>6. st \in States /\ Exact(st, held) /\ EqLife(State, st)
  BY <1>2, <1>4, <1>5, SetOverrideExact
<1>7. st.phase = phase /\ phase[Root] = "stopped"
  BY <1>1, <1>6, StateParts DEF EqLife, Run
<1>8. st.inner[Root] = 0
  <2>1. MissingInner(st, Root) = {}
    BY GraphFacts DEF MissingInner
  <2>2. QED
    BY <1>5, <1>6, <2>1, FS_EmptySet DEF Exact, InnerOf
<1>9. st.outer[Root] = 0
  <2>1. MissingEdges(st, Root) = {}
    BY <1>6, StateFields, EdgeFacts DEF MissingEdges, StrongEdges, ClusterInEdges
  <2>2. MissingRoot(st, Root) = {}
    BY GraphFacts DEF MissingRoot, HasImplicitRootEdge
  <2>3. st.outer[Root] = Cardinality(MissingEdges(st, Root)) + Cardinality(MissingRoot(st, Root))
    BY <1>5, <1>6 DEF Exact, OuterOf
  <2>4. QED
    BY <2>1, <2>2, <2>3, FS_EmptySet
<1>10. IsStartable(st, Root)
  BY <1>5, <1>7, <1>8, <1>9 DEF IsStartable
<1>11. PICK md : md = DoStartEager(st, Root)
  OBVIOUS
<1>12. Become(PostStart(md, Root)) /\ held' = held
  BY <1>1, <1>3, <1>4, <1>11 DEF Run, OnLoop
<1>13. QueueKept(st)
  <2>1. Root # Root \/ t
    BY <1>3
  <2>2. Sound(State, st)
    BY <1>2, <1>4, <1>5, <2>1, OverrideGrown, GrownSound
  <2>3. QED
    BY <2>2, KeptState, KeptThen
<1>14. ReadyIn(st, Root)
  <2>1. RootUp(State, st)
    BY <1>2, <1>4, <1>5, SetOverrideAdds
  <2>2. QInv(State) /\ Root \in st.up => ~Marked(st)
    BY <2>1 DEF QInv, RootUp
  <2>3. st.override[Root]
    BY <1>2, <1>3, <1>4, <1>5, OverrideSet
  <2>4. QED
    BY <2>2, <2>3 DEF ReadyIn, Kept
<1>15. QED
  BY <1>2, <1>5, <1>6, <1>7, <1>10, <1>11, <1>12, <1>13, <1>14, StartStep

\* A start request.
LEMMA RequestStartStep ==
  ASSUME SInv, NEW h \in Heads, NEW manual \in BOOLEAN, RequestStart(h, manual)
  PROVE  Step
<1>1. State \in States /\ Exact(State, held)
  BY DEF SInv
<1>2. PICK t \in BOOLEAN : t = TRUE
  OBVIOUS
<1>3. PICK st : st = IF manual THEN SetOverride(State, h, t) ELSE State
  OBVIOUS
<1>4. st \in States /\ Exact(st, held) /\ EqLife(State, st) /\ QueueKept(st)
  <2>1. CASE st = State
    BY <1>1, <2>1, KeptState DEF EqLife
  <2>2. CASE st = SetOverride(State, h, t)
    <3>1. h # Root \/ t
      BY <1>2
    <3>2. Sound(State, st)
      BY <1>1, <2>2, <3>1, OverrideGrown, GrownSound
    <3>3. st \in States /\ Exact(st, held) /\ EqLife(State, st)
      BY <1>1, <2>2, SetOverrideExact
    <3>4. QED
      BY <3>2, <3>3, KeptState, KeptThen
  <2>3. QED
    BY <1>3, <2>1, <2>2
<1>5. PICK a : a = OnServiceStartRequest(st, h)
  OBVIOUS
<1>6. a \in States /\ EqCounters(st, a) /\ Grows(st, a)
  BY <1>4, <1>5, StartRequestFrame
<1>7. PICK n \in {"none", "start", "stop"} : n = "start"
  OBVIOUS
<1>8. PICK b : b = TransitionTargetSet(a, h, n)
  OBVIOUS
<1>9. b \in States /\ EqCounters(a, b) /\ EqQueue(a, b)
  BY <1>6, <1>8, TargetFrame
<1>10. PICK c : c = ChainPromise(b, h)
  OBVIOUS
<1>11. c \in States /\ EqCounters(b, c) /\ EqQueue(b, c)
  BY <1>9, <1>10, PromiseFrame
<1>12. EqCounters(st, c)
  BY <1>6, <1>9, <1>11, EqTrans
<1>13. Exact(c, held) /\ c.phase = st.phase
  BY <1>4, <1>12, ExactSame DEF EqCounters, EqLife
<1>14. Become(IF IsRunning(st, h) THEN st ELSE c) /\ held' = held
  BY <1>2, <1>3, <1>5, <1>7, <1>8, <1>10 DEF RequestStart, OnLoop
<1>15. st.phase = phase
  BY <1>4, StateParts DEF EqLife
<1>16. CASE Become(st)
  BY <1>4, <1>14, <1>15, <1>16, Settles
<1>17. CASE Become(c)
  <2>1. Sound(st, a) /\ Sound(a, b) /\ Sound(b, c)
    BY <1>6, <1>9, <1>11, SameSound, GrownSound DEF Grown
  <2>2. QueueKept(c)
    BY <1>4, <2>1, KeptThen
  <2>3. QED
    BY <1>11, <1>13, <1>14, <1>15, <1>17, <2>2, Settles
<1>18. QED
  BY <1>14, <1>16, <1>17

\* A stop request of the root: what is queued is dropped, unless the root is
\* down or stops already.
LEMMA StopRootQueue ==
  ASSUME State \in States, Exact(State, held), RootSettled, Acyclic, QInv(State),
         NEW f \in BOOLEAN, NEW st, st = SetOverride(State, Root, f),
         NEW a, a = OnServiceStopRequest(st, Root)
  PROVE  (st.running[Root] = 0 => QInv(st)) /\ QInv(a)
<1>1. Root \in Heads /\ Root \in Services
  BY GraphFacts
<1>2. st \in States /\ Exact(st, held) /\ st.phase = phase
  BY <1>1, SetOverrideExact, StateParts DEF EqLife
<1>3. Adds(State, st) /\ RootUp(State, st)
  BY <1>1, SetOverrideAdds
<1>4. st.running[Root] = 0 => Waits(st, Root)
  <2>1. ASSUME st.running[Root] = 0, phase[Root] # "stopped" PROVE FALSE
    <3>1. Root \in ActiveMembers(st, Root)
      BY <1>1, <1>2, <2>1, GraphFacts, StateFields
         DEF ActiveMembers, ClusterMembers, RootSettled, Phase
    <3>2. ActiveMembers(st, Root) \subseteq Services
      BY DEF ActiveMembers, ClusterMembers
    <3>3. Cardinality(ActiveMembers(st, Root)) # 0
      BY <3>1, <3>2, ServicesFinite, FS_EmptySet, FS_Subset
    <3>4. QED
      BY <1>1, <1>2, <2>1, <3>3 DEF Exact, RunsOf
  <2>2. QED
    BY <1>2, <2>1 DEF Waits
<1>5. st.markStop[Root] => Root \notin st.up
  BY <1>3 DEF QInv, RootUp, Marked
<1>6. st.running[Root] = 0 \/ st.markStop[Root] => QInv(st)
  BY <1>3, <1>4, <1>5, AddsSound
<1>7. \/ a = st /\ (st.running[Root] = 0 \/ st.markStop[Root])
      \/ Restarted(st, a)
  BY <1>1, <1>2, StopRequestExact
<1>8. Restarted(st, a) => QInv(a)
  BY <1>2 DEF Restarted, RootSettled
<1>9. QED
  BY <1>6, <1>7, <1>8

\* A stop request.
LEMMA RequestStopStep ==
  ASSUME SInv, NEW h \in Heads, RequestStop(h)
  PROVE  Step
<1>1. State \in States /\ Exact(State, held)
  BY DEF SInv
<1>2. PICK f \in BOOLEAN : f = FALSE
  OBVIOUS
<1>3. PICK st : st = SetOverride(State, h, f)
  OBVIOUS
<1>4. st \in States /\ Exact(st, held) /\ EqLife(State, st)
  BY <1>1, <1>3, SetOverrideExact
<1>5. PICK a : a = OnServiceStopRequest(st, h)
  OBVIOUS
<1>6. a \in States /\ Exact(a, held) /\ EqLife(st, a)
  BY <1>4, <1>5, StopRequestExact
<1>7. PICK n \in {"none", "start", "stop"} : n = "stop"
  OBVIOUS
<1>8. PICK b : b = TransitionTargetSet(a, h, n)
  OBVIOUS
<1>9. b \in States /\ EqCounters(a, b) /\ EqQueue(a, b)
  BY <1>6, <1>8, TargetFrame
<1>10. PICK c : c = ChainPromise(b, h)
  OBVIOUS
<1>11. c \in States /\ EqCounters(b, c) /\ EqQueue(b, c)
  BY <1>9, <1>10, PromiseFrame
<1>12. EqCounters(a, c)
  BY <1>9, <1>11, EqTrans
<1>13. Exact(c, held) /\ c.phase = a.phase
  BY <1>6, <1>12, ExactSame DEF EqCounters, EqLife
<1>14. Become(IF st.running[h] = 0 THEN st ELSE c) /\ held' = held
  BY <1>2, <1>3, <1>5, <1>7, <1>8, <1>10 DEF RequestStop, OnLoop
<1>15. st.phase = phase /\ a.phase = phase
  BY <1>4, <1>6, StateParts DEF EqLife
<1>16. (st.running[h] = 0 => QueueKept(st)) /\ QueueKept(a)
  <2>1. CASE h = Root
    <3>1. ASSUME Acyclic, RootSettled, QInv(State)
          PROVE  (st.running[Root] = 0 => QInv(st)) /\ QInv(a)
      BY <1>1, <1>3, <1>5, <2>1, <3>1, StopRootQueue
    <3>2. QED
      BY <2>1, <3>1 DEF QueueKept
  <2>2. CASE h # Root
    <3>1. Sound(State, st)
      BY <1>1, <1>3, <2>2, OverrideGrown, GrownSound
    <3>2. Sound(st, a)
      BY <1>4, <1>5, <2>2, StopRequestExact, GrownSound
    <3>3. QED
      BY <3>1, <3>2, KeptState, KeptThen
  <2>3. QED
    BY <2>1, <2>2
<1>17. CASE st.running[h] = 0
  BY <1>4, <1>14, <1>15, <1>16, <1>17, Settles
<1>18. CASE st.running[h] # 0
  <2>1. Sound(a, b) /\ Sound(b, c)
    BY <1>9, <1>11, SameSound
  <2>2. QueueKept(c)
    BY <1>16, <2>1, KeptThen
  <2>3. QED
    BY <1>11, <1>13, <1>14, <1>15, <1>18, <2>2, Settles
<1>19. QED
  BY <1>17, <1>18

\* A step that changes none of what is counted.
LEMMA FrameStep ==
  ASSUME SInv, NEW st, st \in States, EqCounters(State, st), Become(st), held' = held,
         QueueKept(st)
  PROVE  Step
<1>1. Exact(st, held)
  BY ExactSame DEF SInv
<1>2. st.phase = phase
  BY StateParts DEF EqCounters, EqLife
<1>3. QED
  BY <1>1, <1>2, Settles

\* observe.
LEMMA ObserveStep ==
  ASSUME SInv, NEW h \in Heads, RequestObserve(h)
  PROVE  Step
<1>1. PICK st : st = ChainPromise(State, h)
  OBVIOUS
<1>2. st \in States /\ EqCounters(State, st) /\ EqQueue(State, st)
  BY <1>1, PromiseFrame DEF SInv
<1>3. Become(st) /\ held' = held
  BY <1>1 DEF RequestObserve, OnLoop
<1>4. QueueKept(st)
  BY <1>2, SameSound, KeptState, KeptThen
<1>5. QED
  BY <1>2, <1>3, <1>4, FrameStep

\* The flags of the scheduler count nothing.
LEMMA FlagsFrame ==
  ASSUME NEW st \in States, NEW p \in BOOLEAN, NEW d \in BOOLEAN,
         NEW nx, nx = [st EXCEPT !.dispatched = d, !.processing = p]
  PROVE  nx \in States /\ EqCounters(st, nx)
<1>1. nx \in States
  BY DEF States
<1>2. EqCounters(st, nx)
  BY DEF States, EqCounters, EqLife, EqUses, EqReq, EqPush, EqPull, EqConn
<1>3. QED
  BY <1>1, <1>2

IsProcessing(a, b, p) ==
  b.phase = a.phase /\ b.down = a.down /\ b.up = a.up /\ b.processing = p

\* The fields that the queue is about.
LEMMA FlagsFields ==
  ASSUME NEW st \in States, NEW p, NEW d,
         NEW nx, nx = [st EXCEPT !.dispatched = d, !.processing = p]
  PROVE  IsProcessing(st, nx, p)
BY DEF States, IsProcessing

\* The scheduler takes up the queue.
LEMMA ProcessBeginStep == SInv /\ ProcessBegin => Step
<1>1. SUFFICES ASSUME SInv, ProcessBegin PROVE Step
  OBVIOUS
<1>2. PICK p \in BOOLEAN, d \in BOOLEAN : p = TRUE /\ d = FALSE
  OBVIOUS
<1>3. PICK st : st = [State EXCEPT !.dispatched = d, !.processing = p]
  OBVIOUS
<1>4. st \in States /\ EqCounters(State, st)
  BY <1>1, <1>3, FlagsFrame DEF SInv
<1>5. Become(st) /\ held' = held
  BY <1>1, <1>2, <1>3 DEF ProcessBegin, OnLoop
<1>6. QueueKept(st)
  <2>1. st.phase = State.phase /\ st.down = State.down /\ st.up = State.up /\ Busy(st)
    <3>1. State \in States
      BY <1>1 DEF SInv
    <3>2. IsProcessing(State, st, p)
      BY <1>3, <3>1, FlagsFields
    <3>3. Busy(st)
      BY <1>2, <3>2, Zenon DEF Busy, IsProcessing
    <3>4. QED
      BY <3>2, <3>3 DEF IsProcessing
  <2>2. EqRoot(State, st)
    BY <1>4 DEF EqCounters, EqPush, EqPull, EqRoot
  <2>3. Adds(State, st)
    BY <2>1 DEF Adds
  <2>4. Grows(State, st)
    BY <2>1, <2>2, <2>3, SameRoot DEF Grows, RootUp, RootKept
  <2>5. QED
    BY <2>4, GrowsKeeps DEF QueueKept
<1>7. QED
  BY <1>1, <1>4, <1>5, <1>6, FrameStep

\* The scheduler has emptied the queue.
LEMMA ProcessEndStep == SInv /\ ProcessEnd => Step
<1>1. SUFFICES ASSUME SInv, ProcessEnd PROVE Step
  OBVIOUS
<1>2. PICK p \in BOOLEAN : p = FALSE
  OBVIOUS
<1>3. PICK st : st = [State EXCEPT !.processing = p]
  OBVIOUS
<1>4. State \in States
  BY <1>1 DEF SInv
<1>5. st \in States
  BY <1>3, <1>4 DEF States
<1>6. EqCounters(State, st)
  BY <1>3, <1>4 DEF States, EqCounters, EqLife, EqUses, EqReq, EqPush, EqPull, EqConn
<1>7. Become(st) /\ held' = held
  BY <1>1, <1>2, <1>3 DEF ProcessEnd
<1>8. QueueKept(st)
  <2>1. st.down = State.down /\ st.up = State.up
    BY <1>3, <1>4 DEF States
  <2>2. st.down = {} /\ st.up = {}
    BY <1>1, <2>1, StateParts DEF ProcessEnd
  <2>3. QInv(st)
    BY <2>2 DEF QInv
  <2>4. QED
    BY <2>3 DEF QueueKept
<1>9. QED
  BY <1>1, <1>5, <1>6, <1>7, <1>8, FrameStep

\* The scheduler stops a service of the queue.
LEMMA ProcessStopStep ==
  ASSUME SInv, NEW s \in Services, ProcessStop(s)
  PROVE  Step
<1>1. PICK st : st = Popped(s)
  OBVIOUS
<1>2. State \in States /\ Exact(State, held) /\ Lifecycle!IInv
  BY DEF SInv
<1>3. st \in States /\ EqCounters(State, st)
  BY <1>1, <1>2, PoppedFrame
<1>4. Exact(st, held) /\ st.phase = phase /\ st.uses = uses
  BY <1>2, <1>3, ExactSame, StateParts DEF EqCounters, EqLife, EqUses
<1>5. phase[s] = "running" /\ st.uses[s] = 1 /\ held' = held
  BY <1>4, StateParts DEF ProcessStop, IsStoppable, IsRunning
<1>6. PICK md : md = DoStopEager(st, s)
  OBVIOUS
<1>7. Become(md) \/ Become(PostStop(md, s))
  BY <1>1, <1>6 DEF ProcessStop
<1>8. QueueKept(st) /\ FreeIn(st, s)
  BY <1>1, <1>2, PoppedFree DEF ProcessStop
<1>9. QED
  BY <1>2, <1>3, <1>4, <1>5, <1>6, <1>7, <1>8, StopStep

\* The scheduler starts a service of the queue.
LEMMA ProcessStartStep ==
  ASSUME SInv, NEW s \in Services, ProcessStart(s)
  PROVE  Step
<1>1. PICK st : st = Popped(s)
  OBVIOUS
<1>2. State \in States /\ Exact(State, held) /\ Lifecycle!IInv
  BY DEF SInv
<1>3. st \in States /\ EqCounters(State, st)
  BY <1>1, <1>2, PoppedFrame
<1>4. Exact(st, held) /\ st.phase = phase
  BY <1>2, <1>3, ExactSame, StateParts DEF EqCounters, EqLife
<1>5. IsStartable(st, s) /\ held' = held
  <2>1. st.phase = State.phase /\ st.inner = State.inner /\ st.outer = State.outer
    BY <1>3 DEF EqCounters, EqLife, EqReq
  <2>2. QED
    BY <2>1 DEF ProcessStart, IsStartable
<1>6. PICK md : md = DoStartEager(st, s)
  OBVIOUS
<1>7. Become(md) \/ Become(PostStart(md, s))
  BY <1>1, <1>6 DEF ProcessStart
<1>8. QueueKept(st) /\ ReadyIn(st, s)
  BY <1>1, <1>2, PoppedFree DEF ProcessStart
<1>9. QED
  BY <1>2, <1>3, <1>4, <1>5, <1>6, <1>7, <1>8, StartStep

\* The scheduler drops a service that is neither stoppable nor startable now.
LEMMA ProcessDropStep ==
  ASSUME SInv, NEW s \in Services, ProcessDrop(s)
  PROVE  Step
<1>1. PICK st : st = Popped(s)
  OBVIOUS
<1>2. st \in States /\ EqCounters(State, st)
  BY <1>1, PoppedFrame DEF SInv
<1>3. Become(st) /\ held' = held
  BY <1>1 DEF ProcessDrop
<1>4. QueueKept(st)
  BY <1>1, PoppedFree DEF SInv, ProcessDrop
<1>5. QED
  BY <1>2, <1>3, <1>4, FrameStep

\* on_start is done.
LEMMA StartDoneStep ==
  ASSUME SInv, NEW s \in Services, StartDone(s)
  PROVE  Step
<1>1. PICK nx : nx = PostStart(State, s)
  OBVIOUS
<1>2. State \in States /\ Exact(State, held) /\ Lifecycle!IInv
  BY DEF SInv
<1>3. Become(nx) /\ held' = held /\ phase[s] = "starting" /\ State.phase = phase
  BY <1>1, StateParts DEF StartDone
<1>4. s = Root => OnlyRootUp(State)
  BY <1>2, <1>3, RootNeeded DEF OnlyRootUp, Lifecycle!IInv, Lifecycle!NeedsRun
<1>5. State.phase[s] = "starting"
  BY <1>3
<1>6. /\ nx \in States /\ Exact(nx, held)
      /\ nx.phase = [State.phase EXCEPT ![s] = "running"] /\ Sound(State, nx)
  BY <1>1, <1>2, <1>4, <1>5, PostStartExact
<1>7. phase' = [phase EXCEPT ![s] = "running"]
  BY <1>3, <1>6, Installed
<1>8. Lifecycle!Next
  BY <1>3, <1>7 DEF Lifecycle!Next, Lifecycle!Started
<1>9. QueueKept(nx)
  BY <1>6, KeptState, KeptThen
<1>10. QED
  BY <1>3, <1>6, <1>8, <1>9, Settles

\* on_stop is done.
LEMMA StopDoneStep ==
  ASSUME SInv, NEW s \in Services, StopDone(s)
  PROVE  Step
<1>1. PICK nx : nx = PostStop(State, s)
  OBVIOUS
<1>2. State \in States /\ Exact(State, held) /\ Lifecycle!IInv
  BY DEF SInv
<1>3. Become(nx) /\ held' = held /\ phase[s] = "stopping" /\ State.phase = phase
  BY <1>1, StateParts DEF StopDone
<1>4. \A m \in InnerChildren(s) : State.phase[m] = "running"
  BY <1>2, <1>3 DEF InnerChildren, Lifecycle!IInv, Lifecycle!ChildrenRun, Lifecycle!Up
<1>5. \A t \in ClusterMembers(Head[s]) : State.phase[t] # "stopped"
  BY <1>2, <1>3 DEF ClusterMembers, Lifecycle!IInv, Lifecycle!LockedTogether
<1>6. s # Root => State.phase[Root] = "running"
  BY <1>2, <1>3, RootNeeded, GraphFacts DEF Lifecycle!IInv, Lifecycle!NeedsRun
<1>7. State.phase[s] = "stopping"
  BY <1>3
<1>8. /\ nx \in States /\ Exact(nx, held) /\ nx.phase = PhaseAfter(State.phase, s)
      /\ Sound(State, nx)
  BY <1>1, <1>2, <1>4, <1>5, <1>6, <1>7, PostStopExact
<1>9. nx.phase = Lifecycle!AfterStop(s)
  BY <1>3, <1>8, AfterIsAfter
<1>10. phase' = Lifecycle!AfterStop(s)
  BY <1>3, <1>8, <1>9, Installed
<1>11. Lifecycle!Next
  BY <1>3, <1>10 DEF Lifecycle!Next, Lifecycle!StopEnd
<1>12. QueueKept(nx)
  BY <1>8, KeptState, KeptThen
<1>13. QED
  BY <1>3, <1>8, <1>11, <1>12, Settles

\* A cluster is checked again after it was unlocked.
LEMMA RecheckStep ==
  ASSUME SInv, NEW h \in Heads, Recheck(h)
  PROVE  Step
<1>1. State \in States
  BY DEF SInv
<1>2. PICK v : v = State.recheck \ {h}
  OBVIOUS
<1>3. v \in SUBSET Heads
  BY <1>1, <1>2, StateFields
<1>4. PICK a : a = [State EXCEPT !.recheck = v]
  OBVIOUS
<1>5. a \in States /\ EqCounters(State, a) /\ EqQueue(State, a)
  BY <1>1, <1>3, <1>4, RecheckFrame
<1>6. PICK H : H = {h}
  OBVIOUS
<1>7. PICK b : b = CheckAnyInClusterStartable(a, H)
  OBVIOUS
<1>8. b \in States /\ EqCounters(a, b)
  BY <1>5, <1>7, CheckAnyFrame
<1>9. EqCounters(State, b)
  BY <1>5, <1>8, EqTrans
<1>10. Become(b) /\ held' = held
  BY <1>2, <1>4, <1>6, <1>7 DEF Recheck, OnLoop
<1>11. Sound(State, a)
  BY <1>5, SameSound
<1>12. Sound(a, b)
  BY <1>5, <1>7, CheckAnyGrows, GrownSound DEF Grown
<1>13. QueueKept(b)
  BY <1>11, <1>12, KeptState, KeptThen
<1>14. QED
  BY <1>8, <1>9, <1>10, <1>13, FrameStep

\* An import acquires a weak usage.
LEMMA AcquireStep ==
  ASSUME SInv, NEW u \in Weak, AcquireUsage(u)
  PROVE  Step
<1>1. PICK nx : nx = OnUsageConnected(State, u)
  OBVIOUS
<1>2. State \in States /\ Exact(State, held) /\ u \notin State.conn
  BY StateParts DEF SInv, AcquireUsage
<1>3. nx \in States /\ Exact(nx, held) /\ EqLife(State, nx)
  BY <1>1, <1>2, ConnectExact
<1>4. Become(nx) /\ held' = held /\ nx.phase = phase
  BY <1>1, <1>3, StateParts DEF AcquireUsage, OnLoop, EqLife
<1>5. QueueKept(nx)
  <2>1. EqQueue(State, nx) /\ EqRoot(State, nx)
    BY <1>1, <1>2, ConnectQueue
  <2>2. Sound(State, nx)
    BY <2>1, SameGrows, GrownSound
  <2>3. QED
    BY <2>2, KeptState, KeptThen
<1>6. QED
  BY <1>3, <1>4, <1>5, Settles

\* An import releases one.
LEMMA ReleaseStep ==
  ASSUME SInv, NEW u \in Weak, ReleaseUsage(u)
  PROVE  Step
<1>1. PICK nx : nx = OnUsageDisconnect(State, u)
  OBVIOUS
<1>2. State \in States /\ Exact(State, held) /\ u \in State.conn
  BY StateParts DEF SInv, ReleaseUsage
<1>3. nx \in States /\ Exact(nx, held) /\ EqLife(State, nx)
  BY <1>1, <1>2, DisconnectExact
<1>4. Become(nx) /\ held' = held /\ nx.phase = phase
  BY <1>1, <1>3, StateParts DEF ReleaseUsage, OnLoop, EqLife
<1>5. QueueKept(nx)
  <2>1. ASSUME Acyclic PROVE Grows(State, nx)
    BY <1>1, <1>2, <2>1, DisconnectGrows
  <2>2. QED
    BY <2>1, GrowsKeeps DEF QueueKept
<1>6. QED
  BY <1>3, <1>4, <1>5, Settles

\* The posted check of a service that another thread uses no more.
LEMMA NoticeStep ==
  ASSUME SInv, NEW s \in Services, NEW n, Notice(s, n)
  PROVE  Step
<1>1. State \in States
  BY DEF SInv
<1>2. PICK S : S = {IF n = 1 THEN s ELSE Head[s]}
  OBVIOUS
<1>3. S \in SUBSET Services
  BY <1>2, GraphFacts
<1>4. PICK a : a = CheckStoppable(State, S)
  OBVIOUS
<1>5. a \in States /\ EqCounters(State, a)
  BY <1>1, <1>3, <1>4, CheckStoppableFrame
<1>6. Become(IF IsRunning(State, s) THEN a ELSE State) /\ held' = held
  BY <1>2, <1>4 DEF Notice
<1>7. CASE Become(a)
  <2>1. PushedRoot(State) => Grows(State, a)
    BY <1>1, <1>3, <1>4, CheckStoppableGrows DEF Grows
  <2>2. Sound(State, a)
    BY <1>1, <2>1, ExactGrows DEF SInv
  <2>3. QueueKept(a)
    BY <2>2, KeptState, KeptThen
  <2>4. QED
    BY <1>5, <1>6, <1>7, <2>3, FrameStep
<1>8. CASE Become(State)
  BY <1>1, <1>6, <1>8, EqRefl, KeptState, FrameStep
<1>9. QED
  BY <1>6, <1>7, <1>8

\* A use of another thread is counted while the service is up.
LEMMA HoldExact ==
  ASSUME NEW st \in States, NEW hd, Exact(st, hd), NEW s \in Services,
         st.phase[s] \in {"starting", "running"}, NEW k \in Int, hd[s] + k \in Nat,
         NEW hn, hn = [hd EXCEPT ![s] = @ + k],
         NEW v, v = [st.uses EXCEPT ![s] = @ + k], NEW nx, nx = [st EXCEPT !.uses = v]
  PROVE  nx \in States /\ Exact(nx, hn)
<1>1. UsesOf(st, hd) /\ HeldOf(st, hd)
  BY DEF Exact
<1>2. /\ v \in [Services -> Int] /\ v[s] = st.uses[s] + k
      /\ \A x \in Services : x # s => v[x] = st.uses[x]
  BY StateFields
<1>3. /\ hn \in [Services -> Nat] /\ hn[s] = hd[s] + k /\ hd[s] \in Nat
      /\ \A x \in Services : x # s => hn[x] = hd[x]
  BY <1>1 DEF HeldOf
<1>4. nx \in States
  BY <1>2, PutUses
<1>5. /\ EqLife(st, nx) /\ EqReq(st, nx) /\ EqPush(st, nx) /\ EqPull(st, nx)
      /\ EqConn(st, nx) /\ nx.uses = v
  BY DEF States, EqLife, EqReq, EqPush, EqPull, EqConn
<1>6. nx.phase = st.phase /\ nx.conn = st.conn /\ nx.released = st.released
  BY <1>5 DEF EqLife, EqConn
<1>7. HeldOf(nx, hn)
  BY <1>1, <1>3, <1>6 DEF HeldOf
<1>8. UsesOf(nx, hn)
  <2>1. ASSUME NEW x \in Services PROVE nx.uses[x] = UsesCount(nx, hn, x)
    <3>1. UsedByParent(nx, x) = UsedByParent(st, x) /\ UsedByParent(st, x) \in {0, 1}
      BY <1>6 DEF UsedByParent
    <3>2. Users(nx, x) = Users(st, x) /\ Users(st, x) \in Nat
      BY <1>6, UsersType DEF Users, UseEdges, LockedSet
    <3>3. st.uses[x] = UsesCount(st, hd, x) /\ st.uses[x] \in Int
      BY <1>1, StateFields DEF UsesOf
    <3>4. CASE x # s
      BY <1>2, <1>3, <1>5, <1>6, <3>1, <3>2, <3>3, <3>4 DEF UsesCount
    <3>5. CASE x = s /\ st.phase[s] = "running"
      <4>1. st.uses[x] = 1 + hd[x] + UsedByParent(st, x) + Users(st, x)
        BY <3>3, <3>5 DEF UsesCount
      <4>2. UsesCount(nx, hn, x) = 1 + hn[x] + UsedByParent(st, x) + Users(st, x)
        BY <1>6, <3>1, <3>2, <3>5 DEF UsesCount
      <4>3. QED
        BY <1>2, <1>3, <1>5, <3>1, <3>2, <3>3, <3>5, <4>1, <4>2
    <3>6. CASE x = s /\ st.phase[s] = "starting"
      <4>1. st.uses[x] = 1 + hd[x] + UsedByParent(st, x)
        BY <3>3, <3>6 DEF UsesCount
      <4>2. UsesCount(nx, hn, x) = 1 + hn[x] + UsedByParent(st, x)
        BY <1>6, <3>1, <3>6 DEF UsesCount
      <4>3. QED
        BY <1>2, <1>3, <1>5, <3>1, <3>3, <3>6, <4>1, <4>2
    <3>7. QED
      BY <3>4, <3>5, <3>6
  <2>2. QED
    BY <2>1 DEF UsesOf
<1>9. InnerOf(nx) /\ OuterOf(nx)
  BY <1>5, <1>6, ReqSame DEF Exact
<1>10. PullsOf(nx) /\ RunsOf(nx) /\ (Acyclic => PushesOf(nx))
  BY <1>5, <1>6, PullsSame, RunsSame, PushesSame DEF Exact
<1>11. ConnOf(nx)
  BY <1>6 DEF Exact, ConnOf
<1>12. QED
  BY <1>4, <1>7, <1>8, <1>9, <1>10, <1>11 DEF Exact

\* A step of another thread changes uses_ and what it holds.
LEMMA ThreadStep ==
  ASSUME SInv, NEW s \in Services, phase[s] \in {"starting", "running"},
         NEW k \in Int, held[s] + k \in Nat, held' = [held EXCEPT ![s] = @ + k],
         uses' = [uses EXCEPT ![s] = @ + k], UNCHANGED loopVars
  PROVE  Step
<1>1. PICK v, hn : v = [State.uses EXCEPT ![s] = @ + k] /\ hn = [held EXCEPT ![s] = @ + k]
  OBVIOUS
<1>2. PICK nx : nx = [State EXCEPT !.uses = v]
  OBVIOUS
<1>3. State \in States /\ Exact(State, held)
  BY DEF SInv
<1>4. State.phase[s] \in {"starting", "running"}
  BY StateParts
<1>5. nx \in States /\ Exact(nx, hn)
  BY <1>1, <1>2, <1>3, <1>4, HoldExact
<1>6. State' = nx
  <2>1. v = uses'
    BY <1>1, StateParts
  <2>2. QED
    BY <1>2, <2>1 DEF State, loopVars
<1>7. Exact(State', held')
  BY <1>1, <1>5, <1>6
<1>8. Exact(State, held)'
  BY <1>7
<1>9. QueueKept(nx)
  <2>1. EqQueue(State, nx) /\ EqRoot(State, nx)
    BY <1>2, <1>3 DEF States, EqQueue, EqRoot
  <2>2. Sound(State, nx)
    BY <2>1, SameGrows, GrownSound
  <2>3. QED
    BY <2>2, KeptState, KeptThen
<1>10. QueueKept(State')
  BY <1>6, <1>9
<1>11. QED
  BY <1>5, <1>6, <1>8, <1>10 DEF Step, loopVars

\* Another thread gets hold of a service that is up, or fails to.
LEMMA TryUseStep ==
  ASSUME SInv, NEW s \in Services, TryUse(s)
  PROVE  Step
<1>1. PICK k \in Int : k = 1
  OBVIOUS
<1>2. /\ held' = [held EXCEPT ![s] = @ + k] /\ uses' = [uses EXCEPT ![s] = @ + k]
      /\ UNCHANGED loopVars
  BY <1>1 DEF TryUse
<1>3. held[s] + k \in Nat
  BY <1>1, SchedulerAssumption DEF SInv
<1>4. phase[s] \in {"starting", "running"}
  <2>1. State.uses[s] = UsesCount(State, held, s)
    BY DEF SInv, Exact, UsesOf
  <2>2. QED
    BY <2>1, StateParts DEF UsesCount, TryUse
<1>5. QED
  BY <1>2, <1>3, <1>4, ThreadStep

\* Another thread lets go of it.
LEMMA DecUseStep ==
  ASSUME SInv, NEW s \in Services, DecUse(s)
  PROVE  Step
<1>1. PICK k \in Int : k = -1
  OBVIOUS
<1>2. State \in States /\ held[s] \in Nat /\ uses \in [Services -> Int] /\ held[s] # 0
      /\ held \in [Services -> 0..MaxHeld]
  BY StateFields, StateParts, SchedulerAssumption DEF SInv, DecUse
<1>3. held' = [held EXCEPT ![s] = @ + k]
  <2>1. held' = [held EXCEPT ![s] = @ - 1]
    BY DEF DecUse
  <2>2. held[s] - 1 = held[s] + k
    BY <1>1, <1>2
  <2>3. QED
    BY <2>1, <2>2
<1>4. uses' = [uses EXCEPT ![s] = @ + k]
  <2>1. uses' = [uses EXCEPT ![s] = @ - 1]
    BY DEF DecUse
  <2>2. uses[s] - 1 = uses[s] + k
    BY <1>1, <1>2
  <2>3. QED
    BY <2>1, <2>2
<1>5. held[s] + k \in Nat
  BY <1>1, <1>2
<1>6. phase[s] \in {"starting", "running"}
  BY <1>2, StateParts DEF SInv, Exact, HeldOf
<1>7. UNCHANGED loopVars
  BY DEF DecUse
<1>8. QED
  BY <1>3, <1>4, <1>5, <1>6, <1>7, ThreadStep

-----------------------------------------------------------------------------
(* The invariant and the refinement. *)

\* Every action is a step: exact counters stay exact and phases change as
\* ServiceLifecycle allows.
LEMMA NextStep == SInv /\ [Next]_vars => Step
<1>1. SUFFICES ASSUME SInv, [Next]_vars PROVE Step
  OBVIOUS
<1>2. CASE UNCHANGED vars
  <2>1. State' = State /\ held' = held /\ phase' = phase /\ replyNow' = replyNow
    BY <1>2 DEF vars, State
  <2>2. State' \in States /\ Exact(State', held')
    BY <1>1, <2>1 DEF SInv
  <2>3. Exact(State, held)'
    BY <2>2
  <2>4. QueueKept(State')
    BY <2>1, KeptState
  <2>5. QED
    BY <2>1, <2>2, <2>3, <2>4 DEF Step
<1>3. CASE Run
  BY <1>1, <1>3, RunStep
<1>4. CASE Requests
  <2>1. PICK h \in Requested : \/ RequestStart(h, TRUE) \/ RequestStart(h, FALSE)
                               \/ RequestStop(h) \/ RequestObserve(h)
    BY <1>4 DEF Requests
  <2>2. h \in Heads
    BY SchedulerAssumption
  <2>3. CASE RequestStart(h, TRUE)
    <3>1. PICK m \in BOOLEAN : RequestStart(h, m)
      BY <2>3
    <3>2. QED
      BY <1>1, <2>2, <3>1, RequestStartStep
  <2>4. CASE RequestStart(h, FALSE)
    <3>1. PICK m \in BOOLEAN : RequestStart(h, m)
      BY <2>4
    <3>2. QED
      BY <1>1, <2>2, <3>1, RequestStartStep
  <2>5. CASE RequestStop(h)
    BY <1>1, <2>2, <2>5, RequestStopStep
  <2>6. CASE RequestObserve(h)
    BY <1>1, <2>2, <2>6, ObserveStep
  <2>7. QED
    BY <2>1, <2>3, <2>4, <2>5, <2>6
<1>5. CASE Process
  <2>1. CASE ProcessBegin
    BY <1>1, <2>1, ProcessBeginStep
  <2>2. CASE ProcessEnd
    BY <1>1, <2>2, ProcessEndStep
  <2>3. ASSUME NEW s \in Services, ProcessStop(s) \/ ProcessStart(s) \/ ProcessDrop(s)
        PROVE  Step
    BY <1>1, <2>3, ProcessStopStep, ProcessStartStep, ProcessDropStep
  <2>4. QED
    BY <1>5, <2>1, <2>2, <2>3 DEF Process
<1>6. CASE Hooks
  BY <1>1, <1>6, StartDoneStep, StopDoneStep DEF Hooks
<1>7. CASE Posted
  BY <1>1, <1>7, RecheckStep, NoticeStep DEF Posted
<1>8. CASE Imports
  BY <1>1, <1>8, AcquireStep, ReleaseStep DEF Imports
<1>9. CASE Threads
  BY <1>1, <1>9, TryUseStep, DecUseStep DEF Threads
<1>10. QED
  BY <1>1, <1>2, <1>3, <1>4, <1>5, <1>6, <1>7, <1>8, <1>9 DEF Next

\* What is kept beside the counters: the uses other threads hold and their notices.
HoldsOK ==
  notices \subseteq Services \X {1, 2} /\ held \in [Services -> 0..MaxHeld]

\* Other threads hold uses of services that are up only, after every action.
LEMMA NextHolds == HoldsOK /\ [Next]_vars => HoldsOK'
<1>1. SUFFICES ASSUME HoldsOK, [Next]_vars PROVE HoldsOK'
  OBVIOUS
<1>2. CASE UNCHANGED <<notices, held>>
  BY <1>1, <1>2 DEF HoldsOK
<1>3. CASE \E s \in Services : TryUse(s)
  BY <1>1, <1>3, SchedulerAssumption DEF HoldsOK, TryUse
<1>4. CASE \E s \in Services : DecUse(s)
  <2>1. PICK s \in Services : DecUse(s)
    BY <1>4
  <2>2. held' \in [Services -> 0..MaxHeld]
    BY <1>1, <2>1, SchedulerAssumption DEF HoldsOK, DecUse
  <2>3. PICK n : n = uses[s] - 1
    OBVIOUS
  <2>4. notices' = IF HasNoExternalUses(s, n) THEN notices \cup {<<s, n>>} ELSE notices
    BY <2>1, <2>3 DEF DecUse
  <2>5. HasNoExternalUses(s, n) => n \in {1, 2}
    BY DEF HasNoExternalUses
  <2>6. QED
    BY <1>1, <2>2, <2>4, <2>5 DEF HoldsOK
<1>5. CASE \E s \in Services : Notice(s, 1) \/ Notice(s, 2)
  <2>1. PICK s \in Services, n \in {1, 2} : Notice(s, n)
    BY <1>5
  <2>2. QED
    BY <1>1, <2>1 DEF HoldsOK, Notice
<1>6. UNCHANGED vars \/ Run \/ Requests \/ Process \/ Hooks
        \/ (\E h \in Heads : Recheck(h)) \/ Imports
      => UNCHANGED <<notices, held>>
  BY DEF vars, Run, Requests, RequestStart, RequestStop, RequestObserve, OnLoop, Process,
     ProcessBegin, ProcessStop, ProcessStart, ProcessDrop, ProcessEnd, Hooks, StartDone,
     StopDone, Recheck, Imports, AcquireUsage, ReleaseUsage
<1>7. QED
  BY <1>1, <1>2, <1>3, <1>4, <1>5, <1>6 DEF Next, Posted, Threads

\* The initial state is a record of the counters.
LEMMA InitState == Init => State \in States
<1>1. SUFFICES ASSUME Init PROVE State \in States
  OBVIOUS
<1>2. phase \in [Services -> Phase] /\ uses \in [Services -> Int]
  BY <1>1 DEF Init, Phase
<1>3. inner \in [Services -> Int]
  <2>1. \A s \in Services : Cardinality(InnerChildren(s)) \in Nat
    BY ServicesFinite, GraphFacts DEF InnerChildren
  <2>2. QED
    BY <1>1, <2>1 DEF Init
<1>4. outer \in [Heads -> Int]
  <2>1. \A h \in Heads : Cardinality(StrongEdges(ClusterInEdges(conn, h))) \in Nat
    BY <1>1, EdgeSets, EdgesFinite DEF Init
  <2>2. \A h \in Heads :
          Cardinality({s \in ClusterMembers(h) : HasImplicitRootEdge(s)}) \in Nat
    BY ServicesFinite DEF ClusterMembers
  <2>3. QED
    BY <1>1, <2>1, <2>2 DEF Init
<1>5. /\ running \in [Heads -> Int] /\ pushes \in [Heads -> Int] /\ pulls \in [Heads -> Int]
      /\ target \in [Heads -> {"none", "start", "stop"}]
  BY <1>1 DEF Init
<1>6. /\ markStop \in [Heads -> BOOLEAN] /\ markStart \in [Heads -> BOOLEAN]
      /\ override \in [Heads -> BOOLEAN] /\ promise \in [Heads -> BOOLEAN]
  BY <1>1, Zenon DEF Init
<1>7. /\ conn \in SUBSET Usages /\ released \in SUBSET Usages /\ down \in SUBSET Services
      /\ up \in SUBSET Services /\ recheck \in SUBSET Heads
      /\ processing \in BOOLEAN /\ dispatched \in BOOLEAN
  BY <1>1 DEF Init
<1>8. QED
  BY <1>2, <1>3, <1>4, <1>5, <1>6, <1>7 DEF States, State

\* At first all services are stopped and nothing is counted.
LEMMA InitExact == Init => Exact(State, held)
<1>1. SUFFICES ASSUME Init PROVE Exact(State, held)
  OBVIOUS
<1>2. /\ \A s \in Services : phase[s] = "stopped" /\ uses[s] = 0 /\ held[s] = 0
      /\ \A h \in Heads : /\ ~markStop[h] /\ ~override[h] /\ running[h] = 0
                          /\ pushes[h] = 0 /\ pulls[h] = 0
      /\ conn = Usages /\ released = {} /\ held \in [Services -> Nat]
  BY <1>1 DEF Init
<1>3. UsesOf(State, held)
  BY <1>2, StateParts DEF UsesOf, UsesCount
<1>4. HeldOf(State, held)
  BY <1>2, StateParts DEF HeldOf
<1>5. InnerOf(State)
  <2>1. \A s \in Services : MissingInner(State, s) = InnerChildren(s)
    BY <1>2, StateParts, GraphFacts DEF MissingInner, InnerChildren
  <2>2. \A s \in Services : inner[s] = Cardinality(InnerChildren(s))
    BY <1>1 DEF Init
  <2>3. QED
    BY <2>1, <2>2, StateParts DEF InnerOf
<1>6. \A e \in Edges(conn) : /\ Src(e) \in Services /\ Dst(e) \in Services
                             /\ Head[Src(e)] \in Heads /\ Head[Dst(e)] \in Heads
  BY <1>2, EdgeFacts, GraphFacts
<1>7. OuterOf(State)
  <2>1. ASSUME NEW h \in Heads
        PROVE  /\ MissingEdges(State, h) = StrongEdges(ClusterInEdges(conn, h))
               /\ MissingRoot(State, h) = {s \in ClusterMembers(h) : HasImplicitRootEdge(s)}
    <3>1. MissingEdges(State, h) = StrongEdges(ClusterInEdges(conn, h))
      BY <1>2, <1>6, StateParts DEF MissingEdges, StrongEdges, ClusterInEdges
    <3>2. MissingRoot(State, h) = {s \in ClusterMembers(h) : HasImplicitRootEdge(s)}
      BY <1>2, StateParts, GraphFacts DEF MissingRoot
    <3>3. QED
      BY <3>1, <3>2
  <2>2. \A h \in Heads : outer[h] =
          Cardinality(StrongEdges(ClusterInEdges(conn, h)))
          + Cardinality({s \in ClusterMembers(h) : HasImplicitRootEdge(s)})
    BY <1>1 DEF Init
  <2>3. QED
    BY <2>1, <2>2, StateParts DEF OuterOf
<1>8. PullsOf(State)
  <2>1. \A h \in Heads : PullEdges(State, h) = {}
    BY <1>2, <1>6, StateParts DEF PullEdges, ClusterInEdges
  <2>2. QED
    BY <1>2, <2>1, StateParts, FS_EmptySet DEF PullsOf
<1>9. RunsOf(State)
  <2>1. \A h \in Heads : ActiveMembers(State, h) = {}
    BY <1>2, StateParts DEF ActiveMembers, ClusterMembers
  <2>2. QED
    BY <1>2, <2>1, StateParts, FS_EmptySet DEF RunsOf
<1>10. ConnOf(State)
  BY <1>2, StateParts DEF ConnOf
<1>11. PushesOf(State)
  <2>1. \A h \in Heads : PushEdges(State, h) = {}
    BY <1>2, <1>6, StateParts DEF PushEdges, ClusterOutEdges
  <2>2. \A h \in Heads : Cardinality(PushEdges(State, h)) = 0
    BY <2>1, FS_EmptySet
  <2>3. \A h \in Heads : OwnPush(State, h) = 0
    BY <1>2, StateParts, Zenon DEF OwnPush
  <2>4. \A h \in Heads : State.pushes[h] = 0
    BY <1>2, StateParts
  <2>5. QED
    BY <2>2, <2>3, <2>4 DEF PushesOf
<1>12. QED
  BY <1>3, <1>4, <1>5, <1>7, <1>8, <1>9, <1>10, <1>11 DEF Exact

\* The invariant holds at first.
LEMMA InitSInv == Init => SInv
<1>1. Init => Lifecycle!IInv
  BY InitIInv DEF Init, Lifecycle!Init
<1>2. Init => HoldsOK /\ replyNow \subseteq Weak
  BY SchedulerAssumption DEF Init, HoldsOK
<1>3. QED
  BY <1>1, <1>2, InitState, InitExact DEF SInv, HoldsOK

\* Every step keeps it.
LEMMA NextSInv == SInv /\ [Next]_vars => SInv'
<1>1. SUFFICES ASSUME SInv, [Next]_vars PROVE SInv'
  OBVIOUS
<1>2. Step
  BY <1>1, NextStep
<1>3. HoldsOK'
  BY <1>1, NextHolds DEF SInv, HoldsOK
<1>4. [Lifecycle!Next]_phase
  BY <1>2 DEF Step
<1>5. Lifecycle!IInv'
  BY <1>1, <1>4, NextIInv DEF SInv
<1>6. QED
  BY <1>1, <1>2, <1>3, <1>5 DEF SInv, Step, HoldsOK

\* The inductive invariant of the scheduler: every counter is what it counts, for
\* every finite graph of services.
THEOREM Invariant == Spec => []SInv
BY InitSInv, NextSInv, PTL DEF Spec

\* The scheduler starts and stops services in the order of ServiceLifecycle.
THEOREM RefinesLifecycle == Spec => LifecycleSpec
<1>1. Init => Lifecycle!Init
  BY DEF Init, Lifecycle!Init
<1>2. SInv /\ [Next]_vars => [Lifecycle!Next]_phase
  BY NextStep DEF Step
<1>3. QED
  BY <1>1, <1>2, Invariant, PTL DEF Spec, LifecycleSpec, Lifecycle!Spec

-----------------------------------------------------------------------------
(* The properties of the scheduler. *)

\* uses_ as the model states them.
LEMMA UsesFollow == SInv => UsesExact
<1>1. SUFFICES ASSUME SInv, NEW s \in Services
               PROVE  uses[s] =
                 IF phase[s] \notin {"starting", "running"} THEN 0
                 ELSE 1 + held[s]
                    + Cardinality({x \in {s} \cap Members :
                         phase[Parent[x]] \in {"starting", "running", "stopping"}})
                    + (IF phase[s] = "starting" THEN 0
                       ELSE Cardinality({e \in OutEdges(conn, s) :
                                           phase[Dst(e)] # "stopped"})
                          + ImplicitUses({x \in Services : phase[x] # "stopped"}, s))
  BY DEF UsesExact
<1>2. PICK A : A = {x \in {s} \cap Members :
                      phase[Parent[x]] \in {"starting", "running", "stopping"}}
  OBVIOUS
<1>3. Cardinality(A) = UsedByParent(State, s)
  <2>1. CASE s \in Members /\ phase[Parent[s]] \in {"starting", "running", "stopping"}
    <3>1. A = {s}
      BY <1>2, <2>1
    <3>2. UsedByParent(State, s) = 1
      BY <2>1, StateParts DEF UsedByParent
    <3>3. QED
      BY <3>1, <3>2, FS_Singleton
  <2>2. CASE ~(s \in Members /\ phase[Parent[s]] \in {"starting", "running", "stopping"})
    <3>1. A = {}
      BY <1>2, <2>2
    <3>2. UsedByParent(State, s) = 0
      BY <2>2, StateParts DEF UsedByParent
    <3>3. QED
      BY <3>1, <3>2, FS_EmptySet
  <2>3. QED
    BY <2>1, <2>2
<1>4. Users(State, s) = Cardinality({e \in OutEdges(conn, s) : phase[Dst(e)] # "stopped"})
                        + ImplicitUses({x \in Services : phase[x] # "stopped"}, s)
  BY StateParts DEF Users, UseEdges, LockedSet
<1>5. uses[s] = UsesCount(State, held, s)
  BY <1>1, StateParts DEF SInv, Exact, UsesOf
<1>6. held[s] \in Nat /\ UsedByParent(State, s) \in Nat
  BY <1>1 DEF SInv, Exact, HeldOf, UsedByParent
<1>7. CASE phase[s] = "running"
  <2>1. uses[s] = 1 + held[s] + UsedByParent(State, s) + Users(State, s)
    BY <1>5, <1>7, StateParts DEF UsesCount
  <2>2. QED
    BY <1>2, <1>3, <1>4, <1>7, <2>1
<1>8. CASE phase[s] = "starting"
  <2>1. uses[s] = 1 + held[s] + UsedByParent(State, s)
    BY <1>5, <1>8, StateParts DEF UsesCount
  <2>2. QED
    BY <1>2, <1>3, <1>6, <1>8, <2>1
<1>9. CASE phase[s] \notin {"starting", "running"}
  BY <1>5, <1>9, StateParts DEF UsesCount
<1>10. QED
  BY <1>7, <1>8, <1>9

\* Missing dependencies and pulls_ as the model states them.
LEMMA RequirementsFollow == SInv => RequirementsExact /\ PullsExact
<1>1. SUFFICES ASSUME SInv PROVE RequirementsExact /\ PullsExact
  OBVIOUS
<1>2. InnerOf(State) /\ OuterOf(State) /\ PullsOf(State)
  BY <1>1 DEF SInv, Exact
<1>3. RequirementsExact
  BY <1>2, StateParts DEF RequirementsExact, InnerOf, OuterOf, MissingInner, MissingEdges,
     MissingRoot
<1>4. PullsExact
  BY <1>2, StateParts DEF PullsExact, PullsOf, PullEdges
<1>5. QED
  BY <1>3, <1>4

\* pushes_ as the model states them.
LEMMA PushesFollow == Acyclic /\ SInv => PushesExact
<1>1. SUFFICES ASSUME Acyclic, SInv PROVE PushesExact
  OBVIOUS
<1>2. PushesOf(State)
  BY <1>1 DEF SInv, Exact
<1>3. QED
  BY <1>2, StateParts DEF PushesExact, PushesOf, PushEdges, OwnPush

\* A counter that counts is a natural number: none is decremented at zero.
LEMMA TypesFollow == Acyclic /\ SInv => TypeOK
<1>1. SUFFICES ASSUME Acyclic, SInv PROVE TypeOK
  OBVIOUS
<1>2. State \in States /\ Exact(State, held)
  BY <1>1 DEF SInv
<1>3. /\ phase \in [Services -> Phase] /\ uses \in [Services -> Int]
      /\ inner \in [Services -> Int] /\ running \in [Heads -> Int]
      /\ outer \in [Heads -> Int] /\ pushes \in [Heads -> Int]
      /\ pulls \in [Heads -> Int] /\ conn \in SUBSET Usages
      /\ down \in SUBSET Services /\ up \in SUBSET Services
      /\ recheck \in SUBSET Heads /\ target \in [Heads -> {"none", "start", "stop"}]
  BY <1>2, StateFields, StateParts
<1>4. /\ markStop \in [Heads -> BOOLEAN] /\ markStart \in [Heads -> BOOLEAN]
      /\ override \in [Heads -> BOOLEAN] /\ promise \in [Heads -> BOOLEAN]
      /\ processing \in BOOLEAN /\ dispatched \in BOOLEAN
  BY <1>2 DEF States, State
<1>5. \A s \in Services : uses[s] \in Nat
  <2>1. ASSUME NEW s \in Services PROVE uses[s] \in Nat
    <3>1. uses[s] = UsesCount(State, held, s) /\ held[s] \in Nat
      BY <1>2, StateParts DEF Exact, UsesOf, HeldOf
    <3>2. UsedByParent(State, s) \in Nat /\ Users(State, s) \in Nat
      BY <1>2, UsersType DEF UsedByParent
    <3>3. QED
      BY <3>1, <3>2 DEF UsesCount
  <2>2. QED
    BY <2>1
<1>6. \A s \in Services : inner[s] \in Nat
  <2>1. \A s \in Services : MissingInner(State, s) \subseteq Services
    BY GraphFacts DEF MissingInner, InnerChildren
  <2>2. QED
    BY <1>2, <2>1, StateParts, ServicesFinite DEF Exact, InnerOf
<1>7. \A h \in Heads : running[h] \in Nat
  <2>1. \A h \in Heads : ActiveMembers(State, h) \subseteq Services
    BY DEF ActiveMembers, ClusterMembers
  <2>2. QED
    BY <1>2, <2>1, StateParts, ServicesFinite DEF Exact, RunsOf
<1>8. \A h \in Heads : outer[h] \in Nat
  <2>1. \A h \in Heads : MissingRoot(State, h) \subseteq Services
                         /\ MissingEdges(State, h) \subseteq Edges(conn)
    BY <1>3, EdgeSets, StateParts DEF MissingRoot, ClusterMembers, MissingEdges
  <2>2. \A h \in Heads : Cardinality(MissingRoot(State, h)) \in Nat
                         /\ Cardinality(MissingEdges(State, h)) \in Nat
    BY <1>3, <2>1, ServicesFinite, EdgesFinite
  <2>3. QED
    BY <1>2, <2>2, StateParts DEF Exact, OuterOf
<1>9. \A h \in Heads : pushes[h] \in Nat /\ pulls[h] \in Nat
  <2>1. \A h \in Heads : PullEdges(State, h) \subseteq Edges(conn)
                         /\ PushEdges(State, h) \subseteq Edges(conn)
    BY <1>3, EdgeSets, StateParts DEF PullEdges, PushEdges
  <2>2. \A h \in Heads : /\ Cardinality(PullEdges(State, h)) \in Nat
                         /\ Cardinality(PushEdges(State, h)) \in Nat
                         /\ OwnPush(State, h) \in Nat
    BY <1>3, <2>1, EdgesFinite DEF OwnPush
  <2>3. \A h \in Heads : pulls[h] = Cardinality(PullEdges(State, h))
    BY <1>2, StateParts DEF Exact, PullsOf
  <2>4. \A h \in Heads : pushes[h] = OwnPush(State, h) + Cardinality(PushEdges(State, h))
    BY <1>1, <1>2, StateParts DEF Exact, PushesOf
  <2>5. QED
    BY <2>2, <2>3, <2>4
<1>10. released \subseteq conn \cap Weak
  BY <1>2, StateParts DEF Exact, ConnOf
<1>11. /\ uses \in [Services -> Nat] /\ inner \in [Services -> Nat]
       /\ running \in [Heads -> Nat] /\ outer \in [Heads -> Nat]
       /\ pushes \in [Heads -> Nat] /\ pulls \in [Heads -> Nat]
  BY <1>3, <1>5, <1>6, <1>7, <1>8, <1>9
<1>12. /\ \A f \in {markStop, markStart, override, promise} : f \in [Heads -> BOOLEAN]
       /\ \A f \in {running, outer, pushes, pulls} : f \in [Heads -> Nat]
  <2>1. \A f \in {markStop, markStart, override, promise} : f \in [Heads -> BOOLEAN]
    BY <1>4, Zenon
  <2>2. \A f \in {running, outer, pushes, pulls} : f \in [Heads -> Nat]
    BY <1>11, Zenon
  <2>3. QED
    BY <2>1, <2>2
<1>13. QED
  BY <1>1, <1>3, <1>4, <1>10, <1>11, <1>12 DEF TypeOK, SInv

\* uses_ is exact for every graph, usages in a cycle included: each use that a
\* locked user, a parent or another thread holds is counted once.
THEOREM UsesCorrect == Spec => []UsesExact
BY Invariant, UsesFollow, PTL

\* inner_deps_missing_, outer_deps_missing_ and pulls_ are exact for every graph.
THEOREM RequirementsCorrect == Spec => [](RequirementsExact /\ PullsExact)
BY Invariant, RequirementsFollow, PTL

\* In a graph without cycles pushes_ is exact too, and no counter is ever negative.
THEOREM CountersCorrect ==
  ASSUME Acyclic
  PROVE  Spec => []CountersExact
<1>1. SInv => CountersExact
  BY UsesFollow, RequirementsFollow, PushesFollow, TypesFollow DEF CountersExact
<1>2. QED
  BY <1>1, Invariant, PTL

\* The root stays settled: its cluster has no other member.
LEMMA RootSettles == SInv /\ RootSettled /\ [Lifecycle!Next]_phase => RootSettled'
<1>1. SUFFICES ASSUME SInv, RootSettled, Lifecycle!Next PROVE RootSettled'
  BY DEF RootSettled
<1>2. PICK s \in Services :
        \/ \E p \in {"starting", "running"} : Lifecycle!Start(s, p)
        \/ Lifecycle!Started(s) \/ Lifecycle!StopBegin(s)
        \/ Lifecycle!StopAtOnce(s) \/ Lifecycle!StopEnd(s)
  BY <1>1 DEF Lifecycle!Next
<1>3. /\ Root \in Services /\ Head[Root] = Root
      /\ \A x \in Services : Head[x] = Root => x = Root
  BY GraphFacts, RootAssumption
<1>4. phase \in [Services -> Phase]
  BY <1>1, StateFields, StateParts DEF SInv
<1>5. ASSUME NEW p \in {"starting", "running"}, Lifecycle!Start(s, p) PROVE RootSettled'
  BY <1>1, <1>3, <1>4, <1>5 DEF Lifecycle!Start, Lifecycle!LockedCluster, RootSettled
<1>6. CASE Lifecycle!Started(s) \/ Lifecycle!StopBegin(s)
  BY <1>1, <1>3, <1>4, <1>6 DEF Lifecycle!Started, Lifecycle!StopBegin, RootSettled
<1>7. CASE Lifecycle!StopAtOnce(s) \/ Lifecycle!StopEnd(s)
  <2>1. phase' = Lifecycle!AfterStop(s)
    BY <1>7 DEF Lifecycle!StopAtOnce, Lifecycle!StopEnd
  <2>2. CASE s = Root
    <3>1. Lifecycle!ClusterMembers(Head[s]) \ {s} = {}
      BY <1>3, <2>2 DEF Lifecycle!ClusterMembers
    <3>2. phase'[Root] = "stopped"
      BY <1>3, <2>1, <2>2, <3>1 DEF Lifecycle!AfterStop
    <3>3. QED
      BY <3>2 DEF RootSettled
  <2>3. CASE s # Root
    BY <1>1, <1>3, <1>4, <2>1, <2>3 DEF Lifecycle!AfterStop, RootSettled
  <2>4. QED
    BY <2>2, <2>3
<1>8. QED
  BY <1>2, <1>5, <1>6, <1>7

\* In a graph without cycles no service is ever queued to be started and to be
\* stopped, and what is queued is going to be processed.  The root is why this
\* takes an invariant of its own: Run starts it past the queue, and a stop of
\* the context clears the queue under the services that are stopping.
THEOREM QueueCorrect ==
  ASSUME Acyclic
  PROVE  Spec => []QueueSound
<1> DEFINE QueueInv == RootSettled /\ QInv(State)
<1>1. Init => QueueInv
  <2>1. SUFFICES ASSUME Init PROVE QueueInv
    OBVIOUS
  <2>2. RootSettled
    BY <2>1, GraphFacts DEF Init, RootSettled
  <2>3. State.down = {} /\ State.up = {}
    BY <2>1, StateParts DEF Init
  <2>4. QInv(State)
    BY <2>3 DEF QInv
  <2>5. QED
    BY <2>2, <2>4
<1>2. SInv /\ QueueInv /\ [Next]_vars => QueueInv'
  <2>1. SUFFICES ASSUME SInv, QueueInv, [Next]_vars PROVE QueueInv'
    OBVIOUS
  <2>2. QueueKept(State') /\ [Lifecycle!Next]_phase
    BY <2>1, NextStep DEF Step
  <2>3. RootSettled'
    BY <2>1, <2>2, RootSettles
  <2>4. QInv(State')
    BY <2>1, <2>2 DEF QueueKept
  <2>5. QInv(State)'
    BY <2>4
  <2>6. QED
    BY <2>3, <2>5
<1>3. QueueInv => QueueSound
  <2>1. SUFFICES ASSUME QInv(State) PROVE QueueSound
    OBVIOUS
  <2>2. down \cap up = {}
    BY <2>1, StateParts DEF QInv, Waits
  <2>3. down \cup up # {} => Busy(State)
    BY <2>1, StateParts DEF QInv
  <2>4. down \cup up # {} => processing \/ dispatched
    BY <2>3, StateParts, Zenon DEF Busy
  <2>5. QED
    BY <2>2, <2>4 DEF QueueSound
<1>4. QED
  BY <1>1, <1>2, <1>3, Invariant, PTL DEF Spec

\* While a service is locked everything it needs runs, whatever requests, usages,
\* hooks and other threads do.
THEOREM DependenciesOutlive == Spec => []Lifecycle!NeedsRun
<1>1. SInv => Lifecycle!NeedsRun
  BY DEF SInv, Lifecycle!IInv
<1>2. QED
  BY <1>1, Invariant, PTL

\* The members of a cluster are locked and unlocked together.
THEOREM ClustersAtomic == Spec => []Lifecycle!LockedTogether
<1>1. SInv => Lifecycle!LockedTogether
  BY DEF SInv, Lifecycle!IInv
<1>2. QED
  BY <1>1, Invariant, PTL

\* A service is up only while its inner children run.
THEOREM MembersNested == Spec => []Lifecycle!ChildrenRun
<1>1. SInv => Lifecycle!ChildrenRun
  BY DEF SInv, Lifecycle!IInv
<1>2. QED
  BY <1>1, Invariant, PTL

=============================================================================
