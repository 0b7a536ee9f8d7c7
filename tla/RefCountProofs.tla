--------------------------- MODULE RefCountProofs ---------------------------
(***************************************************************************)
(* For any finite set of threads: the strong count is exact, a service is  *)
(* never destructed while it is referenced or locked, and nothing that is  *)
(* still used is gone.                                                     *)
(*                                                                         *)
(* The argument: the count is the number of owners (StrongExact), so no    *)
(* owner is left when it becomes zero; every way to increase it needs an   *)
(* owner, or checks for zero, so zero is final (ZeroIsFinal); and a        *)
(* destructor runs only after the count was zero.                          *)
(*                                                                         *)
(* The weak count is exact as well (WeakExact): the Refs own one together, *)
(* from the first one to the actor that released the last one, and each    *)
(* posted task owns one.  Since zero is final one actor alone gets to the  *)
(* destructor, and posts one deleter at most (DestructInv).                *)
(***************************************************************************)
EXTENDS RefCount, FiniteSetTheorems, TLAPS

\* A set of owners is finite, and its size changes by one with one owner.
LEMMA Owners ==
  ASSUME NEW S \in SUBSET Actors, NEW a \in Actors
  PROVE  /\ IsFiniteSet(S) /\ Cardinality(S) \in Nat
         /\ a \notin S => Cardinality(S \cup {a}) = Cardinality(S) + 1
         /\ a \in S => Cardinality(S \ {a}) = Cardinality(S) - 1
         /\ a \in S => Cardinality(S) > 0
<1>1. IsFiniteSet(Actors)
  BY FS_AddElement, ActorsAssumption DEF Actors
<1>2. IsFiniteSet(S)
  BY <1>1, FS_Subset
<1>3. Cardinality(S) \in Nat
  BY <1>2, FS_CardinalityType
<1>4. a \notin S => Cardinality(S \cup {a}) = Cardinality(S) + 1
  BY <1>2, FS_AddElement
<1>5. a \in S => Cardinality(S \ {a}) = Cardinality(S) - 1
  BY <1>2, FS_RemoveElement
<1>6. a \in S => Cardinality(S) > 0
  BY <1>2, <1>3, FS_EmptySet
<1> QED
  BY <1>2, <1>3, <1>4, <1>5, <1>6

\* An appended task is the only new one, and no task is new in a tail.
LEMMA Tasks ==
  ASSUME NEW s \in Seq(Task), NEW task \in Task
  PROVE  /\ Append(s, task) \in Seq(Task)
         /\ \A i \in 1..Len(Append(s, task)) :
              \/ Append(s, task)[i] = task
              \/ i \in 1..Len(s) /\ Append(s, task)[i] = s[i]
         /\ s # <<>> => /\ Tail(s) \in Seq(Task)
                        /\ \A i \in 1..Len(Tail(s)) :
                             \E j \in 1..Len(s) : Tail(s)[i] = s[j]
                        /\ 1 \in 1..Len(s) /\ Head(s) = s[1]
<1>1. Append(s, task) \in Seq(Task)
  OBVIOUS
<1>2. \A i \in 1..Len(Append(s, task)) :
         \/ Append(s, task)[i] = task
         \/ i \in 1..Len(s) /\ Append(s, task)[i] = s[i]
  OBVIOUS
<1>3. ASSUME s # <<>>
      PROVE  /\ Tail(s) \in Seq(Task)
             /\ \A i \in 1..Len(Tail(s)) : \E j \in 1..Len(s) : Tail(s)[i] = s[j]
             /\ 1 \in 1..Len(s) /\ Head(s) = s[1]
  <2>1. Tail(s) \in Seq(Task) /\ 1 \in 1..Len(s) /\ Head(s) = s[1]
    BY <1>3
  <2>2. ASSUME NEW i \in 1..Len(Tail(s))
        PROVE  i + 1 \in 1..Len(s) /\ Tail(s)[i] = s[i + 1]
    BY <1>3
  <2> QED
    BY <2>1, <2>2
<1> QED
  BY <1>1, <1>2, <1>3

Queues == [Actors -> Seq(Task)]

\* A deleter is among the tasks of q.
DeleteIn(q) == \E a \in Actors : \E i \in 1..Len(q[a]) : q[a][i] = "delete"

\* Posting another task than the deleter, or taking a task, posts no deleter.
LEMMA PostTask ==
  ASSUME NEW q \in Queues, NEW a \in Actors, NEW task \in Task
  PROVE  LET r == [q EXCEPT ![a] = Append(@, task)]
         IN  r \in Queues /\ (DeleteIn(r) => DeleteIn(q) \/ task = "delete")
<1> DEFINE r == [q EXCEPT ![a] = Append(@, task)]
<1>1. q[a] \in Seq(Task)
  BY DEF Queues
<1>2. r \in Queues
  BY <1>1, Tasks DEF Queues
<1>3. ASSUME NEW b \in Actors, NEW i \in 1..Len(r[b]), r[b][i] = "delete"
      PROVE  DeleteIn(q) \/ task = "delete"
  <2>1. CASE b = a
    <3>1. r[b] = Append(q[a], task)
      BY <2>1 DEF Queues
    <3> QED
      BY <1>1, <1>3, <3>1, Tasks DEF DeleteIn
  <2>2. CASE b # a
    BY <1>3, <2>2 DEF DeleteIn, Queues
  <2> QED
    BY <2>1, <2>2
<1> QED
  BY <1>2, <1>3 DEF DeleteIn

\* Taking a task leaves no new deleter.
LEMMA TakeTask ==
  ASSUME NEW q \in Queues, NEW a \in Actors, q[a] # <<>>
  PROVE  LET r == [q EXCEPT ![a] = Tail(@)]
         IN  /\ r \in Queues
             /\ DeleteIn(r) => DeleteIn(q)
             /\ Head(q[a]) = "delete" => DeleteIn(q)
<1> DEFINE r == [q EXCEPT ![a] = Tail(@)]
<1>0. "gc" \in Task
  BY DEF Task
<1>1. q[a] \in Seq(Task)
  BY DEF Queues
<1>2. r \in Queues
  BY <1>1, Tasks DEF Queues
<1>3. Head(q[a]) = "delete" => DeleteIn(q)
  BY <1>1, Tasks DEF DeleteIn, Task
<1>4. ASSUME NEW b \in Actors, NEW i \in 1..Len(r[b]), r[b][i] = "delete"
      PROVE  DeleteIn(q)
  <2>1. CASE b = a
    <3>1. r[b] = Tail(q[a])
      BY <2>1 DEF Queues
    <3>2. \A k \in 1..Len(Tail(q[a])) :
             \E j \in 1..Len(q[a]) : Tail(q[a])[k] = q[a][j]
      BY <1>0, <1>1, Tasks
    <3>3. PICK j \in 1..Len(q[a]) : Tail(q[a])[i] = q[a][j]
      BY <3>1, <3>2
    <3> QED
      BY <1>4, <3>1, <3>3 DEF DeleteIn
  <2>2. CASE b # a
    BY <1>4, <2>2 DEF DeleteIn, Queues
  <2> QED
    BY <2>1, <2>2
<1> QED
  BY <1>2, <1>3, <1>4 DEF DeleteIn

\* The parts of the invariant in the words of the lemmas.
DeletePosted == DeleteIn(queue)

\* ZeroIsFinal in the words of the lemmas.
LEMMA ZeroForm ==
  ZeroIsFinal <=>
    (destructed \/ DeletePosted
       \/ (\E a \in Actors : pc[a] \in {"destruct", "release"}) => strong = 0)
BY DEF ZeroIsFinal, DeletePosted, DeleteIn, Posted

\* Whoever owns the service keeps the count above zero.
LEMMA OwnerCounts ==
  ASSUME IInv
  PROVE  /\ Cardinality(ref) \in Nat
         /\ (\E a \in Actors : a \in ref) \/ taskRef \/ Locked => strong > 0
<1>1. ref \in SUBSET Actors /\ Loop \in Actors
  BY DEF IInv, TypeOK, Actors
<1>2. Cardinality(ref) \in Nat
  BY <1>1, Owners
<1>3. \A a \in Actors : a \in ref => Cardinality(ref) > 0
  BY <1>1, Owners
<1>4. strong = Cardinality(ref) + AsCount(taskRef) + AsCount(Locked)
  BY DEF IInv, StrongExact
<1>5. taskRef => AsCount(taskRef) = 1
  BY DEF AsCount
<1>6. Locked => AsCount(Locked) = 1
  BY DEF AsCount
<1>7. AsCount(taskRef) \in {0, 1} /\ AsCount(Locked) \in {0, 1}
  BY DEF AsCount
<1> QED
  BY <1>2, <1>3, <1>4, <1>5, <1>6, <1>7

\* In the beginning one Ref owns the service.
LEMMA InitIInv == Init => IInv
<1> SUFFICES ASSUME Init PROVE IInv
  OBVIOUS
<1>1. PICK a \in Actors : ref = {a}
  BY DEF Init
<1>2. TypeOK
  <2>1. queue \in [Actors -> Seq(Task)] /\ pc \in [Actors -> Pc]
    BY DEF Init, Pc
  <2>2. ops \in 0..MaxOps /\ strong \in Int /\ weak \in Int
    BY MaxOpsAssumption DEF Init
  <2>3. ref \in SUBSET Actors
    BY <1>1
  <2> QED
    BY <2>1, <2>2, <2>3 DEF Init, TypeOK, Phase
<1>3. StrongExact
  <2>1. Cardinality(ref) = 1
    BY <1>1, FS_Singleton
  <2>2. strong = 1 /\ ~taskRef /\ ~Locked
    BY DEF Init, Locked
  <2> QED
    BY <2>1, <2>2 DEF StrongExact, AsCount
<1>4. ~DeleteIn(queue)
  BY DEF Init, DeleteIn
<1>5. ZeroIsFinal
  BY <1>4, ZeroForm DEF Init, DeletePosted
<1> QED
  BY <1>2, <1>3, <1>5 DEF IInv

\* A step that leaves the owners and the count alone keeps the count exact.
LEMMA CountKept ==
  ASSUME StrongExact, UNCHANGED <<strong, ref, taskRef>>, Locked' = Locked
  PROVE  StrongExact'
BY DEF StrongExact

\* A step that brings the service no closer to its destructor.
LEMMA ZeroKept ==
  ASSUME ZeroIsFinal, strong' = strong, destructed' => destructed,
         DeleteIn(queue') => DeleteIn(queue),
         \A a \in Actors : pc'[a] \in {"destruct", "release"} =>
           \E b \in Actors : pc[b] \in {"destruct", "release"}
  PROVE  ZeroIsFinal'
BY DEF ZeroIsFinal, DeleteIn, Posted

\* A step that gives the service one more owner while it has one.
LEMMA ZeroNot ==
  ASSUME ZeroIsFinal, strong # 0, UNCHANGED <<destructed, pc>>,
         DeleteIn(queue') => DeleteIn(queue)
  PROVE  ZeroIsFinal'
BY DEF ZeroIsFinal, DeleteIn, Posted

\* decrease(strong_arg_t) by an owner.
LEMMA ZeroReached ==
  ASSUME IInv, strong > 0, NEW a \in Actors, DecreaseStrong(a),
         destructed' = destructed, DeleteIn(queue') => DeleteIn(queue)
  PROVE  ZeroIsFinal' /\ pc' \in [Actors -> Pc] /\ strong' \in Int
<1>1. strong \in Int /\ pc \in [Actors -> Pc]
  BY DEF IInv, TypeOK
<1>2. /\ ~destructed /\ ~DeleteIn(queue)
      /\ \A b \in Actors : pc[b] \notin {"destruct", "release"}
  BY <1>1 DEF IInv, ZeroIsFinal, DeleteIn, Posted
<1>3. CASE strong = 1
  BY <1>1, <1>3, ZeroForm DEF DecreaseStrong, ZeroIsFinal, DeleteIn, Posted, Pc
<1>4. CASE strong # 1
  <2>1. \A b \in Actors : pc'[b] \notin {"destruct", "release"}
    BY <1>1, <1>2, <1>4 DEF DecreaseStrong
  <2>2. pc' \in [Actors -> Pc] /\ strong' \in Int
    BY <1>1, <1>4 DEF DecreaseStrong, Pc
  <2> QED
    BY <1>2, <2>1, <2>2 DEF ZeroIsFinal, DeleteIn, Posted
<1> QED
  BY <1>3, <1>4

\* Each callback of the control block keeps the invariant.
LEMMA CallbackIInv == IInv /\ Callback => IInv'
<1> SUFFICES ASSUME IInv, Callback PROVE IInv'
  OBVIOUS
<1> USE DEF IInv
<1>0. queue \in Queues /\ Loop \in Actors /\ "gc" \in Task /\ "delete" \in Task
  BY DEF TypeOK, Queues, Actors, Task
<1>1. CASE OnUniqueLoop
  <2>1. TypeOK'
    BY <1>1 DEF OnUniqueLoop, ImmediateStop, TypeOK, Pc, Phase
  <2>2. StrongExact'
    BY <1>1, CountKept DEF OnUniqueLoop, ImmediateStop, Locked
  <2>3. ZeroIsFinal'
    BY <1>1, ZeroKept DEF OnUniqueLoop, TypeOK
  <2> QED
    BY <2>1, <2>2, <2>3
<1>2. ASSUME NEW a \in Actors, OnUnique(a) PROVE IInv'
  <2>1. TypeOK'
    BY <1>2 DEF OnUnique, TypeOK, Pc
  <2>2. StrongExact'
    BY <1>2, CountKept DEF OnUnique, Locked
  <2>3. ZeroIsFinal'
    BY <1>2, ZeroKept DEF OnUnique, TypeOK
  <2> QED
    BY <2>1, <2>2, <2>3
<1>3. ASSUME NEW a \in Actors, PostGc(a) PROVE IInv'
  <2>0. queue' \in Queues /\ (DeleteIn(queue') => DeleteIn(queue))
    BY <1>0, <1>3, PostTask DEF PostGc, Post
  <2>1. TypeOK'
    <3>1. queue' \in [Actors -> Seq(Task)]
      BY <2>0 DEF Queues
    <3>2. pc' \in [Actors -> Pc] /\ weak' \in Int
      BY <1>3 DEF PostGc, TypeOK, Pc
    <3> QED
      BY <1>3, <3>1, <3>2 DEF PostGc, TypeOK
  <2>2. StrongExact'
    BY <1>3, CountKept DEF PostGc, Locked
  <2>3. ZeroIsFinal'
    BY <1>3, <2>0, ZeroKept DEF PostGc, TypeOK
  <2> QED
    BY <2>1, <2>2, <2>3
<1>4. ASSUME NEW a \in Actors, OnUniqueFreed(a) PROVE IInv'
  <2>1. TypeOK'
    BY <1>4 DEF OnUniqueFreed, TypeOK, Pc
  <2>2. StrongExact'
    BY <1>4, CountKept DEF OnUniqueFreed, Locked
  <2>3. ZeroIsFinal'
    BY <1>4, ZeroKept DEF OnUniqueFreed, TypeOK
  <2> QED
    BY <2>1, <2>2, <2>3
<1>5. ASSUME NEW a \in Actors, OnDestruct(a) PROVE IInv'
  <2>0. queue' \in Queues
    BY <1>0, <1>5, PostTask DEF OnDestruct, Post
  <2>1. TypeOK'
    <3>1. queue' \in [Actors -> Seq(Task)]
      BY <2>0 DEF Queues
    <3>2. pc' \in [Actors -> Pc]
      BY <1>5 DEF OnDestruct, TypeOK, Pc
    <3>3. weak' \in Int
      BY <1>5 DEF OnDestruct, TypeOK
    <3>4. destructed' \in BOOLEAN
      BY <1>5, Zenon DEF OnDestruct, TypeOK
    <3> QED
      BY <1>5, <3>1, <3>2, <3>3, <3>4 DEF OnDestruct, TypeOK
  <2>2. StrongExact'
    BY <1>5, CountKept DEF OnDestruct, Locked
  <2>3. strong = 0
    BY <1>5 DEF OnDestruct, ZeroIsFinal
  <2>4. ZeroIsFinal'
    BY <1>5, <2>3 DEF OnDestruct, ZeroIsFinal
  <2> QED
    BY <2>1, <2>2, <2>4
<1>6. ASSUME NEW a \in Actors, ReleaseWeak(a) PROVE IInv'
  <2>1. TypeOK'
    BY <1>6 DEF ReleaseWeak, DecreaseWeak, TypeOK, Pc
  <2>2. StrongExact'
    BY <1>6, CountKept DEF ReleaseWeak, Locked
  <2>3. ZeroIsFinal'
    BY <1>6, ZeroKept DEF ReleaseWeak, TypeOK
  <2> QED
    BY <2>1, <2>2, <2>3
<1> QED
  BY <1>1, <1>2, <1>3, <1>4, <1>5, <1>6 DEF Callback

\* Each step of an owner, and each request to the scheduler, keeps it.
LEMMA RequestIInv == IInv /\ Request => IInv'
<1> SUFFICES ASSUME IInv, Request PROVE IInv'
  OBVIOUS
<1> USE DEF IInv
<1>0. queue \in Queues /\ Loop \in Actors /\ "start" \in Task /\ "process" \in Task
  BY DEF TypeOK, Queues, Actors, Task
<1>1. CASE UserStart
  <2>0. queue' \in Queues /\ (DeleteIn(queue') => DeleteIn(queue))
    BY <1>0, <1>1, PostTask DEF UserStart, QueueStart
  <2>1. TypeOK'
    <3>1. queue' \in [Actors -> Seq(Task)]
      BY <2>0 DEF Queues
    <3>2. queued' \in BOOLEAN
      BY <1>1 DEF UserStart, QueueStart, TypeOK
    <3>3. ops' \in 0..MaxOps
      BY <1>1, MaxOpsAssumption DEF UserStart, NewOp, TypeOK
    <3> QED
      BY <1>1, <3>1, <3>2, <3>3 DEF UserStart, TypeOK
  <2>2. StrongExact'
    BY <1>1, CountKept DEF UserStart, Locked
  <2>3. ZeroIsFinal'
    BY <1>1, <2>0, ZeroKept DEF UserStart, TypeOK
  <2> QED
    BY <2>1, <2>2, <2>3
<1>2. CASE RequestStop
  <2>1. TypeOK'
    BY <1>2 DEF RequestStop, TypeOK, Phase
  <2>2. StrongExact'
    BY <1>2, CountKept DEF RequestStop, Locked
  <2>3. ZeroIsFinal'
    BY <1>2, ZeroKept DEF RequestStop, TypeOK
  <2> QED
    BY <2>1, <2>2, <2>3
<1>3. CASE ParentDestroy
  <2>1. TypeOK'
    BY <1>3 DEF ParentDestroy, TypeOK, Phase
  <2>2. StrongExact'
    BY <1>3, CountKept DEF ParentDestroy, Locked
  <2>3. ZeroIsFinal'
    BY <1>3, ZeroKept DEF ParentDestroy, TypeOK
  <2> QED
    BY <2>1, <2>2, <2>3
<1>4. ASSUME NEW a \in Actors, MakeWeak(a) PROVE IInv'
  <2>1. TypeOK'
    BY <1>4, MaxOpsAssumption DEF MakeWeak, NewOp, TypeOK
  <2>2. StrongExact'
    BY <1>4, CountKept DEF MakeWeak, Locked
  <2>3. ZeroIsFinal'
    BY <1>4, ZeroKept DEF MakeWeak, TypeOK
  <2> QED
    BY <2>1, <2>2, <2>3
<1>5. ASSUME NEW a \in Actors, LockWeak(a) PROVE IInv'
  <2>1. TypeOK'
    BY <1>5, MaxOpsAssumption DEF LockWeak, NewOp, TypeOK
  <2>2. StrongExact'
    <3>1. Cardinality(ref') = Cardinality(ref) + 1 /\ Cardinality(ref) \in Nat
      BY <1>5, Owners DEF LockWeak, TypeOK
    <3> QED
      BY <1>5, <3>1 DEF LockWeak, StrongExact, AsCount, Locked
  <2>3. ZeroIsFinal'
    BY <1>5, ZeroNot DEF LockWeak, TypeOK
  <2> QED
    BY <2>1, <2>2, <2>3
<1>6. ASSUME NEW a \in Actors, Drop(a) PROVE IInv'
  <2>1. strong > 0
    BY <1>6, OwnerCounts DEF Drop
  <2>2. ZeroIsFinal' /\ pc' \in [Actors -> Pc] /\ strong' \in Int
    BY <1>6, <2>1, ZeroReached DEF Drop
  <2>3. TypeOK'
    BY <1>6, <2>2 DEF Drop, TypeOK
  <2>4. StrongExact'
    <3>1. Cardinality(ref') = Cardinality(ref) - 1 /\ Cardinality(ref) \in Nat
      BY <1>6, Owners DEF Drop, TypeOK
    <3> QED
      BY <1>6, <3>1 DEF Drop, DecreaseStrong, StrongExact, AsCount, Locked
  <2> QED
    BY <2>2, <2>3, <2>4
<1>7. ASSUME NEW a \in Actors, DropWeak(a) PROVE IInv'
  <2>1. TypeOK'
    BY <1>7 DEF DropWeak, DecreaseWeak, TypeOK
  <2>2. StrongExact'
    BY <1>7, CountKept DEF DropWeak, Locked
  <2>3. ZeroIsFinal'
    BY <1>7, ZeroKept DEF DropWeak, TypeOK
  <2> QED
    BY <2>1, <2>2, <2>3
<1>8. ASSUME NEW a \in Actors, RequestStart(a) PROVE IInv'
  <2>0. queue' \in Queues /\ (DeleteIn(queue') => DeleteIn(queue))
    BY <1>0, <1>8, PostTask DEF RequestStart, Post
  <2>1. TypeOK'
    <3>1. queue' \in [Actors -> Seq(Task)]
      BY <2>0 DEF Queues
    <3>2. ops' \in 0..MaxOps /\ weak' \in Int
      BY <1>8, MaxOpsAssumption DEF RequestStart, NewOp, TypeOK
    <3> QED
      BY <1>8, <3>1, <3>2 DEF RequestStart, TypeOK
  <2>2. StrongExact'
    BY <1>8, CountKept DEF RequestStart, Locked
  <2>3. ZeroIsFinal'
    BY <1>8, <2>0, ZeroKept DEF RequestStart, TypeOK
  <2> QED
    BY <2>1, <2>2, <2>3
<1>9. ASSUME NEW a \in Actors, NEW b \in Actors, Copy(a, b) PROVE IInv'
  <2>0. strong > 0
    BY <1>9, OwnerCounts DEF Copy
  <2>1. TypeOK'
    BY <1>9, MaxOpsAssumption DEF Copy, NewOp, TypeOK
  <2>2. StrongExact'
    <3>1. Cardinality(ref') = Cardinality(ref) + 1 /\ Cardinality(ref) \in Nat
      BY <1>9, Owners DEF Copy, TypeOK
    <3> QED
      BY <1>9, <3>1 DEF Copy, StrongExact, AsCount, Locked
  <2>3. ZeroIsFinal'
    BY <1>9, <2>0, ZeroNot DEF Copy, TypeOK
  <2> QED
    BY <2>1, <2>2, <2>3
<1> QED
  BY <1>1, <1>2, <1>3, <1>4, <1>5, <1>6, <1>7, <1>8, <1>9 DEF Request

\* What taking a task leaves in the queues.
LEMMA Takes ==
  ASSUME IInv, NEW a \in Actors, NEW task, Take(a, task)
  PROVE  /\ Taken(a) \in Queues
         /\ DeleteIn(Taken(a)) => DeleteIn(queue)
         /\ task = "delete" => DeleteIn(queue)
         /\ pc[Loop] = "idle" /\ ~taskRef
<1>1. queue \in Queues /\ queue[a] # <<>> /\ Head(queue[a]) = task
  BY DEF IInv, TypeOK, Queues, Take
<1> QED
  BY <1>1, TakeTask DEF Taken, Take, LoopFree

\* Each step of the event loop keeps it.
LEMMA LoopIInv == IInv /\ LoopStep => IInv'
<1> SUFFICES ASSUME IInv, LoopStep PROVE IInv'
  OBVIOUS
<1> USE DEF IInv
<1>0. queue \in Queues /\ Loop \in Actors /\ "restart" \in Task /\ "process" \in Task
  BY DEF TypeOK, Queues, Actors, Task
<1>1. CASE Unlock
  <2>1. Locked /\ strong > 0
    BY <1>1, OwnerCounts DEF Unlock, Locked
  <2>2. queue' \in Queues /\ (DeleteIn(queue') => DeleteIn(queue))
    BY <1>0, <1>1, PostTask DEF Unlock, Post
  <2>3. ZeroIsFinal' /\ pc' \in [Actors -> Pc] /\ strong' \in Int
    BY <1>0, <1>1, <2>1, <2>2, ZeroReached DEF Unlock
  <2>4. TypeOK'
    <3>1. queue' \in [Actors -> Seq(Task)]
      BY <2>2 DEF Queues
    <3>2. weak' \in Int
      BY <1>1 DEF Unlock, TypeOK
    <3> QED
      BY <1>1, <2>3, <3>1, <3>2 DEF Unlock, TypeOK, Phase
  <2>5. StrongExact'
    <3>1. ~Locked' /\ strong' = strong - 1 /\ ref' = ref /\ taskRef' = taskRef
      BY <1>1 DEF Unlock, Locked, DecreaseStrong
    <3> QED
      BY <2>1, <3>1, OwnerCounts DEF StrongExact, AsCount
  <2> QED
    BY <2>3, <2>4, <2>5
<1>2. CASE GcCheck
  <2>1. TypeOK'
    BY <1>2 DEF GcCheck, ImmediateStop, TypeOK, Pc, Phase
  <2>2. StrongExact'
    BY <1>2, CountKept DEF GcCheck, ImmediateStop, Locked
  <2>3. ZeroIsFinal'
    BY <1>2, ZeroKept DEF GcCheck, TypeOK
  <2> QED
    BY <2>1, <2>2, <2>3
<1>3. CASE TaskEnd
  <2>1. taskRef /\ strong > 0
    BY <1>3, OwnerCounts DEF TaskEnd
  <2>2. ZeroIsFinal' /\ pc' \in [Actors -> Pc] /\ strong' \in Int
    BY <1>0, <1>3, <2>1, ZeroReached DEF TaskEnd
  <2>3. TypeOK'
    BY <1>3, <2>2 DEF TaskEnd, TypeOK
  <2>4. StrongExact'
    <3>1. Locked' = Locked /\ strong' = strong - 1 /\ ref' = ref /\ ~taskRef'
      BY <1>3 DEF TaskEnd, Locked, DecreaseStrong
    <3> QED
      BY <2>1, <3>1, OwnerCounts DEF StrongExact, AsCount
  <2> QED
    BY <2>2, <2>3, <2>4
<1>4. CASE TaskProcess
  <2>0. queue' \in Queues /\ (DeleteIn(queue') => DeleteIn(queue))
    BY <1>0, <1>4, Takes DEF TaskProcess
  <2>1. queue' \in [Actors -> Seq(Task)]
    BY <2>0 DEF Queues
  <2>2. CASE queued /\ wanted /\ phase = "stopped" /\ strong # 0
    <3>1. /\ strong' = strong + 1 /\ phase' = "running"
          /\ UNCHANGED <<weak, ref, wref, taskRef, pc, wanted, destructed, freed,
                          ops, failed>>
          /\ queued' = FALSE
      BY <1>4, <2>2 DEF TaskProcess
    <3>2. TypeOK'
      <4>1. strong' \in Int
        BY <3>1 DEF TypeOK
      <4>2. phase' \in Phase /\ queued' \in BOOLEAN
        BY <3>1 DEF Phase
      <4> QED
        BY <2>1, <3>1, <4>1, <4>2 DEF TypeOK
    <3>3. StrongExact'
      <4>1. ~Locked /\ Locked' /\ strong' = strong + 1 /\ UNCHANGED <<ref, taskRef>>
        BY <2>2, <3>1 DEF Locked
      <4> QED
        BY <4>1, OwnerCounts DEF StrongExact, AsCount
    <3>4. ZeroIsFinal'
      BY <2>0, <2>2, <3>1, ZeroNot
    <3> QED
      BY <3>2, <3>3, <3>4
  <2>3. CASE ~(queued /\ wanted /\ phase = "stopped" /\ strong # 0)
    <3>1. /\ UNCHANGED <<strong, phase, weak, ref, wref, taskRef, pc, wanted,
                          destructed, freed, ops>>
          /\ queued' = FALSE /\ failed' \in {failed, "revived"}
      BY <1>4, <2>3 DEF TaskProcess
    <3>2. TypeOK'
      BY <2>1, <3>1 DEF TypeOK
    <3>3. StrongExact'
      BY <3>1, CountKept DEF Locked
    <3>4. ZeroIsFinal'
      BY <2>0, <3>1, ZeroKept
    <3> QED
      BY <3>2, <3>3, <3>4
  <2> QED
    BY <2>2, <2>3
<1>5. ASSUME NEW a \in Actors, TaskExpired(a) PROVE IInv'
  <2>0. queue' \in Queues /\ (DeleteIn(queue') => DeleteIn(queue))
    BY <1>5, Takes DEF TaskExpired
  <2>1. TypeOK'
    <3>1. queue' \in [Actors -> Seq(Task)]
      BY <2>0 DEF Queues
    <3> QED
      BY <1>5, <3>1 DEF TaskExpired, DecreaseWeak, TypeOK
  <2>2. StrongExact'
    BY <1>5, CountKept DEF TaskExpired, Locked
  <2>3. ZeroIsFinal'
    BY <1>5, <2>0, ZeroKept DEF TaskExpired, TypeOK
  <2> QED
    BY <2>1, <2>2, <2>3
<1>6. ASSUME NEW a \in Actors, TaskStart(a) PROVE IInv'
  <2>0. /\ Taken(a) \in Queues /\ (DeleteIn(Taken(a)) => DeleteIn(queue))
        /\ ~taskRef
    BY <1>6, Takes DEF TaskStart
  <2>1. queue' \in Queues /\ (DeleteIn(queue') => DeleteIn(queue))
    BY <1>0, <1>6, <2>0, PostTask DEF TaskStart, QueueStart
  <2>2. TypeOK'
    <3>1. queue' \in [Actors -> Seq(Task)]
      BY <2>1 DEF Queues
    <3>2. wanted' \in BOOLEAN /\ queued' \in BOOLEAN
      BY <1>6 DEF TaskStart, QueueStart, TypeOK
    <3>3. strong' \in Int /\ weak' \in Int
      BY <1>6 DEF TaskStart, TypeOK
    <3> QED
      BY <1>6, <3>1, <3>2, <3>3 DEF TaskStart, TypeOK
  <2>3. StrongExact'
    <3>1. Locked' = Locked /\ strong' = strong + 1 /\ ref' = ref /\ taskRef'
      BY <1>6 DEF TaskStart, Locked
    <3> QED
      BY <2>0, <3>1, OwnerCounts DEF StrongExact, AsCount
  <2>4. ZeroIsFinal'
    BY <1>6, <2>1, ZeroNot DEF TaskStart, TypeOK
  <2> QED
    BY <2>2, <2>3, <2>4
<1>7. ASSUME NEW a \in Actors, TaskGc(a) PROVE IInv'
  <2>0. /\ queue' \in Queues /\ (DeleteIn(queue') => DeleteIn(queue))
        /\ ~taskRef
    BY <1>7, Takes DEF TaskGc
  <2>1. TypeOK'
    <3>1. queue' \in [Actors -> Seq(Task)]
      BY <2>0 DEF Queues
    <3>2. pc' \in [Actors -> Pc]
      BY <1>7 DEF TaskGc, TypeOK, Pc
    <3> QED
      BY <1>7, <3>1, <3>2 DEF TaskGc, TypeOK
  <2>2. StrongExact'
    <3>1. Locked' = Locked /\ strong' = strong + 1 /\ ref' = ref /\ taskRef'
      BY <1>7 DEF TaskGc, Locked
    <3> QED
      BY <2>0, <3>1, OwnerCounts DEF StrongExact, AsCount
  <2>3. ZeroIsFinal'
    <3>1. \A b \in Actors : pc'[b] \in {"destruct", "release"} =>
                              pc[b] \in {"destruct", "release"}
      BY <1>7 DEF TaskGc, TypeOK
    <3>2. /\ ~destructed /\ ~DeleteIn(queue)
          /\ \A b \in Actors : pc[b] \notin {"destruct", "release"}
      BY <1>7 DEF TaskGc, TypeOK, ZeroIsFinal, DeleteIn, Posted
    <3>3. destructed' = destructed
      BY <1>7 DEF TaskGc
    <3> QED
      BY <2>0, <3>1, <3>2, <3>3 DEF ZeroIsFinal, DeleteIn, Posted
  <2> QED
    BY <2>1, <2>2, <2>3
<1>8. ASSUME NEW a \in Actors, TaskDelete(a) PROVE IInv'
  <2>0. /\ queue' \in Queues /\ DeleteIn(queue)
    BY <1>8, Takes DEF TaskDelete
  <2>1. strong = 0
    BY <2>0 DEF ZeroIsFinal, DeleteIn, Posted
  <2>2. ~Locked
    BY <2>1, OwnerCounts
  <2>3. TypeOK'
    <3>1. queue' \in [Actors -> Seq(Task)]
      BY <2>0 DEF Queues
    <3>2. weak' \in Int
      BY <1>8 DEF TaskDelete, DecreaseWeak, TypeOK
    <3>3. phase' \in Phase /\ freed' \in BOOLEAN
      BY <1>8 DEF TaskDelete, DecreaseWeak, Phase
    <3> QED
      BY <1>8, <3>1, <3>2, <3>3 DEF TaskDelete, TypeOK
  <2>4. StrongExact'
    BY <1>8, <2>2, CountKept DEF TaskDelete, Locked
  <2>5. ZeroIsFinal'
    BY <1>8, <2>1 DEF TaskDelete, ZeroIsFinal
  <2> QED
    BY <2>3, <2>4, <2>5
<1> QED
  BY <1>1, <1>2, <1>3, <1>4, <1>5, <1>6, <1>7, <1>8 DEF LoopStep

\* A step that changes nothing keeps the invariant.
LEMMA StutterIInv == IInv /\ UNCHANGED vars => IInv'
BY DEF IInv, TypeOK, StrongExact, ZeroIsFinal, Posted, Locked, vars

\* The inductive invariant holds in every behaviour of the specification.
THEOREM Invariant == Spec => []IInv
<1>1. Init => IInv
  BY InitIInv
<1>2. IInv /\ [Next]_vars => IInv'
  BY CallbackIInv, LoopIInv, RequestIInv, StutterIInv DEF Next
<1> QED
  BY <1>1, <1>2, PTL DEF Spec

\* strong_ is the number of owners of the service, for any number of threads.
THEOREM CountExact == Spec => []StrongExact
<1>1. IInv => StrongExact
  BY DEF IInv
<1> QED
  BY <1>1, Invariant, PTL

\* No service is destructed while a Ref to it exists or while it is locked, for
\* any number of threads.
THEOREM Alive == Spec => []AliveWhileReferenced
<1>1. IInv => AliveWhileReferenced
  <2> SUFFICES ASSUME IInv, Referenced, destructed PROVE FALSE
    BY DEF AliveWhileReferenced
  <2>1. strong = 0
    BY DEF IInv, ZeroIsFinal
  <2>2. (\E a \in Actors : a \in ref) \/ taskRef \/ Locked
    BY DEF IInv, TypeOK, Referenced
  <2> QED
    BY <2>1, <2>2, OwnerCounts
<1> QED
  BY <1>1, Invariant, PTL

-----------------------------------------------------------------------------
(* The weak count and the destructor. *)

\* The posted tasks that own a weak count, by their place in the queues.
Slots(q) ==
  {s \in Actors \X Nat : s[2] \in 1..Len(q[s[1]]) /\ q[s[1]][s[2]] # "process"}

\* At most one deleter is among the tasks of q.
DeleteOnce(q) ==
  \A a, b \in Actors : \A i \in 1..Len(q[a]), j \in 1..Len(q[b]) :
    q[a][i] = "delete" /\ q[b][j] = "delete" => a = b /\ i = j

\* The actor took the last strong reference and has not released its weak count.
Ending(a) == pc[a] \in {"destruct", "release"}

\* The Refs together still own their one weak count.
Held == strong > 0 \/ \E a \in Actors : Ending(a)

\* weak_ is the number of WeakRefs, plus one for each task that owns one and one
\* for all Refs; the block is deallocated only when nothing is left.
WeakExact ==
  /\ IsFiniteSet(Slots(queue))
  /\ weak = Cardinality(wref) + Cardinality(Slots(queue)) + AsCount(Held)
  /\ freed => weak = 0

\* One actor at a time is about to destruct the service, or one deleter is posted,
\* or it is destructed; what is destructed is destroyed and not queued.
DestructInv ==
  /\ \A a, b \in Actors : Ending(a) /\ Ending(b) => a = b
  /\ \A a \in Actors : pc[a] = "destruct" => ~destructed /\ ~DeleteIn(queue)
  /\ DeleteIn(queue) => ~destructed
  /\ DeleteOnce(queue)
  /\ destructed => phase = "destroyed"
  /\ phase = "destroyed" => ~queued

\* Posting a task adds one slot, unless it is process.
LEMMA SlotsPost ==
  ASSUME NEW q \in Queues, NEW a \in Actors, NEW task \in Task,
         IsFiniteSet(Slots(q))
  PROVE  LET r == [q EXCEPT ![a] = Append(@, task)]
         IN  /\ IsFiniteSet(Slots(r))
             /\ Cardinality(Slots(r)) =
                  Cardinality(Slots(q)) + AsCount(task # "process")
<1> DEFINE r == [q EXCEPT ![a] = Append(@, task)]
<1>1. q[a] \in Seq(Task) /\ r[a] = Append(q[a], task)
  BY DEF Queues
<1>2. \A b \in Actors : b # a => r[b] = q[b]
  BY DEF Queues
<1>3. PICK n \in Nat : n = Len(q[a])
  BY <1>1
<1>4. /\ Len(r[a]) = n + 1 /\ r[a][n + 1] = task
      /\ \A i \in 1..n : r[a][i] = q[a][i]
  BY <1>1, <1>3
<1> HIDE DEF r
<1>5. ASSUME NEW s \in Actors \X Nat
      PROVE  s \in Slots(r) <=> s \in Slots(q) \/ (task # "process" /\ s = <<a, n + 1>>)
  <2>1. CASE s[1] = a
    <3>1. PICK i \in Nat : s = <<a, i>>
      BY <2>1
    <3>2. s \in Slots(r) <=> i \in 1..n + 1 /\ r[a][i] # "process"
      BY <1>4, <3>1 DEF Slots
    <3>3. s \in Slots(q) <=> i \in 1..n /\ q[a][i] # "process"
      BY <1>3, <3>1 DEF Slots
    <3>4. s = <<a, n + 1>> <=> i = n + 1
      BY <3>1
    <3>5. i \in 1..n + 1 <=> i \in 1..n \/ i = n + 1
      OBVIOUS
    <3>6. n + 1 \notin 1..n
      OBVIOUS
    <3> QED
      BY <1>4, <3>2, <3>3, <3>4, <3>5, <3>6
  <2>2. CASE s[1] # a
    BY <1>2, <2>2 DEF Slots
  <2> QED
    BY <2>1, <2>2
<1>6. Slots(r) \subseteq Actors \X Nat /\ Slots(q) \subseteq Actors \X Nat
      /\ <<a, n + 1>> \in Actors \X Nat
  BY DEF Slots
<1>7. CASE task = "process"
  <2>1. Slots(r) = Slots(q)
    BY <1>5, <1>6, <1>7
  <2>2. Cardinality(Slots(q)) \in Nat
    BY FS_CardinalityType
  <2> QED
    BY <1>7, <2>1, <2>2 DEF AsCount, r
<1>8. CASE task # "process"
  <2>1. Slots(r) = Slots(q) \cup {<<a, n + 1>>}
    BY <1>5, <1>6, <1>8
  <2>2. <<a, n + 1>> \notin Slots(q)
    BY <1>3 DEF Slots
  <2>3. IsFiniteSet(Slots(r)) /\ Cardinality(Slots(r)) = Cardinality(Slots(q)) + 1
    BY <2>1, <2>2, FS_AddElement
  <2> QED
    BY <1>8, <2>3 DEF AsCount, r
<1> QED
  BY <1>7, <1>8

\* What is left of a sequence of tasks whose first one was taken.
LEMMA TailIs ==
  ASSUME NEW s \in Seq(Task), s # <<>>, NEW n \in Nat, n = Len(s)
  PROVE  /\ n > 0 /\ Len(Tail(s)) = n - 1 /\ Head(s) = s[1]
         /\ \A i \in 1..n - 1 : Tail(s)[i] = s[i + 1]
<1>1. n > 0 /\ Len(Tail(s)) = n - 1 /\ Head(s) = s[1]
  OBVIOUS
<1>2. ASSUME NEW i \in 1..n - 1 PROVE Tail(s)[i] = s[i + 1]
  OBVIOUS
<1> QED
  BY <1>1, <1>2

\* Taking a task removes one slot, unless it is process.
LEMMA SlotsTake ==
  ASSUME NEW q \in Queues, NEW a \in Actors, q[a] # <<>>, IsFiniteSet(Slots(q))
  PROVE  LET r == [q EXCEPT ![a] = Tail(@)]
         IN  /\ IsFiniteSet(Slots(r))
             /\ Cardinality(Slots(r)) =
                  Cardinality(Slots(q)) - AsCount(Head(q[a]) # "process")
<1> DEFINE r == [q EXCEPT ![a] = Tail(@)]
           Rest == Slots(q) \ {<<a, 1>>}
           f == [s \in Rest |-> IF s[1] = a THEN <<a, s[2] - 1>> ELSE s]
<1>1. q[a] \in Seq(Task) /\ r[a] = Tail(q[a])
  BY DEF Queues
<1>2. \A b \in Actors : b # a => r[b] = q[b]
  BY DEF Queues
<1>3. PICK n \in Nat : n = Len(q[a])
  BY <1>1
<1>4. /\ n > 0 /\ Len(r[a]) = n - 1 /\ Head(q[a]) = q[a][1]
      /\ \A i \in 1..n - 1 : r[a][i] = q[a][i + 1]
  <2> HIDE DEF r
  <2> QED
    BY <1>1, <1>3, TailIs
<1> HIDE DEF r
<1>5. \A i \in Nat : <<a, i>> \in Slots(q) <=> i \in 1..n /\ q[a][i] # "process"
  BY <1>3 DEF Slots
<1>6. \A i \in Nat : <<a, i>> \in Slots(r) <=> i \in 1..n - 1 /\ r[a][i] # "process"
  BY <1>4 DEF Slots
<1>7. \A s \in Actors \X Nat : s[1] # a => (s \in Slots(r) <=> s \in Slots(q))
  BY <1>2 DEF Slots
<1>8. Slots(r) \subseteq Actors \X Nat /\ Rest \subseteq Actors \X Nat
  BY DEF Slots
<1>9. ASSUME NEW s \in Rest
      PROVE  /\ s[1] # a => s \in Slots(r)
             /\ s[1] = a => /\ s[2] - 1 \in Nat /\ <<a, s[2] - 1>> \in Slots(r)
                            /\ s = <<a, s[2]>> /\ s[2] \in Nat
  <2>1. CASE s[1] # a
    BY <1>7, <1>8, <2>1
  <2>2. CASE s[1] = a
    <3>1. PICK i \in Nat : s = <<a, i>>
      BY <1>8, <2>2
    <3>2. i \in 1..n /\ q[a][i] # "process" /\ i # 1
      BY <1>5, <3>1
    <3>3. i - 1 \in 1..n - 1 /\ (i - 1) + 1 = i /\ i - 1 \in Nat
      BY <3>2
    <3>4. r[a][i - 1] # "process"
      BY <1>4, <3>2, <3>3
    <3> QED
      BY <1>6, <2>2, <3>1, <3>3, <3>4
  <2> QED
    BY <2>1, <2>2
<1>10. f \in Injection(Rest, Slots(r))
  <2>1. f \in [Rest -> Slots(r)]
    BY <1>9
  <2>2. ASSUME NEW s \in Rest, NEW t \in Rest, f[s] = f[t] PROVE s = t
    <3>1. s \in Actors \X Nat /\ t \in Actors \X Nat
      BY <1>8
    <3>2. CASE s[1] = a /\ t[1] = a
      <4>1. <<a, s[2] - 1>> = <<a, t[2] - 1>> /\ s[2] \in Nat /\ t[2] \in Nat
        BY <1>9, <2>2, <3>2
      <4>2. s[2] = t[2]
        BY <4>1
      <4> QED
        BY <1>9, <3>2, <4>2
    <3>3. CASE s[1] = a /\ t[1] # a
      <4>1. <<a, s[2] - 1>> = t
        BY <2>2, <3>3
      <4> QED
        BY <3>3, <4>1
    <3>4. CASE s[1] # a /\ t[1] = a
      <4>1. s = <<a, t[2] - 1>>
        BY <2>2, <3>4
      <4> QED
        BY <3>4, <4>1
    <3>5. CASE s[1] # a /\ t[1] # a
      BY <2>2, <3>5
    <3> QED
      BY <3>2, <3>3, <3>4, <3>5
  <2> HIDE DEF f, Rest
  <2> QED
    BY <2>1, <2>2 DEF Injection, IsInjective
<1>11. f \in Surjection(Rest, Slots(r))
  <2>1. f \in [Rest -> Slots(r)]
    BY <1>9
  <2>2. ASSUME NEW t \in Slots(r) PROVE \E s \in Rest : f[s] = t
    <3>1. t \in Actors \X Nat
      BY <1>8
    <3>2. CASE t[1] # a
      <4>1. t \in Slots(q) /\ t # <<a, 1>>
        BY <1>7, <3>1, <3>2
      <4> QED
        BY <3>2, <4>1
    <3>3. CASE t[1] = a
      <4>1. PICK i \in Nat : t = <<a, i>>
        BY <3>1, <3>3
      <4>2. i \in 1..n - 1 /\ r[a][i] # "process"
        BY <1>6, <4>1
      <4>3. i + 1 \in 1..n /\ i + 1 \in Nat /\ i + 1 # 1 /\ (i + 1) - 1 = i
        BY <4>2
      <4>4. q[a][i + 1] # "process"
        BY <1>4, <4>2
      <4>5. <<a, i + 1>> \in Rest
        BY <1>5, <4>3, <4>4
      <4>6. f[<<a, i + 1>>] = <<a, i>>
        BY <4>3, <4>5
      <4> QED
        BY <4>1, <4>5, <4>6
    <3> QED
      BY <3>2, <3>3
  <2> HIDE DEF f, Rest
  <2> QED
    BY <2>1, <2>2 DEF Surjection
<1>12. IsFiniteSet(Rest) /\ Cardinality(Rest) =
          Cardinality(Slots(q)) - AsCount(Head(q[a]) # "process")
  <2>1. <<a, 1>> \in Slots(q) <=> Head(q[a]) # "process"
    BY <1>3, <1>4, <1>5
  <2>2. Cardinality(Slots(q)) \in Nat
    BY FS_CardinalityType
  <2>3. /\ IsFiniteSet(Rest)
        /\ Cardinality(Rest) = IF <<a, 1>> \in Slots(q)
                               THEN Cardinality(Slots(q)) - 1
                               ELSE Cardinality(Slots(q))
    BY FS_RemoveElement
  <2> HIDE DEF Rest
  <2> QED
    BY <2>1, <2>2, <2>3 DEF AsCount
<1>13. ExistsBijection(Rest, Slots(r))
  <2> HIDE DEF f, Rest
  <2> QED
    BY <1>10, <1>11 DEF ExistsBijection, Bijection
<1>14. IsFiniteSet(Slots(r)) /\ Cardinality(Slots(r)) = Cardinality(Rest)
  BY <1>12, <1>13, FS_Bijection
<1> QED
  BY <1>12, <1>14 DEF r

\* Posting keeps at most one deleter if there was none or none is posted.
LEMMA DeletePost ==
  ASSUME NEW q \in Queues, NEW a \in Actors, NEW task \in Task, DeleteOnce(q),
         task = "delete" => ~DeleteIn(q)
  PROVE  DeleteOnce([q EXCEPT ![a] = Append(@, task)])
<1> DEFINE r == [q EXCEPT ![a] = Append(@, task)]
<1>1. q[a] \in Seq(Task) /\ r[a] = Append(q[a], task)
  BY DEF Queues
<1>2. \A b \in Actors : b # a => r[b] = q[b]
  BY DEF Queues
<1>3. PICK n \in Nat : n = Len(q[a])
  BY <1>1
<1>4. /\ Len(r[a]) = n + 1 /\ r[a][n + 1] = task
      /\ \A i \in 1..n : r[a][i] = q[a][i]
  BY <1>1, <1>3
<1> HIDE DEF r
<1>5. ASSUME NEW b \in Actors, NEW i \in 1..Len(r[b]), r[b][i] = "delete"
      PROVE  \/ i \in 1..Len(q[b]) /\ q[b][i] = "delete"
             \/ b = a /\ i = n + 1 /\ task = "delete"
  <2>1. CASE b = a
    <3>1. i \in 1..n \/ i = n + 1
      BY <1>4, <2>1
    <3> QED
      BY <1>3, <1>4, <1>5, <2>1, <3>1
  <2>2. CASE b # a
    BY <1>2, <1>5, <2>2
  <2> QED
    BY <2>1, <2>2
<1>6. DeleteOnce(r)
  BY <1>5 DEF DeleteOnce, DeleteIn
<1> QED
  BY <1>6 DEF r

\* After a deleter was taken, none is left.
LEMMA DeleteTake ==
  ASSUME NEW q \in Queues, NEW a \in Actors, q[a] # <<>>, DeleteOnce(q)
  PROVE  LET r == [q EXCEPT ![a] = Tail(@)]
         IN  DeleteOnce(r) /\ (Head(q[a]) = "delete" => ~DeleteIn(r))
<1> DEFINE r == [q EXCEPT ![a] = Tail(@)]
<1>1. q[a] \in Seq(Task) /\ r[a] = Tail(q[a])
  BY DEF Queues
<1>2. \A b \in Actors : b # a => r[b] = q[b]
  BY DEF Queues
<1>3. PICK n \in Nat : n = Len(q[a])
  BY <1>1
<1>4. /\ n > 0 /\ Len(r[a]) = n - 1 /\ Head(q[a]) = q[a][1]
      /\ \A i \in 1..n - 1 : r[a][i] = q[a][i + 1]
  <2> HIDE DEF r
  <2> QED
    BY <1>1, <1>3, TailIs
<1> HIDE DEF r
<1>5. ASSUME NEW i \in 1..Len(r[a])
      PROVE  i + 1 \in 1..Len(q[a]) /\ r[a][i] = q[a][i + 1] /\ i + 1 # 1
  BY <1>3, <1>4
<1>6. ASSUME NEW b \in Actors, NEW c \in Actors, NEW i \in 1..Len(r[b]),
             NEW j \in 1..Len(r[c]), r[b][i] = "delete", r[c][j] = "delete"
      PROVE  b = c /\ i = j
  <2>1. CASE b = a /\ c = a
    <3>1. /\ i + 1 \in 1..Len(q[a]) /\ q[a][i + 1] = "delete"
          /\ j + 1 \in 1..Len(q[a]) /\ q[a][j + 1] = "delete"
      BY <1>5, <1>6, <2>1
    <3>2. i + 1 = j + 1
      BY <3>1 DEF DeleteOnce
    <3>3. i \in Int /\ j \in Int
      BY <1>4, <2>1
    <3> QED
      BY <2>1, <3>2, <3>3
  <2>2. CASE b = a /\ c # a
    <3>1. /\ i + 1 \in 1..Len(q[a]) /\ q[a][i + 1] = "delete"
          /\ j \in 1..Len(q[c]) /\ q[c][j] = "delete"
      BY <1>2, <1>5, <1>6, <2>2
    <3> QED
      BY <2>2, <3>1 DEF DeleteOnce
  <2>3. CASE b # a /\ c = a
    <3>1. /\ i \in 1..Len(q[b]) /\ q[b][i] = "delete"
          /\ j + 1 \in 1..Len(q[a]) /\ q[a][j + 1] = "delete"
      BY <1>2, <1>5, <1>6, <2>3
    <3> QED
      BY <2>3, <3>1 DEF DeleteOnce
  <2>4. CASE b # a /\ c # a
    <3>1. /\ i \in 1..Len(q[b]) /\ q[b][i] = "delete"
          /\ j \in 1..Len(q[c]) /\ q[c][j] = "delete"
      BY <1>2, <1>6, <2>4
    <3> QED
      BY <3>1 DEF DeleteOnce
  <2> QED
    BY <2>1, <2>2, <2>3, <2>4
<1>7. ASSUME Head(q[a]) = "delete", NEW b \in Actors, NEW i \in 1..Len(r[b]),
             r[b][i] = "delete"
      PROVE  FALSE
  <2>1. 1 \in 1..Len(q[a]) /\ q[a][1] = "delete"
    BY <1>3, <1>4, <1>7
  <2>2. CASE b = a
    <3>1. i + 1 \in 1..Len(q[a]) /\ q[a][i + 1] = "delete" /\ i + 1 # 1
      BY <1>5, <1>7, <2>2
    <3> QED
      BY <2>1, <3>1 DEF DeleteOnce
  <2>3. CASE b # a
    <3>1. i \in 1..Len(q[b]) /\ q[b][i] = "delete"
      BY <1>2, <1>7, <2>3
    <3> QED
      BY <2>1, <2>3, <3>1 DEF DeleteOnce
  <2> QED
    BY <2>2, <2>3
<1> QED
  BY <1>6, <1>7 DEF r, DeleteOnce, DeleteIn

\* Whoever owns a weak count keeps the block allocated.
LEMMA WeakOwners ==
  ASSUME IInv, WeakExact
  PROVE  /\ Cardinality(wref) \in Nat /\ Cardinality(Slots(queue)) \in Nat
         /\ AsCount(Held) \in {0, 1}
         /\ Held \/ (\E a \in Actors : a \in wref) \/ Cardinality(Slots(queue)) > 0
              => weak > 0 /\ ~freed
<1>1. wref \in SUBSET Actors /\ Loop \in Actors
  BY DEF IInv, TypeOK, Actors
<1>2. Cardinality(wref) \in Nat /\ \A a \in Actors : a \in wref => Cardinality(wref) > 0
  BY <1>1, Owners
<1>3. Cardinality(Slots(queue)) \in Nat
  BY FS_CardinalityType DEF WeakExact
<1>4. AsCount(Held) \in {0, 1} /\ (Held => AsCount(Held) = 1)
  BY DEF AsCount
<1> QED
  BY <1>2, <1>3, <1>4 DEF WeakExact

\* A weak count changes by what its owners gain and lose.
LEMMA WeakBalance ==
  ASSUME IInv, WeakExact, NEW dw \in -1..1, NEW ds \in -1..1, NEW dh \in -1..0,
         IsFiniteSet(Slots(queue')),
         Cardinality(wref') = Cardinality(wref) + dw,
         Cardinality(Slots(queue')) = Cardinality(Slots(queue)) + ds,
         AsCount(Held') = AsCount(Held) + dh,
         weak' = weak + dw + ds + dh,
         freed' => weak' = 0
  PROVE  WeakExact'
BY WeakOwners DEF WeakExact

\* decrease(weak_arg_t) by an owner.
LEMMA WeakReached ==
  ASSUME IInv, WeakExact, DecreaseWeak, weak > 0
  PROVE  weak' = weak - 1 /\ (freed' => weak' = 0)
BY DEF IInv, TypeOK, WeakExact, DecreaseWeak

\* A step that leaves the Refs and the callbacks of the last one alone.
LEMMA HeldKept ==
  ASSUME strong' = strong, \A a \in Actors : Ending(a)' <=> Ending(a)
  PROVE  AsCount(Held') = AsCount(Held) + 0
<1>1. Held' <=> Held
  BY DEF Held
<1>2. AsCount(Held) \in {0, 1}
  BY DEF AsCount
<1> QED
  BY <1>1, <1>2 DEF AsCount

\* A step that begins and ends with the weak count of the Refs.
LEMMA HeldStays ==
  ASSUME Held, Held'
  PROVE  AsCount(Held') = AsCount(Held) + 0
BY DEF AsCount

\* decrease(strong_arg_t) by an owner.
LEMMA HeldReached ==
  ASSUME IInv, strong > 0, NEW a \in Actors, DecreaseStrong(a)
  PROVE  Held /\ Held' /\ (\A b \in Actors : ~Ending(b)) /\ ~destructed /\ ~DeleteIn(queue)
         /\ \A b \in Actors : Ending(b)' => b = a
<1>1. strong \in Int /\ pc \in [Actors -> Pc]
  BY DEF IInv, TypeOK
<1>2. /\ ~destructed /\ ~DeleteIn(queue)
      /\ \A b \in Actors : ~Ending(b)
  BY <1>1 DEF IInv, ZeroIsFinal, DeleteIn, Posted, Ending
<1>3. \A b \in Actors : b # a => pc'[b] = pc[b]
  BY <1>1 DEF DecreaseStrong
<1>4. \A b \in Actors : Ending(b)' => b = a
  BY <1>2, <1>3 DEF Ending
<1>5. CASE strong = 1
  <2>1. pc'[a] = "destruct"
    BY <1>1, <1>5 DEF DecreaseStrong
  <2> QED
    BY <1>2, <1>4, <2>1 DEF Held, Ending
<1>6. CASE strong # 1
  <2>1. strong' > 0
    BY <1>1, <1>6 DEF DecreaseStrong
  <2> QED
    BY <1>2, <1>4, <2>1 DEF Held
<1> QED
  BY <1>5, <1>6

\* A step that brings the service no closer to its destructor.
LEMMA DestructKept ==
  ASSUME DestructInv, destructed' = destructed,
         DeleteIn(queue') => DeleteIn(queue), DeleteOnce(queue'),
         \A a \in Actors : Ending(a)' => pc'[a] = pc[a],
         phase = "destroyed" => phase' = "destroyed",
         phase' = "destroyed" /\ queued' => phase = "destroyed" /\ queued
  PROVE  DestructInv'
<1>1. \A a \in Actors : Ending(a)' => Ending(a)
  BY DEF Ending
<1>2. \A a \in Actors : pc'[a] = "destruct" => pc[a] = "destruct"
  BY DEF Ending
<1> QED
  BY <1>1, <1>2 DEF DestructInv

\* decrease(strong_arg_t) by an owner: the one that reaches zero is alone.
LEMMA DestructReached ==
  ASSUME IInv, DestructInv, strong > 0, NEW a \in Actors, DecreaseStrong(a),
         destructed' = destructed, DeleteIn(queue') => DeleteIn(queue),
         DeleteOnce(queue'), phase' = "destroyed" /\ queued' => phase = "destroyed" /\ queued
  PROVE  DestructInv'
<1>1. ~destructed /\ ~DeleteIn(queue) /\ \A b \in Actors : Ending(b)' => b = a
  BY HeldReached
<1> QED
  BY <1>1 DEF DestructInv

\* Posting a task that owns a weak count.
LEMMA Posts ==
  ASSUME IInv, WeakExact, DestructInv, NEW a \in Actors, NEW task \in Task,
         Post(a, task), task # "process", task = "delete" => ~DeleteIn(queue)
  PROVE  /\ IsFiniteSet(Slots(queue'))
         /\ Cardinality(Slots(queue')) = Cardinality(Slots(queue)) + 1
         /\ DeleteIn(queue') => DeleteIn(queue) \/ task = "delete"
         /\ DeleteOnce(queue')
<1>1. queue \in Queues /\ IsFiniteSet(Slots(queue)) /\ DeleteOnce(queue)
  BY DEF IInv, TypeOK, Queues, WeakExact, DestructInv
<1>2. queue' = [queue EXCEPT ![a] = Append(@, task)]
  BY DEF Post
<1>3. AsCount(task # "process") = 1
  BY DEF AsCount
<1>4. /\ IsFiniteSet(Slots(queue'))
      /\ Cardinality(Slots(queue')) = Cardinality(Slots(queue)) + 1
  BY <1>1, <1>2, <1>3, SlotsPost
<1>5. DeleteIn(queue') => DeleteIn(queue) \/ task = "delete"
  BY <1>1, <1>2, PostTask
<1>6. DeleteOnce(queue')
  BY <1>1, <1>2, DeletePost
<1> QED
  BY <1>4, <1>5, <1>6

\* A start that the scheduler queues posts process at most.
LEMMA QueueStarts ==
  ASSUME NEW q \in Queues, IsFiniteSet(Slots(q)), DeleteOnce(q), QueueStart(q)
  PROVE  /\ IsFiniteSet(Slots(queue')) /\ Cardinality(Slots(queue')) = Cardinality(Slots(q))
         /\ DeleteIn(queue') => DeleteIn(q)
         /\ DeleteOnce(queue')
         /\ queued' => queued \/ phase = "stopped"
<1>1. Loop \in Actors /\ "process" \in Task
  BY DEF Actors, Task
<1>2. queue' = q \/ queue' = [q EXCEPT ![Loop] = Append(@, "process")]
  BY DEF QueueStart
<1>3. queued' => queued \/ phase = "stopped"
  BY DEF QueueStart
<1>4. CASE queue' = q
  BY <1>3, <1>4
<1>5. CASE queue' = [q EXCEPT ![Loop] = Append(@, "process")]
  <2>1. PICK task \in Task : task = "process"
    BY <1>1
  <2>2. AsCount(task # "process") = 0 /\ Cardinality(Slots(q)) \in Nat
    BY <2>1, FS_CardinalityType DEF AsCount
  <2>3. /\ IsFiniteSet(Slots(queue'))
        /\ Cardinality(Slots(queue')) = Cardinality(Slots(q)) + AsCount(task # "process")
    BY <1>1, <1>5, <2>1, SlotsPost
  <2>4. DeleteIn(queue') => DeleteIn(q)
    BY <1>1, <1>5, PostTask
  <2>5. DeleteOnce(queue')
    BY <1>1, <1>5, DeletePost
  <2> QED
    BY <1>3, <2>2, <2>3, <2>4, <2>5
<1> QED
  BY <1>2, <1>4, <1>5

\* What taking a task leaves of the weak counts and of the deleter.
LEMMA TakesWeak ==
  ASSUME IInv, WeakExact, DestructInv, NEW a \in Actors, NEW task, Take(a, task)
  PROVE  /\ IsFiniteSet(Slots(Taken(a)))
         /\ Cardinality(Slots(Taken(a))) =
              Cardinality(Slots(queue)) - AsCount(task # "process")
         /\ DeleteOnce(Taken(a))
         /\ task = "delete" => ~DeleteIn(Taken(a))
         /\ task # "process" => weak > 0 /\ ~freed
<1>1. queue \in Queues /\ queue[a] # <<>> /\ Head(queue[a]) = task
  BY DEF IInv, TypeOK, Queues, Take
<1>2. IsFiniteSet(Slots(queue)) /\ DeleteOnce(queue)
  BY DEF WeakExact, DestructInv
<1>3. /\ IsFiniteSet(Slots(Taken(a)))
      /\ Cardinality(Slots(Taken(a))) =
           Cardinality(Slots(queue)) - AsCount(task # "process")
  BY <1>1, <1>2, SlotsTake DEF Taken
<1>4. DeleteOnce(Taken(a)) /\ (task = "delete" => ~DeleteIn(Taken(a)))
  BY <1>1, <1>2, DeleteTake DEF Taken
<1>5. ASSUME task # "process" PROVE weak > 0 /\ ~freed
  <2>1. AsCount(task # "process") = 1
    BY <1>5 DEF AsCount
  <2>2. Cardinality(Slots(Taken(a))) \in Nat /\ Cardinality(Slots(queue)) \in Nat
    BY <1>2, <1>3, FS_CardinalityType
  <2> QED
    BY <1>3, <2>1, <2>2, WeakOwners
<1> QED
  BY <1>3, <1>4, <1>5

\* Each callback of the control block keeps the weak count exact and the
\* destructor single.
LEMMA CallbackWeak ==
  IInv /\ WeakExact /\ DestructInv /\ Callback => WeakExact' /\ DestructInv'
<1> SUFFICES ASSUME IInv, WeakExact, DestructInv, Callback
             PROVE  WeakExact' /\ DestructInv'
  OBVIOUS
<1>0. /\ pc \in [Actors -> Pc] /\ Loop \in Actors /\ "gc" \in Task /\ "delete" \in Task
      /\ IsFiniteSet(Slots(queue)) /\ DeleteOnce(queue)
      /\ weak \in Int /\ Cardinality(wref) \in Nat /\ Cardinality(Slots(queue)) \in Nat
      /\ freed => weak = 0
  BY WeakOwners DEF IInv, TypeOK, Actors, Task, WeakExact, DestructInv
<1>1. CASE OnUniqueLoop
  <2>1. \A a \in Actors : (Ending(a)' <=> Ending(a)) /\ (Ending(a)' => pc'[a] = pc[a])
    BY <1>0, <1>1 DEF OnUniqueLoop, Ending
  <2>2. WeakExact'
    BY <1>0, <1>1, <2>1, HeldKept, WeakBalance DEF OnUniqueLoop
  <2>3. DestructInv'
    BY <1>0, <1>1, <2>1, DestructKept DEF OnUniqueLoop, ImmediateStop
  <2> QED
    BY <2>2, <2>3
<1>2. ASSUME NEW a \in Actors, OnUnique(a) PROVE WeakExact' /\ DestructInv'
  <2>1. \A b \in Actors : (Ending(b)' <=> Ending(b)) /\ (Ending(b)' => pc'[b] = pc[b])
    BY <1>0, <1>2 DEF OnUnique, Ending
  <2>2. WeakExact'
    BY <1>0, <1>2, <2>1, HeldKept, WeakBalance DEF OnUnique
  <2>3. DestructInv'
    BY <1>0, <1>2, <2>1, DestructKept DEF OnUnique
  <2> QED
    BY <2>2, <2>3
<1>3. ASSUME NEW a \in Actors, PostGc(a) PROVE WeakExact' /\ DestructInv'
  <2>1. \A b \in Actors : (Ending(b)' <=> Ending(b)) /\ (Ending(b)' => pc'[b] = pc[b])
    BY <1>0, <1>3 DEF PostGc, Ending
  <2>2. /\ IsFiniteSet(Slots(queue')) /\ DeleteOnce(queue')
        /\ Cardinality(Slots(queue')) = Cardinality(Slots(queue)) + 1
        /\ DeleteIn(queue') => DeleteIn(queue)
    BY <1>0, <1>3, Posts DEF PostGc
  <2>3. WeakExact'
    BY <1>0, <1>3, <2>1, <2>2, HeldKept, WeakBalance DEF PostGc
  <2>4. DestructInv'
    BY <1>0, <1>3, <2>1, <2>2, DestructKept DEF PostGc
  <2> QED
    BY <2>3, <2>4
<1>4. ASSUME NEW a \in Actors, OnUniqueFreed(a) PROVE WeakExact' /\ DestructInv'
  <2>1. \A b \in Actors : (Ending(b)' <=> Ending(b)) /\ (Ending(b)' => pc'[b] = pc[b])
    BY <1>0, <1>4 DEF OnUniqueFreed, Ending
  <2>2. WeakExact'
    BY <1>0, <1>4, <2>1, HeldKept, WeakBalance DEF OnUniqueFreed
  <2>3. DestructInv'
    BY <1>0, <1>4, <2>1, DestructKept DEF OnUniqueFreed
  <2> QED
    BY <2>2, <2>3
<1>5. ASSUME NEW a \in Actors, OnDestruct(a) PROVE WeakExact' /\ DestructInv'
  <2>1. /\ Ending(a) /\ Ending(a)' /\ pc'[a] = "release"
        /\ \A b \in Actors : b # a => pc'[b] = pc[b] /\ ~Ending(b)
    BY <1>0, <1>5 DEF OnDestruct, Ending, DestructInv
  <2>2. ~destructed /\ ~DeleteIn(queue)
    BY <1>5 DEF OnDestruct, DestructInv
  <2>3. \A b \in Actors : (Ending(b)' <=> Ending(b)) /\ pc'[b] # "destruct"
    BY <2>1 DEF Ending
  <2>4. Held
    BY <2>1 DEF Held
  <2>5. CASE phase = "destroyed"
    <3>1. destructed' /\ UNCHANGED <<queue, weak, freed, wref, phase, queued, strong>>
      BY <1>5, <2>5 DEF OnDestruct
    <3>2. WeakExact'
      BY <1>0, <2>3, <3>1, HeldKept, WeakBalance
    <3>3. DestructInv'
      BY <2>1, <2>2, <2>3, <2>5, <3>1 DEF DestructInv
    <3> QED
      BY <3>2, <3>3
  <2>6. CASE phase # "destroyed"
    <3>1. /\ ~destructed' /\ weak' = weak + 1 /\ Post(a, "delete")
          /\ UNCHANGED <<freed, wref, phase, queued, strong>>
      BY <1>5, <2>2, <2>6 DEF OnDestruct
    <3>2. /\ IsFiniteSet(Slots(queue')) /\ DeleteOnce(queue')
          /\ Cardinality(Slots(queue')) = Cardinality(Slots(queue)) + 1
      BY <1>0, <2>2, <3>1, Posts
    <3>3. ~freed'
      BY <2>4, <3>1, WeakOwners
    <3>4. WeakExact'
      BY <1>0, <2>3, <3>1, <3>2, <3>3, HeldKept, WeakBalance
    <3>5. DestructInv'
      BY <2>1, <2>3, <2>6, <3>1, <3>2 DEF DestructInv
    <3> QED
      BY <3>4, <3>5
  <2> QED
    BY <2>5, <2>6
<1>6. ASSUME NEW a \in Actors, ReleaseWeak(a) PROVE WeakExact' /\ DestructInv'
  <2>1. /\ Ending(a) /\ ~Ending(a)'
        /\ \A b \in Actors : b # a => pc'[b] = pc[b] /\ ~Ending(b)
    BY <1>0, <1>6 DEF ReleaseWeak, Ending, DestructInv
  <2>2. \A b \in Actors : ~Ending(b)'
    BY <2>1 DEF Ending
  <2>3. strong = 0 /\ strong' = strong
    BY <1>6, <2>1 DEF ReleaseWeak, Ending, IInv, ZeroIsFinal
  <2>4. Held /\ ~Held'
    BY <2>1, <2>2, <2>3 DEF Held
  <2>5. AsCount(Held') = AsCount(Held) + (-1)
    BY <2>4 DEF AsCount
  <2>6. weak' = weak - 1 /\ (freed' => weak' = 0)
    BY <1>6, <2>4, WeakOwners, WeakReached DEF ReleaseWeak
  <2>7. WeakExact'
    BY <1>0, <1>6, <2>5, <2>6, WeakBalance DEF ReleaseWeak
  <2>8. DestructInv'
    BY <1>0, <1>6, <2>2, DestructKept DEF ReleaseWeak
  <2> QED
    BY <2>7, <2>8
<1> QED
  BY <1>1, <1>2, <1>3, <1>4, <1>5, <1>6 DEF Callback

\* Each step of an owner, and each request to the scheduler, keeps them.
LEMMA RequestWeak ==
  IInv /\ WeakExact /\ DestructInv /\ Request => WeakExact' /\ DestructInv'
<1> SUFFICES ASSUME IInv, WeakExact, DestructInv, Request
             PROVE  WeakExact' /\ DestructInv'
  OBVIOUS
<1>0. /\ Loop \in Actors /\ "start" \in Task /\ queue \in Queues /\ wref \in SUBSET Actors
      /\ IsFiniteSet(Slots(queue)) /\ DeleteOnce(queue)
      /\ weak \in Int /\ strong \in Int
      /\ Cardinality(wref) \in Nat /\ Cardinality(Slots(queue)) \in Nat
      /\ freed => weak = 0
  BY WeakOwners DEF IInv, TypeOK, Queues, Actors, Task, WeakExact, DestructInv
<1>1. CASE UserStart
  <2>1. /\ IsFiniteSet(Slots(queue')) /\ Cardinality(Slots(queue')) = Cardinality(Slots(queue))
        /\ DeleteIn(queue') => DeleteIn(queue)
        /\ DeleteOnce(queue')
        /\ queued' => queued \/ phase = "stopped"
    BY <1>0, <1>1, QueueStarts DEF UserStart
  <2>2. UNCHANGED <<strong, weak, wref, pc, phase, destructed, freed>>
    BY <1>1 DEF UserStart
  <2>3. \A a \in Actors : Ending(a)' <=> Ending(a)
    BY <2>2 DEF Ending
  <2>4. WeakExact'
    BY <1>0, <2>1, <2>2, <2>3, HeldKept, WeakBalance
  <2>5. DestructInv'
    BY <2>1, <2>2, DestructKept
  <2> QED
    BY <2>4, <2>5
<1>2. CASE RequestStop
  <2>1. UNCHANGED <<strong, weak, wref, pc, queue, queued, destructed, freed>>
    BY <1>2 DEF RequestStop
  <2>2. \A a \in Actors : Ending(a)' <=> Ending(a)
    BY <2>1 DEF Ending
  <2>3. WeakExact'
    BY <1>0, <2>1, <2>2, HeldKept, WeakBalance
  <2>4. DestructInv'
    BY <1>0, <1>2, <2>1, DestructKept DEF RequestStop
  <2> QED
    BY <2>3, <2>4
<1>3. CASE ParentDestroy
  <2>1. UNCHANGED <<strong, weak, wref, pc, queue, destructed, freed>>
    BY <1>3 DEF ParentDestroy
  <2>2. \A a \in Actors : Ending(a)' <=> Ending(a)
    BY <2>1 DEF Ending
  <2>3. WeakExact'
    BY <1>0, <2>1, <2>2, HeldKept, WeakBalance
  <2>4. DestructInv'
    BY <1>0, <1>3, <2>1, DestructKept DEF ParentDestroy
  <2> QED
    BY <2>3, <2>4
<1>4. ASSUME NEW a \in Actors, MakeWeak(a) PROVE WeakExact' /\ DestructInv'
  <2>1. /\ UNCHANGED <<strong, pc, phase, queue, queued, destructed, freed>>
        /\ weak' = weak + 1 /\ a \in ref
    BY <1>4 DEF MakeWeak
  <2>2. \A b \in Actors : Ending(b)' <=> Ending(b)
    BY <2>1 DEF Ending
  <2>3. Cardinality(wref') = Cardinality(wref) + 1
    BY <1>0, <1>4, Owners DEF MakeWeak
  <2>4. ~freed'
    BY <2>1, OwnerCounts, WeakOwners DEF Held
  <2>5. WeakExact'
    BY <1>0, <2>1, <2>2, <2>3, <2>4, HeldKept, WeakBalance
  <2>6. DestructInv'
    BY <1>0, <2>1, DestructKept
  <2> QED
    BY <2>5, <2>6
<1>5. ASSUME NEW a \in Actors, LockWeak(a) PROVE WeakExact' /\ DestructInv'
  <2>1. /\ UNCHANGED <<weak, wref, pc, phase, queue, queued, destructed, freed>>
        /\ strong > 0 /\ strong' > 0
    BY <1>0, <1>5 DEF LockWeak
  <2>2. WeakExact'
    BY <1>0, <2>1, HeldStays, WeakBalance DEF Held
  <2>3. DestructInv'
    BY <1>0, <2>1, DestructKept
  <2> QED
    BY <2>2, <2>3
<1>6. ASSUME NEW a \in Actors, Drop(a) PROVE WeakExact' /\ DestructInv'
  <2>1. /\ UNCHANGED <<weak, wref, phase, queue, queued, destructed, freed>>
        /\ DecreaseStrong(a) /\ strong > 0
    BY <1>6, OwnerCounts DEF Drop
  <2>2. AsCount(Held') = AsCount(Held) + 0
    BY <2>1, HeldReached, HeldStays, Zenon
  <2>3. WeakExact'
    BY <1>0, <2>1, <2>2, WeakBalance
  <2>4. DestructInv'
    BY <1>0, <2>1, DestructReached
  <2> QED
    BY <2>3, <2>4
<1>7. ASSUME NEW a \in Actors, DropWeak(a) PROVE WeakExact' /\ DestructInv'
  <2>1. /\ UNCHANGED <<strong, pc, phase, queue, queued, destructed>>
        /\ a \in wref /\ DecreaseWeak
    BY <1>7 DEF DropWeak
  <2>2. \A b \in Actors : Ending(b)' <=> Ending(b)
    BY <2>1 DEF Ending
  <2>3. Cardinality(wref') = Cardinality(wref) + (-1)
    BY <1>0, <1>7, Owners DEF DropWeak
  <2>4. weak' = weak - 1 /\ (freed' => weak' = 0)
    BY <2>1, WeakOwners, WeakReached
  <2>5. WeakExact'
    BY <1>0, <2>1, <2>2, <2>3, <2>4, HeldKept, WeakBalance
  <2>6. DestructInv'
    BY <1>0, <2>1, DestructKept
  <2> QED
    BY <2>5, <2>6
<1>8. ASSUME NEW a \in Actors, RequestStart(a) PROVE WeakExact' /\ DestructInv'
  <2>1. /\ UNCHANGED <<strong, wref, pc, phase, queued, destructed, freed>>
        /\ weak' = weak + 1 /\ a \in ref /\ Post(a, "start")
    BY <1>8 DEF RequestStart
  <2>2. \A b \in Actors : Ending(b)' <=> Ending(b)
    BY <2>1 DEF Ending
  <2>3. /\ IsFiniteSet(Slots(queue')) /\ DeleteOnce(queue')
        /\ Cardinality(Slots(queue')) = Cardinality(Slots(queue)) + 1
        /\ DeleteIn(queue') => DeleteIn(queue)
    BY <1>0, <2>1, Posts
  <2>4. ~freed'
    BY <2>1, OwnerCounts, WeakOwners DEF Held
  <2>5. WeakExact'
    BY <1>0, <2>1, <2>2, <2>3, <2>4, HeldKept, WeakBalance
  <2>6. DestructInv'
    BY <2>1, <2>3, DestructKept
  <2> QED
    BY <2>5, <2>6
<1>9. ASSUME NEW a \in Actors, NEW b \in Actors, Copy(a, b)
      PROVE  WeakExact' /\ DestructInv'
  <2>1. UNCHANGED <<weak, wref, pc, phase, queue, queued, destructed, freed>>
    BY <1>9 DEF Copy
  <2>2. strong > 0 /\ strong' > 0
    BY <1>0, <1>9, OwnerCounts DEF Copy
  <2>3. WeakExact'
    BY <1>0, <2>1, <2>2, HeldStays, WeakBalance DEF Held
  <2>4. DestructInv'
    BY <1>0, <2>1, DestructKept
  <2> QED
    BY <2>3, <2>4
<1> QED
  BY <1>1, <1>2, <1>3, <1>4, <1>5, <1>6, <1>7, <1>8, <1>9 DEF Request

\* Each step of the event loop keeps them.
LEMMA LoopWeak ==
  IInv /\ WeakExact /\ DestructInv /\ LoopStep => WeakExact' /\ DestructInv'
<1> SUFFICES ASSUME IInv, WeakExact, DestructInv, LoopStep
             PROVE  WeakExact' /\ DestructInv'
  OBVIOUS
<1>0. /\ Loop \in Actors /\ "restart" \in Task /\ queue \in Queues
      /\ pc \in [Actors -> Pc]
      /\ IsFiniteSet(Slots(queue)) /\ DeleteOnce(queue)
      /\ weak \in Int /\ strong \in Int
      /\ Cardinality(wref) \in Nat /\ Cardinality(Slots(queue)) \in Nat
      /\ freed => weak = 0
  BY WeakOwners DEF IInv, TypeOK, Queues, Actors, Task, WeakExact, DestructInv
<1>1. CASE Unlock
  <2>1. /\ DecreaseStrong(Loop) /\ strong > 0
        /\ phase' = "stopped" /\ UNCHANGED <<wref, queued, destructed, freed>>
    BY <1>1, OwnerCounts DEF Unlock, Locked
  <2>2. ~freed /\ AsCount(Held') = AsCount(Held) + 0
    BY <1>0, <2>1, HeldReached, HeldStays, WeakOwners, Zenon
  <2>3. CASE wanted
    <3>1. Post(Loop, "restart") /\ weak' = weak + 1
      BY <1>1, <2>3 DEF Unlock
    <3>2. /\ IsFiniteSet(Slots(queue')) /\ DeleteOnce(queue')
          /\ Cardinality(Slots(queue')) = Cardinality(Slots(queue)) + 1
          /\ DeleteIn(queue') => DeleteIn(queue)
      BY <1>0, <3>1, Posts
    <3>3. WeakExact'
      BY <1>0, <2>1, <2>2, <3>1, <3>2, WeakBalance
    <3>4. DestructInv'
      BY <1>0, <2>1, <3>2, DestructReached
    <3> QED
      BY <3>3, <3>4
  <2>4. CASE ~wanted
    <3>1. UNCHANGED <<queue, weak>>
      BY <1>1, <2>4 DEF Unlock
    <3>2. WeakExact'
      BY <1>0, <2>1, <2>2, <3>1, WeakBalance
    <3>3. DestructInv'
      BY <1>0, <2>1, <3>1, DestructReached
    <3> QED
      BY <3>2, <3>3
  <2> QED
    BY <2>3, <2>4
<1>2. CASE GcCheck
  <2>1. UNCHANGED <<strong, weak, wref, queue, queued, destructed, freed>>
    BY <1>2 DEF GcCheck
  <2>2. \A a \in Actors : (Ending(a)' <=> Ending(a)) /\ (Ending(a)' => pc'[a] = pc[a])
    BY <1>0, <1>2 DEF GcCheck, Ending
  <2>3. WeakExact'
    BY <1>0, <2>1, <2>2, HeldKept, WeakBalance
  <2>4. phase' = phase \/ (phase = "running" /\ phase' = "stopping")
    BY <1>2 DEF GcCheck, ImmediateStop
  <2>5. DestructInv'
    BY <1>0, <2>1, <2>2, <2>4, DestructKept
  <2> QED
    BY <2>3, <2>5
<1>3. CASE TaskEnd
  <2>1. /\ UNCHANGED <<weak, wref, phase, queue, queued, destructed, freed>>
        /\ DecreaseStrong(Loop) /\ strong > 0
    BY <1>3, OwnerCounts DEF TaskEnd
  <2>2. AsCount(Held') = AsCount(Held) + 0
    BY <1>0, <2>1, HeldReached, HeldStays, Zenon
  <2>3. WeakExact'
    BY <1>0, <2>1, <2>2, WeakBalance
  <2>4. DestructInv'
    BY <1>0, <2>1, DestructReached
  <2> QED
    BY <2>3, <2>4
<1>4. CASE TaskProcess
  <2>1. /\ UNCHANGED <<weak, wref, pc, destructed, freed>> /\ ~queued'
        /\ queue' = Taken(Loop) /\ Take(Loop, "process")
    BY <1>4 DEF TaskProcess
  <2>2. PICK task \in Task : task = "process"
    BY DEF Task
  <2>3. AsCount(task # "process") = 0
    BY <2>2 DEF AsCount
  <2>4. /\ IsFiniteSet(Slots(queue')) /\ DeleteOnce(queue')
        /\ Cardinality(Slots(queue')) = Cardinality(Slots(queue)) - AsCount(task # "process")
        /\ DeleteIn(queue') => DeleteIn(queue)
    BY <1>0, <2>1, <2>2, TakesWeak, Takes
  <2>5. strong' = strong \/ (strong # 0 /\ strong' = strong + 1)
    BY <1>4 DEF TaskProcess
  <2>6. phase' = phase \/ (phase = "stopped" /\ phase' = "running")
    BY <1>4 DEF TaskProcess
  <2>7. strong >= 0
    BY OwnerCounts DEF IInv, StrongExact, AsCount
  <2>8. AsCount(Held') = AsCount(Held) + 0
    <3>1. \A a \in Actors : Ending(a)' <=> Ending(a)
      BY <2>1 DEF Ending
    <3>2. CASE strong' = strong
      BY <3>1, <3>2, HeldKept
    <3>3. CASE strong # 0 /\ strong' = strong + 1
      BY <1>0, <2>7, <3>3, HeldStays DEF Held
    <3> QED
      BY <2>5, <3>2, <3>3
  <2>9. WeakExact'
    BY <1>0, <2>1, <2>3, <2>4, <2>8, WeakBalance
  <2>10. DestructInv'
    BY <2>1, <2>4, <2>6, DestructKept
  <2> QED
    BY <2>9, <2>10
<1>5. ASSUME NEW a \in Actors, TaskExpired(a) PROVE WeakExact' /\ DestructInv'
  <2>1. PICK task \in {"start", "restart", "gc"} : Take(a, task)
    BY <1>5 DEF TaskExpired
  <2>2. /\ UNCHANGED <<strong, wref, pc, phase, queued, destructed>>
        /\ queue' = Taken(a) /\ DecreaseWeak
    BY <1>5 DEF TaskExpired
  <2>3. AsCount(task # "process") = 1 /\ task # "process"
    BY <2>1 DEF AsCount
  <2>4. /\ IsFiniteSet(Slots(queue')) /\ DeleteOnce(queue')
        /\ Cardinality(Slots(queue')) = Cardinality(Slots(queue)) + (-1)
        /\ DeleteIn(queue') => DeleteIn(queue)
    BY <1>0, <2>1, <2>2, <2>3, TakesWeak, Takes
  <2>5. \A b \in Actors : Ending(b)' <=> Ending(b)
    BY <2>2 DEF Ending
  <2>6. weak' = weak - 1 /\ (freed' => weak' = 0)
    BY <2>1, <2>2, <2>3, TakesWeak, WeakReached
  <2>7. WeakExact'
    BY <1>0, <2>2, <2>4, <2>5, <2>6, HeldKept, WeakBalance
  <2>8. DestructInv'
    BY <2>2, <2>4, DestructKept
  <2> QED
    BY <2>7, <2>8
<1>6. ASSUME NEW a \in Actors, TaskStart(a) PROVE WeakExact' /\ DestructInv'
  <2>1. PICK task \in {"start", "restart"} : Take(a, task)
    BY <1>6 DEF TaskStart
  <2>2. /\ UNCHANGED <<wref, pc, phase, destructed, freed>>
        /\ strong > 0 /\ strong' > 0 /\ weak' = weak - 1
        /\ QueueStart(Taken(a)) \/ (queue' = Taken(a) /\ queued' = queued)
    BY <1>0, <1>6 DEF TaskStart
  <2>3. AsCount(task # "process") = 1 /\ task # "process"
    BY <2>1 DEF AsCount
  <2>4. /\ Taken(a) \in Queues /\ IsFiniteSet(Slots(Taken(a))) /\ DeleteOnce(Taken(a))
        /\ Cardinality(Slots(Taken(a))) = Cardinality(Slots(queue)) + (-1)
        /\ DeleteIn(Taken(a)) => DeleteIn(queue)
        /\ ~freed
    BY <1>0, <2>1, <2>3, TakesWeak, Takes
  <2>5. /\ IsFiniteSet(Slots(queue')) /\ DeleteOnce(queue')
        /\ Cardinality(Slots(queue')) = Cardinality(Slots(queue)) + (-1)
        /\ DeleteIn(queue') => DeleteIn(queue)
        /\ queued' => queued \/ phase = "stopped"
    BY <2>2, <2>4, QueueStarts
  <2>6. WeakExact'
    BY <1>0, <2>2, <2>4, <2>5, HeldStays, WeakBalance DEF Held
  <2>7. DestructInv'
    BY <2>2, <2>5, DestructKept
  <2> QED
    BY <2>6, <2>7
<1>7. ASSUME NEW a \in Actors, TaskGc(a) PROVE WeakExact' /\ DestructInv'
  <2>1. /\ UNCHANGED <<wref, phase, queued, destructed, freed>>
        /\ strong > 0 /\ strong' > 0 /\ weak' = weak - 1
        /\ queue' = Taken(a) /\ Take(a, "gc")
    BY <1>0, <1>7 DEF TaskGc
  <2>2. PICK task \in Task : task = "gc"
    BY DEF Task
  <2>3. AsCount(task # "process") = 1 /\ task # "process"
    BY <2>2 DEF AsCount
  <2>4. /\ IsFiniteSet(Slots(queue')) /\ DeleteOnce(queue')
        /\ Cardinality(Slots(queue')) = Cardinality(Slots(queue)) + (-1)
        /\ DeleteIn(queue') => DeleteIn(queue)
        /\ ~freed
    BY <1>0, <2>1, <2>2, <2>3, TakesWeak, Takes
  <2>5. \A b \in Actors : Ending(b)' => pc'[b] = pc[b]
    BY <1>0, <1>7 DEF TaskGc, Ending
  <2>6. WeakExact'
    BY <1>0, <2>1, <2>4, HeldStays, WeakBalance DEF Held
  <2>7. DestructInv'
    BY <2>1, <2>4, <2>5, DestructKept
  <2> QED
    BY <2>6, <2>7
<1>8. ASSUME NEW a \in Actors, TaskDelete(a) PROVE WeakExact' /\ DestructInv'
  <2>1. /\ UNCHANGED <<strong, wref, pc>> /\ DecreaseWeak /\ destructed'
        /\ phase' = "destroyed" /\ ~queued'
        /\ queue' = Taken(a) /\ Take(a, "delete")
    BY <1>8 DEF TaskDelete
  <2>2. PICK task \in Task : task = "delete"
    BY DEF Task
  <2>3. AsCount(task # "process") = 1 /\ task # "process"
    BY <2>2 DEF AsCount
  <2>4. /\ IsFiniteSet(Slots(queue')) /\ DeleteOnce(queue')
        /\ Cardinality(Slots(queue')) = Cardinality(Slots(queue)) + (-1)
        /\ ~DeleteIn(queue') /\ DeleteIn(queue) /\ weak > 0
    BY <1>0, <2>1, <2>2, <2>3, TakesWeak, Takes
  <2>5. \A b \in Actors : (Ending(b)' <=> Ending(b)) /\ pc[b] # "destruct"
    BY <2>1, <2>4 DEF Ending, DestructInv
  <2>6. weak' = weak - 1 /\ (freed' => weak' = 0)
    BY <2>1, <2>4, WeakReached
  <2>7. WeakExact'
    BY <1>0, <2>1, <2>4, <2>5, <2>6, HeldKept, WeakBalance
  <2>8. DestructInv'
    BY <2>1, <2>4, <2>5 DEF DestructInv
  <2> QED
    BY <2>7, <2>8
<1> QED
  BY <1>1, <1>2, <1>3, <1>4, <1>5, <1>6, <1>7, <1>8 DEF LoopStep

\* In the beginning one Ref owns the service and its weak count.
LEMMA WeakInit == Init => WeakExact /\ DestructInv
<1> SUFFICES ASSUME Init PROVE WeakExact /\ DestructInv
  OBVIOUS
<1>1. Slots(queue) = {} /\ ~DeleteIn(queue) /\ DeleteOnce(queue)
  BY DEF Init, Slots, DeleteIn, DeleteOnce
<1>2. IsFiniteSet({}) /\ Cardinality({}) = 0
  BY FS_EmptySet
<1>3. AsCount(Held) = 1
  BY DEF Init, Held, AsCount
<1>4. weak = 1 /\ ~freed /\ wref = {}
  BY DEF Init
<1>5. WeakExact
  BY <1>1, <1>2, <1>3, <1>4 DEF WeakExact
<1>6. DestructInv
  BY <1>1 DEF Init, DestructInv, Ending
<1> QED
  BY <1>5, <1>6

\* The weak count is exact and the destructor is single in every behaviour.
LEMMA WeakInvariant == Spec => [](WeakExact /\ DestructInv)
<1>1. WeakExact /\ DestructInv /\ UNCHANGED vars => (WeakExact /\ DestructInv)'
  BY DEF WeakExact, DestructInv, Held, Ending, vars
<1>2. IInv /\ WeakExact /\ DestructInv /\ [Next]_vars => (WeakExact /\ DestructInv)'
  BY <1>1, CallbackWeak, RequestWeak, LoopWeak DEF Next
<1> QED
  BY <1>2, WeakInit, Invariant, PTL DEF Spec

\* The control block outlives every Ref, WeakRef and task that owns one, the
\* destructor runs once, and the queue of the scheduler never points to a
\* destructed service, for any finite set of threads.
THEOREM NeverDangles == Spec => []NothingDangles
<1>1. IInv /\ WeakExact /\ DestructInv => NothingDangles
  <2> SUFFICES ASSUME IInv, WeakExact, DestructInv PROVE NothingDangles
    OBVIOUS
  <2>1. BlockOutlives
    <3>1. Referenced => Held
      BY OwnerCounts DEF Referenced, Held, IInv, TypeOK
    <3>2. ASSUME NEW task \in Task \ {"process"}, Posted(task)
          PROVE  Cardinality(Slots(queue)) > 0
      <4>0. PICK a \in Actors : \E i \in 1..Len(queue[a]) : queue[a][i] = task
        BY <3>2 DEF Posted
      <4>1. PICK i \in 1..Len(queue[a]) : queue[a][i] = task
        BY <4>0
      <4>2. queue[a] \in Seq(Task)
        BY DEF IInv, TypeOK
      <4>3. <<a, i>> \in Slots(queue)
        BY <3>2, <4>1, <4>2 DEF Slots
      <4> QED
        BY <4>3, FS_EmptySet, FS_CardinalityType DEF WeakExact
    <3>3. wref # {} => \E a \in Actors : a \in wref
      BY DEF IInv, TypeOK
    <3> QED
      BY <3>1, <3>2, <3>3, WeakOwners DEF BlockOutlives
  <2>2. DestructedOnce
    BY DEF DestructedOnce, DestructInv, DeleteIn, Posted
  <2>3. QueuedAlive
    BY DEF QueuedAlive, DestructInv
  <2> QED
    BY <2>1, <2>2, <2>3 DEF NothingDangles
<1> QED
  BY <1>1, Invariant, WeakInvariant, PTL
=============================================================================
