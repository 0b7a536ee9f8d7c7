------------------------- MODULE MCServiceScheduler -------------------------
(* Topologies for ServiceScheduler. *)
EXTENDS ServiceScheduler, TLC

CONSTANTS r, a, b, m, u, w

\* No usages at all.
NoUse == [x \in {} |-> x]

\* Two heads, b uses a.
ChainServices == {r, a, b}
ChainParent == (a :> r) @@ (b :> r)
ChainHead == (r :> r) @@ (a :> a) @@ (b :> b)
ChainUsages == {u}
ChainUsed == (u :> a)
ChainUser == (u :> b)

\* Two heads, b needs a and uses it weakly as well.
PairUsages == {u, w}
PairUsed == (u :> a) @@ (w :> a)
PairUser == (u :> b) @@ (w :> b)

\* m is a member of the cluster of a, b is a child of an export of m.
ClusterServices == {r, a, m, b}
ClusterParent == (a :> r) @@ (m :> a) @@ (b :> m)
ClusterHead == (r :> r) @@ (a :> a) @@ (m :> a) @@ (b :> b)
=============================================================================
