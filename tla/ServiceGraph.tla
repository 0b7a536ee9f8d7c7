---------------------------- MODULE ServiceGraph ----------------------------
(***************************************************************************)
(* The dependency graph of the services of one context.                    *)
(*                                                                         *)
(* Every service but the root has a parent part.  A service whose parent   *)
(* is an Import is a member of its parent's cluster; every other service   *)
(* (its parent is an Export) is the head of a cluster of its own.  A usage *)
(* connects an Import of its user with an Export of the service it uses.   *)
(*                                                                         *)
(* An edge points from the service that is needed to the one that needs    *)
(* it.  The external graph has one edge per connected usage and one edge   *)
(* from the owner of the parent part to every cluster head but the root,   *)
(* so that an edge is identified by its usage or by that head.             *)
(***************************************************************************)
EXTENDS Naturals, FiniteSets

CONSTANTS
  Root,       \* the context
  Services,   \* all services, the root included
  Parent,     \* the service that owns the parent part of a service
  Members,    \* the services whose parent part is an Import
  Head,       \* get_cluster_head_of
  Usages,     \* the usages of all services, connected or not
  Used,       \* the service a usage uses
  User,       \* the service that owns a usage
  Weak        \* the usages of type Weak

ASSUME GraphAssumption ==
  /\ Root \in Services
  /\ IsFiniteSet(Services) /\ IsFiniteSet(Usages)
  /\ Members \subseteq Services \ {Root}
  /\ Parent \in [Services \ {Root} -> Services]
  /\ Head \in [Services -> Services \ Members]
  /\ \A s \in Services :
        Head[s] = IF s \in Members THEN Head[Parent[s]] ELSE s
  /\ Used \in [Usages -> Services] /\ User \in [Usages -> Services]
  /\ Weak \subseteq Usages
  /\ Usages \cap Services = {}

\* Usage::connect panics on a usage inside of one cluster.
ASSUME NoInnerUsage == \A u \in Usages : Head[Used[u]] # Head[User[u]]

\* Context has one part, its Container: no Import, hence no members and no usages,
\* and no Interface that a Dependency could select.
ASSUME RootAssumption ==
  /\ \A s \in Services \ {Root} : Head[s] # Root
  /\ \A u \in Usages : Used[u] # Root /\ User[u] # Root

Heads == Services \ Members
ClusterMembers(h) == {s \in Services : Head[s] = h}

\* The services whose inner edges (member to parent) end in s.
InnerChildren(s) == {m \in Members : Parent[m] = s}

ExportEdges == Heads \ {Root}
Edges(conn) == conn \cup ExportEdges

Src(e) == IF e \in Usages THEN Used[e] ELSE Parent[e]
Dst(e) == IF e \in Usages THEN User[e] ELSE e

OutEdges(conn, s) == {e \in Edges(conn) : Src(e) = s}
InEdges(conn, s) == {e \in Edges(conn) : Dst(e) = s}
StrongEdges(es) == es \ Weak

\* ClusterDependencyGraph: the external edges of all members, multiplicity kept.
ClusterOutEdges(conn, h) == {e \in Edges(conn) : Head[Src(e)] = h}
ClusterInEdges(conn, h) == {e \in Edges(conn) : Head[Dst(e)] = h}

\* Every service needs the root: by an edge if the root owns its parent part,
\* implicitly otherwise.
HasImplicitRootEdge(s) == s # Root /\ Parent[s] # Root
=============================================================================
