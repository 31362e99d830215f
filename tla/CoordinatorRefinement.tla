----------------------- MODULE CoordinatorRefinement -----------------------
(***************************************************************************)
(* The coordinator in enforce mode implements ExclusiveLease: the holder   *)
(* of a resource is the owner of the lease the table has on it, expired or *)
(* not, and the time left is the time that lease has left.                 *)
(***************************************************************************)
EXTENDS Coordinator

CONSTANT Nobody  \* the holder of a resource that has no lease
ASSUME NobodyAssumption == Nobody \notin Session

LeaseOn(ls, r) == CHOOSE l \in ls : l.resource = r
HolderIn(ls, r) == IF On(ls, r) = {} THEN Nobody ELSE LeaseOn(ls, r).owner
LeftIn(ls, r) == IF On(ls, r) = {} THEN 0 ELSE LeaseOn(ls, r).left

Abstract == INSTANCE ExclusiveLease WITH
    Lifetime <- Ttl \union {QuarantineTtl},
    holder <- [r \in Resource |-> HolderIn(leases, r)],
    left <- [r \in Resource |-> LeftIn(leases, r)]

\* The lease table keeps the promise of ExclusiveLease: no agent loses, and no
\* other agent gains, a resource whose holder still has time left.
ImplementsExclusiveLease == Abstract!Spec
=============================================================================
