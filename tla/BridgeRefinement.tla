-------------------------- MODULE BridgeRefinement --------------------------
(***************************************************************************)
(* The bridge in enforce mode keeps the promise of ExclusiveLease: the     *)
(* holder of a resource is the owner of the lease on it.                   *)
(***************************************************************************)
EXTENDS Bridge

CONSTANT Nobody  \* the holder of a resource that has no lease
ASSUME HolderAssumption == Nobody \notin Session

Lifetimes == Ttl \union {QuarantineTtl, RecordingTtl}

R == INSTANCE CoordinatorRefinement
Promise == INSTANCE ExclusiveLease WITH
    Resource <- C!Resource,
    Lifetime <- Lifetimes,
    holder <- [r \in C!Resource |-> R!HolderIn(leases, r)],
    left <- [r \in C!Resource |-> R!LeftIn(leases, r)]

\* In enforce mode every step of the bridge is one of ExclusiveLease, whatever
\* handlers do to the table, until the bridge dies: no request, recording,
\* quarantine, lease tool or closed socket of one agent ends, shortens or takes
\* over what another agent holds and has time left on.
LeasesKept ==
    Promise!Init /\ [][Promise!Next \/ (MayRestart /\ Restart)]_(Promise!avars)
=============================================================================
