--------------------------- MODULE ExclusiveLease ---------------------------
(***************************************************************************)
(* What the coordinator promises to the agents in enforce mode, with no    *)
(* table, no lease ids, no cleanup and no quarantine: every resource is    *)
(* free or has one holder with some time left, and until that time has run *)
(* out only the holder itself can extend, shorten or give up what it has.  *)
(***************************************************************************)
EXTENDS Naturals

CONSTANTS
    Session,   \* the agents
    Resource,  \* the things that can be held
    Lifetime,  \* the lifetimes a grant can have
    Nobody     \* the holder of a free resource (not an agent)

VARIABLES
    holder,  \* holder of each resource
    left     \* time the holder has left

avars == <<holder, left>>

Init ==
    /\ holder = [r \in Resource |-> Nobody]
    /\ left = [r \in Resource |-> 0]

Elapse ==
    /\ left' = [r \in Resource |-> IF left[r] > 0 THEN left[r] - 1 ELSE 0]
    /\ UNCHANGED holder

\* What may happen to one resource while the coordinator serves session s.
Keep(r) == holder'[r] = holder[r] /\ left'[r] = left[r]
Lapse(r) == left[r] = 0 /\ holder'[r] = Nobody /\ left'[r] = 0
Hold(s, r) ==
    /\ left[r] = 0 \/ holder[r] = s
    /\ holder'[r] = s
    /\ left'[r] \in Lifetime
GiveUp(s, r) == holder[r] = s /\ holder'[r] = Nobody /\ left'[r] = 0

Serve(s) ==
    /\ holder' \in [Resource -> Session \union {Nobody}]
    /\ left' \in [Resource -> Nat]
    /\ \A r \in Resource : Keep(r) \/ Lapse(r) \/ Hold(s, r) \/ GiveUp(s, r)

Next == Elapse \/ \E s \in Session : Serve(s)

Spec == Init /\ [][Next]_avars
=============================================================================
