---------------------------- MODULE SerialWrites ----------------------------
(***************************************************************************)
(* What a queue of writes promises, with no promises, chain or map: a      *)
(* write starts only when every write called for before it on the same tab *)
(* is over; writes on different tabs do not wait for each other.           *)
(***************************************************************************)
EXTENDS Naturals, Sequences

CONSTANTS
    Tab,       \* browser tabs
    MaxWrites  \* bound on the calls

VARIABLES
    tabOf,  \* the tab of each write, in the order of the calls
    stage   \* how far each write is

svars == <<tabOf, stage>>

Before(w) == {v \in 1..(w - 1) : tabOf[v] = tabOf[w]}
Over(w) == stage[w] \in {"finished", "failed"}

Init == tabOf = <<>> /\ stage = <<>>

Arrive(t) ==
    /\ Len(tabOf) < MaxWrites
    /\ tabOf' = Append(tabOf, t)
    /\ stage' = Append(stage, "queued")

Begin(w) ==
    /\ stage[w] = "queued"
    /\ \A v \in Before(w) : Over(v)
    /\ stage' = [stage EXCEPT ![w] = "running"]
    /\ UNCHANGED tabOf

End(w) ==
    /\ stage[w] = "running"
    /\ \E how \in {"finished", "failed"} : stage' = [stage EXCEPT ![w] = how]
    /\ UNCHANGED tabOf

Next ==
    \/ \E t \in Tab : Arrive(t)
    \/ \E w \in 1..Len(tabOf) : Begin(w) \/ End(w)

Spec == Init /\ [][Next]_svars
=============================================================================
