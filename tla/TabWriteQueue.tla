--------------------------- MODULE TabWriteQueue ---------------------------
(***************************************************************************)
(* runTabWrite (apps/chrome-bridge/src/coordinator.ts) and the `queues'    *)
(* map behind it: writes to one tab are chained on a promise per tab, the  *)
(* entry of a tab is the promise of its newest write, and a write deletes  *)
(* the entry when it finishes and nothing was queued behind it.            *)
(*                                                                         *)
(* Writes are numbered in the order in which runTabWrite is called.        *)
(***************************************************************************)
EXTENDS Naturals, Sequences

CONSTANTS
    Tab,       \* browser tabs
    MaxWrites  \* bound: calls of runTabWrite in one behaviour

ASSUME TabWriteQueueAssumption == MaxWrites \in Nat

VARIABLES
    tabOf,     \* tabOf[w]: the tab of write w
    stage,     \* stage[w]: how far write w is
    previous,  \* previous[w]: the write w is chained on, 0 for a resolved promise
    released,  \* the writes whose `done' promise is resolved
    tail       \* queues: the newest write of each tab, 0 when there is no entry

qvars == <<tabOf, stage, previous, released, tail>>

Writes == 1..Len(tabOf)
Stage == {"queued", "running", "finished", "failed"}
Over(w) == stage[w] \in {"finished", "failed"}

Init ==
    /\ tabOf = <<>>
    /\ stage = <<>>
    /\ previous = <<>>
    /\ released = {}
    /\ tail = [t \in Tab |-> 0]

\* Mutant of RunTabWrite: the entry is read after it was replaced.
RunTabWriteSwapped(t) ==
    /\ Len(tabOf) < MaxWrites
    /\ tabOf' = Append(tabOf, t)
    /\ stage' = Append(stage, "queued")
    /\ tail' = [tail EXCEPT ![t] = Len(tabOf) + 1]
    /\ previous' = Append(previous, tail'[t])
    /\ UNCHANGED released

\* A call takes the tab's entry as its predecessor and becomes the entry.
RunTabWrite(t) ==
    /\ Len(tabOf) < MaxWrites
    /\ tabOf' = Append(tabOf, t)
    /\ stage' = Append(stage, "queued")
    /\ previous' = Append(previous, tail[t])
    /\ tail' = [tail EXCEPT ![t] = Len(tabOf) + 1]
    /\ UNCHANGED released

\* previous.then(...): the work is called once the write before it is done.
Start(w) ==
    /\ stage[w] = "queued"
    /\ previous[w] # 0 => previous[w] \in released
    /\ stage' = [stage EXCEPT ![w] = "running"]
    /\ UNCHANGED <<tabOf, previous, released, tail>>

\* Mutants of Settle: the release is not in a `finally'; the entry of the tab
\* is deleted whoever is queued behind; the entry is never deleted.
SettleReleasesSuccess(w, how) ==
    /\ stage[w] = "running"
    /\ stage' = [stage EXCEPT ![w] = how]
    /\ released' = IF how = "finished" THEN released \union {w} ELSE released
    /\ tail' = IF tail[tabOf[w]] = w THEN [tail EXCEPT ![tabOf[w]] = 0] ELSE tail
    /\ UNCHANGED <<tabOf, previous>>
SettleDropsEntry(w, how) ==
    /\ stage[w] = "running"
    /\ stage' = [stage EXCEPT ![w] = how]
    /\ released' = released \union {w}
    /\ tail' = [tail EXCEPT ![tabOf[w]] = 0]
    /\ UNCHANGED <<tabOf, previous>>
SettleKeepsEntry(w, how) ==
    /\ stage[w] = "running"
    /\ stage' = [stage EXCEPT ![w] = how]
    /\ released' = released \union {w}
    /\ UNCHANGED <<tabOf, previous, tail>>

\* The work resolves or rejects; `finally' releases the next write either way.
Settle(w, how) ==
    /\ stage[w] = "running"
    /\ stage' = [stage EXCEPT ![w] = how]
    /\ released' = released \union {w}
    /\ tail' = IF tail[tabOf[w]] = w THEN [tail EXCEPT ![tabOf[w]] = 0] ELSE tail
    /\ UNCHANGED <<tabOf, previous>>

Next ==
    \/ \E t \in Tab : RunTabWrite(t)
    \/ \E w \in Writes : Start(w) \/ Settle(w, "finished") \/ Settle(w, "failed")

\* Promise reactions always run, and the work always settles: it is a browser
\* request, whose timer rejects it when the extension does not answer.
Fairness ==
    \A w \in 1..MaxWrites :
        /\ WF_qvars(w \in Writes /\ Start(w))
        /\ WF_qvars(w \in Writes /\ (Settle(w, "finished") \/ Settle(w, "failed")))

Spec == Init /\ [][Next]_qvars
FairSpec == Spec /\ Fairness

-----------------------------------------------------------------------------
\* Every variable has its type, and a write waits for an earlier one only.
TypeOK ==
    /\ tabOf \in Seq(Tab)
    /\ Len(tabOf) <= MaxWrites
    /\ stage \in [Writes -> Stage]
    /\ previous \in [Writes -> Nat]
    /\ \A w \in Writes : previous[w] < w
    /\ released \subseteq Writes
    /\ tail \in [Tab -> 0..Len(tabOf)]

\* The map has an entry for exactly the tabs with unfinished writes: an entry
\* deleted too early lets a later write overtake, one kept is a leak.
EntryWhileBusy ==
    \A t \in Tab : tail[t] # 0 <=> \E w \in Writes : tabOf[w] = t /\ ~Over(w)

\* The chain of promises serializes the writes of a tab in the order of the
\* calls, whatever fails on the way (runTabWrite against SerialWrites).
Serial == INSTANCE SerialWrites
OneAtATimeInOrder == Serial!Spec

\* A write that was queued is run in the end, also behind writes that failed.
EveryWriteRuns == \A w \in 1..MaxWrites : (w \in Writes) ~> (w \in Writes /\ Over(w))
=============================================================================
