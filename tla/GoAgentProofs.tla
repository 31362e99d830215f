---------------------------- MODULE GoAgentProofs ----------------------------
(***************************************************************************)
(* Types, the cooldown between two nudges, and the rounds that are counted, *)
(* for any number of engines, overlapping runs and answers.                *)
(*                                                                         *)
(* The cooldown: an engine begins to cool down only with a nudge, and      *)
(* nudges are counted; so a run that found the cooldown over and finds as  *)
(* many nudges as then still finds it over (Fine), and only a run with a   *)
(* decision engine waits between the test and the nudge.                   *)
(*                                                                         *)
(* The rounds: an engine that may still count a round without a new answer *)
(* has a claim, and its rounds and its claim together are covered by the   *)
(* answers, the faults and the late counts (Owed).  To count gives up the  *)
(* claim, unless another tick knows that the model writes; the queue of    *)
(* the tab excludes that while isBusy is up to date (Order).               *)
(***************************************************************************)
EXTENDS GoAgent, SequenceTheorems, TLAPS

EngineRec ==
    [llm : BOOLEAN, running : BOOLEAN, timer : BOOLEAN, round : Nat, seen : BOOLEAN,
     last : Blank..MaxText, quiet : BOOLEAN, cooling : Cooling, nudges : 0..MaxNudges,
     injected : BOOLEAN]

RunRec ==
    [at : OnPage \union Elsewhere, on : Nat, busy : BOOLEAN, asked : Blank..MaxAnswers,
     ready : BOOLEAN, stamp : 0..MaxNudges]

\* A run r may be at an await while the engines are es.
Fine(r, es) ==
    /\ r \in RunRec /\ r.on <= Len(es)
    /\ r.on = 0 => r.at \in Entries
    /\ r.at = "decide" => es[r.on].llm
    /\ r.at = "save" =>
          /\ r.stamp <= es[r.on].nudges
          /\ r.ready /\ r.stamp = es[r.on].nudges => es[r.on].cooling # "yes"

\* A go_start reads its first text.
Restarted == \E i \in DOMAIN runs : StartText(i)

\* What a step may make of engine e.
Evolved(e, f) ==
    /\ f \in EngineRec
    /\ f.llm = e.llm
    /\ f.nudges >= e.nudges
    /\ f.cooling = "yes" => e.cooling = "yes" \/ f.nudges > e.nudges
    /\ f.nudges > e.nudges /\ ~e.llm => e.cooling # "yes"
    /\ f.cooling = "never" => e.cooling = "never" \/ Restarted

RunsInv == runs \in Seq(RunRec) /\ \A i \in DOMAIN runs : Fine(runs[i], engines)

RestInv ==
    /\ page \in [busy : BOOLEAN, text : Blank..MaxText]
    /\ calls \in 0..MaxCalls /\ answers \in 0..MaxAnswers /\ faults \in 0..MaxFaults
    /\ late \in Nat /\ stopped \in BOOLEAN

IInv == engines \in Seq(EngineRec) /\ RunsInv /\ RestInv

-----------------------------------------------------------------------------
(* What steps do to the engines                                            *)

EnginesStep ==
    /\ engines' \in Seq(EngineRec)
    /\ Len(engines) <= Len(engines')
    /\ \A e \in Engines : Evolved(engines[e], engines'[e])

\* The assumption on the constants, as single facts.
LEMMA Bounds ==
    /\ MaxText \in Nat /\ MaxNudges \in Nat /\ MaxCalls \in Nat /\ MaxFaults \in Nat
    /\ MaxAnswers \in Nat
BY GoAssumption

\* An engine that does not change has evolved.
LEMMA Reflexive ==
    ASSUME NEW e \in EngineRec
    PROVE  Evolved(e, e)
BY Bounds DEF Evolved, EngineRec

\* Three ways of keeping to EnginesStep: nothing changes, one engine evolves, one is built.
LEMMA EnginesStay ==
    ASSUME engines \in Seq(EngineRec), UNCHANGED engines
    PROVE  EnginesStep
BY Reflexive DEF EnginesStep, Engines

\* One engine changes.
LEMMA EngineChanges ==
    ASSUME engines \in Seq(EngineRec), NEW e \in Engines, NEW f,
           engines' = [engines EXCEPT ![e] = f], Evolved(engines[e], f)
    PROVE  EnginesStep
<1>1. f \in EngineRec
  BY DEF Evolved
<1>2. engines' \in Seq(EngineRec) /\ Len(engines') = Len(engines)
  BY <1>1 DEF Engines
<1>3. ASSUME NEW d \in Engines PROVE Evolved(engines[d], engines'[d])
  <2>1. CASE d = e
    BY <2>1 DEF Engines
  <2>2. CASE d # e
    BY <2>2, Reflexive DEF Engines
  <2> QED BY <2>1, <2>2
<1> QED BY <1>2, <1>3 DEF EnginesStep

\* One engine is built.
LEMMA EngineBuilt ==
    ASSUME engines \in Seq(EngineRec), NEW f \in EngineRec, engines' = Append(engines, f)
    PROVE  EnginesStep /\ Len(engines') = Len(engines) + 1 /\ engines'[Len(engines) + 1] = f
<1>1. \A d \in Engines : engines'[d] = engines[d] /\ engines[d] \in EngineRec
  BY DEF Engines
<1>2. /\ engines' \in Seq(EngineRec) /\ Len(engines') = Len(engines) + 1
      /\ engines'[Len(engines) + 1] = f
  OBVIOUS
<1>3. Len(engines) \in Nat
  OBVIOUS
<1>4. \A d \in Engines : Evolved(engines[d], engines'[d])
  BY <1>1, Reflexive
<1>5. Len(engines) <= Len(engines')
  BY <1>2, <1>3
<1> QED BY <1>2, <1>4, <1>5, Zenon DEF EnginesStep

-----------------------------------------------------------------------------
(* What steps do to the runs                                               *)

\* A run stays what it may be when engines evolve.
LEMMA FineStays ==
    ASSUME engines \in Seq(EngineRec), EnginesStep, NEW r, Fine(r, engines)
    PROVE  Fine(r, engines')
<1>1. r \in RunRec /\ r.on \in Nat /\ r.on <= Len(engines')
  <2>1. r \in RunRec /\ r.on <= Len(engines) /\ Len(engines) <= Len(engines')
    BY DEF Fine, EnginesStep
  <2>2. r.on \in Nat /\ Len(engines) \in Nat /\ Len(engines') \in Nat
    BY <2>1 DEF EnginesStep, RunRec
  <2> QED BY <2>1, <2>2
<1>2. CASE r.on = 0
  BY <1>1, <1>2 DEF Fine, Entries
<1>3. CASE r.on # 0
  <2> DEFINE e == engines[r.on]
             f == engines'[r.on]
  <2>0. Len(engines) \in Nat /\ r.on <= Len(engines)
    <3>1. Len(engines) \in Nat
      OBVIOUS
    <3> QED BY <3>1 DEF Fine
  <2>1. r.on \in Engines
    BY <1>1, <1>3, <2>0 DEF Engines
  <2>2. e \in EngineRec /\ Evolved(e, f)
    BY <2>1 DEF EnginesStep, Engines
  <2>3. e.nudges \in Nat /\ f.nudges \in Nat /\ r.stamp \in Nat
    BY <2>2, <1>1, Bounds DEF Evolved, EngineRec, RunRec
  <2>4. /\ r.at = "decide" => e.llm
        /\ r.at = "save" => r.stamp <= e.nudges
        /\ r.at = "save" => (r.ready /\ r.stamp = e.nudges => e.cooling # "yes")
    BY DEF Fine
  <2>5. f.llm = e.llm /\ f.nudges >= e.nudges
        /\ (f.cooling = "yes" => e.cooling = "yes" \/ f.nudges > e.nudges)
    BY <2>2 DEF Evolved
  <2> HIDE DEF e, f
  <2>6. r.at = "save" => r.stamp <= f.nudges
    BY <2>3, <2>4, <2>5
  <2>7. r.at = "save" => (r.ready /\ r.stamp = f.nudges => f.cooling # "yes")
    <3>1. SUFFICES ASSUME r.at = "save", r.ready, r.stamp = f.nudges, f.cooling = "yes"
                   PROVE  FALSE
      BY Zenon
    <3>2. f.nudges <= e.nudges
      BY <3>1, <2>3, <2>4
    <3>3. e.cooling = "yes" /\ r.stamp = e.nudges
      BY <3>1, <3>2, <2>3, <2>5
    <3> QED BY <3>1, <3>3, <2>4, Zenon
  <2>8. r.at = "decide" => f.llm
    BY <2>4, <2>5, Zenon
  <2> QED BY <1>1, <1>3, <2>6, <2>7, <2>8 DEF Fine, f
<1> QED BY <1>2, <1>3

\* Removing an element leaves the others in their order.
LEMMA RemovedInOrder ==
    ASSUME NEW S, NEW s \in Seq(S), NEW i \in DOMAIN s
    PROVE  /\ RemoveAt(s, i) \in Seq(S) /\ Len(RemoveAt(s, i)) = Len(s) - 1
           /\ \A k \in DOMAIN RemoveAt(s, i) :
                 RemoveAt(s, i)[k] = IF k < i THEN s[k] ELSE s[k + 1]
<1> DEFINE a == SubSeq(s, 1, i - 1)
           b == SubSeq(s, i + 1, Len(s))
<1>1. i \in 1..Len(s) /\ Len(s) \in Nat
  OBVIOUS
<1>2. /\ a \in Seq(S) /\ Len(a) = i - 1 /\ \A k \in 1..(i - 1) : a[k] = s[k]
      /\ b \in Seq(S) /\ Len(b) = Len(s) - i
      /\ \A k \in 1..(Len(s) - i) : b[k] = s[i + k]
  BY <1>1
<1>3. RemoveAt(s, i) = a \o b
  BY DEF RemoveAt
<1> HIDE DEF a, b
<1>4. /\ a \o b \in Seq(S) /\ Len(a \o b) = Len(a) + Len(b)
      /\ \A k \in 1..(Len(a) + Len(b)) :
            (a \o b)[k] = IF k <= Len(a) THEN a[k] ELSE b[k - Len(a)]
  BY <1>2, ConcatProperties
<1>5. Len(a) + Len(b) = Len(s) - 1
  BY <1>1, <1>2
<1>6. DOMAIN (a \o b) = 1..(Len(s) - 1)
  BY <1>4, <1>5
<1>7. ASSUME NEW k \in 1..(Len(s) - 1)
      PROVE  (a \o b)[k] = IF k < i THEN s[k] ELSE s[k + 1]
  <2>1. CASE k < i
    BY <2>1, <1>1, <1>2, <1>4, <1>5
  <2>2. CASE ~(k < i)
    <3>1. k - (i - 1) \in 1..(Len(s) - i) /\ i + (k - (i - 1)) = k + 1 /\ ~(k <= i - 1)
      BY <2>2, <1>1
    <3>2. (a \o b)[k] = b[k - (i - 1)]
      BY <3>1, <1>2, <1>4, <1>5
    <3> QED BY <2>2, <3>1, <3>2, <1>2
  <2> QED BY <2>1, <2>2
<1> QED BY <1>3, <1>4, <1>5, <1>6, <1>7

\* So it leaves only elements that were there.
LEMMA Removed ==
    ASSUME NEW S, NEW s \in Seq(S), NEW i \in DOMAIN s
    PROVE  /\ RemoveAt(s, i) \in Seq(S)
           /\ \A k \in DOMAIN RemoveAt(s, i) : \E j \in DOMAIN s : RemoveAt(s, i)[k] = s[j]
<1> DEFINE t == RemoveAt(s, i)
<1>1. /\ t \in Seq(S) /\ Len(t) = Len(s) - 1
      /\ \A k \in DOMAIN t : t[k] = IF k < i THEN s[k] ELSE s[k + 1]
  BY RemovedInOrder
<1> HIDE DEF t
<1>2. ASSUME NEW k \in DOMAIN t PROVE k \in DOMAIN s /\ k + 1 \in DOMAIN s
  BY <1>1
<1>3. \A k \in DOMAIN t : \E j \in DOMAIN s : t[k] = s[j]
  BY <1>1, <1>2
<1> QED BY <1>1, <1>3 DEF t

\* A step takes run i away, or leaves all, and may put r at the end.
LEMMA RunsStep ==
    ASSUME IInv, EnginesStep, NEW i, NEW r,
           \/ UNCHANGED runs
           \/ runs' = Append(runs, r) /\ Fine(r, engines')
           \/ runs' = RemoveAt(runs, i) /\ i \in DOMAIN runs
           \/ runs' = Append(RemoveAt(runs, i), r) /\ i \in DOMAIN runs /\ Fine(r, engines')
    PROVE  RunsInv'
<1>1. \A k \in DOMAIN runs : Fine(runs[k], engines')
  BY FineStays DEF IInv, RunsInv
<1>2. runs \in Seq(RunRec)
  BY DEF IInv, RunsInv
<1>3. ASSUME NEW s \in Seq(RunRec), \A k \in DOMAIN s : Fine(s[k], engines'), Fine(r, engines')
      PROVE  Append(s, r) \in Seq(RunRec)
             /\ \A k \in DOMAIN Append(s, r) : Fine(Append(s, r)[k], engines')
  <2>1. r \in RunRec
    BY <1>3 DEF Fine
  <2>2. /\ Append(s, r) \in Seq(RunRec) /\ Len(Append(s, r)) = Len(s) + 1
        /\ Append(s, r)[Len(s) + 1] = r
        /\ \A k \in 1..Len(s) : Append(s, r)[k] = s[k]
    BY <2>1
  <2>3. \A k \in DOMAIN Append(s, r) : k = Len(s) + 1 \/ k \in 1..Len(s)
    BY <2>2
  <2> HIDE DEF Fine
  <2> QED BY <1>3, <2>2, <2>3
<1>4. ASSUME i \in DOMAIN runs
      PROVE  /\ RemoveAt(runs, i) \in Seq(RunRec)
             /\ \A k \in DOMAIN RemoveAt(runs, i) : Fine(RemoveAt(runs, i)[k], engines')
  <2>1. /\ RemoveAt(runs, i) \in Seq(RunRec)
        /\ \A k \in DOMAIN RemoveAt(runs, i) :
              \E j \in DOMAIN runs : RemoveAt(runs, i)[k] = runs[j]
    BY <1>2, <1>4, Removed
  <2> QED BY <1>1, <2>1, Zenon
<1>5. CASE UNCHANGED runs
  BY <1>1, <1>2, <1>5 DEF RunsInv
<1>6. CASE runs' = Append(runs, r) /\ Fine(r, engines')
  BY <1>1, <1>2, <1>3, <1>6, Zenon DEF RunsInv
<1>7. CASE runs' = RemoveAt(runs, i) /\ i \in DOMAIN runs
  BY <1>4, <1>7, Zenon DEF RunsInv
<1>8. CASE runs' = Append(RemoveAt(runs, i), r) /\ i \in DOMAIN runs /\ Fine(r, engines')
  BY <1>3, <1>4, <1>8, Zenon DEF RunsInv
<1> QED BY <1>5, <1>6, <1>7, <1>8

-----------------------------------------------------------------------------
(* What the handlers make of an engine and of a run                        *)

\* A change that is no nudge and does not begin the cooldown.
MildlyChanged(e, f) ==
    /\ f \in EngineRec /\ f.llm = e.llm /\ f.nudges = e.nudges
    /\ f.cooling \in {e.cooling, "never", "over"}
    /\ f.cooling = "never" => e.cooling = "never" \/ Restarted

\* A change that neither nudges nor ends a cooldown is an evolution.
LEMMA Mild ==
    ASSUME NEW e \in EngineRec, NEW f, MildlyChanged(e, f)
    PROVE  Evolved(e, f)
<1>1. e.nudges \in Int
  BY Bounds DEF EngineRec
<1>2. f.nudges >= e.nudges /\ ~(f.nudges > e.nudges)
  BY <1>1 DEF MildlyChanged
<1>3. f.cooling = "yes" => e.cooling = "yes"
  BY DEF MildlyChanged
<1> QED BY <1>2, <1>3, Zenon DEF Evolved, MildlyChanged

\* Every update of an engine outside the nudge itself is one.
LEMMA Updates ==
    ASSUME NEW e \in EngineRec, NEW text \in Blank..MaxText, NEW b \in BOOLEAN
    PROVE  /\ Evolved(e, Halted(e))
           /\ Evolved(e, Rebased(e, text))
           /\ Restarted => Evolved(e, [Rebased(e, text) EXCEPT !.cooling = "never"])
           /\ Evolved(e, [e EXCEPT !.timer = TRUE])
           /\ Evolved(e, [e EXCEPT !.injected = b])
           /\ Evolved(e, [e EXCEPT !.last = text, !.quiet = FALSE])
           /\ Evolved(e, [e EXCEPT !.seen = TRUE, !.quiet = b])
           /\ Evolved(e, [e EXCEPT !.seen = TRUE, !.last = text, !.quiet = FALSE])
           /\ Evolved(e, [e EXCEPT !.quiet = TRUE])
           /\ Evolved(e, [e EXCEPT !.cooling = "over"])
           /\ Evolved(e, [e EXCEPT !.running = TRUE])
           /\ Evolved(e, [e EXCEPT !.running = TRUE, !.round = 0])
           /\ Evolved(e, Counted(e))
<1> USE DEF MildlyChanged, EngineRec
<1>1. MildlyChanged(e, Halted(e))
  BY DEF Halted
<1>2. MildlyChanged(e, Rebased(e, text))
  BY DEF Rebased
<1>3. Restarted => MildlyChanged(e, [Rebased(e, text) EXCEPT !.cooling = "never"])
  BY DEF Rebased, Cooling
<1>4. MildlyChanged(e, [e EXCEPT !.timer = TRUE])
  OBVIOUS
<1>5. MildlyChanged(e, [e EXCEPT !.injected = b])
  OBVIOUS
<1>6. MildlyChanged(e, [e EXCEPT !.last = text, !.quiet = FALSE])
  OBVIOUS
<1>7. MildlyChanged(e, [e EXCEPT !.seen = TRUE, !.quiet = b])
  OBVIOUS
<1>8. MildlyChanged(e, [e EXCEPT !.seen = TRUE, !.last = text, !.quiet = FALSE])
  OBVIOUS
<1>9. MildlyChanged(e, [e EXCEPT !.quiet = TRUE])
  OBVIOUS
<1>10. MildlyChanged(e, [e EXCEPT !.cooling = "over"])
  BY DEF Cooling
<1>11. MildlyChanged(e, [e EXCEPT !.running = TRUE])
  OBVIOUS
<1>12. MildlyChanged(e, [e EXCEPT !.running = TRUE, !.round = 0])
  OBVIOUS
<1>13. MildlyChanged(e, Counted(e))
  <2>1. e.round \in Nat
    OBVIOUS
  <2> DEFINE n == e.round + 1
  <2>2. n \in Nat
    BY <2>1
  <2> HIDE DEF n
  <2>3. Counted(e) = [e EXCEPT !.round = n, !.quiet = FALSE, !.seen = FALSE]
    BY DEF Counted, n
  <2> QED BY <2>2, <2>3
<1> HIDE DEF MildlyChanged, EngineRec
<1> QED BY <1>1, <1>2, <1>3, <1>4, <1>5, <1>6, <1>7, <1>8, <1>9, <1>10, <1>11, <1>12, <1>13,
           Mild

\* The one step that counts a nudge.
LEMMA LockUpdates ==
    ASSUME NEW e \in EngineRec, e.nudges < MaxNudges, e.llm \/ e.cooling # "yes"
    PROVE  Evolved(e, Locked(e))
<1> DEFINE n == e.nudges + 1
<1>1. e.nudges \in Int /\ n \in 0..MaxNudges /\ n > e.nudges /\ n >= e.nudges
  BY Bounds DEF EngineRec
<1>2. Locked(e) = [e EXCEPT !.cooling = "yes", !.nudges = n, !.seen = FALSE, !.quiet = FALSE]
  BY DEF Locked
<1> HIDE DEF n
<1>3. /\ Locked(e) \in EngineRec /\ Locked(e).nudges = n /\ Locked(e).llm = e.llm
      /\ Locked(e).cooling # "never"
  BY <1>1, <1>2 DEF EngineRec, Cooling
<1> QED BY <1>1, <1>3, Zenon DEF Evolved

\* A new engine is an engine.
LEMMA NewEngineType ==
    ASSUME NEW llm \in BOOLEAN
    PROVE  NewEngine(llm) \in EngineRec
BY Bounds DEF NewEngine, EngineRec, Blank, Cooling

Free == (OnPage \union Elsewhere) \ ({"decide", "save"} \union Entries)

\* A handler that has just begun is in order.
LEMMA FineNew ==
    ASSUME NEW es, NEW at \in OnPage \union Elsewhere, at \notin {"decide", "save"},
           NEW e \in Nat, e <= Len(es), e = 0 => at \in Entries
    PROVE  Fine(Run(at, e), es)
<1>1. Run(at, e).at = at /\ Run(at, e).on = e
  BY DEF Run
<1>2. Blank \in Blank..MaxAnswers /\ 0 \in 0..MaxNudges
  BY Bounds DEF Blank
<1>3. Run(at, e) \in RunRec
  BY <1>2 DEF Run, RunRec
<1> QED BY <1>1, <1>3, Zenon DEF Fine, Entries

\* A run that is about an engine.
LEMMA RunFacts ==
    ASSUME IInv, NEW i \in DOMAIN runs
    PROVE  /\ Fine(runs[i], engines) /\ runs[i] \in RunRec
           /\ runs[i].at \notin Entries => runs[i].on \in Engines /\ Of(i) \in EngineRec
<1>1. Fine(runs[i], engines) /\ engines \in Seq(EngineRec)
  BY DEF IInv, RunsInv
<1>2. runs[i] \in RunRec /\ runs[i].on \in Nat
  BY <1>1 DEF Fine, RunRec
<1>3. ASSUME runs[i].at \notin Entries PROVE runs[i].on \in Engines
  <2>1. runs[i].on # 0 /\ runs[i].on <= Len(engines)
    BY <1>1, <1>3 DEF Fine, Entries
  <2> QED BY <2>1, <1>1, <1>2 DEF Engines
<1>4. ASSUME runs[i].on \in Engines PROVE Of(i) \in EngineRec
  BY <1>1, <1>4 DEF Engines, Of
<1> QED BY <1>1, <1>2, <1>3, <1>4

\* Run i goes on to a place where nothing is remembered of the engine, or ends.
LEMMA MovesOn ==
    ASSUME IInv, NEW i \in DOMAIN runs, runs[i].at \notin Entries, NEW f,
           \/ UNCHANGED engines
           \/ engines' = [engines EXCEPT ![runs[i].on] = f] /\ Evolved(Of(i), f),
           NEW at \in Free, NEW busy \in BOOLEAN, NEW asked \in Blank..MaxAnswers,
           \/ Leave(i)
           \/ Goto(i, at)
           \/ runs' = Append(RemoveAt(runs, i),
                             [runs[i] EXCEPT !.at = at, !.busy = busy, !.asked = asked])
    PROVE  EnginesStep /\ RunsInv'
<1>1. runs[i] \in RunRec /\ runs[i].on \in Engines /\ Of(i) \in EngineRec
  BY RunFacts
<1>2. engines \in Seq(EngineRec)
  BY DEF IInv
<1>3. EnginesStep
  <2>1. CASE UNCHANGED engines
    BY <2>1, <1>2, EnginesStay
  <2>2. CASE engines' = [engines EXCEPT ![runs[i].on] = f] /\ Evolved(Of(i), f)
    BY <2>2, <1>1, <1>2, EngineChanges DEF Of
  <2> QED BY <2>1, <2>2
<1>4. Len(engines) <= Len(engines') /\ Len(engines) \in Nat /\ Len(engines') \in Nat
  BY <1>2, <1>3 DEF EnginesStep
<1>5. /\ Fine(Run(at, runs[i].on), engines')
      /\ Fine([runs[i] EXCEPT !.at = at, !.busy = busy, !.asked = asked], engines')
  <2>1. ASSUME NEW r \in RunRec, r.at = at, r.on = runs[i].on PROVE Fine(r, engines')
    <3>1. r.on # 0 /\ r.on <= Len(engines')
      BY <1>1, <1>4, <2>1 DEF Engines
    <3>2. r.at \notin {"decide", "save"}
      BY <2>1 DEF Free
    <3> QED BY <3>1, <3>2, Zenon DEF Fine
  <2> DEFINE r == [runs[i] EXCEPT !.at = at, !.busy = busy, !.asked = asked]
  <2>2. Fine(Run(at, runs[i].on), engines')
    <3>1. /\ runs[i].on \in Nat /\ runs[i].on # 0 /\ runs[i].on <= Len(engines')
          /\ at \in OnPage \union Elsewhere /\ at \notin {"decide", "save"}
      BY <1>1, <1>4 DEF Engines, Free
    <3> QED BY <3>1, FineNew
  <2>3. r \in RunRec /\ r.at = at /\ r.on = runs[i].on
    BY <1>1 DEF RunRec, Free
  <2> QED BY <2>1, <2>2, <2>3
<1>6. RunsInv'
  BY <1>3, <1>5, RunsStep DEF Leave, Goto
<1> QED BY <1>3, <1>6

-----------------------------------------------------------------------------
(* The actions                                                             *)

\* A step of a handler that is under way.
LEMMA Handlers ==
    ASSUME IInv, NEW i \in DOMAIN runs, runs[i].at \notin Entries,
           Starting(i) \/ Ticking(i) \/ Nudging(i)
    PROVE  EnginesStep /\ RunsInv'
<1> DEFINE e == Of(i)
<1>1. e \in EngineRec /\ runs[i].on \in Engines /\ runs[i] \in RunRec
  BY RunFacts
<1>2. page.text \in Blank..MaxText /\ Blank \in Blank..MaxText /\ e.last \in Blank..MaxText
  BY <1>1, Bounds DEF IInv, RestInv, EngineRec, Blank
<1>3. Free = (OnPage \union Elsewhere) \ ({"decide", "save"} \union Entries)
  BY DEF Free
<1>4. /\ {"start save", "settled text", "protocol", "protocol send", "risk", "resume save"}
             \subseteq Free
      /\ {"busy", "text", "send", "reread", "type"} \subseteq Free
  BY DEF Free, OnPage, Elsewhere, Entries
<1>5. FALSE \in BOOLEAN /\ engines \in Seq(EngineRec) /\ Blank \in Blank..MaxAnswers
  BY Bounds DEF IInv, Blank
<1> HIDE DEF e
<1>6. ASSUME NEW at \in Free, UNCHANGED engines, Goto(i, at) \/ Leave(i)
      PROVE  EnginesStep /\ RunsInv'
  BY <1>5, <1>6, MovesOn
<1>7. ASSUME NEW f, Now(i, f), Evolved(e, f), NEW at \in Free, Goto(i, at) \/ Leave(i)
      PROVE  EnginesStep /\ RunsInv'
  BY <1>5, <1>7, MovesOn DEF Now, e
<1>8. ASSUME Lock(i), e.llm \/ e.cooling # "yes" PROVE EnginesStep /\ RunsInv'
  <2>1. e.nudges < MaxNudges /\ Now(i, Locked(e)) /\ Goto(i, "type")
    BY <1>8 DEF Lock, e
  <2>2. Evolved(e, Locked(e))
    BY <1>1, <1>8, <2>1, LockUpdates
  <2> QED BY <1>4, <1>7, <2>1, <2>2
<1>9. ASSUME DoNudge(i), e.cooling # "yes" PROVE EnginesStep /\ RunsInv'
  <2>1. CASE e.llm
    <3> DEFINE r == Run("decide", runs[i].on)
    <3>1. UNCHANGED engines /\ runs' = Append(RemoveAt(runs, i), r)
      BY <1>9, <2>1 DEF DoNudge, Goto, e
    <3>2. r \in RunRec /\ r.at = "decide" /\ r.on = runs[i].on
      <4>1. "decide" \in OnPage \union Elsewhere /\ 0 \in 0..MaxNudges /\ runs[i].on \in Nat
        <5>1. "decide" \in OnPage \union Elsewhere
          BY DEF Elsewhere
        <5>2. 0 \in 0..MaxNudges
          BY Bounds
        <5>3. runs[i].on \in Nat
          BY <1>1 DEF RunRec
        <5> QED BY <5>1, <5>2, <5>3
      <4> QED BY <1>5, <4>1 DEF Run, RunRec
    <3> HIDE DEF r
    <3>3. runs[i].on # 0 /\ runs[i].on <= Len(engines)
      BY <1>1 DEF Engines
    <3>4. Fine(r, engines)
      BY <2>1, <3>2, <3>3 DEF Fine, e, Of
    <3>5. EnginesStep
      BY <1>5, <3>1, EnginesStay
    <3> QED BY <3>1, <3>4, <3>5, RunsStep
  <2>2. CASE ~e.llm
    BY <1>8, <1>9, <2>2 DEF DoNudge, e
  <2> QED BY <2>1, <2>2
<1>10. CASE StartText(i)
  <2>1. PICK text \in {page.text, Blank} : Now(i, [Rebased(e, text) EXCEPT !.cooling = "never"])
    BY <1>10 DEF StartText, e
  <2>2. Restarted
    BY <1>10 DEF Restarted
  <2>3. Evolved(e, [Rebased(e, text) EXCEPT !.cooling = "never"])
    BY <1>1, <1>2, <1>5, <2>2, Updates
  <2> QED BY <1>4, <1>7, <1>10, <2>1, <2>3 DEF StartText
<1>11. CASE StartSaved(i)
  <2>1. Now(i, [e EXCEPT !.timer = TRUE]) /\ Evolved(e, [e EXCEPT !.timer = TRUE])
    BY <1>1, <1>2, <1>5, <1>11, Updates DEF StartSaved, e
  <2> QED BY <1>4, <1>7, <1>11, <2>1 DEF StartSaved
<1>12. CASE Protocol(i)
  BY <1>4, <1>6, <1>12 DEF Protocol
<1>13. CASE ProtocolSend(i)
  <2>1. PICK ok \in BOOLEAN : Now(i, [e EXCEPT !.injected = ok \/ @])
    BY <1>13 DEF ProtocolSend, e
  <2> DEFINE b == ok \/ e.injected
  <2>2. b \in BOOLEAN
    OBVIOUS
  <2>3. Now(i, [e EXCEPT !.injected = b])
    BY <2>1
  <2> HIDE DEF b
  <2>4. Evolved(e, [e EXCEPT !.injected = b])
    BY <1>1, <1>2, <2>2, Updates
  <2> QED BY <1>4, <1>7, <1>13, <2>3, <2>4 DEF ProtocolSend
<1>14. CASE SettledText(i)
  <2>1. CASE e.running
    <3>1. PICK text \in {page.text, Blank} : Now(i, [e EXCEPT !.last = text, !.quiet = FALSE])
                                             /\ Goto(i, "risk")
      BY <1>14, <2>1 DEF SettledText, e
    <3>2. Evolved(e, [e EXCEPT !.last = text, !.quiet = FALSE])
      BY <1>1, <1>2, <1>5, Updates
    <3> QED BY <1>4, <1>7, <3>1, <3>2
  <2>2. CASE ~e.running
    BY <1>4, <1>6, <1>14, <2>2 DEF SettledText, e
  <2> QED BY <2>1, <2>2
<1>15. CASE ResumeText(i)
  <2>1. PICK text \in {page.text, Blank} : Now(i, Rebased(e, text))
    BY <1>15 DEF ResumeText, e
  <2>2. Evolved(e, Rebased(e, text))
    BY <1>1, <1>2, <1>5, Updates
  <2> QED BY <1>4, <1>7, <1>15, <2>1, <2>2 DEF ResumeText
<1>16. CASE ResumeSaved(i)
  <2>1. Now(i, [e EXCEPT !.timer = TRUE]) /\ Evolved(e, [e EXCEPT !.timer = TRUE])
    BY <1>1, <1>2, <1>5, <1>16, Updates DEF ResumeSaved, e
  <2> QED BY <1>4, <1>7, <1>16, <2>1 DEF ResumeSaved
<1>17. Evolved(e, Halted(e))
  BY <1>1, <1>2, <1>5, Updates
<1>18. CASE Risk(i)
  BY <1>4, <1>6, <1>7, <1>17, <1>18 DEF Risk, e
<1>19. CASE IsBusy(i)
  <2>1. PICK busy \in {page.busy, FALSE} :
           runs' = Append(RemoveAt(runs, i),
                          [runs[i] EXCEPT !.at = "text", !.busy = busy,
                                          !.asked = IF busy = page.busy THEN answers ELSE Blank])
    BY <1>19 DEF IsBusy
  <2> DEFINE asked == IF busy = page.busy THEN answers ELSE Blank
  <2>2. busy \in BOOLEAN /\ "text" \in Free /\ asked \in Blank..MaxAnswers
    <3>1. page.busy \in BOOLEAN /\ answers \in Blank..MaxAnswers
      BY Bounds DEF IInv, RestInv, Blank
    <3> QED BY <1>4, <1>5, <2>1, <3>1
  <2>4. runs' = Append(RemoveAt(runs, i),
                       [runs[i] EXCEPT !.at = "text", !.busy = busy, !.asked = asked])
    BY <2>1
  <2> HIDE DEF asked
  <2>3. UNCHANGED engines
    BY <1>19 DEF IsBusy
  <2> QED BY <2>2, <2>3, <2>4, MovesOn
<1>20. CASE TextBlank(i)
  BY <1>4, <1>6, <1>20 DEF TextBlank
<1>21. CASE Generating(i)
  <2>1. Leave(i)
    BY <1>21 DEF Generating
  <2>2. CASE runs[i].busy
    <3>1. PICK stalled \in BOOLEAN : Now(i, [e EXCEPT !.seen = TRUE, !.quiet = @ /\ ~stalled])
      BY <1>21, <2>2 DEF Generating, e
    <3> DEFINE b == e.quiet /\ ~stalled
    <3>2. b \in BOOLEAN
      OBVIOUS
    <3>3. Now(i, [e EXCEPT !.seen = TRUE, !.quiet = b])
      BY <3>1
    <3> HIDE DEF b
    <3>4. Evolved(e, [e EXCEPT !.seen = TRUE, !.quiet = b])
      BY <1>1, <1>2, <3>2, Updates
    <3> QED BY <1>4, <1>7, <2>1, <3>3, <3>4
  <2>3. CASE ~runs[i].busy
    <3> DEFINE f == [e EXCEPT !.seen = TRUE, !.last = page.text, !.quiet = FALSE]
    <3>1. Now(i, f)
      BY <1>21, <2>3 DEF Generating, e
    <3>2. Evolved(e, f)
      BY <1>1, <1>2, <1>5, Updates
    <3> QED BY <1>4, <1>7, <2>1, <3>1, <3>2
  <2> QED BY <2>2, <2>3
<1>22. CASE Silent(i)
  <2>1. CASE ~e.quiet \/ e.cooling = "yes"
    BY <1>4, <1>6, <1>22, <2>1 DEF Silent, e
  <2>2. CASE ~(~e.quiet \/ e.cooling = "yes") /\ e.round >= MaxRounds
    BY <1>4, <1>7, <1>17, <1>22, <2>2 DEF Silent, e
  <2>3. CASE ~(~e.quiet \/ e.cooling = "yes") /\ ~(e.round >= MaxRounds)
    BY <1>9, <1>22, <2>3 DEF Silent, e
  <2> QED BY <2>1, <2>2, <2>3
\* The run remembers the cooldown and the nudges of now.
<1>23. CASE Finished(i)
  <2> DEFINE b == e.cooling # "yes"
             r == [Run("save", runs[i].on) EXCEPT !.ready = b, !.stamp = e.nudges]
             f == Counted(e)
  <2>1. Evolved(e, f)
    BY <1>1, <1>2, <1>5, Updates
  <2>2. Now(i, f) /\ runs' = Append(RemoveAt(runs, i), r)
    BY <1>23 DEF Finished, e
  <2>3. EnginesStep /\ engines'[runs[i].on] = f /\ Len(engines') = Len(engines)
    <3>1. engines' = [engines EXCEPT ![runs[i].on] = f]
      BY <2>2 DEF Now
    <3>2. Evolved(engines[runs[i].on], f)
      BY <2>1 DEF e, Of
    <3> HIDE DEF f
    <3>3. EnginesStep
      BY <1>1, <1>5, <3>1, <3>2, EngineChanges
    <3> QED BY <1>1, <1>5, <3>1, <3>3 DEF Engines
  <2>4. r \in RunRec /\ r.at = "save" /\ r.on = runs[i].on /\ r.ready = b /\ r.stamp = e.nudges
    <3>1. e.nudges \in 0..MaxNudges /\ b \in BOOLEAN /\ runs[i].on \in Nat
      BY <1>1 DEF RunRec, EngineRec
    <3>2. "save" \in OnPage \union Elsewhere
      BY DEF Elsewhere
    <3> QED BY <1>5, <3>1, <3>2 DEF Run, RunRec
  <2>5. f.nudges = e.nudges /\ f.cooling = e.cooling /\ e.nudges \in Int
    BY <1>1, Bounds DEF Counted, EngineRec
  <2>6. r.on # 0 /\ r.on <= Len(engines')
    BY <1>1, <2>3, <2>4 DEF Engines
  <2> HIDE DEF f, r
  <2>7. Fine(r, engines')
    <3>1. r.stamp <= engines'[r.on].nudges
      BY <2>3, <2>4, <2>5
    <3>2. r.ready => engines'[r.on].cooling # "yes"
      BY <2>3, <2>4, <2>5
    <3> QED BY <2>4, <2>6, <3>1, <3>2, Zenon DEF Fine
  <2> QED BY <2>2, <2>3, <2>7, RunsStep
\* As many nudges as then, so the cooldown is still over.
<1>24. ASSUME NEW checkpoint \in BOOLEAN, Saved(i, checkpoint) PROVE EnginesStep /\ RunsInv'
  <2>1. CASE checkpoint \/ e.round >= MaxRounds
    BY <1>4, <1>7, <1>17, <1>24, <2>1 DEF Saved, e
  <2>2. CASE ~(checkpoint \/ e.round >= MaxRounds) /\ ~Cool(i)
    BY <1>4, <1>6, <1>24, <2>2 DEF Saved, e
  <2>3. CASE ~(checkpoint \/ e.round >= MaxRounds) /\ Cool(i)
    <3>1. Fine(runs[i], engines) /\ runs[i].at = "save"
      BY <1>24, RunFacts DEF Saved
    <3>2. e.cooling # "yes"
      BY <2>3, <3>1 DEF Cool, Fine, e, Of
    <3> QED BY <1>9, <1>24, <2>3, <3>2 DEF Saved, e
  <2> QED BY <2>1, <2>2, <2>3
<1>25. CASE Decided(i)
  <2>1. e.llm
    <3>1. Fine(runs[i], engines)
      BY RunFacts
    <3> QED BY <1>25, <3>1 DEF Decided, Fine, e, Of
  <2> QED BY <1>4, <1>7, <1>8, <1>17, <1>25, <2>1 DEF Decided, e
<1>26. CASE Type(i)
  BY <1>4, <1>6, <1>26 DEF Type
<1>27. CASE SendNudge(i)
  BY <1>4, <1>6, <1>27 DEF SendNudge
<1>28. CASE Reread(i)
  <2>1. PICK text \in {page.text, e.last} :
           Now(i, [e EXCEPT !.last = IF text = Blank THEN @ ELSE text, !.quiet = FALSE])
    BY <1>28 DEF Reread, e
  <2> DEFINE t == IF text = Blank THEN e.last ELSE text
  <2>2. t \in Blank..MaxText
    BY <1>2, <2>1
  <2>3. Now(i, [e EXCEPT !.last = t, !.quiet = FALSE])
    BY <2>1
  <2> HIDE DEF t
  <2>4. Evolved(e, [e EXCEPT !.last = t, !.quiet = FALSE])
    BY <1>1, <1>5, <2>2, Updates
  <2> QED BY <1>4, <1>7, <1>28, <2>3, <2>4 DEF Reread
<1>29. ASSUME NEW llm \in BOOLEAN, Entered(i, llm) \/ Configured(i) PROVE FALSE
  BY <1>29 DEF Entered, Configured, Entries
<1> QED BY <1>10, <1>11, <1>12, <1>13, <1>14, <1>15, <1>16, <1>18, <1>19, <1>20, <1>21,
           <1>22, <1>23, <1>24, <1>25, <1>26, <1>27, <1>28, <1>29
        DEF Starting, Ticking, Nudging

\* The controller finds or builds the engine of the call.
LEMMA Entering ==
    ASSUME IInv, NEW i \in DOMAIN runs, NEW llm \in BOOLEAN, Entered(i, llm)
    PROVE  EnginesStep /\ RunsInv'
<1> DEFINE build == runs[i].on = 0 \/ llm
           e == IF build THEN Len(engines) + 1 ELSE Len(engines)
           start == runs[i].at = "entry start"
           at == IF start THEN "start text" ELSE "resume text"
<1>1. engines \in Seq(EngineRec) /\ Len(engines) \in Nat
  BY DEF IInv
<1>2. runs' = Append(RemoveAt(runs, i), Run(at, e))
  BY DEF Entered
<1>3. at \in OnPage /\ at \notin {"decide", "save"}
  BY DEF OnPage
<1>4. CASE build
  <2> DEFINE n == NewEngine(llm)
             f == [n EXCEPT !.running = TRUE, !.round = IF start THEN 0 ELSE @]
  <2>1. n \in EngineRec
    BY NewEngineType
  <2>2. f \in EngineRec
    BY <2>1 DEF EngineRec
  <2>3. engines' = Append(engines, f)
    BY <1>4 DEF Entered
  <2> HIDE DEF f, n
  <2>4. EnginesStep /\ Len(engines') = Len(engines) + 1
    BY <1>1, <2>2, <2>3, EngineBuilt
  <2>5. Fine(Run(at, e), engines')
    <3>1. e = Len(engines) + 1
      BY <1>4
    <3> HIDE DEF e, at
    <3> QED BY <1>1, <1>3, <2>4, <3>1, FineNew
  <2> HIDE DEF e, at
  <2> QED BY <1>2, <2>4, <2>5, RunsStep
<1>5. CASE ~build
  <2> DEFINE n == engines[Len(engines)]
             f == [n EXCEPT !.running = TRUE, !.round = IF start THEN 0 ELSE @]
  <2>1. Len(engines) \in Engines
    <3>1. runs[i].on # 0 /\ runs[i].on \in Nat /\ runs[i].on <= Len(engines)
      BY <1>5, RunFacts DEF Fine, RunRec
    <3> QED BY <1>1, <3>1 DEF Engines
  <2>2. n \in EngineRec /\ 0 \in Blank..MaxText
    BY <1>1, <2>1, Bounds DEF Engines, Blank
  <2>3. engines' = [engines EXCEPT ![Len(engines)] = f]
    BY <1>5 DEF Entered
  <2>4. f = [n EXCEPT !.running = TRUE] \/ f = [n EXCEPT !.running = TRUE, !.round = 0]
    BY <2>2 DEF EngineRec
  <2> HIDE DEF f
  <2>5. Evolved(n, f)
    BY <2>2, <2>4, Updates
  <2>6. EnginesStep /\ Len(engines') = Len(engines)
    <3>1. EnginesStep
      BY <1>1, <2>1, <2>3, <2>5, EngineChanges
    <3>2. Len(engines') = Len(engines)
      BY <1>1, <2>3
    <3> QED BY <3>1, <3>2
  <2>7. Fine(Run(at, e), engines')
    <3>1. e = Len(engines) /\ e # 0
      BY <1>5, <2>1 DEF Engines
    <3> HIDE DEF e, at
    <3> QED BY <1>1, <1>3, <2>6, <3>1, FineNew
  <2> HIDE DEF e, at
  <2> QED BY <1>2, <2>6, <2>7, RunsStep
<1> QED BY <1>4, <1>5

\* A new engine takes the place of the last.
LEMMA Configuring ==
    ASSUME IInv, NEW i \in DOMAIN runs, Configured(i)
    PROVE  EnginesStep /\ RunsInv'
<1>1. engines' = Append(engines, NewEngine(TRUE)) /\ runs' = RemoveAt(runs, i)
  BY DEF Configured, Leave
<1>2. EnginesStep
  BY <1>1, EngineBuilt, NewEngineType DEF IInv
<1> QED BY <1>1, <1>2, RunsStep

\* A step that begins a handler, or that the page makes.
LEMMA Calls ==
    ASSUME IInv,
           \/ Controller
           \/ \E e \in Engines : Tick(e) \/ Quieten(e) \/ CoolDown(e)
           \/ Begin \/ Grow \/ End
    PROVE  EnginesStep /\ RunsInv'
<1>1. engines \in Seq(EngineRec) /\ Len(engines) \in Nat
  BY DEF IInv
<1>2. ASSUME NEW at \in Entries, Call(at) PROVE EnginesStep /\ RunsInv'
  <2>1. UNCHANGED engines /\ runs' = Append(runs, Run(at, Len(engines)))
    BY <1>2 DEF Call
  <2>2. Fine(Run(at, Len(engines)), engines)
    <3>1. at \in OnPage \union Elsewhere /\ at \notin {"decide", "save"}
      BY <1>2 DEF Entries, Elsewhere
    <3>2. Len(engines) <= Len(engines)
      BY <1>1
    <3> QED BY <1>1, <1>2, <3>1, <3>2, FineNew
  <2>3. EnginesStep
    BY <1>1, <2>1, EnginesStay
  <2> QED BY <2>1, <2>2, <2>3, RunsStep
<1>4. \A e \in Engines : engines[e] \in EngineRec
  BY <1>1 DEF Engines
<1>5. 0 \in Blank..MaxText /\ TRUE \in BOOLEAN
  BY Bounds DEF Blank
<1>6. CASE GoStop
  <2>1. Len(engines) \in Engines
    BY <1>1, <1>6 DEF GoStop, Engines
  <2>2. engines' = [engines EXCEPT ![Len(engines)] = Halted(engines[Len(engines)])]
    BY <1>6 DEF GoStop
  <2>3. EnginesStep
    BY <1>1, <1>4, <1>5, <2>1, <2>2, EngineChanges, Updates
  <2> QED BY <1>6, <2>3, RunsStep DEF GoStop
<1>7. ASSUME NEW e \in Engines, Tick(e) PROVE EnginesStep /\ RunsInv'
  <2>1. UNCHANGED engines /\ runs' = Append(runs, Run("risk", e))
    BY <1>7 DEF Tick
  <2>2. Fine(Run("risk", e), engines)
    <3>1. e \in Nat /\ e # 0 /\ e <= Len(engines)
      BY <1>1 DEF Engines
    <3>2. "risk" \in OnPage \union Elsewhere
      BY DEF OnPage
    <3> QED BY <3>1, <3>2, FineNew
  <2>3. EnginesStep
    BY <1>1, <2>1, EnginesStay
  <2> QED BY <2>1, <2>2, <2>3, RunsStep
<1>8. ASSUME NEW e \in Engines, Quieten(e) \/ CoolDown(e) PROVE EnginesStep /\ RunsInv'
  <2>1. \/ engines' = [engines EXCEPT ![e] = [engines[e] EXCEPT !.quiet = TRUE]]
        \/ engines' = [engines EXCEPT ![e] = [engines[e] EXCEPT !.cooling = "over"]]
    BY <1>8 DEF Quieten, CoolDown
  <2>2. EnginesStep
    BY <1>1, <1>4, <1>5, <2>1, EngineChanges, Updates
  <2> QED BY <1>8, <2>2, RunsStep DEF Quieten, CoolDown
<1>9. CASE Begin \/ Grow \/ End
  <2>1. UNCHANGED <<engines, runs>>
    BY <1>9 DEF Begin, Grow, End
  <2> QED BY <1>1, <2>1, EnginesStay, RunsStep
<1> QED BY <1>2, <1>6, <1>7, <1>8, <1>9 DEF Controller

(* The page, the bounds and the ghosts                                     *)

\* The variables outside engines and handlers keep their types.
LEMMA Rest ==
    ASSUME IInv, Next
    PROVE  RestInv'
<1> USE Bounds DEF RestInv, ghosts
<1>1. RestInv
  BY DEF IInv
<1>2. CASE Controller
  <2>1. stopped' \in BOOLEAN
    BY <1>2 DEF Controller, Call, GoStop
  <2>2. /\ UNCHANGED <<page, answers, faults, late>>
        /\ calls' = calls \/ (calls < MaxCalls /\ calls' = calls + 1)
    <3>1. ASSUME NEW at, Call(at)
          PROVE  UNCHANGED <<page, answers, faults, late>> /\ calls < MaxCalls /\ calls' = calls + 1
      BY <3>1 DEF Call
    <3>2. GoStop => UNCHANGED <<page, answers, faults, late, calls>>
      BY DEF GoStop
    <3> QED BY <1>2, <3>1, <3>2 DEF Controller
  <2> QED BY <1>1, <2>1, <2>2
<1>3. ASSUME NEW i \in DOMAIN runs, Starting(i) PROVE RestInv'
  <2>1. UNCHANGED <<page, calls, answers, late, stopped>>
    BY <1>3 DEF Starting, Entered, Configured, StartText, StartSaved, Protocol, ProtocolSend,
            SettledText, ResumeText, ResumeSaved
  <2>2. faults' = faults \/ (faults' = faults + 1 /\ faults' <= MaxFaults)
    <3>1. ASSUME NEW text, Baseline(text)
          PROVE  faults' = faults \/ (faults' = faults + 1 /\ faults' <= MaxFaults)
      BY <3>1, Zenon DEF Baseline
    <3>2. StartText(i) \/ SettledText(i) \/ ResumeText(i)
          => UNCHANGED faults \/ \E text \in {page.text, Blank} : Baseline(text)
      BY DEF StartText, SettledText, ResumeText
    <3>3. \/ (\E llm \in BOOLEAN : Entered(i, llm)) \/ Configured(i)
          \/ StartSaved(i) \/ Protocol(i) \/ ProtocolSend(i) \/ ResumeSaved(i)
          => UNCHANGED faults
      BY DEF Entered, Configured, StartSaved, Protocol, ProtocolSend, ResumeSaved
    <3>4. \/ UNCHANGED faults
          \/ \E text \in {page.text, Blank} : Baseline(text)
      BY <1>3, <3>2, <3>3 DEF Starting
    <3> QED BY <3>1, <3>4
  <2> QED BY <1>1, <2>1, <2>2
<1>4. ASSUME NEW i \in DOMAIN runs, Ticking(i) PROVE RestInv'
  <2>1. UNCHANGED <<page, calls, answers, stopped>>
    BY <1>4 DEF Ticking, Risk, IsBusy, TextBlank, Generating, Silent, Finished, Saved
  <2>2. UNCHANGED faults
    BY <1>4 DEF Ticking, Risk, IsBusy, TextBlank, Generating, Silent, Finished, Saved
  <2>3. late' = late \/ late' = late + 1
    BY <1>4 DEF Ticking, Risk, IsBusy, TextBlank, Generating, Silent, Finished, Saved
  <2> QED BY <1>1, <2>1, <2>2, <2>3
<1>5. ASSUME NEW i \in DOMAIN runs, Nudging(i) PROVE RestInv'
  BY <1>1, <1>5 DEF Nudging, Decided, Type, SendNudge, Reread
<1>6. ASSUME NEW e \in Engines, Tick(e) \/ Quieten(e) \/ CoolDown(e) PROVE RestInv'
  BY <1>1, <1>6 DEF Tick, Quieten, CoolDown
<1>7. CASE Begin \/ Grow \/ End
  <2>1. UNCHANGED <<calls, faults, late, stopped>>
    BY <1>7 DEF Begin, Grow, End
  <2>2. answers' = answers \/ (answers < MaxAnswers /\ answers' = answers + 1)
    <3>1. Begin => answers < MaxAnswers /\ answers' = answers + 1
      BY DEF Begin
    <3>2. Grow \/ End => UNCHANGED answers
      BY DEF Grow, End
    <3> QED BY <1>7, <3>1, <3>2
  <2>3. page' \in [busy : BOOLEAN, text : Blank..MaxText]
    <3>1. page.text \in Int /\ page.text >= -1 /\ page.text <= MaxText
      BY <1>1 DEF Blank
    <3> DEFINE n == page.text + 1
    <3>2. page.text < MaxText => n \in Blank..MaxText
      BY <3>1 DEF Blank
    <3>3. \/ page' = [page EXCEPT !.busy = TRUE] \/ page' = [page EXCEPT !.busy = FALSE]
          \/ page.text < MaxText /\ page' = [page EXCEPT !.text = n]
      BY <1>7 DEF Begin, Grow, End
    <3> HIDE DEF n
    <3> QED BY <1>1, <3>2, <3>3
  <2> QED BY <1>1, <2>1, <2>2, <2>3
<1> QED BY <1>2, <1>3, <1>4, <1>5, <1>6, <1>7 DEF Next

\* The invariant holds at first.
LEMMA Initially == Init => IInv
<1> SUFFICES ASSUME Init PROVE IInv
  OBVIOUS
<1>1. engines = <<>> /\ runs = <<>>
  BY DEF Init
<1>2. engines \in Seq(EngineRec) /\ runs \in Seq(RunRec) /\ DOMAIN runs = {}
  BY <1>1
<1>3. RestInv
  <2>1. page \in [busy : BOOLEAN, text : Blank..MaxText]
    <3>1. page \in [busy : {FALSE}, text : {Blank, 0}]
      BY DEF Init
    <3>2. Blank \in Blank..MaxText /\ 0 \in Blank..MaxText
      BY Bounds DEF Blank
    <3> QED BY <3>1, <3>2
  <2>2. calls = 0 /\ answers = 0 /\ faults = 0 /\ late = 0
    BY DEF Init
  <2>3. stopped \in BOOLEAN
    BY Zenon DEF Init
  <2>4. /\ calls \in 0..MaxCalls /\ answers \in 0..MaxAnswers /\ faults \in 0..MaxFaults
        /\ late \in Nat
    BY <2>2, Bounds
  <2> QED BY <2>1, <2>3, <2>4, Zenon DEF RestInv
<1> QED BY <1>2, <1>3 DEF IInv, RunsInv

\* Every step keeps it, and changes engines only as EnginesStep says.
LEMMA NextStep == IInv /\ Next => IInv' /\ EnginesStep
<1> SUFFICES ASSUME IInv, Next PROVE IInv' /\ EnginesStep
  OBVIOUS
<1>1. EnginesStep /\ RunsInv'
  <2>1. ASSUME NEW i \in DOMAIN runs, Starting(i) \/ Ticking(i) \/ Nudging(i)
        PROVE  EnginesStep /\ RunsInv'
    <3>1. CASE runs[i].at \notin Entries
      BY <2>1, <3>1, Handlers
    <3>2. CASE runs[i].at \in Entries
      <4>1. (\E llm \in BOOLEAN : Entered(i, llm)) \/ Configured(i)
        BY <2>1, <3>2
           DEF Entries, Starting, StartText, StartSaved, Protocol, ProtocolSend, SettledText,
               ResumeText, ResumeSaved, Ticking, Risk, IsBusy, TextBlank, Generating, Idle,
               Silent, Finished, Saved, Nudging, Decided, Type, SendNudge, Reread
      <4> QED BY <4>1, Entering, Configuring
    <3> QED BY <3>1, <3>2
  <2> QED BY <2>1, Calls DEF Next
<1>2. RestInv'
  BY Rest
<1> QED BY <1>1, <1>2 DEF IInv, EnginesStep

\* So does a step that changes nothing.
LEMMA Step == IInv /\ [Next]_vars => IInv' /\ EnginesStep
<1>1. ASSUME IInv, UNCHANGED vars PROVE IInv' /\ EnginesStep
  <2>1. EnginesStep
    BY <1>1, EnginesStay DEF IInv, vars
  <2>2. IInv'
    BY <1>1 DEF IInv, RunsInv, RestInv, vars, ghosts
  <2> QED BY <2>1, <2>2
<1> QED BY <1>1, NextStep

\* So it is an invariant.
LEMMA Inductive == Spec => []IInv
<1>1. IInv /\ [Next]_vars => IInv'
  BY Step
<1> QED BY <1>1, Initially, PTL DEF Spec

-----------------------------------------------------------------------------
(* Rounds and answers                                                      *)

\* Where a run of start or resume has not yet read the text it starts from.
Early == Entries \union {"start text", "resume text"}

\* An engine that has, or gets without another look at the page, a baseline.
Based(e) == engines[e].timer \/ \E i \in DOMAIN runs : runs[i].on = e /\ runs[i].at \notin Early

\* A tick of the engine knows that the model writes.
Told(e) == \E i \in DOMAIN runs : runs[i].on = e /\ runs[i].at = "text" /\ runs[i].busy

\* f has seen an answer, or will at its next look at the page.
Sees(f) == f.seen \/ f.last # page.text

\* The engine may still count a round for an answer that has begun.
Claim(e) == page.busy \/ Told(e) \/ (Based(e) /\ Sees(engines[e]))

Credit == answers + faults + late

Owed ==
    \A e \in Engines :
       /\ engines[e].round <= Credit
       /\ Claim(e) => engines[e].round < Credit

\* A tick that will find the model silent, and no answer began since it asked.
Sure(r) == r.at = "text" /\ ~r.busy /\ r.asked = answers

\* Who asked before such a tick was served before it: what a later one knows of the
\* page is not older.
Order ==
    /\ page.busy => answers > 0
    /\ \A i \in DOMAIN runs : runs[i].asked <= answers
    /\ \A i \in DOMAIN runs : Sure(runs[i]) => ~page.busy
    /\ \A i, j \in DOMAIN runs :
          i < j /\ Sure(runs[i]) /\ runs[j].at = "text" => ~runs[j].busy

RoundInv == Owed /\ Order

\* The runs keep their order, and r may be the last.
Follows(r) ==
    /\ \A k \in DOMAIN runs' : runs'[k] = r \/ \E j \in DOMAIN runs : runs'[k] = runs[j]
    /\ \A a, b \in DOMAIN runs' :
          a < b => \/ runs'[b] = r
                   \/ \E j, k \in DOMAIN runs : /\ j < k
                                                /\ runs'[a] = runs[j] /\ runs'[b] = runs[k]

\* What a step does to the runs, in the terms of Follows.
LEMMA Following ==
    ASSUME runs \in Seq(RunRec), NEW i, NEW r \in RunRec,
           \/ UNCHANGED runs
           \/ runs' = Append(runs, r)
           \/ runs' = RemoveAt(runs, i) /\ i \in DOMAIN runs
           \/ runs' = Append(RemoveAt(runs, i), r) /\ i \in DOMAIN runs
    PROVE  Follows(r)
<1> DEFINE Inside(s) == /\ s \in Seq(RunRec)
                        /\ \A k \in DOMAIN s : \E j \in DOMAIN runs : s[k] = runs[j]
                        /\ \A a, b \in DOMAIN s :
                              a < b => \E j, k \in DOMAIN runs :
                                          j < k /\ s[a] = runs[j] /\ s[b] = runs[k]
<1>1. Inside(runs)
  OBVIOUS
<1>2. ASSUME i \in DOMAIN runs PROVE Inside(RemoveAt(runs, i))
  <2> DEFINE s == RemoveAt(runs, i)
             at(k) == IF k < i THEN k ELSE k + 1
  <2>1. /\ s \in Seq(RunRec) /\ Len(s) = Len(runs) - 1
        /\ \A k \in DOMAIN s : s[k] = IF k < i THEN runs[k] ELSE runs[k + 1]
    BY <1>2, RemovedInOrder
  <2>2. i \in 1..Len(runs) /\ Len(runs) \in Nat
    BY <1>2
  <2> HIDE DEF s
  <2>3. DOMAIN s = 1..(Len(runs) - 1)
    BY <2>1
  <2>4. ASSUME NEW k \in DOMAIN s PROVE at(k) \in DOMAIN runs /\ s[k] = runs[at(k)]
    BY <2>1, <2>2, <2>3
  <2>5. ASSUME NEW a \in DOMAIN s, NEW b \in DOMAIN s, a < b PROVE at(a) < at(b)
    BY <2>2, <2>3, <2>5
  <2> HIDE DEF at
  <2>6. Inside(s)
    BY <2>1, <2>4, <2>5
  <2> QED BY <2>6 DEF s
<1>3. ASSUME NEW s, Inside(s), runs' = s \/ runs' = Append(s, r) PROVE Follows(r)
  <2>1. CASE runs' = s
    <3>1. /\ \A k \in DOMAIN runs' : \E j \in DOMAIN runs : runs'[k] = runs[j]
          /\ \A a, b \in DOMAIN runs' :
                a < b => \E j, k \in DOMAIN runs :
                            j < k /\ runs'[a] = runs[j] /\ runs'[b] = runs[k]
      BY <1>3, <2>1
    <3> QED BY <3>1, Zenon DEF Follows
  <2>2. CASE runs' = Append(s, r)
    <3>1. s \in Seq(RunRec)
      BY <1>3
    <3>2. /\ DOMAIN runs' = 1..(Len(s) + 1) /\ DOMAIN s = 1..Len(s) /\ Len(s) \in Nat
          /\ runs'[Len(s) + 1] = r /\ \A k \in 1..Len(s) : runs'[k] = s[k]
      BY <2>2, <3>1
    <3>3. ASSUME NEW k \in DOMAIN runs', k # Len(s) + 1
          PROVE  k \in DOMAIN s /\ runs'[k] = s[k]
      BY <3>2, <3>3
    <3>4. ASSUME NEW a \in DOMAIN runs', NEW b \in DOMAIN runs', a < b
          PROVE  a # Len(s) + 1
      BY <3>2, <3>4
    <3>5. /\ \A k \in DOMAIN s : \E j \in DOMAIN runs : s[k] = runs[j]
          /\ \A a, b \in DOMAIN s :
                a < b => \E j, k \in DOMAIN runs : j < k /\ s[a] = runs[j] /\ s[b] = runs[k]
      BY <1>3
    <3>6. ASSUME NEW k \in DOMAIN runs'
          PROVE  runs'[k] = r \/ \E j \in DOMAIN runs : runs'[k] = runs[j]
      <4>1. CASE k = Len(s) + 1
        BY <3>2, <4>1
      <4>2. CASE k # Len(s) + 1
        BY <3>3, <3>5, <4>2
      <4> QED BY <4>1, <4>2
    <3>7. ASSUME NEW a \in DOMAIN runs', NEW b \in DOMAIN runs', a < b
          PROVE  \/ runs'[b] = r
                 \/ \E j, k \in DOMAIN runs : /\ j < k
                                              /\ runs'[a] = runs[j] /\ runs'[b] = runs[k]
      <4>1. a \in DOMAIN s /\ runs'[a] = s[a]
        BY <3>3, <3>4, <3>7
      <4>2. CASE b = Len(s) + 1
        BY <3>2, <4>2
      <4>3. CASE b # Len(s) + 1
        <5>1. b \in DOMAIN s /\ runs'[b] = s[b]
          BY <3>3, <4>3
        <5>2. PICK j \in DOMAIN runs, k \in DOMAIN runs :
                 j < k /\ s[a] = runs[j] /\ s[b] = runs[k]
          BY <3>5, <3>7, <4>1, <5>1
        <5> QED BY <4>1, <5>1, <5>2
      <4> QED BY <4>2, <4>3
    <3> QED BY <3>6, <3>7, Zenon DEF Follows
  <2> QED BY <1>3, <2>1, <2>2
<1> HIDE DEF Inside
<1>4. PICK s : Inside(s) /\ (runs' = s \/ runs' = Append(s, r))
  BY <1>1, <1>2
<1> QED BY <1>3, <1>4

\* A handler that does not know more of the page than there is keeps the order.
LEMMA OrderKept ==
    ASSUME IInv, Order, NEW r, Follows(r), UNCHANGED <<page, answers>>,
           r.asked <= answers, Sure(r) => ~page.busy, r.at = "text" /\ r.busy => page.busy
    PROVE  Order'
<1>1. \A k \in DOMAIN runs' : runs'[k] = r \/ \E j \in DOMAIN runs : runs'[k] = runs[j]
  BY DEF Follows
<1>2. page.busy' => answers' > 0
  BY DEF Order
<1>3. ASSUME NEW k \in DOMAIN runs'
      PROVE  runs'[k].asked <= answers' /\ (Sure(runs[k])' => ~page.busy')
  <2>1. CASE runs'[k] = r
    BY <2>1 DEF Sure
  <2>2. CASE \E j \in DOMAIN runs : runs'[k] = runs[j]
    BY <2>2 DEF Order, Sure
  <2> QED BY <1>1, <2>1, <2>2
<1>4. ASSUME NEW a \in DOMAIN runs', NEW b \in DOMAIN runs', a < b,
             Sure(runs[a])', runs'[b].at = "text", runs'[b].busy
      PROVE  FALSE
  <2>1. CASE runs'[b] = r
    <3>1. page.busy
      BY <1>4, <2>1
    <3> QED BY <1>3, <1>4, <3>1
  <2>2. CASE \E j, k \in DOMAIN runs : j < k /\ runs'[a] = runs[j] /\ runs'[b] = runs[k]
    <3>1. PICK j \in DOMAIN runs, k \in DOMAIN runs :
             j < k /\ runs'[a] = runs[j] /\ runs'[b] = runs[k]
      BY <2>2
    <3>2. Sure(runs[j]) /\ runs[k].at = "text" /\ runs[k].busy
      BY <1>4, <3>1 DEF Sure
    <3> QED BY <3>1, <3>2 DEF Order
  <2> QED BY <1>4, <2>1, <2>2 DEF Follows
<1> QED BY <1>2, <1>3, <1>4 DEF Order

\* What an engine may claim after a step, and when it could claim it before.
LEMMA Claims ==
    ASSUME NEW r, Follows(r), UNCHANGED page, r.at = "text" /\ r.busy => page.busy,
           NEW e, Claim(e)'
    PROVE  /\ page.busy \/ Told(e) \/ Sees(engines'[e])
           /\ /\ engines'[e].timer => Based(e)
              /\ r.on = e => r.at \in Early \/ Based(e)
              => page.busy \/ Told(e) \/ (Based(e) /\ Sees(engines'[e]))
<1>1. \A k \in DOMAIN runs' : runs'[k] = r \/ \E j \in DOMAIN runs : runs'[k] = runs[j]
  BY DEF Follows
<1>2. Told(e)' => page.busy \/ Told(e)
  <2> SUFFICES ASSUME NEW k \in DOMAIN runs', runs'[k].on = e, runs'[k].at = "text",
                      runs'[k].busy
               PROVE  page.busy \/ Told(e)
    BY DEF Told
  <2>1. CASE runs'[k] = r
    BY <2>1
  <2>2. CASE \E j \in DOMAIN runs : runs'[k] = runs[j]
    BY <2>2 DEF Told
  <2> QED BY <1>1, <2>1, <2>2
<1>3. ASSUME engines'[e].timer => Based(e), r.on = e => r.at \in Early \/ Based(e), Based(e)'
      PROVE  Based(e)
  <2>1. CASE engines'[e].timer
    BY <1>3, <2>1
  <2>2. ASSUME NEW k \in DOMAIN runs', runs'[k].on = e, runs'[k].at \notin Early PROVE Based(e)
    <3>1. CASE runs'[k] = r
      BY <1>3, <2>2, <3>1
    <3>2. CASE \E j \in DOMAIN runs : runs'[k] = runs[j]
      BY <2>2, <3>2 DEF Based
    <3> QED BY <1>1, <3>1, <3>2
  <2> QED BY <1>3, <2>1, <2>2 DEF Based
<1>4. \/ page.busy
      \/ Told(e)'
      \/ Based(e)' /\ Sees(engines'[e])
  BY DEF Claim, Sees
<1> QED BY <1>2, <1>3, <1>4

\* The credit is a number, before a step and after it.
LEMMA CreditType ==
    ASSUME IInv, RestInv'
    PROVE  Credit \in Nat /\ Credit' \in Nat /\ answers \in Nat /\ Blank < answers
<1>1. answers \in Nat /\ faults \in Nat /\ late \in Nat
  BY Bounds DEF IInv, RestInv
<1>2. answers' \in Nat /\ faults' \in Nat /\ late' \in Nat
  BY Bounds DEF RestInv
<1>3. Credit \in Nat
  BY <1>1 DEF Credit
<1>4. Credit' \in Nat
  <2>1. Credit' = answers' + faults' + late'
    BY DEF Credit
  <2>2. \A a, b, c \in Nat : a + b + c \in Nat
    OBVIOUS
  <2> QED BY <1>2, <2>1, <2>2, Zenon
<1>5. Blank < answers
  BY <1>1 DEF Blank
<1> QED BY <1>1, <1>3, <1>4, <1>5

\* What a run may say of the page.
Honest(r) ==
    /\ r.asked <= answers
    /\ Sure(r) => ~page.busy
    /\ r.at = "text" /\ r.busy => page.busy

\* A run that has not read isBusy says nothing.
LEMMA Silence ==
    ASSUME IInv, RestInv', NEW r, r.asked = Blank, r.at # "text"
    PROVE  Honest(r)
<1>1. Blank <= answers
  BY CreditType DEF Blank
<1> QED BY <1>1 DEF Honest, Sure

\* A step that touches the account of engine e only.
LEMMA OwedStep ==
    ASSUME IInv, RestInv', EnginesStep, Owed, UNCHANGED page, Credit <= Credit',
           NEW r, Follows(r), Honest(r), NEW e,
           \A d \in Engines' : d # e => /\ d \in Engines /\ engines'[d] = engines[d]
                                        /\ r.on = d => r.at \in Early \/ Based(d),
           e \in Engines' => /\ engines'[e].round <= Credit'
                             /\ Claim(e)' => engines'[e].round < Credit'
    PROVE  Owed'
<1>1. Credit \in Nat /\ Credit' \in Nat
  BY CreditType
<1>2. ASSUME NEW d \in Engines', d # e
      PROVE  engines'[d].round <= Credit' /\ (Claim(d)' => engines'[d].round < Credit')
  <2>1. d \in Engines /\ engines'[d] = engines[d] /\ (r.on = d => r.at \in Early \/ Based(d))
    BY <1>2
  <2>2. engines[d].round \in Nat
    <3>1. engines[d] \in EngineRec
      BY <2>1 DEF IInv, Engines
    <3> QED BY <3>1 DEF EngineRec
  <2>3. engines[d].round <= Credit /\ (Claim(d) => engines[d].round < Credit)
    BY <2>1 DEF Owed
  <2>4. ASSUME Claim(d)' PROVE Claim(d)
    <3>1. engines'[d].timer => Based(d)
      BY <2>1 DEF Based
    <3>2. r.at = "text" /\ r.busy => page.busy
      BY DEF Honest
    <3>3. page.busy \/ Told(d) \/ (Based(d) /\ Sees(engines'[d]))
      BY <2>1, <2>4, <3>1, <3>2, Claims
    <3> QED BY <2>1, <3>3 DEF Claim
  <2> HIDE DEF Owed, Claim, Credit
  <2> QED BY <1>1, <2>1, <2>2, <2>3, <2>4
<1> QED BY <1>2 DEF Owed

\* A step of handler i, by what becomes of its engine.
LEMMA Keeps ==
    ASSUME IInv, RestInv', EnginesStep, RoundInv, UNCHANGED <<page, answers>>,
           Credit <= Credit',
           NEW i \in DOMAIN runs, runs[i].at \notin Entries,
           NEW f, (UNCHANGED engines /\ f = Of(i)) \/ Now(i, f),
           NEW r \in RunRec, r.on = runs[i].on, Honest(r),
           Leave(i) \/ runs' = Append(RemoveAt(runs, i), r),
           \/ /\ f.round = Of(i).round
              /\ \/ Credit < Credit'
                 \/ ~Sees(f)
                 \/ Claim(runs[i].on)
                 \/ runs[i].at \notin Early /\ (Sees(f) => Sees(Of(i)))
           \/ /\ f.round = Of(i).round + 1 /\ Claim(runs[i].on)
              /\ Credit < Credit' \/ (~page.busy /\ ~Told(runs[i].on) /\ ~Sees(f))
    PROVE  RoundInv'
<1>0. PICK e : e = runs[i].on
  OBVIOUS
<1>1. /\ e \in Engines /\ Of(i) \in EngineRec /\ Of(i) = engines[e]
      /\ engines \in Seq(EngineRec) /\ runs \in Seq(RunRec)
  BY <1>0, RunFacts DEF IInv, RunsInv, Of
<1>2. Follows(r)
  BY <1>1, Following DEF Leave
<1>3. Engines' = Engines /\ engines'[e] = f /\ \A d \in Engines : d # e => engines'[d] = engines[d]
  <2>1. CASE UNCHANGED engines /\ f = Of(i)
    BY <1>1, <2>1 DEF Engines
  <2>2. CASE Now(i, f)
    BY <1>0, <1>1, <2>2 DEF Engines, Now
  <2> QED BY <2>1, <2>2
<1>4. Order'
  BY <1>2, OrderKept DEF RoundInv, Honest
<1>5. /\ Of(i).round \in Nat /\ Credit \in Nat /\ Credit' \in Nat
      /\ Of(i).round <= Credit
      /\ Claim(e) => Of(i).round < Credit
  <2>1. Of(i).round \in Nat
    BY <1>1 DEF EngineRec
  <2>2. Owed
    BY DEF RoundInv
  <2> QED BY <1>1, <2>1, <2>2, CreditType DEF Owed
<1> HIDE DEF Credit, Claim
<1>6. f.round <= Credit'
  BY <1>0, <1>5
<1>7. ASSUME Claim(e)' PROVE f.round < Credit'
  <2>1. page.busy \/ Told(e) \/ Sees(f)
    <3>1. r.at = "text" /\ r.busy => page.busy
      BY DEF Honest
    <3> QED BY <1>2, <1>3, <1>7, <3>1, Claims
  <2>2. page.busy \/ Told(e) => Claim(e)
    BY DEF Claim
  <2>3. CASE f.round = Of(i).round + 1
    BY <1>0, <1>5, <2>1, <2>3
  <2>4. CASE f.round = Of(i).round /\ Credit < Credit'
    BY <1>5, <2>4
  <2>5. CASE f.round = Of(i).round /\ (~Sees(f) \/ Claim(e))
    BY <1>5, <2>1, <2>2, <2>5
  <2>6. CASE f.round = Of(i).round /\ runs[i].at \notin Early /\ (Sees(f) => Sees(Of(i)))
    <3>1. Based(e)
      BY <1>0, <2>6 DEF Based
    <3>2. Claim(e)
      BY <1>1, <2>1, <2>6, <3>1 DEF Claim
    <3> QED BY <1>5, <2>6, <3>2
  <2> QED BY <1>0, <2>3, <2>4, <2>5, <2>6
<1>8. Owed'
  <2>1. ASSUME NEW d \in Engines', d # e
        PROVE  /\ d \in Engines /\ engines'[d] = engines[d]
               /\ r.on = d => r.at \in Early \/ Based(d)
    BY <1>0, <1>3, <2>1
  <2>2. Owed
    BY DEF RoundInv
  <2> QED BY <1>2, <1>3, <1>6, <1>7, <2>1, <2>2, OwedStep
<1> QED BY <1>4, <1>8 DEF RoundInv

\* What is known of a run that has just come to its await.
LEMMA RunNew ==
    ASSUME NEW at \in OnPage \union Elsewhere, NEW e \in Nat
    PROVE  /\ Run(at, e) \in RunRec /\ Run(at, e).at = at /\ Run(at, e).on = e
           /\ Run(at, e).asked = Blank
<1>1. Blank \in Blank..MaxAnswers /\ 0 \in 0..MaxNudges
  BY Bounds DEF Blank
<1> QED BY <1>1 DEF Run, RunRec

\* A step of a handler that is under way.
LEMMA RoundsOfHandlers ==
    ASSUME IInv, RestInv', RoundInv, NEW i \in DOMAIN runs, runs[i].at \notin Entries,
           Starting(i) \/ Ticking(i) \/ Nudging(i)
    PROVE  RoundInv'
<1> DEFINE e == Of(i)
           Places == (OnPage \union Elsewhere) \ {"text"}
<1>1. /\ e \in EngineRec /\ runs[i].on \in Engines /\ runs[i].on \in Nat /\ runs[i] \in RunRec
      /\ EnginesStep
  <2>1. e \in EngineRec /\ runs[i].on \in Engines /\ runs[i] \in RunRec
    BY RunFacts
  <2> QED BY <2>1, Handlers DEF RunRec
<1>2. /\ {"start save", "settled text", "protocol", "protocol send", "risk", "resume save"}
             \subseteq Places
      /\ {"busy", "send", "reread", "type", "decide", "save"} \subseteq Places
      /\ \A at \in Places : at \in OnPage \union Elsewhere /\ at # "text"
  BY DEF OnPage, Elsewhere
<1>3. e.round \in Nat /\ e.seen \in BOOLEAN
  BY <1>1 DEF EngineRec
<1>4. Credit \in Nat /\ Credit' \in Nat
  BY CreditType
<1>5. UNCHANGED ghosts => Credit' = Credit /\ UNCHANGED answers
  BY DEF ghosts, Credit
<1> HIDE DEF e, Places
<1>6. ASSUME NEW f, (UNCHANGED engines /\ f = e) \/ Now(i, f), f.round = e.round,
             NEW at \in Places, Goto(i, at) \/ Leave(i),
             UNCHANGED <<page, answers>>, Credit <= Credit',
             \/ Credit < Credit' \/ ~Sees(f) \/ Claim(runs[i].on)
             \/ runs[i].at \notin Early /\ (Sees(f) => Sees(e))
      PROVE  RoundInv'
  <2> DEFINE r == Run(at, runs[i].on)
  <2>1. r \in RunRec /\ r.at = at /\ r.on = runs[i].on /\ r.asked = Blank /\ at # "text"
    BY <1>1, <1>2, RunNew
  <2>2. Leave(i) \/ runs' = Append(RemoveAt(runs, i), r)
    BY <1>6 DEF Goto
  <2> HIDE DEF r, Sees, Claim, Credit
  <2>3. PICK q : q = r
    OBVIOUS
  <2>4. Honest(q)
    BY <2>1, <2>3, Silence
  <2>5. f.round = Of(i).round /\ ((UNCHANGED engines /\ f = Of(i)) \/ Now(i, f))
    BY <1>6 DEF e
  <2>6. \/ Credit < Credit' \/ ~Sees(f) \/ Claim(runs[i].on)
        \/ runs[i].at \notin Early /\ (Sees(f) => Sees(Of(i)))
    BY <1>6 DEF e
  <2> QED BY <1>1, <1>6, <2>1, <2>2, <2>3, <2>4, <2>5, <2>6, Keeps
<1>7. ASSUME NEW f, (UNCHANGED engines /\ f = e) \/ Now(i, f), f.round = e.round,
             NEW at \in Places, Goto(i, at) \/ Leave(i),
             UNCHANGED <<page, ghosts>>, runs[i].at \notin Early, Sees(f) => Sees(e)
      PROVE  RoundInv'
  <2>1. Credit <= Credit' /\ UNCHANGED <<page, answers>>
    BY <1>4, <1>5, <1>7
  <2> QED BY <1>6, <1>7, <2>1
<1>8. ASSUME NEW at \in Places, Goto(i, at) \/ Leave(i), UNCHANGED <<engines, page, ghosts>>,
             runs[i].at \notin Early
      PROVE  RoundInv'
  BY <1>7, <1>8
<1>9. ASSUME Lock(i), UNCHANGED <<page, ghosts>>, runs[i].at \notin Early PROVE RoundInv'
  <2> DEFINE f == Locked(e)
  <2>1. Now(i, f) /\ Goto(i, "type")
    BY <1>9 DEF Lock, e
  <2>2. f.round = e.round /\ f.seen = FALSE /\ f.last = e.last
    BY <1>1 DEF Locked, EngineRec
  <2> HIDE DEF f
  <2>3. Sees(f) => Sees(e)
    BY <2>2 DEF Sees
  <2> QED BY <1>2, <1>7, <1>9, <2>1, <2>2, <2>3
<1>10. ASSUME DoNudge(i), UNCHANGED <<page, ghosts>>, runs[i].at \notin Early PROVE RoundInv'
  BY <1>2, <1>8, <1>9, <1>10 DEF DoNudge
<1>11. ASSUME Now(i, Halted(e)), Leave(i), UNCHANGED <<page, ghosts>>, runs[i].at \notin Early
       PROVE  RoundInv'
  <2> DEFINE f == Halted(e)
  <2>1. f.round = e.round /\ f.seen = e.seen /\ f.last = e.last
    BY <1>1 DEF Halted, EngineRec
  <2>2. Now(i, f)
    BY <1>11
  <2> HIDE DEF f
  <2>3. Sees(f) => Sees(e)
    BY <2>1 DEF Sees
  <2> QED BY <1>2, <1>7, <1>11, <2>1, <2>2, <2>3
\* A baseline: what the page says, or a fault.
<1>12. ASSUME NEW text, Baseline(text), UNCHANGED <<page, answers, late>>
       PROVE  Credit <= Credit' /\ (Credit < Credit' \/ text = page.text)
  <2>1. answers \in Nat /\ faults \in Nat /\ late \in Nat
    BY Bounds DEF IInv, RestInv
  <2>2. faults' = IF text = page.text THEN faults ELSE faults + 1
    BY <1>12, Zenon DEF Baseline
  <2>3. Credit = answers + faults + late /\ Credit' = answers + faults' + late
    BY <1>12 DEF Credit
  <2> QED BY <2>1, <2>2, <2>3
<1>13. ASSUME NEW text, NEW f, Baseline(text), Now(i, f), f.round = e.round, f.seen = FALSE,
              f.last = text, NEW at \in Places, Goto(i, at), UNCHANGED <<page, answers, late>>
       PROVE  RoundInv'
  <2>1. Credit <= Credit' /\ (Credit < Credit' \/ ~Sees(f))
    BY <1>12, <1>13 DEF Sees
  <2> QED BY <1>6, <1>13, <2>1
<1>14. CASE StartText(i)
  <2>1. PICK text \in {page.text, Blank} :
           Baseline(text) /\ Now(i, [Rebased(e, text) EXCEPT !.cooling = "never"])
    BY <1>14 DEF StartText, e
  <2> DEFINE f == [Rebased(e, text) EXCEPT !.cooling = "never"]
  <2>2. f.round = e.round /\ f.seen = FALSE /\ f.last = text
    BY <1>1 DEF Rebased, EngineRec
  <2>3. Now(i, f)
    BY <2>1
  <2> HIDE DEF f
  <2> QED BY <1>2, <1>13, <1>14, <2>1, <2>2, <2>3 DEF StartText
<1>15. CASE ResumeText(i)
  <2>1. PICK text \in {page.text, Blank} : Baseline(text) /\ Now(i, Rebased(e, text))
    BY <1>15 DEF ResumeText, e
  <2> DEFINE f == Rebased(e, text)
  <2>2. f.round = e.round /\ f.seen = FALSE /\ f.last = text
    BY <1>1 DEF Rebased, EngineRec
  <2>3. Now(i, f)
    BY <2>1
  <2> HIDE DEF f
  <2> QED BY <1>2, <1>13, <1>15, <2>1, <2>2, <2>3 DEF ResumeText
<1>16. CASE SettledText(i)
  <2>1. runs[i].at \notin Early /\ UNCHANGED <<page, calls, answers, late, stopped>>
    BY <1>16 DEF SettledText, Early
  <2>2. CASE e.running
    <3>1. PICK text \in {page.text, Blank} : /\ Baseline(text)
                                             /\ Now(i, [e EXCEPT !.last = text, !.quiet = FALSE])
                                             /\ Goto(i, "risk")
      BY <1>16, <2>2 DEF SettledText, e
    <3> DEFINE f == [e EXCEPT !.last = text, !.quiet = FALSE]
    <3>2. f.round = e.round /\ f.seen = e.seen /\ f.last = text
      BY <1>1 DEF EngineRec
    <3>3. Now(i, f) /\ UNCHANGED <<page, answers, late>>
      BY <2>1, <3>1
    <3> HIDE DEF f
    <3>4. Credit <= Credit' /\ (Credit < Credit' \/ text = page.text)
      BY <1>12, <3>1, <3>3
    <3>5. text = page.text => (Sees(f) => Sees(e))
      BY <3>2 DEF Sees
    <3> QED BY <1>2, <1>6, <2>1, <3>1, <3>2, <3>3, <3>4, <3>5
  <2>3. CASE ~e.running
    <3>1. Leave(i) /\ UNCHANGED <<engines, page, ghosts>>
      BY <1>16, <2>3 DEF SettledText, e, ghosts
    <3> QED BY <1>2, <1>8, <2>1, <3>1
  <2> QED BY <2>2, <2>3
<1>17. CASE StartSaved(i) \/ ResumeSaved(i)
  <2> DEFINE f == [e EXCEPT !.timer = TRUE]
  <2>1. f.round = e.round /\ f.seen = e.seen /\ f.last = e.last
    BY <1>1 DEF EngineRec
  <2>2. Now(i, f) /\ runs[i].at \notin Early /\ UNCHANGED <<page, ghosts>>
    BY <1>17 DEF StartSaved, ResumeSaved, Early, e
  <2>3. Goto(i, "settled text") \/ Goto(i, "protocol") \/ Goto(i, "risk") \/ Leave(i)
    BY <1>17 DEF StartSaved, ResumeSaved
  <2> HIDE DEF f
  <2>4. Sees(f) => Sees(e)
    BY <2>1 DEF Sees
  <2> QED BY <1>2, <1>7, <2>1, <2>2, <2>3, <2>4
<1>18. CASE Protocol(i)
  BY <1>2, <1>8, <1>18 DEF Protocol, Early
<1>19. CASE ProtocolSend(i)
  <2>1. PICK ok \in BOOLEAN : Now(i, [e EXCEPT !.injected = ok \/ @])
    BY <1>19 DEF ProtocolSend, e
  <2> DEFINE f == [e EXCEPT !.injected = ok \/ @]
  <2>2. f.round = e.round /\ f.seen = e.seen /\ f.last = e.last
    BY <1>1 DEF EngineRec
  <2>3. Now(i, f) /\ runs[i].at \notin Early /\ UNCHANGED <<page, ghosts>>
        /\ Goto(i, "settled text")
    BY <1>19, <2>1 DEF ProtocolSend, Early
  <2> HIDE DEF f
  <2>4. Sees(f) => Sees(e)
    BY <2>2 DEF Sees
  <2> QED BY <1>2, <1>7, <2>2, <2>3, <2>4
<1>20. CASE Risk(i)
  BY <1>2, <1>8, <1>11, <1>20 DEF Risk, Early, e
\* The one step at which a run learns whether the model writes.
<1>21. CASE IsBusy(i)
  <2>1. PICK busy \in {page.busy, FALSE} :
           runs' = Append(RemoveAt(runs, i),
                          [runs[i] EXCEPT !.at = "text", !.busy = busy,
                                          !.asked = IF busy = page.busy THEN answers ELSE Blank])
    BY <1>21 DEF IsBusy
  <2> DEFINE asked == IF busy = page.busy THEN answers ELSE Blank
             r == [runs[i] EXCEPT !.at = "text", !.busy = busy, !.asked = asked]
  <2>2. page.busy \in BOOLEAN /\ busy \in BOOLEAN /\ asked \in Blank..MaxAnswers
    <3>1. page.busy \in BOOLEAN /\ answers \in Blank..MaxAnswers
      BY Bounds DEF IInv, RestInv, Blank
    <3>2. Blank \in Blank..MaxAnswers
      BY Bounds DEF Blank
    <3> QED BY <2>1, <3>1, <3>2
  <2>3. runs' = Append(RemoveAt(runs, i), r)
    BY <2>1
  <2>4. /\ asked <= answers
        /\ ~busy /\ asked = answers => ~page.busy
        /\ busy => page.busy
    <3>1. answers \in Nat /\ Blank <= answers /\ answers <= answers /\ Blank # answers
      BY CreditType DEF Blank
    <3>2. CASE busy = page.busy
      BY <2>2, <3>1, <3>2
    <3>3. CASE busy # page.busy
      BY <2>1, <3>1, <3>3
    <3> QED BY <3>2, <3>3
  <2> HIDE DEF asked
  <2>5. r \in RunRec /\ r.at = "text" /\ r.on = runs[i].on /\ r.busy = busy /\ r.asked = asked
    <3>1. "text" \in OnPage \union Elsewhere
      BY DEF OnPage
    <3> QED BY <1>1, <2>2, <3>1 DEF RunRec
  <2> HIDE DEF r
  <2>6. PICK q : q = r
    OBVIOUS
  <2>7. Honest(q)
    BY <2>4, <2>5, <2>6 DEF Honest, Sure
  <2>8. /\ runs[i].at \notin Early /\ UNCHANGED <<engines, page, answers>>
        /\ Credit <= Credit'
    <3>1. runs[i].at \notin Early /\ UNCHANGED <<engines, page, ghosts>>
      BY <1>21 DEF IsBusy, Early
    <3> QED BY <1>4, <1>5, <3>1
  <2>9. PICK f : f = Of(i)
    OBVIOUS
  <2>10. q \in RunRec /\ q.on = runs[i].on /\ runs' = Append(RemoveAt(runs, i), q)
    BY <2>3, <2>5, <2>6
  <2>11. f.round = Of(i).round /\ (Sees(f) => Sees(Of(i)))
    BY <2>9
  <2> HIDE DEF Sees, Claim, Credit
  <2> QED BY <1>1, <2>7, <2>8, <2>9, <2>10, <2>11, Keeps
<1>22. CASE TextBlank(i)
  BY <1>2, <1>8, <1>22 DEF TextBlank, Early
<1>23. CASE Generating(i)
  <2>1. Leave(i) /\ runs[i].at = "text" /\ UNCHANGED <<page, ghosts>>
    BY <1>23 DEF Generating
  <2>2. Claim(runs[i].on)
    <3>1. Based(runs[i].on)
      BY <2>1 DEF Based, Early
    <3>2. CASE runs[i].busy
      BY <2>1, <3>2 DEF Claim, Told
    <3>3. CASE ~runs[i].busy
      BY <1>23, <3>1, <3>3 DEF Generating, Claim, Sees, Of
    <3> QED BY <3>2, <3>3
  <2>3. PICK stalled \in BOOLEAN :
           \/ Now(i, [e EXCEPT !.seen = TRUE, !.quiet = @ /\ ~stalled])
           \/ Now(i, [e EXCEPT !.seen = TRUE, !.last = page.text, !.quiet = FALSE])
    BY <1>23 DEF Generating, e
  <2>4. PICK f : Now(i, f) /\ f.round = e.round
    <3>1. /\ [e EXCEPT !.seen = TRUE, !.quiet = @ /\ ~stalled].round = e.round
          /\ [e EXCEPT !.seen = TRUE, !.last = page.text, !.quiet = FALSE].round = e.round
      BY <1>1 DEF EngineRec
    <3> QED BY <2>3, <3>1
  <2>5. Credit <= Credit' /\ UNCHANGED <<page, answers>>
    BY <1>4, <1>5, <2>1
  <2> QED BY <1>2, <1>6, <2>1, <2>2, <2>4, <2>5
<1>24. CASE Silent(i)
  <2>1. runs[i].at \notin Early /\ UNCHANGED <<page, ghosts>>
    BY <1>24 DEF Silent, Idle, Early
  <2>2. \/ Leave(i) /\ UNCHANGED engines
        \/ Leave(i) /\ Now(i, Halted(e))
        \/ DoNudge(i)
    BY <1>24 DEF Silent, e
  <2> QED BY <1>2, <1>8, <1>10, <1>11, <2>1, <2>2
\* No other tick knows that the model writes: nobody may count this answer again.
<1>25. CASE Finished(i)
  <2> DEFINE f == Counted(e)
             r == [Run("save", runs[i].on) EXCEPT !.ready = e.cooling # "yes",
                                                  !.stamp = e.nudges]
  <2>1. /\ Now(i, f) /\ runs' = Append(RemoveAt(runs, i), r)
        /\ UNCHANGED <<page, answers, faults>>
        /\ late' = IF runs[i].asked = answers THEN late ELSE late + 1
    BY <1>25 DEF Finished, e
  <2>2. /\ Served(i) /\ runs[i].at = "text" /\ ~runs[i].busy /\ page.text = e.last /\ e.seen
    BY <1>25 DEF Finished, Idle, e
  <2>3. f.round = e.round + 1 /\ f.seen = FALSE /\ f.last = e.last
    BY <1>1 DEF Counted, EngineRec
  <2>4. r \in RunRec /\ r.at = "save" /\ r.on = runs[i].on /\ r.asked = Blank
    <3>1. e.nudges \in 0..MaxNudges /\ (e.cooling # "yes") \in BOOLEAN
      BY <1>1 DEF EngineRec
    <3>2. "save" \in OnPage \union Elsewhere /\ Blank \in Blank..MaxAnswers
      BY Bounds DEF Elsewhere, Blank
    <3> QED BY <1>1, <3>1, <3>2 DEF Run, RunRec
  <2> HIDE DEF f, r
  <2>5. PICK q : q = r
    OBVIOUS
  <2>6. PICK g : g = f
    OBVIOUS
  <2>7. Honest(q)
    BY <2>4, <2>5, Silence
  <2>8. Claim(runs[i].on)
    BY <2>2 DEF Claim, Based, Early, Sees, e, Of
  <2>9. ~Sees(g)
    BY <2>2, <2>3, <2>6 DEF Sees
  <2>10. Credit <= Credit' /\ (Credit < Credit' \/ runs[i].asked = answers)
    <3>1. answers \in Nat /\ faults \in Nat /\ late \in Nat
      BY Bounds DEF IInv, RestInv
    <3>2. Credit = answers + faults + late /\ Credit' = answers + faults + late'
      BY <2>1 DEF Credit
    <3>3. late' = late \/ late' = late + 1
      BY <2>1
    <3>4. runs[i].asked # answers => late' = late + 1
      BY <2>1
    <3> QED BY <3>1, <3>2, <3>3, <3>4
  <2>11. ASSUME runs[i].asked = answers PROVE ~page.busy /\ ~Told(runs[i].on)
    <3>1. Sure(runs[i]) /\ Order
      BY <2>2, <2>11 DEF Sure, RoundInv
    <3>2. ASSUME NEW j \in DOMAIN runs, runs[j].at = "text", runs[j].busy PROVE FALSE
      <4>1. i \in 1..Len(runs) /\ j \in 1..Len(runs) /\ Len(runs) \in Nat
        BY DEF IInv, RunsInv
      <4>2. CASE j < i
        <5>1. runs[j].at \notin OnPage
          BY <2>2, <4>1, <4>2 DEF Served
        <5> QED BY <3>2, <5>1 DEF OnPage
      <4>3. CASE i < j
        BY <3>1, <3>2, <4>3 DEF Order
      <4>4. CASE i = j
        BY <2>2, <3>2, <4>4
      <4> QED BY <4>1, <4>2, <4>3, <4>4
    <3> QED BY <3>1, <3>2 DEF Order, Told
  <2>12. Now(i, g) /\ g.round = Of(i).round + 1
    BY <2>1, <2>3, <2>6 DEF e
  <2>13. q \in RunRec /\ q.on = runs[i].on /\ runs' = Append(RemoveAt(runs, i), q)
    BY <2>1, <2>4, <2>5
  <2>14. Credit < Credit' \/ (~page.busy /\ ~Told(runs[i].on) /\ ~Sees(g))
    BY <2>9, <2>10, <2>11
  <2>15. Credit <= Credit' /\ UNCHANGED <<page, answers>>
    BY <2>1, <2>10
  <2> HIDE DEF Sees, Claim, Told, Credit
  <2> QED BY <1>1, <2>7, <2>8, <2>12, <2>13, <2>14, <2>15, Keeps
<1>26. ASSUME NEW checkpoint \in BOOLEAN, Saved(i, checkpoint) PROVE RoundInv'
  <2>1. runs[i].at \notin Early /\ UNCHANGED <<page, ghosts>>
    BY <1>26 DEF Saved, Early
  <2>2. \/ Leave(i) /\ UNCHANGED engines
        \/ Leave(i) /\ Now(i, Halted(e))
        \/ DoNudge(i)
    BY <1>26 DEF Saved, e
  <2> QED BY <1>2, <1>8, <1>10, <1>11, <2>1, <2>2
<1>27. CASE Decided(i)
  BY <1>9, <1>11, <1>27 DEF Decided, Early, e
<1>28. CASE Type(i) \/ SendNudge(i)
  BY <1>2, <1>8, <1>28 DEF Type, SendNudge, Early
<1>29. CASE Reread(i)
  <2>1. PICK text \in {page.text, e.last} :
           Now(i, [e EXCEPT !.last = IF text = Blank THEN @ ELSE text, !.quiet = FALSE])
    BY <1>29 DEF Reread, e
  <2> DEFINE f == [e EXCEPT !.last = IF text = Blank THEN @ ELSE text, !.quiet = FALSE]
  <2>2. f.round = e.round /\ f.seen = e.seen /\ f.last \in {page.text, e.last}
    BY <1>1, <2>1 DEF EngineRec
  <2>3. Now(i, f) /\ runs[i].at \notin Early /\ UNCHANGED <<page, ghosts>> /\ Leave(i)
    BY <1>29, <2>1 DEF Reread, Early
  <2> HIDE DEF f
  <2>4. Sees(f) => Sees(e)
    BY <2>2 DEF Sees
  <2> QED BY <1>2, <1>7, <2>2, <2>3, <2>4
<1>30. ASSUME NEW llm \in BOOLEAN, Entered(i, llm) \/ Configured(i) PROVE FALSE
  BY <1>30 DEF Entered, Configured, Entries
<1> QED BY <1>14, <1>15, <1>16, <1>17, <1>18, <1>19, <1>20, <1>21, <1>22, <1>23, <1>24, <1>25,
           <1>26, <1>27, <1>28, <1>29, <1>30
        DEF Starting, Ticking, Nudging

\* A step of the controller or of time: nobody learns anything of the page, and no
\* engine gets a baseline, sees an answer or counts a round.
LEMMA Calm ==
    ASSUME IInv, RestInv', EnginesStep, RoundInv, UNCHANGED <<page, answers, faults, late>>,
           NEW i, NEW r \in RunRec, r.asked = Blank, r.at # "text", r.at \in Early \/ Based(r.on),
           \/ UNCHANGED runs
           \/ runs' = Append(runs, r)
           \/ runs' = Append(RemoveAt(runs, i), r) /\ i \in DOMAIN runs,
           NEW e, NEW f,
           \/ UNCHANGED engines
           \/ /\ e \in Engines /\ engines' = [engines EXCEPT ![e] = f]
              /\ f.round \in Nat /\ f.round <= engines[e].round
              /\ f.timer => engines[e].timer
              /\ Sees(f) => Sees(engines[e])
    PROVE  RoundInv'
<1>1. engines \in Seq(EngineRec) /\ runs \in Seq(RunRec)
  BY DEF IInv, RunsInv
<1>2. Follows(r) /\ Honest(r)
  BY <1>1, Following, Silence
<1>3. Order'
  BY <1>2, OrderKept DEF RoundInv, Honest
<1>4. Credit' = Credit /\ Credit \in Nat /\ Credit <= Credit'
  <2>1. Credit' = Credit /\ Credit \in Nat
    BY CreditType DEF Credit
  <2> HIDE DEF Credit
  <2> QED BY <2>1
<1>5. ASSUME NEW d \in Engines, engines'[d] = engines[d]
      PROVE  r.on = d => r.at \in Early \/ Based(d)
  OBVIOUS
<1>6. Owed
  BY DEF RoundInv
<1>7. CASE UNCHANGED engines
  <2>1. \A d \in Engines' : d # 0 => /\ d \in Engines /\ engines'[d] = engines[d]
                                     /\ r.on = d => r.at \in Early \/ Based(d)
    BY <1>5, <1>7 DEF Engines
  <2>2. 0 \notin Engines'
    BY DEF Engines
  <2> HIDE DEF Credit, Claim, Owed
  <2>3. Owed'
    BY <1>2, <1>4, <1>6, <2>1, <2>2, OwedStep
  <2> QED BY <1>3, <2>3 DEF RoundInv
<1>8. CASE /\ e \in Engines /\ engines' = [engines EXCEPT ![e] = f]
           /\ f.round \in Nat /\ f.round <= engines[e].round
           /\ f.timer => engines[e].timer
           /\ Sees(f) => Sees(engines[e])
  <2>1. /\ engines'[e] = f /\ Engines' = Engines
        /\ \A d \in Engines : d # e => engines'[d] = engines[d]
    BY <1>1, <1>8 DEF Engines
  <2>2. \A d \in Engines' : d # e => /\ d \in Engines /\ engines'[d] = engines[d]
                                     /\ r.on = d => r.at \in Early \/ Based(d)
    BY <1>5, <2>1
  <2>3. ASSUME Claim(e)' PROVE Claim(e)
    <3>1. engines'[e].timer => Based(e)
      BY <1>8, <2>1 DEF Based
    <3>2. r.at = "text" /\ r.busy => page.busy
      OBVIOUS
    <3>3. page.busy \/ Told(e) \/ (Based(e) /\ Sees(engines'[e]))
      BY <1>2, <2>3, <3>1, <3>2, Claims
    <3> QED BY <1>8, <2>1, <3>3 DEF Claim
  <2>4. engines[e].round <= Credit /\ (Claim(e) => engines[e].round < Credit)
    BY <1>6, <1>8 DEF Owed
  <2>5. engines[e].round \in Nat
    <3>1. engines[e] \in EngineRec
      BY <1>1, <1>8 DEF Engines
    <3> QED BY <3>1 DEF EngineRec
  <2> HIDE DEF Credit, Claim, Owed
  <2>6. engines'[e].round <= Credit' /\ (Claim(e)' => engines'[e].round < Credit')
    BY <1>4, <1>8, <2>1, <2>3, <2>4, <2>5
  <2>7. Owed'
    BY <1>2, <1>4, <1>6, <2>2, <2>6, OwedStep
  <2> QED BY <1>3, <2>7 DEF RoundInv
<1> QED BY <1>7, <1>8

\* An engine that is built has no baseline, and nobody else owes anything to it.
LEMMA Builds ==
    ASSUME IInv, RestInv', EnginesStep, RoundInv, UNCHANGED <<page, answers, faults, late>>,
           NEW i, NEW r \in RunRec, r.asked = Blank, r.at \in Early,
           \/ runs' = RemoveAt(runs, i) /\ i \in DOMAIN runs
           \/ runs' = Append(RemoveAt(runs, i), r) /\ i \in DOMAIN runs,
           NEW f \in EngineRec, engines' = Append(engines, f), f.round = 0, ~f.timer
    PROVE  RoundInv'
<1>1. engines \in Seq(EngineRec) /\ runs \in Seq(RunRec) /\ Len(engines) \in Nat
  BY DEF IInv, RunsInv
<1>2. r.at # "text"
  BY DEF Early, Entries
<1>3. Follows(r) /\ Honest(r)
  BY <1>1, <1>2, Following, Silence
<1>4. Order'
  BY <1>3, OrderKept DEF RoundInv, Honest
<1>5. Credit' = Credit /\ Credit \in Nat /\ Credit <= Credit' /\ (page.busy => 0 < Credit)
  <2>1. Credit' = Credit /\ Credit \in Nat
    BY CreditType DEF Credit
  <2>2. answers \in Nat /\ faults \in Nat /\ late \in Nat /\ (page.busy => answers > 0)
    BY Bounds DEF IInv, RestInv, RoundInv, Order
  <2>3. page.busy => 0 < Credit
    BY <2>2 DEF Credit
  <2> HIDE DEF Credit
  <2> QED BY <2>1, <2>3
<1>6. PICK e : e = Len(engines) + 1
  OBVIOUS
<1>7. /\ e \in Nat /\ e \notin Engines /\ engines'[e] = f
      /\ \A d \in Engines' : d # e => d \in Engines /\ engines'[d] = engines[d]
  BY <1>1, <1>6 DEF Engines
<1>8. \A k \in DOMAIN runs : runs[k].on # e
  <2>1. \A k \in DOMAIN runs : runs[k].on \in Nat /\ runs[k].on <= Len(engines)
    BY RunFacts DEF Fine, RunRec
  <2> QED BY <1>1, <1>6, <2>1
<1>9. ASSUME Claim(e)' PROVE page.busy
  <2>1. \A k \in DOMAIN runs' : runs'[k] = r \/ \E j \in DOMAIN runs : runs'[k] = runs[j]
    BY <1>3 DEF Follows
  <2>2. ~Told(e)' /\ ~Based(e)'
    BY <1>2, <1>7, <1>8, <2>1 DEF Told, Based
  <2> QED BY <1>9, <2>2 DEF Claim
<1>10. \A d \in Engines' : d # e => /\ d \in Engines /\ engines'[d] = engines[d]
                                    /\ r.on = d => r.at \in Early \/ Based(d)
  BY <1>7
<1>11. Owed
  BY DEF RoundInv
<1> HIDE DEF Credit, Claim, Owed
<1>12. engines'[e].round <= Credit' /\ (Claim(e)' => engines'[e].round < Credit')
  BY <1>5, <1>7, <1>9
<1>13. Owed'
  BY <1>3, <1>5, <1>10, <1>11, <1>12, OwedStep
<1> QED BY <1>4, <1>13 DEF RoundInv

\* The controller finds or builds the engine of the call.
LEMMA RoundsOfEntering ==
    ASSUME IInv, RestInv', RoundInv, NEW i \in DOMAIN runs, NEW llm \in BOOLEAN, Entered(i, llm)
    PROVE  RoundInv'
<1> DEFINE build == runs[i].on = 0 \/ llm
           start == runs[i].at = "entry start"
           at == IF start THEN "start text" ELSE "resume text"
           e == IF build THEN Len(engines) + 1 ELSE Len(engines)
<1>1. /\ engines \in Seq(EngineRec) /\ Len(engines) \in Nat /\ EnginesStep
      /\ UNCHANGED <<page, answers, faults, late>>
  <2>1. UNCHANGED <<page, ghosts>>
    BY DEF Entered
  <2> QED BY <2>1, Entering DEF IInv, ghosts
<1>2. PICK r \in RunRec : /\ r.asked = Blank /\ r.at # "text" /\ r.at \in Early
                          /\ runs' = Append(RemoveAt(runs, i), r)
  <2>1. runs' = Append(RemoveAt(runs, i), Run(at, e))
    BY DEF Entered
  <2>2. at \in OnPage \union Elsewhere /\ at \in Early /\ at # "text" /\ e \in Nat
    BY <1>1 DEF OnPage, Early
  <2> HIDE DEF at, e
  <2> QED BY <2>1, <2>2, RunNew
<1>3. CASE build
  <2> DEFINE n == NewEngine(llm)
  <2>1. PICK f : f = [n EXCEPT !.running = TRUE, !.round = IF start THEN 0 ELSE @]
    OBVIOUS
  <2>2. n \in EngineRec /\ n.round = 0 /\ ~n.timer
    BY NewEngineType DEF NewEngine
  <2>3. engines' = Append(engines, f)
    BY <1>3, <2>1 DEF Entered
  <2> HIDE DEF n
  <2>4. f \in EngineRec /\ f.round = 0 /\ ~f.timer
    BY <2>1, <2>2 DEF EngineRec
  <2> QED BY <1>1, <1>2, <2>3, <2>4, Builds
<1>4. CASE ~build
  <2>1. PICK d : d = Len(engines)
    OBVIOUS
  <2>2. PICK f : f = [engines[d] EXCEPT !.running = TRUE, !.round = IF start THEN 0 ELSE @]
    OBVIOUS
  <2>3. d \in Engines
    <3>1. runs[i].on # 0 /\ runs[i].on \in Nat /\ runs[i].on <= Len(engines)
      BY <1>4, RunFacts DEF Fine, RunRec
    <3> QED BY <1>1, <2>1, <3>1 DEF Engines
  <2>4. engines[d] \in EngineRec /\ engines[d].round \in Nat
    <3>1. engines[d] \in EngineRec
      BY <1>1, <2>3 DEF Engines
    <3> QED BY <3>1 DEF EngineRec
  <2>5. engines' = [engines EXCEPT ![d] = f]
    BY <1>4, <2>1, <2>2 DEF Entered
  <2>6. /\ f.round \in Nat /\ f.round <= engines[d].round
        /\ f.timer = engines[d].timer /\ f.seen = engines[d].seen /\ f.last = engines[d].last
    <3>1. /\ f.round = IF start THEN 0 ELSE engines[d].round
          /\ f.timer = engines[d].timer /\ f.seen = engines[d].seen /\ f.last = engines[d].last
      BY <2>2, <2>4 DEF EngineRec
    <3> HIDE DEF start
    <3> QED BY <2>4, <3>1
  <2>7. Sees(f) => Sees(engines[d])
    BY <2>6 DEF Sees
  <2> QED BY <1>1, <1>2, <2>3, <2>5, <2>6, <2>7, Calm
<1> QED BY <1>3, <1>4

\* Time passes for an engine, or the controller stops it.
LEMMA RoundsOfEngine ==
    ASSUME IInv, RestInv', RoundInv, UNCHANGED <<runs, page, answers, faults, late>>, EnginesStep,
           NEW e \in Engines, NEW f, engines' = [engines EXCEPT ![e] = f],
           f.round = engines[e].round, f.timer => engines[e].timer,
           f.seen = engines[e].seen, f.last = engines[e].last
    PROVE  RoundInv'
<1>1. PICK r \in RunRec : r.asked = Blank /\ r.at # "text" /\ r.at \in Early
  <2>1. "start text" \in OnPage \union Elsewhere /\ 0 \in Nat
    BY DEF OnPage
  <2>2. "start text" \in Early
    BY DEF Early
  <2> QED BY <2>1, <2>2, RunNew
<1>2. engines[e].round \in Nat
  <2>1. engines[e] \in EngineRec
    BY DEF IInv, Engines
  <2> QED BY <2>1 DEF EngineRec
<1>3. f.round \in Nat /\ f.round <= engines[e].round
  BY <1>2
<1>4. Sees(f) => Sees(engines[e])
  BY DEF Sees
<1> QED BY <1>1, <1>3, <1>4, Calm

\* A new engine owes nothing.
LEMMA RoundsOfConfiguring ==
    ASSUME IInv, RestInv', RoundInv, NEW i \in DOMAIN runs, Configured(i)
    PROVE  RoundInv'
<1>1. PICK f : f = NewEngine(TRUE)
  OBVIOUS
<1>2. f \in EngineRec /\ f.round = 0 /\ ~f.timer
  BY <1>1, NewEngineType DEF NewEngine
<1>3. /\ engines' = Append(engines, f) /\ runs' = RemoveAt(runs, i)
      /\ UNCHANGED <<page, answers, faults, late>> /\ EnginesStep
  BY <1>1, Configuring DEF Configured, Leave, ghosts
<1>4. PICK r \in RunRec : r.asked = Blank /\ r.at \in Early
  <2>1. "start text" \in OnPage \union Elsewhere /\ 0 \in Nat
    BY DEF OnPage
  <2>2. "start text" \in Early
    BY DEF Early
  <2> QED BY <2>1, <2>2, RunNew
<1> QED BY <1>2, <1>3, <1>4, Builds

\* A step that begins a handler, or that the page makes.
LEMMA RoundsOfCalls ==
    ASSUME IInv, RestInv', RoundInv,
           \/ Controller
           \/ \E e \in Engines : Tick(e) \/ Quieten(e) \/ CoolDown(e)
           \/ Begin \/ Grow \/ End
    PROVE  RoundInv'
<1>1. EnginesStep /\ engines \in Seq(EngineRec) /\ Len(engines) \in Nat
  BY Calls DEF IInv
<1>2. \A e \in Engines : engines[e] \in EngineRec
  BY <1>1 DEF Engines
<1>3. ASSUME NEW at \in Entries, Call(at) PROVE RoundInv'
  <2>1. /\ UNCHANGED <<engines, page, answers, faults, late>>
        /\ runs' = Append(runs, Run(at, Len(engines)))
    BY <1>3 DEF Call
  <2>2. at \in OnPage \union Elsewhere /\ at \in Early /\ at # "text"
    BY <1>3 DEF Entries, Elsewhere, Early
  <2>3. PICK r \in RunRec : /\ r.asked = Blank /\ r.at # "text" /\ r.at \in Early
                            /\ runs' = Append(runs, r)
    BY <1>1, <2>1, <2>2, RunNew
  <2> QED BY <1>1, <2>1, <2>3, Calm
<1>5. CASE GoStop
  <2>1. PICK e : e = Len(engines)
    OBVIOUS
  <2>2. PICK f : f = Halted(engines[e])
    OBVIOUS
  <2>3. e \in Engines
    BY <1>1, <1>5, <2>1 DEF GoStop, Engines
  <2>4. engines' = [engines EXCEPT ![e] = f] /\ UNCHANGED <<runs, page, answers, faults, late>>
    BY <1>5, <2>1, <2>2 DEF GoStop
  <2>5. /\ f.round = engines[e].round /\ ~f.timer
        /\ f.seen = engines[e].seen /\ f.last = engines[e].last
    BY <1>2, <2>2, <2>3 DEF Halted, EngineRec
  <2> QED BY <1>1, <2>3, <2>4, <2>5, RoundsOfEngine
<1>6. ASSUME NEW e \in Engines, Tick(e) PROVE RoundInv'
  <2>1. /\ UNCHANGED <<engines, page, answers, faults, late>>
        /\ runs' = Append(runs, Run("risk", e)) /\ Based(e)
    BY <1>6 DEF Tick, Based, ghosts
  <2>2. "risk" \in OnPage \union Elsewhere /\ e \in Nat
    BY DEF OnPage, Engines
  <2>3. PICK r \in RunRec : /\ r.asked = Blank /\ r.at # "text" /\ r.on = e
                            /\ runs' = Append(runs, r)
    BY <2>1, <2>2, RunNew
  <2> HIDE DEF Based
  <2> QED BY <1>1, <2>1, <2>3, Calm
<1>7. ASSUME NEW e \in Engines, Quieten(e) \/ CoolDown(e) PROVE RoundInv'
  <2>1. UNCHANGED <<runs, page, answers, faults, late>>
    BY <1>7 DEF Quieten, CoolDown, ghosts
  <2>2. PICK f : /\ engines' = [engines EXCEPT ![e] = f]
                 /\ f = [engines[e] EXCEPT !.quiet = TRUE]
                    \/ f = [engines[e] EXCEPT !.cooling = "over"]
    BY <1>7 DEF Quieten, CoolDown
  <2>3. /\ f.round = engines[e].round /\ f.timer = engines[e].timer
        /\ f.seen = engines[e].seen /\ f.last = engines[e].last
    BY <1>2, <2>2 DEF EngineRec
  <2> QED BY <1>1, <2>1, <2>2, <2>3, RoundsOfEngine
<1>8. answers \in Nat /\ faults \in Nat /\ late \in Nat /\ Credit \in Nat
  BY CreditType, Bounds DEF IInv, RestInv
<1>9. \A e \in Engines : engines[e].round \in Nat
  BY <1>2 DEF EngineRec
\* The answer that begins pays for what everybody may count.
<1>10. CASE Begin
  <2>1. /\ UNCHANGED <<engines, runs, faults, late>> /\ answers' = answers + 1
        /\ page' = [page EXCEPT !.busy = TRUE]
    BY <1>10 DEF Begin
  <2>2. Credit' = Credit + 1
    BY <1>8, <2>1 DEF Credit
  <2>3. Owed'
    <3>1. ASSUME NEW e \in Engines PROVE engines[e].round < Credit' /\ engines[e].round <= Credit'
      <4>1. engines[e].round <= Credit
        BY DEF RoundInv, Owed
      <4> HIDE DEF Credit
      <4> QED BY <1>8, <1>9, <2>2, <4>1
    <3>2. Engines' = Engines /\ engines' = engines
      BY <2>1 DEF Engines
    <3> HIDE DEF Credit, Claim
    <3> QED BY <3>1, <3>2 DEF Owed
  <2>4. Order'
    <3>1. ASSUME NEW i \in DOMAIN runs PROVE runs[i].asked <= answers' /\ runs[i].asked # answers'
      <4>1. runs[i] \in RunRec /\ runs[i].asked <= answers
        BY RunFacts DEF RoundInv, Order
      <4>2. runs[i].asked \in Int
        BY <4>1, Bounds DEF RunRec, Blank
      <4> QED BY <1>8, <2>1, <4>1, <4>2
    <3>2. answers' > 0
      BY <1>8, <2>1
    <3>3. ASSUME NEW i \in DOMAIN runs PROVE ~Sure(runs[i])'
      BY <2>1, <3>1 DEF Sure
    <3>4. runs' = runs
      BY <2>1
    <3> HIDE DEF Sure
    <3> QED BY <3>1, <3>2, <3>3, <3>4 DEF Order
  <2> QED BY <2>3, <2>4 DEF RoundInv
<1>11. CASE Grow \/ End
  <2>1. UNCHANGED <<engines, runs, answers, faults, late>> /\ page.busy
    BY <1>11 DEF Grow, End, ghosts
  <2>2. Engines' = Engines /\ engines' = engines /\ runs' = runs /\ Credit' = Credit
    BY <2>1 DEF Engines, Credit
  <2>3. \A e : Claim(e)
    BY <2>1 DEF Claim
  <2>4. Owed'
    <3> HIDE DEF Credit, Claim
    <3> QED BY <2>2, <2>3 DEF Owed, RoundInv
  <2>5. \A i \in DOMAIN runs : ~Sure(runs[i]) /\ runs[i].asked <= answers
    BY <2>1 DEF RoundInv, Order
  <2>6. answers > 0
    BY <2>1 DEF RoundInv, Order
  <2>7. \A i \in DOMAIN runs : ~Sure(runs[i])'
    BY <2>1, <2>5 DEF Sure
  <2>8. Order'
    <3> HIDE DEF Sure
    <3> QED BY <2>1, <2>2, <2>5, <2>6, <2>7 DEF Order
  <2> QED BY <2>4, <2>8 DEF RoundInv
<1> QED BY <1>3, <1>5, <1>6, <1>7, <1>10, <1>11 DEF Controller

\* Every step keeps the accounts.
LEMMA RoundStep == IInv /\ IInv' /\ RoundInv /\ [Next]_vars => RoundInv'
<1>1. ASSUME IInv, IInv', RoundInv, Next PROVE RoundInv'
  <2>1. RestInv'
    BY <1>1 DEF IInv
  <2>2. ASSUME NEW i \in DOMAIN runs, Starting(i) \/ Ticking(i) \/ Nudging(i) PROVE RoundInv'
    <3>1. CASE runs[i].at \notin Entries
      BY <1>1, <2>1, <2>2, <3>1, RoundsOfHandlers
    <3>2. CASE runs[i].at \in Entries
      <4>1. (\E llm \in BOOLEAN : Entered(i, llm)) \/ Configured(i)
        BY <2>2, <3>2
           DEF Entries, Starting, StartText, StartSaved, Protocol, ProtocolSend, SettledText,
               ResumeText, ResumeSaved, Ticking, Risk, IsBusy, TextBlank, Generating, Idle,
               Silent, Finished, Saved, Nudging, Decided, Type, SendNudge, Reread
      <4> QED BY <1>1, <2>1, <4>1, RoundsOfEntering, RoundsOfConfiguring
    <3> QED BY <3>1, <3>2
  <2> QED BY <1>1, <2>1, <2>2, RoundsOfCalls DEF Next
<1>2. ASSUME IInv, RoundInv, UNCHANGED vars PROVE RoundInv'
  <2>1. UNCHANGED <<engines, runs, page, answers, faults, late>>
    BY <1>2 DEF vars, ghosts
  <2> QED BY <1>2, <2>1
          DEF RoundInv, Owed, Order, Sure, Claim, Told, Based, Sees, Credit, Engines
<1> QED BY <1>1, <1>2

-----------------------------------------------------------------------------
(* The results                                                             *)

\* Engines, runs and the page keep their types, a run that has passed entryFor
\* is about an engine, and only one with a decision engine waits for it.
THEOREM TypeCorrect == Spec => []TypeOK
<1>1. IInv => TypeOK
  <2> SUFFICES ASSUME IInv PROVE TypeOK
    OBVIOUS
  <2>1. \A e \in Engines : engines[e] \in EngineRec
    BY DEF IInv, Engines
  <2>2. ASSUME NEW i \in DOMAIN runs
        PROVE  /\ runs[i] \in [at : OnPage \union Elsewhere, on : 0..Len(engines),
                               busy : BOOLEAN, asked : Blank..MaxAnswers,
                               ready : BOOLEAN, stamp : 0..MaxNudges]
               /\ runs[i].on = 0 => runs[i].at \in Entries
               /\ runs[i].at = "decide" => Of(i).llm
    <3>1. Fine(runs[i], engines) /\ runs[i] \in RunRec /\ Len(engines) \in Nat
      BY RunFacts DEF IInv
    <3>2. runs[i].on \in 0..Len(engines)
      <4>1. runs[i].on \in Nat /\ runs[i].on <= Len(engines)
        BY <3>1 DEF Fine, RunRec
      <4> QED BY <4>1, <3>1
    <3>3. runs[i] \in [at : OnPage \union Elsewhere, on : 0..Len(engines),
                       busy : BOOLEAN, asked : Blank..MaxAnswers, ready : BOOLEAN,
                       stamp : 0..MaxNudges]
      BY <3>1, <3>2 DEF RunRec
    <3> QED BY <3>1, <3>3, Zenon DEF Fine, Of
  <2>3. RestInv
    BY DEF IInv
  <2> QED BY <2>1, <2>2, <2>3 DEF TypeOK, EngineRec, RestInv
<1> QED BY <1>1, Inductive, PTL

\* Between two starts of an engine without a decision engine its nudges are a
\* cooldown apart, however many ticks overlap: while it cools down it sends none,
\* and only a go_start of this engine that reads its first text ends the cooldown
\* before its time (lastNudgeAt = 0 in GoEngine.start).
THEOREM Apart == Spec => NudgesApart
<1> DEFINE P == \A e \in Engines :
                   engines[e].cooling = "yes" /\ ~engines[e].llm =>
                      /\ engines'[e].nudges = engines[e].nudges
                      /\ engines'[e].cooling = "never" =>
                            \E i \in DOMAIN runs : runs[i].on = e /\ StartText(i)
<1>1. IInv /\ EnginesStep => P
  <2> SUFFICES ASSUME IInv, EnginesStep, NEW e \in Engines, engines[e].cooling = "yes",
                      ~engines[e].llm
               PROVE  /\ engines'[e].nudges = engines[e].nudges
                      /\ engines'[e].cooling = "never" =>
                            \E i \in DOMAIN runs : runs[i].on = e /\ StartText(i)
    BY Zenon
  <2>1. Evolved(engines[e], engines'[e]) /\ engines[e] \in EngineRec
    BY DEF EnginesStep, IInv, Engines
  <2>2. engines'[e].nudges >= engines[e].nudges /\ ~(engines'[e].nudges > engines[e].nudges)
    BY <2>1 DEF Evolved
  <2>3. engines[e].nudges \in Int /\ engines'[e].nudges \in Int
    BY <2>1, Bounds DEF Evolved, EngineRec
  <2>4. ASSUME engines'[e].cooling = "never"
        PROVE  \E i \in DOMAIN runs : runs[i].on = e /\ StartText(i)
    <3>1. PICK i \in DOMAIN runs : StartText(i)
      BY <2>1, <2>4 DEF Evolved, Restarted
    <3>2. PICK f : engines' = [engines EXCEPT ![runs[i].on] = f]
      BY <3>1 DEF StartText, Now
    <3>3. runs[i].on = e
      BY <2>4, <3>2 DEF Engines, IInv
    <3> QED BY <3>1, <3>3
  <2> QED BY <2>2, <2>3, <2>4
<1>2. IInv /\ [Next]_vars => [P]_vars
  BY <1>1, Step
<1> QED BY <1>2, Inductive, PTL DEF Spec, NudgesApart

\* However many runs overlap, an engine counts no round but for an answer of the
\* model, a failed read of the text that became the baseline, or a tick whose isBusy
\* failed or is out of date.
THEOREM Owing == Spec => []RoundsAreAnswers
<1>1. Init => RoundInv
  <2> SUFFICES ASSUME Init PROVE RoundInv
    OBVIOUS
  <2>1. engines = <<>> /\ runs = <<>> /\ ~page.busy
    BY DEF Init
  <2>2. Engines = {} /\ DOMAIN runs = {}
    BY <2>1 DEF Engines
  <2> QED BY <2>1, <2>2 DEF RoundInv, Owed, Order
<1>2. RoundInv => RoundsAreAnswers
  BY DEF RoundInv, Owed, RoundsAreAnswers, Credit
<1> QED BY <1>1, <1>2, RoundStep, Inductive, PTL DEF Spec
=============================================================================
