------------------------ MODULE TabWriteQueueProofs ------------------------
(***************************************************************************)
(* The chain of promises serializes the writes of a tab, for any number of *)
(* tabs and writes.  Why: the entry of a tab is its newest write unless    *)
(* all of them are over, so that a new write is chained behind everything  *)
(* unfinished; and a write that is released has everything before it       *)
(* released too.                                                           *)
(***************************************************************************)
EXTENDS TabWriteQueue, SequenceTheorems, TLAPS

SameTab(v, w) == tabOf[v] = tabOf[w]

\* The entry of a tab is its newest write, or every write of it is over.
TailInv ==
    \A t \in Tab, w \in Writes : tabOf[w] = t => w \in released \/ w <= tail[t]

\* A predecessor is on the same tab, and what is older than it, or all that is
\* older when there is none, needs no waiting for.
ChainInv ==
    \A w \in Writes :
        /\ previous[w] < w
        /\ previous[w] # 0 => SameTab(previous[w], w)
        /\ \A v \in Writes : v < w /\ SameTab(v, w) => v \in released \/ v <= previous[w]

\* A write that has started has only released writes before it.
OrderInv ==
    \A w \in Writes : stage[w] # "queued" =>
        \A v \in Writes : v < w /\ SameTab(v, w) => v \in released

ReleasedInv ==
    /\ released \subseteq Writes
    /\ \A w \in released : Over(w)

TailType ==
    /\ tail \in [Tab -> 0..Len(tabOf)]
    /\ \A t \in Tab : tail[t] # 0 => tabOf[tail[t]] = t /\ ~Over(tail[t])

Shape ==
    /\ tabOf \in Seq(Tab)
    /\ Len(tabOf) <= MaxWrites
    /\ stage \in Seq(Stage) /\ Len(stage) = Len(tabOf)
    /\ previous \in Seq(Nat) /\ Len(previous) = Len(tabOf)

IInv == Shape /\ TailType /\ ReleasedInv /\ TailInv /\ ChainInv /\ OrderInv

-----------------------------------------------------------------------------
LEMMA InitInv == Init => IInv
<1> SUFFICES ASSUME Init PROVE IInv
  OBVIOUS
<1>1. Writes = {} /\ Len(tabOf) = 0
  BY DEF Init, Writes
<1>2. Shape
  BY TabWriteQueueAssumption DEF Init, Shape
<1> QED BY <1>1, <1>2 DEF Init, IInv, TailType, ReleasedInv, TailInv, ChainInv, OrderInv

\* One lemma for each action: the invariant is kept.
LEMMA CallInv == ASSUME IInv, NEW t \in Tab, RunTabWrite(t) PROVE IInv'
<1> DEFINE n == Len(tabOf) + 1
<1>1. /\ n \in Nat \ {0} /\ n <= MaxWrites
      /\ tabOf' = Append(tabOf, t) /\ stage' = Append(stage, "queued")
      /\ previous' = Append(previous, tail[t])
      /\ tail' = [tail EXCEPT ![t] = n] /\ released' = released
  BY TabWriteQueueAssumption DEF RunTabWrite, IInv, Shape
<1>2. /\ tail[t] \in Nat /\ tail[t] < n
      /\ tail[t] # 0 => tail[t] \in Writes /\ tabOf[tail[t]] = t
  BY <1>1 DEF IInv, TailType, Writes, Shape
<1>3. /\ tabOf' \in Seq(Tab) /\ Len(tabOf') = n /\ tabOf'[n] = t
      /\ \A w \in 1..Len(tabOf) : tabOf'[w] = tabOf[w]
  BY <1>1, AppendProperties DEF IInv, Shape
<1>4. /\ stage' \in Seq(Stage) /\ Len(stage') = n /\ stage'[n] = "queued"
      /\ \A w \in 1..Len(tabOf) : stage'[w] = stage[w]
  BY <1>1, AppendProperties DEF IInv, Shape, Stage
<1>5. /\ previous' \in Seq(Nat) /\ Len(previous') = n /\ previous'[n] = tail[t]
      /\ \A w \in 1..Len(tabOf) : previous'[w] = previous[w]
  BY <1>1, <1>2, AppendProperties DEF IInv, Shape
<1>6. Writes' = Writes \union {n} /\ n \notin Writes /\ \A w \in Writes : w < n /\ w \in Nat
  BY <1>3 DEF Writes, IInv, Shape
<1>7. Shape'
  BY <1>1, <1>3, <1>4, <1>5 DEF Shape
<1>8. TailType'
  BY <1>1, <1>2, <1>3, <1>4 DEF IInv, TailType, Shape, Over, Writes
<1>9. ReleasedInv'
  BY <1>1, <1>4, <1>6 DEF IInv, ReleasedInv, Over, Writes
<1>10. TailInv'
  BY <1>1, <1>3, <1>6 DEF IInv, TailInv, TailType, Writes
<1>11. ChainInv'
  <2> SUFFICES ASSUME NEW w \in Writes'
               PROVE  /\ previous'[w] < w
                      /\ previous'[w] # 0 => tabOf'[previous'[w]] = tabOf'[w]
                      /\ \A v \in Writes' : v < w /\ tabOf'[v] = tabOf'[w]
                            => v \in released' \/ v <= previous'[w]
    BY DEF ChainInv, SameTab
  <2>1. CASE w = n
    BY <1>1, <1>2, <1>3, <1>5, <1>6, <2>1 DEF IInv, TailInv, Writes
  <2>2. CASE w \in Writes
    <3>1. previous[w] < w /\ previous[w] \in Nat
      BY <2>2 DEF IInv, ChainInv, Shape, Writes
    <3>2. previous[w] # 0 => previous[w] \in Writes
      BY <1>6, <2>2, <3>1 DEF Writes, IInv, Shape
    <3> QED BY <1>1, <1>3, <1>5, <1>6, <2>2, <3>1, <3>2 DEF IInv, ChainInv, SameTab, Writes
  <2> QED BY <1>6, <2>1, <2>2
<1>12. OrderInv'
  BY <1>1, <1>3, <1>4, <1>6 DEF IInv, OrderInv, SameTab, Writes
<1> QED BY <1>7, <1>8, <1>9, <1>10, <1>11, <1>12 DEF IInv

\* When a write may start, all the writes of its tab before it are released.
LEMMA ReadyMeansNext ==
    ASSUME IInv, NEW w \in Writes, previous[w] # 0 => previous[w] \in released,
           NEW v \in Writes, v < w, SameTab(v, w)
    PROVE  v \in released
<1>1. v \in released \/ v <= previous[w]
  BY DEF IInv, ChainInv
<1>2. /\ v \in Nat \ {0} /\ w \in Nat /\ previous[w] \in Nat
      /\ previous[w] < w /\ (previous[w] # 0 => SameTab(previous[w], w))
  BY DEF IInv, ChainInv, Shape, Writes
<1>3. ASSUME v < previous[w], previous[w] \in released PROVE v \in released
  <2>1. previous[w] \in Writes /\ stage[previous[w]] # "queued"
    BY <1>3 DEF IInv, ReleasedInv, Over
  <2>2. SameTab(v, previous[w])
    BY <1>2, <1>3 DEF SameTab
  <2> QED BY <1>3, <2>1, <2>2 DEF IInv, OrderInv
<1> QED BY <1>1, <1>2, <1>3

LEMMA StartInv == ASSUME IInv, NEW w \in Writes, Start(w) PROVE IInv'
<1>1. /\ stage[w] = "queued" /\ stage' = [stage EXCEPT ![w] = "running"]
      /\ tabOf' = tabOf /\ previous' = previous /\ released' = released /\ tail' = tail
      /\ previous[w] # 0 => previous[w] \in released
  BY DEF Start
<1>2. /\ stage' \in Seq(Stage) /\ Len(stage') = Len(stage)
      /\ \A v \in Writes : stage'[v] = IF v = w THEN "running" ELSE stage[v]
  BY <1>1 DEF IInv, Shape, Stage, Writes
<1>3. w \notin released
  BY <1>1 DEF IInv, ReleasedInv, Over
<1>4. ReleasedInv'
  BY <1>1, <1>2, <1>3 DEF IInv, ReleasedInv, Over, Writes
<1>5. OrderInv'
  BY <1>1, <1>2, ReadyMeansNext DEF IInv, OrderInv, SameTab, Writes
<1>6. Shape' /\ TailType' /\ TailInv' /\ ChainInv'
  BY <1>1, <1>2 DEF IInv, Shape, TailType, TailInv, ChainInv, SameTab, Over, Writes
<1> QED BY <1>4, <1>5, <1>6 DEF IInv

LEMMA SettleInv ==
    ASSUME IInv, NEW w \in Writes, NEW how \in {"finished", "failed"}, Settle(w, how)
    PROVE  IInv'
<1>1. /\ stage[w] = "running" /\ stage' = [stage EXCEPT ![w] = how]
      /\ tabOf' = tabOf /\ previous' = previous /\ released' = released \union {w}
      /\ \/ tail[tabOf[w]] # w /\ tail' = tail
         \/ tail[tabOf[w]] = w /\ tail' = [tail EXCEPT ![tabOf[w]] = 0]
  BY DEF Settle
<1>2. /\ stage' \in Seq(Stage) /\ Len(stage') = Len(stage)
      /\ \A v \in Writes : stage'[v] = IF v = w THEN how ELSE stage[v]
  BY <1>1 DEF IInv, Shape, Stage, Writes
<1>3. ReleasedInv'
  BY <1>1, <1>2 DEF IInv, ReleasedInv, Over, Writes
<1>4. OrderInv'
  BY <1>1, <1>2 DEF IInv, OrderInv, SameTab, Writes
<1>5. TailInv'
  <2>1. CASE tail' = tail
    BY <1>1, <2>1 DEF IInv, TailInv, Writes
  <2>2. CASE tail[tabOf[w]] = w /\ tail' = [tail EXCEPT ![tabOf[w]] = 0]
    <3> SUFFICES ASSUME NEW v \in Writes, tabOf[v] \in Tab, v \notin released'
                 PROVE  v <= tail'[tabOf[v]]
      BY <1>1 DEF TailInv, Writes
    <3>1. v # w /\ v <= tail[tabOf[v]]
      BY <1>1 DEF IInv, TailInv
    <3>2. CASE tabOf[v] # tabOf[w]
      BY <2>2, <3>1, <3>2 DEF IInv, TailType
    <3>3. CASE tabOf[v] = tabOf[w]
      <4>1. v < w
        BY <2>2, <3>1, <3>3 DEF Writes, IInv, Shape
      <4> QED BY <1>1, <3>3, <4>1 DEF IInv, OrderInv, SameTab
    <3> QED BY <3>2, <3>3
  <2> QED BY <1>1, <2>1, <2>2
<1>6. TailType'
  <2>1. \A t \in Tab : tail[t] = w => t = tabOf[w]
    BY DEF IInv, TailType, Writes, Shape
  <2>2. \A t \in Tab : tail'[t] # 0 => tail'[t] = tail[t] /\ tail[t] # w /\ tail[t] \in Writes
    BY <1>1, <2>1 DEF IInv, TailType, Shape, Writes
  <2> QED BY <1>1, <1>2, <2>2 DEF IInv, TailType, Shape, Over, Writes
<1>7. Shape' /\ ChainInv'
  BY <1>1, <1>2 DEF IInv, Shape, ChainInv, SameTab, Writes
<1> QED BY <1>3, <1>4, <1>5, <1>6, <1>7 DEF IInv

LEMMA Invariance == Spec => []IInv
<1>1. IInv /\ [Next]_qvars => IInv'
  <2>1. ASSUME IInv, UNCHANGED qvars PROVE IInv'
    BY <2>1 DEF qvars, IInv, Shape, TailType, ReleasedInv, TailInv, ChainInv, OrderInv,
                SameTab, Over, Writes
  <2> QED BY <2>1, CallInv, StartInv, SettleInv DEF Next
<1> QED BY <1>1, InitInv, PTL DEF Spec

-----------------------------------------------------------------------------
\* The variables of the write queue keep their types.
THEOREM TypeCorrect == Spec => []TypeOK
<1>1. IInv => TypeOK
  BY DEF IInv, TypeOK, Shape, TailType, ReleasedInv, ChainInv, Writes
<1> QED BY <1>1, Invariance, PTL

\* The queue map has an entry for a tab exactly while a write of it is unfinished.
THEOREM NoStaleEntry == Spec => []EntryWhileBusy
<1>1. IInv => EntryWhileBusy
  <2> SUFFICES ASSUME IInv, NEW t \in Tab
               PROVE  tail[t] # 0 <=> \E w \in Writes : tabOf[w] = t /\ ~Over(w)
    BY DEF EntryWhileBusy
  <2>1. tail[t] # 0 => tail[t] \in Writes
    BY DEF IInv, TailType, Writes, Shape
  <2>2. \A w \in Writes : tabOf[w] = t /\ ~Over(w) => w <= tail[t] /\ w \in Nat \ {0}
    BY DEF IInv, ReleasedInv, TailInv, Writes, Shape
  <2> QED BY <2>1, <2>2 DEF IInv, TailType
<1> QED BY <1>1, Invariance, PTL

\* Whatever fails on the way, the writes of a tab run one at a time and in the
\* order in which runTabWrite was called: the chain implements SerialWrites.
THEOREM Serialization == Spec => OneAtATimeInOrder
<1>1. Init => Serial!Init
  BY DEF Init, Serial!Init
<1>2. IInv /\ [Next]_qvars => [Serial!Next]_(Serial!svars)
  <2> SUFFICES ASSUME IInv, [Next]_qvars PROVE [Serial!Next]_(Serial!svars)
    OBVIOUS
  <2>1. CASE UNCHANGED qvars
    BY <2>1 DEF qvars, Serial!svars
  <2>2. ASSUME NEW t \in Tab, RunTabWrite(t) PROVE Serial!Arrive(t)
    BY <2>2 DEF RunTabWrite, Serial!Arrive
  <2>3. ASSUME NEW w \in Writes, Start(w) PROVE Serial!Begin(w)
    <3>1. ASSUME NEW v \in 1..(w - 1), tabOf[v] = tabOf[w] PROVE Over(v)
      <4>1. v \in Writes /\ v < w /\ SameTab(v, w)
        BY <3>1 DEF SameTab, Writes, IInv, Shape
      <4>2. v \in released
        BY <2>3, <4>1, ReadyMeansNext DEF Start
      <4> QED BY <4>2 DEF IInv, ReleasedInv
    <3> QED BY <2>3, <3>1 DEF Start, Serial!Begin, Serial!Before, Serial!Over, Over
  <2>4. ASSUME NEW w \in Writes, NEW how \in {"finished", "failed"}, Settle(w, how)
        PROVE  Serial!End(w)
    BY <2>4 DEF Settle, Serial!End
  <2> QED BY <2>1, <2>2, <2>3, <2>4 DEF Next, Serial!Next, Writes
<1> QED BY <1>1, <1>2, Invariance, PTL DEF Spec, Serial!Spec, OneAtATimeInOrder
=============================================================================
