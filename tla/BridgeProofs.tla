---------------------------- MODULE BridgeProofs ----------------------------
(***************************************************************************)
(* Machine-checked proofs about the request path of the bridge, for any    *)
(* sessions, tabs, keys, lifetimes, cache size and mode.                   *)
(*                                                                         *)
(* The inductive invariant has two halves: the lease table, where the      *)
(* lemmas of CoordinatorProofs are used on the tables that the handlers    *)
(* compute, and the requests, their queues and the cache.                  *)
(***************************************************************************)
EXTENDS BridgeRefinement, SequenceTheorems, TLAPS

P == INSTANCE CoordinatorProofs

\* The assumptions under which the lemmas of CoordinatorProofs hold here.
LEMMA Assumed == Nobody \notin Session /\ C!CoordinatorAssumption
  BY HolderAssumption, TableAssumption

-----------------------------------------------------------------------------
(* The lease table of the handlers is the one of the coordinator's proofs. *)

\* The helpers of the coordinator are the same in both instances.
LEMMA SameSets ==
    ASSUME NEW ls, NEW s, NEW r
    PROVE  /\ C!Live(ls) = P!Live(ls) /\ C!On(ls, r) = P!On(ls, r)
           /\ C!OwnOn(ls, s, r) = P!OwnOn(ls, s, r)
           /\ C!OthersOn(ls, s, r) = P!OthersOn(ls, s, r)
           /\ C!Quarantined(ls) = P!Quarantined(ls) /\ C!Active(ls) = P!Active(ls)
  BY DEF C!Live, P!Live, C!On, P!On, C!OwnOn, P!OwnOn, C!OthersOn, P!OthersOn,
         C!Quarantined, P!Quarantined, C!Active, P!Active

\* So are the decisions taken with them.
LEMMA SameResults ==
    ASSUME NEW ls, NEW s, NEW r, NEW t
    PROVE  /\ C!AcquireResult(ls, s, r) = P!AcquireResult(ls, s, r)
           /\ C!QuarantineResult(ls, s, t) = P!QuarantineResult(ls, s, t)
           /\ C!WriteVerdict(ls, s, t) = P!WriteVerdict(ls, s, t)
  BY DEF C!AcquireResult, P!AcquireResult, C!QuarantineResult, P!QuarantineResult,
         C!WriteVerdict, P!WriteVerdict, C!On, P!On, C!OwnOn, P!OwnOn, C!OthersOn, P!OthersOn,
         C!Quarantined, P!Quarantined, C!Active, P!Active

\* So are the tables they lead to.
LEMMA SameTables ==
    ASSUME NEW ls, NEW n, NEW s, NEW r, NEW ttl, NEW h, NEW id
    PROVE  /\ C!AfterAcquire(ls, n, s, r, ttl) = P!AfterAcquire(ls, n, s, r, ttl)
           /\ C!AfterQuarantine(ls, n, s, r) = P!AfterQuarantine(ls, n, s, r)
           /\ C!AfterRelease(ls, s, id) = P!AfterRelease(ls, s, id)
           /\ C!Emit(h, s, r) = P!Emit(h, s, r)
<1>1. C!OwnOn(ls, s, r) = P!OwnOn(ls, s, r)
  BY SameSets
<1>2. /\ C!AcquireResult(ls, s, r) = P!AcquireResult(ls, s, r)
      /\ C!QuarantineResult(ls, s, r) = P!QuarantineResult(ls, s, r)
  BY SameResults
<1>3. C!AfterAcquire(ls, n, s, r, ttl) = P!AfterAcquire(ls, n, s, r, ttl)
  BY <1>1, <1>2 DEF C!AfterAcquire, P!AfterAcquire, C!Extend, P!Extend, C!NewLease, P!NewLease
<1>4. C!AfterQuarantine(ls, n, s, r) = P!AfterQuarantine(ls, n, s, r)
  BY <1>1, <1>2 DEF C!AfterQuarantine, P!AfterQuarantine, C!Rewrite, P!Rewrite,
     C!NewLease, P!NewLease
<1> QED BY <1>3, <1>4 DEF C!AfterRelease, P!AfterRelease, C!Emit, P!Emit

-----------------------------------------------------------------------------
(* Tables as values.                                                       *)

\* What the agents' own requests and the handlers give leases.

\* A table a handler of a request of s has come to: in order, without expired
\* leases, with leases that come from those of the state, those of s apart.
Good(s, T) ==
    /\ T = [leases |-> T.leases, next |-> T.next, history |-> T.history]
    /\ P!Sound(T.leases, sessions)
    /\ \A l \in T.leases : l.left > 0
    /\ T.next \in Nat \ {0} /\ nextLease <= T.next
    /\ P!IdsBelow(T.leases, T.next)
    /\ T.history \in Seq(P!Conflict)
    /\ P!Descends(leases, nextLease, T.leases)
    /\ P!OwnWork(s, Lifetimes, leases, T.leases)

\* The table the handlers begin with.
LEMMA GoodTable == ASSUME P!IInv, NEW s PROVE Good(s, Table)
<1>1. /\ Table.leases = P!Live(leases) /\ Table.next = nextLease /\ Table.history = history
      /\ Table = [leases |-> Table.leases, next |-> Table.next, history |-> Table.history]
  BY SameSets DEF Table
<1>2. P!Sound(P!Live(leases), sessions) /\ P!IdsBelow(P!Live(leases), nextLease)
  BY P!LiveSound, Assumed DEF C!CoordinatorAssumption
<1>3. P!Live(leases) \in SUBSET leases /\ \A l \in P!Live(leases) : l.left > 0
  BY DEF P!Live
<1>4. P!Descends(leases, nextLease, P!Live(leases))
  BY <1>3, P!SubsetDescends, Assumed DEF C!CoordinatorAssumption
<1>5. nextLease \in Nat \ {0} /\ history \in Seq(P!Conflict)
  BY DEF P!IInv
<1>6. P!OwnWork(s, Lifetimes, leases, P!Live(leases))
  BY DEF P!OwnWork, P!Live
<1> QED BY <1>1, <1>2, <1>3, <1>4, <1>5, <1>6 DEF Good

\* Deleting own leases, and reporting a conflict.
LEMMA GoodLess ==
    ASSUME NEW s, NEW T, Good(s, T), NEW ks \in SUBSET T.leases,
           \A k \in T.leases \ ks : k.owner = s
    PROVE  /\ Good(s, [T EXCEPT !.leases = ks])
           /\ [T EXCEPT !.leases = ks].leases = ks
<1> DEFINE U == [T EXCEPT !.leases = ks]
<1>1. /\ U = [leases |-> U.leases, next |-> U.next, history |-> U.history]
      /\ U.leases = ks /\ U.next = T.next /\ U.history = T.history
  BY DEF Good
<1> HIDE DEF U
<1>2. \A l \in ks : l.state = "active" => l.owner \in sessions
  BY DEF Good, P!Sound
<1>3. P!Sound(ks, sessions)
  BY <1>2, P!ShrinkSound, Assumed DEF C!CoordinatorAssumption, Good
<1>4. P!Descends(leases, nextLease, ks)
  BY P!ShrinkDescends, Assumed DEF C!CoordinatorAssumption, Good
<1>5. P!IdsBelow(ks, T.next) /\ \A l \in ks : l.left > 0
  BY DEF P!IdsBelow, Good
<1>6. P!OwnWork(s, Lifetimes, leases, ks)
  BY P!OwnWorkLess, Assumed DEF C!CoordinatorAssumption, Good
<1>7. Good(s, U)
  BY <1>1, <1>3, <1>4, <1>5, <1>6 DEF Good
<1> QED BY <1>1, <1>7 DEF U

\* Reporting a conflict touches the history only.
LEMMA GoodReport ==
    ASSUME NEW s \in Session, NEW T, Good(s, T), NEW t \in Tab
    PROVE  /\ Good(s, [T EXCEPT !.history = C!Emit(@, s, t)])
           /\ [T EXCEPT !.history = C!Emit(@, s, t)].leases = T.leases
<1> DEFINE U == [T EXCEPT !.history = C!Emit(@, s, t)]
<1>1. /\ U = [leases |-> U.leases, next |-> U.next, history |-> U.history]
      /\ U.leases = T.leases /\ U.next = T.next /\ U.history = C!Emit(T.history, s, t)
  BY DEF Good
<1> HIDE DEF U
<1>2. t \in P!Resource
  BY DEF P!Resource
<1>3. P!Emit(T.history, s, t) \in Seq(P!Conflict)
  BY <1>2, P!EmitType, Assumed DEF C!CoordinatorAssumption, Good
<1>4. C!Emit(T.history, s, t) = P!Emit(T.history, s, t)
  BY SameTables
<1>5. Good(s, U)
  BY <1>1, <1>3, <1>4 DEF Good
<1> QED BY <1>1, <1>5 DEF U

\* acquire and quarantineTab touch one lease of the caller.
LEMMA AcquireTouches ==
    ASSUME NEW ls, ls \subseteq P!Lease, NEW n, NEW s, NEW r, NEW ttl
    PROVE  LET new == P!AfterAcquire(ls, n, s, r, ttl)
           IN  /\ \A k \in new : k \in ls \/ (k.resource = r /\ k.owner = s /\ k.left = ttl)
               /\ \A l \in ls : l.owner # s => l \in new
               /\ P!AcquireResult(ls, s, r) \in {"extended", "granted"} =>
                    \E k \in new : k.resource = r /\ k.owner = s
               /\ P!AcquireResult(ls, s, r) \notin {"extended", "granted"} => new = ls
<1> DEFINE new == P!AfterAcquire(ls, n, s, r, ttl)
           result == P!AcquireResult(ls, s, r)
<1>1. CASE result = "extended"
  <2> DEFINE own == P!OwnOn(ls, s, r)
             Changed(l) == [l EXCEPT !.left = ttl]
  <2>1. own # {}
    BY <1>1 DEF P!AcquireResult
  <2>2. new = (ls \ own) \union {Changed(l) : l \in own}
    BY <1>1 DEF P!AfterAcquire, P!Extend
  <2>3. \A l \in own : l \in P!Lease /\ l.resource = r /\ l.owner = s
    BY DEF P!OwnOn, P!On
  <2>4. \A l \in P!Lease : /\ Changed(l).resource = l.resource /\ Changed(l).owner = l.owner
                           /\ Changed(l).left = ttl
    BY DEF P!Lease
  <2> HIDE DEF own, Changed
  <2>5. \A k \in new : k \in ls \/ (k.resource = r /\ k.owner = s /\ k.left = ttl)
    BY <2>2, <2>3, <2>4
  <2>6. \E k \in new : k.resource = r /\ k.owner = s
    BY <2>1, <2>2, <2>3, <2>4
  <2>7. \A l \in ls : l.owner # s => l \in new
    BY <2>2, <2>3
  <2> QED BY <1>1, <2>5, <2>6, <2>7
<1>2. CASE result = "granted"
  <2> DEFINE lease == P!NewLease(n, s, r, "active", ttl)
  <2>1. new = ls \union {lease}
    BY <1>2 DEF P!AfterAcquire
  <2>2. lease.resource = r /\ lease.owner = s /\ lease.left = ttl
    BY DEF P!NewLease
  <2> HIDE DEF lease
  <2> QED BY <1>2, <2>1, <2>2
<1>3. CASE result \notin {"extended", "granted"}
  <2>1. new = ls
    BY <1>3 DEF P!AfterAcquire
  <2> QED BY <1>3, <2>1
<1> QED BY <1>1, <1>2, <1>3

\* quarantineTab touches the lease of the caller on the tab, if it touches one.
LEMMA QuarantineTouches ==
    ASSUME NEW ls, ls \subseteq P!Lease, NEW n, NEW s, NEW t
    PROVE  LET new == P!AfterQuarantine(ls, n, s, t)
               Mine(k) == /\ k.resource = t /\ k.owner = s
                          /\ k.left = QuarantineTtl /\ k.state = "quarantined"
           IN  /\ \A k \in new : k \in ls \/ Mine(k)
               /\ \A l \in ls : l.owner # s => l \in new
               /\ P!QuarantineResult(ls, s, t) \in {"converted", "created"} =>
                    \E k \in new : Mine(k)
               /\ P!QuarantineResult(ls, s, t) \notin {"converted", "created"} => new = ls
<1> DEFINE new == P!AfterQuarantine(ls, n, s, t)
           result == P!QuarantineResult(ls, s, t)
           Mine(k) == /\ k.resource = t /\ k.owner = s
                      /\ k.left = QuarantineTtl /\ k.state = "quarantined"
<1>1. CASE result = "converted"
  <2> DEFINE own == P!OwnOn(ls, s, t)
             Changed(l) == [l EXCEPT !.left = QuarantineTtl, !.state = "quarantined"]
  <2>1. own # {}
    BY <1>1 DEF P!QuarantineResult
  <2>2. new = (ls \ own) \union {Changed(l) : l \in own}
    BY <1>1 DEF P!AfterQuarantine, P!Rewrite
  <2>3. \A l \in own : l \in P!Lease /\ l.resource = t /\ l.owner = s
    BY DEF P!OwnOn, P!On
  <2>4. \A l \in P!Lease : /\ Changed(l).resource = l.resource /\ Changed(l).owner = l.owner
                           /\ Changed(l).left = QuarantineTtl /\ Changed(l).state = "quarantined"
    BY DEF P!Lease
  <2> HIDE DEF own, Changed
  <2>5. \A l \in own : Mine(Changed(l)) /\ Changed(l) \in new
    BY <2>2, <2>3, <2>4
  <2>6. \A k \in new : k \in ls \/ Mine(k)
    BY <2>2, <2>5
  <2>7. \E k \in new : Mine(k)
    BY <2>1, <2>5
  <2>8. \A l \in ls : l.owner # s => l \in new
    BY <2>2, <2>3
  <2> QED BY <1>1, <2>6, <2>7, <2>8
<1>2. CASE result = "created"
  <2> DEFINE lease == P!NewLease(n, s, t, "quarantined", QuarantineTtl)
  <2>1. new = ls \union {lease}
    BY <1>2 DEF P!AfterQuarantine
  <2>2. Mine(lease)
    BY DEF P!NewLease
  <2> HIDE DEF lease
  <2> QED BY <1>2, <2>1, <2>2
<1>3. CASE result \notin {"converted", "created"}
  <2>1. new = ls
    BY <1>3 DEF P!AfterQuarantine
  <2> QED BY <1>3, <2>1
<1> QED BY <1>1, <1>2, <1>3

\* The table after acquire.
LEMMA GoodAcquired ==
    ASSUME P!IInv, NEW s \in sessions, NEW T, Good(s, T), NEW r \in P!Resource,
           NEW ttl \in Lifetimes, ttl \in Nat \ {0}
    PROVE  LET result == C!AcquireResult(T.leases, s, r)
               U == Acquired(T, s, r, ttl, result)
           IN  /\ Good(s, U)
               /\ \A k \in U.leases : k \in T.leases \/ (k.resource = r /\ k.owner = s)
               /\ result \in {"extended", "granted"} =>
                    \E k \in U.leases : k.resource = r /\ k.owner = s
<1> DEFINE result == C!AcquireResult(T.leases, s, r)
           U == Acquired(T, s, r, ttl, result)
           ls == P!AfterAcquire(T.leases, T.next, s, r, ttl)
<1>1. s \in Session /\ T.next \in Nat /\ ttl \in Nat /\ nextLease \in Nat
  BY DEF P!IInv, Good
<1>2. result = P!AcquireResult(T.leases, s, r)
  BY SameResults
<1>3. /\ U = [leases |-> U.leases, next |-> U.next, history |-> U.history]
      /\ U.next = (IF result = "granted" THEN T.next + 1 ELSE T.next)
      /\ U.history = T.history \/ U.history = C!Emit(T.history, s, r)
      /\ U.leases = C!AfterAcquire(T.leases, T.next, s, r, ttl)
  BY DEF Acquired
<1>4. U.leases = ls
  BY <1>3, SameTables
<1> HIDE DEF U, result, ls
<1>5. P!Sound(ls, sessions) /\ P!IdsBelow(ls, U.next)
  BY <1>1, <1>2, <1>3, P!AcquireSound, Assumed DEF C!CoordinatorAssumption, Good, ls
<1>6. T.leases \subseteq P!Lease
  BY DEF Good, P!Sound
<1>7. /\ \A k \in ls : k \in T.leases \/ (k.resource = r /\ k.owner = s /\ k.left = ttl)
      /\ \A l \in T.leases : l.owner # s => l \in ls
      /\ result \in {"extended", "granted"} => \E k \in ls : k.resource = r /\ k.owner = s
  BY <1>2, <1>6, AcquireTouches DEF ls
<1>8. \A k \in ls : k.left > 0
  BY <1>7 DEF Good
<1>9. P!Live(T.leases) = T.leases
  BY DEF P!Live, Good
<1>10. P!Descends(T.leases, T.next, ls)
  BY <1>1, <1>6, <1>9, P!AcquireDescends, Assumed DEF C!CoordinatorAssumption, ls
<1>11. P!Descends(leases, nextLease, ls)
  BY <1>1, <1>5, <1>10, P!DescendsTwice, Assumed DEF C!CoordinatorAssumption, Good, P!Sound
<1>12. U.history \in Seq(P!Conflict)
  <2>1. T.history \in Seq(P!Conflict)
    BY DEF Good
  <2>2. P!Emit(T.history, s, r) \in Seq(P!Conflict)
    BY <1>1, <2>1, P!EmitType, Assumed DEF C!CoordinatorAssumption
  <2>3. C!Emit(T.history, s, r) = P!Emit(T.history, s, r)
    BY SameTables
  <2> QED BY <1>3, <2>1, <2>2, <2>3
<1>13. U.next \in Nat \ {0} /\ nextLease <= U.next
  BY <1>1, <1>3 DEF Good
<1>14. P!OwnWork(s, Lifetimes, leases, ls)
  <2>1. P!OwnWork(s, Lifetimes, T.leases, ls)
    BY <1>7 DEF P!OwnWork, P!Live
  <2> QED BY <2>1, P!OwnWorkTwice, Assumed DEF C!CoordinatorAssumption, Good
<1>15. Good(s, U)
  BY <1>3, <1>4, <1>5, <1>8, <1>11, <1>12, <1>13, <1>14 DEF Good
<1> QED BY <1>4, <1>7, <1>15 DEF U, result

\* The table after quarantineTab.
LEMMA GoodQuarantined ==
    ASSUME P!IInv, NEW s, NEW T, Good(s, T), NEW t \in Tab
    PROVE  LET U == AfterQuarantine(T, s, t)
           IN  /\ Good(s, U)
               /\ \A k \in U.leases : k \in T.leases \/ k.resource = t
               /\ s \in sessions /\ C!Active(C!OthersOn(T.leases, s, t)) = {} =>
                    C!Quarantined(C!On(U.leases, t)) # {}
<1> DEFINE U == AfterQuarantine(T, s, t)
           result == C!QuarantineResult(T.leases, s, t)
           ls == P!AfterQuarantine(T.leases, T.next, s, t)
<1>1. CASE s \notin sessions
  BY <1>1 DEF AfterQuarantine
<1>2. CASE s \in sessions
  <2>1. s \in Session /\ T.next \in Nat /\ QuarantineTtl \in Nat \ {0} /\ nextLease \in Nat
    BY <1>2, Assumed DEF P!IInv, Good, C!CoordinatorAssumption
  <2>2. result = P!QuarantineResult(T.leases, s, t)
    BY SameResults
  <2>3. /\ U = [leases |-> U.leases, next |-> U.next, history |-> U.history]
        /\ U.next = (IF result = "created" THEN T.next + 1 ELSE T.next)
        /\ U.history = T.history
        /\ U.leases = C!AfterQuarantine(T.leases, T.next, s, t)
    <3>1. U = [T EXCEPT !.leases = C!AfterQuarantine(T.leases, T.next, s, t),
                        !.next = IF result = "created" THEN T.next + 1 ELSE T.next]
      BY <1>2 DEF AfterQuarantine
    <3>2. T = [leases |-> T.leases, next |-> T.next, history |-> T.history]
      BY DEF Good
    <3> HIDE DEF U, result
    <3> QED BY <3>1, <3>2
  <2>4. U.leases = ls
    BY <2>3, SameTables
  <2> HIDE DEF U, result, ls
  <2>5. P!Sound(ls, sessions) /\ P!IdsBelow(ls, U.next)
    BY <1>2, <2>1, <2>2, <2>3, P!QuarantineSound, Assumed DEF C!CoordinatorAssumption, Good, ls
  <2>6. T.leases \subseteq P!Lease
    BY DEF Good, P!Sound
  <2>7. /\ \A k \in ls : k \in T.leases \/ (k.resource = t /\ k.owner = s /\ k.left = QuarantineTtl)
        /\ \A l \in T.leases : l.owner # s => l \in ls
        /\ result \in {"converted", "created"} =>
             \E k \in ls : k.resource = t /\ k.state = "quarantined"
        /\ result \notin {"converted", "created"} => ls = T.leases
    BY <2>2, <2>6, QuarantineTouches DEF ls
  <2>8. \A k \in ls : k.left > 0
    BY <2>1, <2>7 DEF Good
  <2>9. P!Live(T.leases) = T.leases
    BY DEF P!Live, Good
  <2>10. P!Descends(T.leases, T.next, ls)
    BY <2>1, <2>6, <2>9, P!QuarantineDescends, Assumed DEF C!CoordinatorAssumption, ls
  <2>11. P!Descends(leases, nextLease, ls)
    BY <2>1, <2>5, <2>10, P!DescendsTwice, Assumed DEF C!CoordinatorAssumption, Good, P!Sound
  <2>12. U.next \in Nat \ {0} /\ nextLease <= U.next
    BY <2>1, <2>3 DEF Good
  <2>13. P!OwnWork(s, Lifetimes, leases, ls)
    <3>1. P!OwnWork(s, Lifetimes, T.leases, ls)
      BY <2>7 DEF P!OwnWork, P!Live, Lifetimes
    <3> QED BY <3>1, P!OwnWorkTwice, Assumed DEF C!CoordinatorAssumption, Good
  <2>14. Good(s, U)
    BY <2>3, <2>4, <2>5, <2>8, <2>11, <2>12, <2>13 DEF Good
  <2>15. ASSUME C!Active(C!OthersOn(T.leases, s, t)) = {}
         PROVE  C!Quarantined(C!On(U.leases, t)) # {}
    <3>1. CASE result \in {"converted", "created"}
      BY <2>4, <2>7, <3>1 DEF C!Quarantined, C!On
    <3>2. CASE result \notin {"converted", "created"}
      <4>1. C!OthersOn(T.leases, s, t) # {}
        BY <2>15, <3>2 DEF result, C!QuarantineResult
      <4>2. PICK k \in T.leases : k.resource = t /\ k \in C!OthersOn(T.leases, s, t)
        BY <4>1 DEF C!OthersOn, C!On
      <4>3. k.state = "quarantined"
        BY <2>6, <2>15, <4>2 DEF C!Active, P!Lease
      <4>4. k \in U.leases
        BY <2>4, <2>7, <3>2, <4>2
      <4> QED BY <4>2, <4>3, <4>4 DEF C!Quarantined, C!On
    <3> QED BY <3>1, <3>2
  <2> QED BY <1>2, <2>4, <2>7, <2>14, <2>15 DEF U
<1> QED BY <1>1, <1>2

-----------------------------------------------------------------------------
(* What the admission of a request comes to.                               *)

\* Every lease of a table on the recorder belongs to one of the recordings.
Accounted(ls, entries) ==
    Recorder \notin Leasable =>
        \A l \in ls : l.resource = Recorder =>
            \E e \in entries : e.session = l.owner /\ e.recorderLease = l.id
Recordings(entries) == \A e \in entries : e.session \in Session /\ e.tab \in Tab

\* What a handler may have come to before it awaits the execution.
Sane(s, a) ==
    /\ a = [error |-> a.error, table |-> a.table, recording |-> a.recording]
    /\ a.error \in Errors \union {"none"}
    /\ Good(s, a.table)
    /\ Recordings(a.recording)
    /\ Accounted(a.table.leases, a.recording)

\* A handler that ends where it is.
LEMMA SaneCameTo ==
    ASSUME NEW s, NEW T, Good(s, T), Recordings(recording), Accounted(T.leases, recording),
           NEW error \in Errors \union {"none"}
    PROVE  Sane(s, CameTo(error, T))
<1> DEFINE a == CameTo(error, T)
<1>1. /\ a.error = error /\ a.table = T /\ a.recording = recording
      /\ a = [error |-> a.error, table |-> a.table, recording |-> a.recording]
  BY DEF CameTo
<1> HIDE DEF a
<1>2. Sane(s, a)
  BY <1>1 DEF Sane
<1> QED BY <1>2 DEF a

\* The lease of s on r in a table, if there is one, is the only one.
LEMMA OwnLeaseIs ==
    ASSUME NEW s, NEW T, Good(s, T), NEW k \in T.leases
    PROVE  OwnLease(T, k.owner, k.resource) = k.id
<1>1. C!OwnOn(T.leases, k.owner, k.resource) = {k}
  BY DEF C!OwnOn, C!On, Good, P!Sound
<1> QED BY <1>1 DEF OwnLease

\* acquire has four results.
LEMMA AcquireResults ==
    ASSUME NEW ls, NEW s, NEW r
    PROVE  C!AcquireResult(ls, s, r)
             \in {"extended", "granted", "RESOURCE_QUARANTINED", "RESOURCE_BUSY"}
  BY DEF C!AcquireResult

\* Both leases of a recording, or none.
LEMMA LeasesOfRecording ==
    ASSUME P!IInv, NEW s \in sessions, NEW T, Good(s, T), Recordings(recording),
           Accounted(T.leases, recording), NEW t \in Tab
    PROVE  Sane(s, RecordingLeases(T, s, t))
<1>0. /\ s \in Session /\ Recorder \in P!Resource /\ t \in P!Resource /\ t # Recorder
      /\ RecordingTtl \in Nat \ {0} /\ RecordingTtl \in Lifetimes
  BY BridgeAssumption, Assumed DEF Lifetimes, P!IInv, P!Resource, C!CoordinatorAssumption
<1>1. \A result \in {"RESOURCE_QUARANTINED", "RESOURCE_BUSY"} :
         result \in Errors \union {"none"} /\ result \notin {"extended", "granted"}
  BY DEF Errors
<1>2. CASE RecordingLeases(T, s, t) \in {CameTo("INVALID_REQUEST", T), CameTo("none", T)}
  <2>1. {"INVALID_REQUEST", "none"} \subseteq Errors \union {"none"}
    BY DEF Errors
  <2> QED BY <1>2, <2>1, SaneCameTo
<1>3. ASSUME NEW result, result = C!AcquireResult(T.leases, s, Recorder)
      PROVE  Sane(s, LeaseRecorder(T, s, t, result))
  <2>1. CASE result \notin {"extended", "granted"}
    BY <1>1, <1>3, <2>1, AcquireResults, SaneCameTo DEF LeaseRecorder
  <2>2. CASE result \in {"extended", "granted"}
    <3> DEFINE T1 == Acquired(T, s, Recorder, RecordingTtl, result)
               then == C!AcquireResult(T1.leases, s, t)
    <3>1. /\ Good(s, T1)
          /\ \A k \in T1.leases : k \in T.leases \/ (k.resource = Recorder /\ k.owner = s)
      BY <1>0, <1>3, GoodAcquired
    <3>2. LeaseRecorder(T, s, t, result) = LeaseTab(T1, s, t, then)
      BY <2>2 DEF LeaseRecorder, WithRecorder
    <3> HIDE DEF T1
    <3>3. ASSUME NEW k \in T1.leases, k.resource = Recorder, k.owner = s
          PROVE  OwnLease(T1, s, Recorder) = k.id
      BY <3>1, <3>3, OwnLeaseIs
    <3>4. CASE then \notin {"extended", "granted"}
      <4> DEFINE back == C!AfterRelease(T1.leases, s, OwnLease(T1, s, Recorder))
      <4>1. back \in SUBSET T1.leases /\ \A k \in T1.leases \ back : k.owner = s
        BY DEF C!AfterRelease
      <4>2. Good(s, Rollback(T1, s, OwnLease(T1, s, Recorder)))
            /\ Rollback(T1, s, OwnLease(T1, s, Recorder)).leases = back
        BY <3>1, <4>1, GoodLess DEF Rollback
      <4>3. \A k \in back : k.resource = Recorder => k \in T.leases
        BY <3>1, <3>3 DEF C!AfterRelease
      <4>4. Accounted(back, recording)
        BY <4>3 DEF Accounted
      <4>5. then \in Errors \union {"none"}
        BY <1>1, <3>4, AcquireResults
      <4>6. Sane(s, CameTo(then, Rollback(T1, s, OwnLease(T1, s, Recorder))))
        BY <4>2, <4>4, <4>5, SaneCameTo
      <4> QED BY <3>2, <3>4, <4>6 DEF LeaseTab
    <3>5. CASE then \in {"extended", "granted"}
      <4> DEFINE T2 == Acquired(T1, s, t, RecordingTtl, then)
                 e == [session |-> s, tab |-> t, recorderLease |-> OwnLease(T2, s, Recorder),
                       tabLease |-> OwnLease(T2, s, t)]
                 a == Recorded(T2, s, t)
      <4>1. /\ Good(s, T2)
            /\ \A k \in T2.leases : k \in T1.leases \/ (k.resource = t /\ k.owner = s)
        BY <1>0, <3>1, GoodAcquired
      <4>2. LeaseRecorder(T, s, t, result) = a
        BY <3>2, <3>5 DEF LeaseTab
      <4> HIDE DEF T2
      <4>3. e.session = s /\ e.tab = t /\ e.recorderLease = OwnLease(T2, s, Recorder)
        OBVIOUS
      <4>4. a = [error |-> "none", table |-> T2, recording |-> recording \union {e}]
        BY DEF Recorded, CameTo
      <4> HIDE DEF e
      <4>5. Accounted(T2.leases, recording \union {e})
        <5> SUFFICES ASSUME Recorder \notin Leasable, NEW k \in T2.leases, k.resource = Recorder
                     PROVE  \E f \in recording \union {e} :
                               f.session = k.owner /\ f.recorderLease = k.id
          BY DEF Accounted
        <5>1. CASE k.owner = s
          BY <4>1, <4>3, <5>1, OwnLeaseIs
        <5>2. CASE k.owner # s
          BY <1>0, <3>1, <4>1, <5>2 DEF Accounted
        <5> QED BY <5>1, <5>2
      <4>6. Recordings(recording \union {e})
        BY <1>0, <4>3 DEF Recordings
      <4> HIDE DEF a
      <4>7. Sane(s, a)
        BY <4>1, <4>4, <4>5, <4>6 DEF Sane
      <4> QED BY <4>2, <4>7
    <3> QED BY <3>4, <3>5
  <2> QED BY <2>1, <2>2
<1>4. CASE RecordingOf(recording, s) = {}
  <2>1. RecordingLeases(T, s, t) = LeaseRecorder(T, s, t, C!AcquireResult(T.leases, s, Recorder))
    BY <1>4 DEF RecordingLeases
  <2> QED BY <1>3, <2>1
<1>5. CASE RecordingOf(recording, s) # {}
  <2>1. RecordingLeases(T, s, t) \in {CameTo("INVALID_REQUEST", T), CameTo("none", T)}
    BY <1>5 DEF RecordingLeases
  <2> QED BY <1>2, <2>1
<1> QED BY <1>4, <1>5

\* releaseRecordingLeases takes the leases of a session's recording with it.
LEMMA ReleasedRecording ==
    ASSUME NEW s, NEW T, Good(s, T), NEW entries, Recordings(entries),
           Accounted(T.leases, entries)
    PROVE  LET U == Released(T, entries, s)
           IN  /\ Good(s, U)
               /\ U.leases \subseteq T.leases
               /\ Recordings(entries \ RecordingOf(entries, s))
               /\ Accounted(U.leases, entries \ RecordingOf(entries, s))
<1> DEFINE U == Released(T, entries, s)
           ls == {l \in T.leases : ~\E e \in RecordingOf(entries, s) :
                      l.owner = s /\ l.id \in {e.tabLease, e.recorderLease}}
<1>1. ls \in SUBSET T.leases /\ \A k \in T.leases \ ls : k.owner = s
  OBVIOUS
<1>2. U = [T EXCEPT !.leases = ls]
  BY DEF Released
<1>3. Accounted(ls, entries \ RecordingOf(entries, s))
  <2> SUFFICES ASSUME Recorder \notin Leasable, NEW l \in ls, l.resource = Recorder
               PROVE  \E e \in entries \ RecordingOf(entries, s) :
                         e.session = l.owner /\ e.recorderLease = l.id
    BY DEF Accounted
  <2>1. PICK e \in entries : e.session = l.owner /\ e.recorderLease = l.id
    BY DEF Accounted
  <2>2. e \notin RecordingOf(entries, s)
    BY <2>1 DEF RecordingOf
  <2> QED BY <2>1, <2>2
<1> HIDE DEF ls, U
<1>4. Good(s, U) /\ U.leases = ls
  BY <1>1, <1>2, GoodLess
<1>5. Recordings(entries \ RecordingOf(entries, s))
  BY DEF Recordings
<1> QED BY <1>1, <1>3, <1>4, <1>5 DEF U

\* coordinateBrowserRequest: an admitted write finds no lease of another agent
\* on its tab in enforce mode.
LEMMA JudgedSane ==
    ASSUME P!IInv, NEW s \in sessions, NEW action, NEW t \in Tab \union {NoTab},
           NEW start, Sane(s, start)
    PROVE  LET a == Judged(s, action, t, start)
           IN  /\ Sane(s, a)
               /\ Mode = "enforce" /\ Queued(action, t) /\ a.error = "none" =>
                    \A l \in a.table.leases : l.resource = t => l.owner = s
<1> DEFINE verdict == IF Queued(action, t) THEN C!WriteVerdict(start.table.leases, s, t)
                      ELSE "allowed"
           a == Judged(s, action, t, start)
           Free(b) == Mode = "enforce" /\ Queued(action, t) /\ b.error = "none" =>
                        \A l \in b.table.leases : l.resource = t => l.owner = s
<1>0. s \in Session
  BY DEF P!IInv
<1>1. a = Admitted(s, action, t, start, verdict)
  BY DEF Judged
<1>2. verdict \in {"allowed", "RESOURCE_QUARANTINED", "RESOURCE_BUSY"}
  BY DEF C!WriteVerdict
<1>3. ASSUME Mode = "enforce", Queued(action, t), verdict = "allowed"
      PROVE  \A l \in start.table.leases : l.resource = t => l.owner = s
  <2>1. C!WriteVerdict(start.table.leases, s, t) = "allowed"
    BY <1>3
  <2>2. /\ C!Quarantined(C!OthersOn(start.table.leases, s, t)) = {}
        /\ C!Active(C!OthersOn(start.table.leases, s, t)) = {}
    BY <1>3, <2>1 DEF C!WriteVerdict
  <2>3. \A l \in start.table.leases : l.state \in {"active", "quarantined"}
    BY DEF Sane, Good, P!Sound, P!Lease
  <2> QED BY <2>2, <2>3 DEF C!Quarantined, C!Active, C!OthersOn, C!On
<1> HIDE DEF verdict, a
<1>4. CASE start.error # "none"
  <2>1. a = start
    BY <1>1, <1>4 DEF Admitted
  <2>2. Sane(s, a) /\ Free(a)
    BY <1>4, <2>1
  <2> QED BY <2>2 DEF a
<1>5. CASE start.error = "none" /\ verdict # "allowed"
  <2>1. a = GivenBack(s, action, verdict, start)
    BY <1>1, <1>5 DEF Admitted
  <2>2. verdict # "none" /\ verdict \in Errors \union {"none"}
    BY <1>2, <1>5 DEF Errors
  <2>3. CASE ~IsRecording(action)
    <3>1. a = [start EXCEPT !.error = verdict]
      BY <2>1, <2>3 DEF GivenBack
    <3>2. /\ a = [error |-> a.error, table |-> a.table, recording |-> a.recording]
          /\ a.error = verdict /\ a.table = start.table /\ a.recording = start.recording
      BY <3>1 DEF Sane
    <3>3. Sane(s, a)
      BY <2>2, <3>2 DEF Sane
    <3> QED BY <2>2, <3>2, <3>3 DEF a
  <2>4. CASE IsRecording(action)
    <3>1. a = [error |-> verdict, table |-> Released(start.table, start.recording, s),
               recording |-> start.recording \ RecordingOf(start.recording, s)]
      BY <2>1, <2>4 DEF GivenBack
    <3>2. /\ a = [error |-> a.error, table |-> a.table, recording |-> a.recording]
          /\ a.error = verdict /\ a.table = Released(start.table, start.recording, s)
          /\ a.recording = start.recording \ RecordingOf(start.recording, s)
      BY <3>1
    <3>3. /\ Good(s, start.table) /\ Recordings(start.recording)
          /\ Accounted(start.table.leases, start.recording)
      BY DEF Sane
    <3>4. /\ Good(s, a.table) /\ Recordings(a.recording)
          /\ Accounted(a.table.leases, a.recording)
      BY <3>2, <3>3, ReleasedRecording
    <3>5. Sane(s, a)
      BY <2>2, <3>2, <3>4 DEF Sane
    <3> QED BY <2>2, <3>2, <3>5 DEF a
  <2> QED BY <2>3, <2>4
<1>6. CASE start.error = "none" /\ verdict = "allowed"
  <2>1. CASE a = start
    <3>1. Sane(s, a) /\ Free(a)
      BY <1>3, <1>6, <2>1
    <3> QED BY <3>1 DEF a
  <2>2. CASE Queued(action, t) /\ a = [start EXCEPT !.table.history = C!Emit(@, s, t)]
    <3> DEFINE U == [start.table EXCEPT !.history = C!Emit(@, s, t)]
    <3>1. /\ a = [error |-> a.error, table |-> a.table, recording |-> a.recording]
          /\ a.error = start.error /\ a.table = U /\ a.recording = start.recording
      BY <2>2 DEF Sane, Good
    <3>2. t \in Tab
      BY <2>2 DEF Queued
    <3>3. Good(s, U) /\ U.leases = start.table.leases
      BY <1>0, <3>2, GoodReport DEF Sane
    <3> HIDE DEF U
    <3>4. Sane(s, a)
      BY <3>1, <3>3 DEF Sane
    <3>5. Free(a)
      BY <1>3, <1>6, <3>1, <3>3
    <3> QED BY <3>4, <3>5 DEF a
  <2> QED BY <1>1, <1>6, <2>1, <2>2 DEF Admitted
<1> QED BY <1>4, <1>5, <1>6 DEF a

\* The admission of a request, recording leases included.
LEMMA AdmissionSane ==
    ASSUME P!IInv, Recordings(recording), Accounted(leases, recording),
           NEW s \in sessions, NEW action, NEW t \in Tab \union {NoTab}
    PROVE  LET a == Admission(s, action, t)
           IN  /\ Sane(s, a)
               /\ Mode = "enforce" /\ Queued(action, t) /\ a.error = "none" =>
                    \A l \in a.table.leases : l.resource = t => l.owner = s
<1> DEFINE start == IF action = "record_start" /\ t # NoTab
                    THEN RecordingLeases(Table, s, t) ELSE CameTo("none", Table)
<1>1. Good(s, Table)
  BY GoodTable
<1>2. Accounted(Table.leases, recording)
  BY DEF Accounted, Table, C!Live
<1>3. {"TAB_ID_REQUIRED", "none"} \subseteq Errors \union {"none"}
  BY DEF Errors
<1>4. CASE NeedsTab(action) /\ t = NoTab /\ Mode = "enforce"
  <2>1. Admission(s, action, t) = CameTo("TAB_ID_REQUIRED", Table)
    BY <1>4 DEF Admission
  <2>2. ~Queued(action, t)
    BY <1>4 DEF Queued
  <2>3. Sane(s, CameTo("TAB_ID_REQUIRED", Table))
    BY <1>1, <1>2, <1>3, SaneCameTo
  <2> DEFINE a == Admission(s, action, t)
             Free(b) == Mode = "enforce" /\ Queued(action, t) /\ b.error = "none" =>
                          \A l \in b.table.leases : l.resource = t => l.owner = s
  <2> HIDE DEF a
  <2>4. Sane(s, a)
    BY <2>1, <2>3 DEF a
  <2>5. Free(a)
    BY <2>2
  <2> QED BY <2>4, <2>5 DEF a
<1>5. CASE ~(NeedsTab(action) /\ t = NoTab /\ Mode = "enforce")
  <2>1. Admission(s, action, t) = Judged(s, action, t, start)
    BY <1>5 DEF Admission
  <2>2. Sane(s, start)
    BY <1>1, <1>2, <1>3, LeasesOfRecording, SaneCameTo
  <2> HIDE DEF start
  <2> DEFINE a == Judged(s, action, t, start)
  <2>3. /\ Sane(s, a)
        /\ Mode = "enforce" /\ Queued(action, t) /\ a.error = "none" =>
             \A l \in a.table.leases : l.resource = t => l.owner = s
    BY <2>2, JudgedSane
  <2> HIDE DEF a
  <2>4. Admission(s, action, t) = a
    BY <2>1 DEF a
  <2> QED BY <2>3, <2>4
<1> QED BY <1>4, <1>5

-----------------------------------------------------------------------------
(* The table half of the invariant.                                        *)

TableInv ==
    /\ P!IInv
    /\ closed \subseteq Session /\ closed \intersect sessions = {}
    /\ Recordings(recording)
    /\ Accounted(leases, recording)

\* The leases after a step come from the leases before it, or are new.
Descent == nextLease <= nextLease' /\ P!Descends(leases, nextLease, leases')

\* A step touches the leases of s only, and expired ones.
Serves(s) == P!OwnWork(s, Lifetimes, leases, leases')

\* A handler leaves the table it has come to.
LEMMA LeavesTable ==
    ASSUME P!IInv, NEW s, NEW T, Good(s, T), SetTable(T), UNCHANGED sessions,
           defaultTab' \in [Session -> Tab \union {NoTab}]
    PROVE  P!IInv' /\ Descent /\ Serves(s)
<1>1. /\ leases' = T.leases /\ nextLease' = T.next /\ history' = T.history
  BY DEF SetTable
<1>2. P!Sound(leases', sessions') /\ P!IdsBelow(leases', nextLease')
  BY <1>1 DEF Good
<1>3. sessions' \subseteq Session
  BY DEF P!IInv
<1>4. nextLease' \in Nat \ {0} /\ nextLease <= nextLease' /\ history' \in Seq(P!Conflict)
      /\ P!Descends(leases, nextLease, leases') /\ P!OwnWork(s, Lifetimes, leases, leases')
  BY <1>1 DEF Good
<1> QED BY <1>2, <1>3, <1>4 DEF P!IInv, Descent, Serves

\* Calls that leave the table alone.
LEMMA TableUnchanged ==
    ASSUME TableInv, UNCHANGED <<cvars, closed, recording>>
    PROVE  TableInv' /\ Descent
<1>1. TableInv'
  BY DEF TableInv, P!IInv, Recordings, Accounted, cvars
<1>2. P!Descends(leases, nextLease, leases) /\ nextLease \in Nat
  BY P!SubsetDescends, Assumed DEF C!CoordinatorAssumption, TableInv, P!IInv
<1> QED BY <1>1, <1>2 DEF Descent, cvars

\* The tab of a request is a tab, or unknown.
LEMMA TargetType ==
    ASSUME TableInv, NEW s \in sessions, NEW action, NEW tab \in Tab \union {NoTab}
    PROVE  Target(s, action, tab) \in Tab \union {NoTab}
  BY DEF Target, TableInv, P!IInv

\* What is done before the execution of a request leaves the table in order.
LEMMA PrepareTable ==
    ASSUME TableInv, NEW s \in Session, NEW action, NEW t \in Tab \union {NoTab}, NEW key,
           Prepare(s, action, t, key, Admission(s, action, t))
    PROVE  TableInv' /\ Descent /\ Serves(s)
<1> DEFINE a == Admission(s, action, t)
<1>1. s \in sessions
  BY DEF Prepare, Arrives
<1>2. Sane(s, a)
  BY <1>1, AdmissionSane DEF TableInv
<1> HIDE DEF a
<1>3. /\ SetTable(a.table) /\ recording' = a.recording /\ UNCHANGED <<sessions, closed>>
      /\ defaultTab' = IF action = "switch_tab" /\ t # NoTab
                       THEN [defaultTab EXCEPT ![s] = t] ELSE defaultTab
  BY DEF Prepare, a
<1>4. defaultTab' \in [Session -> Tab \union {NoTab}]
  BY <1>3 DEF TableInv, P!IInv
<1>5. P!IInv' /\ Descent /\ Serves(s)
  BY <1>2, <1>3, <1>4, LeavesTable DEF Sane, TableInv
<1>6. Accounted(leases', recording') /\ Recordings(recording')
  BY <1>2, <1>3 DEF Sane, SetTable
<1> QED BY <1>3, <1>5, <1>6 DEF TableInv, Accounted, Recordings

\* The end of a request: its recording is over, and an unknown outcome
\* quarantines its tab.
LEMMA ConcludeTable ==
    ASSUME TableInv, NEW r \in Requests, req[r].tab \in Tab \union {NoTab}, Conclude(r)
    PROVE  /\ TableInv'
           /\ Descent
           /\ Serves(req[r].session)
           /\ /\ req[r].outcome = "UNKNOWN_OUTCOME"
              /\ req[r].tab # NoTab
              /\ req[r].session \in sessions
              /\ C!Active(C!OthersOn(C!Live(leases), req[r].session, req[r].tab)) = {}
              => C!Quarantined(C!On(leases', req[r].tab)) # {}
<1> DEFINE q == req[r]
           s == q.session
           over == \/ q.action = "record_stop"
                   \/ q.action = "record_start" /\ q.outcome # "ok"
           freed == IF over THEN Released(Table, recording, s) ELSE Table
           suspects == IF q.tab # NoTab THEN {q.tab}
                       ELSE IF over THEN {e.tab : e \in RecordingOf(recording, s)} ELSE {}
           unknown == q.outcome = "UNKNOWN_OUTCOME"
<1>1. /\ recording' = IF over THEN recording \ RecordingOf(recording, s) ELSE recording
      /\ IF unknown /\ suspects # {}
         THEN \E t \in suspects : SetTable(AfterQuarantine(freed, s, t))
         ELSE SetTable(freed)
      /\ UNCHANGED <<sessions, defaultTab, closed>>
  BY DEF Conclude
<1>2. suspects \subseteq Tab
  BY DEF TableInv, Recordings, RecordingOf
<1>3. unknown /\ q.tab # NoTab => suspects = {q.tab}
  OBVIOUS
<1>4. Good(s, Table) /\ Accounted(Table.leases, recording) /\ Table.leases = C!Live(leases)
  BY GoodTable DEF TableInv, Accounted, Table, C!Live
<1>5. /\ Good(s, freed) /\ freed.leases \subseteq Table.leases
      /\ Recordings(recording') /\ Accounted(freed.leases, recording')
  <2>1. CASE over
    <3>1. freed = Released(Table, recording, s)
          /\ recording' = recording \ RecordingOf(recording, s)
      BY <1>1, <2>1
    <3> QED BY <1>4, <3>1, ReleasedRecording DEF TableInv
  <2>2. CASE ~over
    <3>1. freed = Table /\ recording' = recording
      BY <1>1, <2>2
    <3> QED BY <1>4, <3>1 DEF TableInv
  <2> QED BY <2>1, <2>2
<1> HIDE DEF freed, suspects, over
<1>6. PICK T : /\ SetTable(T) /\ Good(s, T)
               /\ Accounted(T.leases, recording')
               /\ unknown /\ q.tab # NoTab => T = AfterQuarantine(freed, s, q.tab)
  <2>1. CASE unknown /\ suspects # {}
    <3>1. PICK t \in suspects : SetTable(AfterQuarantine(freed, s, t))
      BY <1>1, <2>1
    <3> DEFINE T == AfterQuarantine(freed, s, t)
    <3>2. t \in Tab /\ t # Recorder
      BY <1>2, Assumed DEF C!CoordinatorAssumption
    <3>3. Good(s, T) /\ \A k \in T.leases : k \in freed.leases \/ k.resource = t
      BY <1>5, <3>2, GoodQuarantined DEF TableInv
    <3>4. unknown /\ q.tab # NoTab => T = AfterQuarantine(freed, s, q.tab)
      BY <1>3
    <3> HIDE DEF T
    <3>5. Accounted(T.leases, recording')
      BY <1>5, <3>2, <3>3 DEF Accounted
    <3>6. SetTable(T)
      BY <3>1 DEF T
    <3> QED BY <3>3, <3>4, <3>5, <3>6
  <2>2. CASE ~(unknown /\ suspects # {})
    BY <1>1, <1>3, <1>5, <2>2
  <2> QED BY <2>1, <2>2
<1>7. defaultTab' \in [Session -> Tab \union {NoTab}]
  BY <1>1 DEF TableInv, P!IInv
<1>8. P!IInv' /\ Descent /\ Serves(s)
  BY <1>1, <1>6, <1>7, LeavesTable DEF TableInv
<1>9. leases' = T.leases
  BY <1>6 DEF SetTable
<1>10. TableInv'
  BY <1>1, <1>5, <1>6, <1>8, <1>9 DEF TableInv, Accounted, Recordings
<1>11. ASSUME unknown, q.tab # NoTab, s \in sessions,
              C!Active(C!OthersOn(C!Live(leases), s, q.tab)) = {}
       PROVE  C!Quarantined(C!On(leases', q.tab)) # {}
  <2>1. T = AfterQuarantine(freed, s, q.tab) /\ q.tab \in Tab
    BY <1>6, <1>11
  <2>2. C!Active(C!OthersOn(freed.leases, s, q.tab)) = {}
    BY <1>4, <1>5, <1>11 DEF C!Active, C!OthersOn, C!On
  <2>3. C!Quarantined(C!On(T.leases, q.tab)) # {}
    BY <1>5, <1>11, <2>1, <2>2, GoodQuarantined DEF TableInv
  <2> QED BY <1>9, <2>3
<1> QED BY <1>8, <1>10, <1>11

\* Calls that only delete leases keep the recordings accounted for.
LEMMA LessAccounted ==
    ASSUME NEW ls, NEW entries, Accounted(ls, entries), NEW ks \in SUBSET ls
    PROVE  Accounted(ks, entries)
  BY DEF Accounted

\* A new session has no recording and no lease.
LEMMA OpenTable == ASSUME TableInv, NEW s \in Session, Open(s) PROVE TableInv' /\ Descent
<1>1. P!Connect(s)
  BY DEF Open, C!Connect, P!Connect, C!Live, P!Live
<1>2. P!IInv' /\ P!Descends(leases, nextLease, leases')
  BY <1>1, P!StepInv, P!StepDescends, Assumed
     DEF C!CoordinatorAssumption, TableInv, P!Next, P!Call
<1>3. /\ leases' \in SUBSET leases /\ nextLease' = nextLease /\ sessions' = sessions \union {s}
      /\ s \notin closed /\ UNCHANGED <<closed, recording>>
  BY DEF Open, C!Connect, C!Live, bvars
<1>4. Accounted(leases', recording')
  BY <1>3, LessAccounted DEF TableInv
<1>5. nextLease <= nextLease'
  BY <1>3 DEF TableInv, P!IInv
<1> QED BY <1>2, <1>3, <1>4, <1>5 DEF TableInv, Descent, Accounted, Recordings

\* The recorder is never quarantined, so that a session that ends takes its
\* recorder lease with it.
LEMMA CloseTable == ASSUME TableInv, NEW s \in Session, Close(s) PROVE TableInv' /\ Descent
<1>1. P!Disconnect(s)
  BY DEF Close, C!Disconnect, P!Disconnect, C!Live, P!Live, C!AfterDisconnect, P!AfterDisconnect
<1>2. P!IInv' /\ P!Descends(leases, nextLease, leases')
  BY <1>1, P!StepInv, P!StepDescends, Assumed
     DEF C!CoordinatorAssumption, TableInv, P!Next, P!Call
<1>3. /\ nextLease' = nextLease /\ sessions' = sessions \ {s} /\ closed' = closed \union {s}
      /\ recording' = recording \ RecordingOf(recording, s)
      /\ \A l \in leases' : l \in leases /\ (l.owner = s => l.state # "active")
  BY DEF Close, C!Disconnect, C!AfterDisconnect, C!Live
<1>4. Accounted(leases', recording')
  <2> SUFFICES ASSUME Recorder \notin Leasable, NEW l \in leases', l.resource = Recorder
               PROVE  \E e \in recording' : e.session = l.owner /\ e.recorderLease = l.id
    BY DEF Accounted
  <2>1. l.owner # s
    BY <1>3, Assumed DEF TableInv, P!IInv, P!Sound, P!Lease, C!CoordinatorAssumption
  <2> QED BY <1>3, <2>1 DEF TableInv, Accounted, RecordingOf
<1>5. nextLease <= nextLease'
  BY <1>3 DEF TableInv, P!IInv
<1>6. Recordings(recording')
  BY <1>3 DEF Recordings, TableInv
<1> QED BY <1>2, <1>3, <1>4, <1>5, <1>6 DEF TableInv, Descent, Accounted, Recordings

\* Extending leases keeps what Accounted looks at.
LEMMA ExtendAccounted ==
    ASSUME NEW ls, ls \subseteq P!Lease, NEW entries, Accounted(ls, entries),
           NEW some \in SUBSET ls, NEW ttl
    PROVE  Accounted(P!Extend(ls, some, ttl), entries)
<1> DEFINE Changed(l) == [l EXCEPT !.left = ttl]
<1>1. P!Extend(ls, some, ttl) = (ls \ some) \union {Changed(l) : l \in some}
  BY DEF P!Extend
<1>2. \A l \in P!Lease : /\ Changed(l).id = l.id /\ Changed(l).resource = l.resource
                         /\ Changed(l).owner = l.owner
  BY DEF P!Lease
<1> HIDE DEF Changed
<1>3. \A k \in P!Extend(ls, some, ttl) : \E l \in ls :
         k.id = l.id /\ k.resource = l.resource /\ k.owner = l.owner
  BY <1>1, <1>2
<1> QED BY <1>3 DEF Accounted

\* The lease tools are calls of the coordinator.
LEMMA LeaseRequestTable ==
    ASSUME TableInv, NEW s \in Session, LeaseRequest(s)
    PROVE  TableInv' /\ Descent
<1>0. /\ leases \subseteq P!Lease /\ nextLease \in Nat
      /\ P!Live(leases) \in SUBSET leases /\ Accounted(P!Live(leases), recording)
  BY DEF TableInv, P!IInv, P!Sound, P!Live, Accounted
<1> SUFFICES P!IInv' /\ Descent /\ Accounted(leases', recording)
  BY DEF LeaseRequest, TableInv, bvars, Accounted, Recordings, C!Acquire, C!Release, C!Renew,
     C!Touch
<1>1. ASSUME NEW r \in Leasable, NEW ttl \in Ttl, C!Acquire(s, r, ttl)
      PROVE  P!IInv' /\ Descent /\ Accounted(leases', recording)
  <2>1. P!Acquire(s, r, ttl)
    BY <1>1 DEF C!Acquire, P!Acquire, C!Live, P!Live, C!AcquireResult, P!AcquireResult,
       C!AfterAcquire, P!AfterAcquire, C!Extend, P!Extend, C!OwnOn, P!OwnOn, C!On, P!On,
       C!Quarantined, P!Quarantined, C!NewLease, P!NewLease, C!Emit, P!Emit
  <2>2. r \in P!Resource
    BY BridgeAssumption DEF P!Resource
  <2>3. P!IInv' /\ P!Descends(leases, nextLease, leases')
    BY <2>1, <2>2, P!StepInv, P!StepDescends, Assumed
       DEF C!CoordinatorAssumption, TableInv, P!Next, P!Call
  <2>4. leases' = P!AfterAcquire(P!Live(leases), nextLease, s, r, ttl)
    BY <2>1 DEF P!Acquire
  <2>5. P!Live(leases) \subseteq P!Lease
    BY <1>0
  <2>6. \A k \in leases' : k \in P!Live(leases) \/ k.resource = r
    BY <2>4, <2>5, AcquireTouches
  <2>7. Accounted(leases', recording)
    BY <1>0, <2>6 DEF Accounted
  <2>8. nextLease <= nextLease'
    BY <1>0, <2>1 DEF P!Acquire
  <2> QED BY <2>3, <2>7, <2>8 DEF Descent
<1>2. ASSUME NEW id, C!Release(s, id)
      PROVE  P!IInv' /\ Descent /\ Accounted(leases', recording)
  <2>1. P!Release(s, id)
    BY <1>2 DEF C!Release, P!Release, C!Live, P!Live, C!AfterRelease, P!AfterRelease
  <2>2. P!IInv'
    BY <2>1, P!ReleaseInv, Assumed DEF C!CoordinatorAssumption, TableInv
  <2>3. leases' \in SUBSET leases /\ nextLease' = nextLease
    BY <2>1 DEF P!Release, P!AfterRelease, P!Live
  <2>4. P!Descends(leases, nextLease, leases')
    BY <2>3, P!SubsetDescends, Assumed DEF C!CoordinatorAssumption
  <2>5. Accounted(leases', recording)
    BY <2>3, LessAccounted DEF TableInv
  <2> QED BY <1>0, <2>2, <2>3, <2>4, <2>5 DEF Descent
<1>3. ASSUME NEW id, NEW ttl \in Ttl, C!Renew(s, id, ttl)
      PROVE  P!IInv' /\ Descent /\ Accounted(leases', recording)
  <2> DEFINE mine == {l \in P!Live(leases) : l.id = id /\ l.owner = s}
  <2>1. P!Renew(s, id, ttl)
    BY <1>3 DEF C!Renew, P!Renew, C!Live, P!Live, C!Extend, P!Extend
  <2>2. P!IInv'
    BY <2>1, P!RenewInv, Assumed DEF C!CoordinatorAssumption, TableInv
  <2>3. leases' = P!Extend(P!Live(leases), mine, ttl) /\ nextLease' = nextLease
    BY <2>1 DEF P!Renew
  <2>4. mine \in SUBSET P!Live(leases) /\ P!Live(leases) \subseteq P!Lease
    BY <1>0
  <2> HIDE DEF mine
  <2>5. P!Descends(leases, nextLease, leases')
    BY <1>0, <2>3, <2>4, P!ExtendDescends, Assumed DEF C!CoordinatorAssumption
  <2>6. Accounted(leases', recording)
    BY <1>0, <2>3, <2>4, ExtendAccounted
  <2> QED BY <1>0, <2>2, <2>3, <2>5, <2>6 DEF Descent
<1>4. ASSUME C!Touch PROVE P!IInv' /\ Descent /\ Accounted(leases', recording)
  <2>1. P!Touch
    BY <1>4 DEF C!Touch, P!Touch, C!Live, P!Live
  <2>2. P!IInv' /\ P!Descends(leases, nextLease, leases')
    BY <2>1, P!StepInv, P!StepDescends, Assumed
       DEF C!CoordinatorAssumption, TableInv, P!Next, P!Call
  <2> QED BY <1>0, <2>1, <2>2 DEF P!Touch, Descent
<1> QED BY <1>1, <1>2, <1>3, <1>4 DEF LeaseRequest

\* Time gives no lease and takes none.
LEMMA TickTable == ASSUME TableInv, Tick PROVE TableInv' /\ Descent
<1>0. leases \subseteq P!Lease
  BY DEF TableInv, P!IInv, P!Sound
<1>1. P!Tick
  BY DEF Tick, C!Tick, P!Tick, C!Aged, P!Aged
<1>2. P!IInv' /\ P!Descends(leases, nextLease, leases')
  BY <1>1, P!StepInv, P!StepDescends, Assumed DEF C!CoordinatorAssumption, TableInv, P!Next
<1>3. \A l \in P!Lease : /\ P!Aged(l).id = l.id /\ P!Aged(l).resource = l.resource
                         /\ P!Aged(l).owner = l.owner
  BY DEF P!Aged, P!Lease
<1>4. \A k \in leases' : \E l \in leases : l \in P!Lease /\ k = P!Aged(l)
  BY <1>0, <1>1 DEF P!Tick
<1>5. \A k \in leases' : \E l \in leases :
         k.id = l.id /\ k.resource = l.resource /\ k.owner = l.owner
  BY <1>3, <1>4
<1>6. UNCHANGED <<closed, recording, sessions, nextLease>>
  BY DEF Tick, C!Tick
<1>7. Accounted(leases', recording)
  BY <1>5 DEF Accounted, TableInv
<1> QED BY <1>2, <1>6, <1>7 DEF TableInv, Descent, Accounted, Recordings, P!IInv

\* A new bridge has an empty table.
LEMMA RestartTable == ASSUME TableInv, Restart PROVE TableInv'
<1>1. /\ sessions' = {} /\ defaultTab' = [s \in Session |-> NoTab] /\ leases' = {}
      /\ nextLease' = 1 /\ history' = <<>> /\ closed' = closed \union sessions
      /\ recording' = {}
  BY DEF Restart
<1>2. P!IInv'
  BY <1>1 DEF P!IInv, P!Sound, P!IdsBelow
<1> QED BY <1>1, <1>2 DEF TableInv, Accounted, Recordings, P!IInv

\* Every step keeps the table half.
LEMMA TableStep ==
    ASSUME TableInv, \A r \in Requests : req[r].tab \in Tab \union {NoTab}, [Next]_vars
    PROVE  TableInv' /\ (Descent \/ Restart)
<1>1. CASE UNCHANGED <<cvars, closed, recording>>
  BY <1>1, TableUnchanged
<1>2. ASSUME NEW s \in Session, Receive(s) PROVE TableInv' /\ Descent
  <2>1. PICK action \in Action, tab \in Tab \union {NoTab}, key \in Key :
            \/ AnswerFromCache(s, action, tab, key)
            \/ Join(s, action, tab, key)
            \/ Handle(s, action, Target(s, action, tab), key,
                      Admission(s, action, Target(s, action, tab)))
    BY <1>2 DEF Receive
  <2>2. CASE AnswerFromCache(s, action, tab, key) \/ Join(s, action, tab, key)
    BY <2>2, TableUnchanged DEF AnswerFromCache, Join
  <2>3. CASE Handle(s, action, Target(s, action, tab), key,
                    Admission(s, action, Target(s, action, tab)))
    <3> DEFINE t == Target(s, action, tab)
    <3>1. Prepare(s, action, t, key, Admission(s, action, t))
      BY <2>3 DEF Handle, Refuse, ForwardNow, Enqueue
    <3>2. t \in Tab \union {NoTab}
      BY <3>1, TargetType DEF Prepare, Arrives
    <3> HIDE DEF t
    <3> QED BY <3>1, <3>2, PrepareTable
  <2> QED BY <2>1, <2>2, <2>3
<1>3. ASSUME NEW r \in Requests, Conclude(r) PROVE TableInv' /\ Descent
  BY <1>3, ConcludeTable
<1>4. ASSUME NEW t \in Tab, StartWrite(t) PROVE UNCHANGED <<cvars, closed, recording>>
  BY <1>4 DEF StartWrite
<1>5. ASSUME NEW r \in Requests, Timeout(r) \/ Execute(r) \/ Respond(r)
      PROVE  UNCHANGED <<cvars, closed, recording>>
  BY <1>5 DEF Timeout, Execute, Respond
<1>6. ASSUME NEW valid, Hello(valid) PROVE UNCHANGED <<cvars, closed, recording>>
  BY <1>6 DEF Hello
<1>7. ASSUME UNCHANGED vars PROVE UNCHANGED <<cvars, closed, recording>>
  BY <1>7 DEF vars, bvars
<1> QED BY <1>1, <1>2, <1>3, <1>4, <1>5, <1>6, <1>7, OpenTable, CloseTable, LeaseRequestTable,
     TickTable, RestartTable DEF Next, Reaction, Event

-----------------------------------------------------------------------------
(* The requests half of the invariant.                                     *)

\* A request as the bridge keeps it.
Request ==
    [session : Session, action : Action, tab : Tab \union {NoTab}, key : Key,
     phase : {"joined", "queued", "sent", "settling", "answered", "lost"},
     outcome : Errors \union {"ok", "none"}, epoch : Nat,
     browser : {"none", "sent", "executing", "refusing", "done", "gone"}]

Unsettled == {"queued", "sent"}
InFlight == Unsettled \union {"settling"}
Write(q) == Queued(q.action, q.tab)
Waits(q, t) == q.tab = t /\ Queued(q.action, t) /\ q.phase \in Unsettled

\* What phase, outcome and browser of a request say together.
Coherent(q) ==
    /\ q.phase \in {"settling", "answered"} => q.outcome # "none"
    /\ q.phase \in {"joined", "queued"} => q.browser = "none"
    /\ q.browser = "executing" /\ q.phase \in {"settling", "answered"}
         => q.outcome = TimeoutOutcome(q.action)

ReqInv ==
    /\ req \in Seq(Request)
    /\ \A r \in Requests : Coherent(req[r])
    /\ recorder \subseteq Requests
    /\ ready \in BOOLEAN

\* The unsettled writes of a tab in the order of their arrival: only the first
\* may have been sent.
QueueOf(t) ==
    /\ queue[t] \in Seq(Nat)
    /\ \A i, j \in 1..Len(queue[t]) : i < j => queue[t][i] < queue[t][j]
    /\ \A i \in 1..Len(queue[t]) :
          /\ queue[t][i] \in Requests
          /\ Waits(req[queue[t][i]], t)
          /\ i > 1 => req[queue[t][i]].phase = "queued"
    /\ \A r \in Requests : Waits(req[r], t) => \E i \in 1..Len(queue[t]) : queue[t][i] = r
QueueInv == queue \in [Tab -> Seq(Nat)] /\ \A t \in Tab : QueueOf(t)

\* An unsettled write keeps the later writes to its tab from the extension.
OrderInv ==
    \A r1, r2 \in Requests :
        /\ r1 < r2 /\ req[r1].tab = req[r2].tab
        /\ Write(req[r1]) /\ Write(req[r2]) /\ req[r1].phase \in Unsettled
        => req[r2].browser = "none"

\* The cache remembers outcomes, and none of an execution in flight.
Entry(e) ==
    /\ e = [key |-> e.key, at |-> e.at, left |-> e.left, outcome |-> e.outcome]
    /\ e.outcome \in Errors \union {"ok"}
CacheInv ==
    /\ \A e \in completed : Entry(e)
    /\ \A r \in Running : ~Remembered(completed, KeyOf(req[r]))
    /\ \A r1, r2 \in Running : KeyOf(req[r1]) = KeyOf(req[r2]) => r1 = r2

\* A duplicate waits for a request that is under way, and while one is under way
\* no later one with its key is given to the extension.
KeyInv ==
    /\ \A d \in Requests : req[d].phase = "joined" =>
          \E r \in Requests : req[r].phase \in InFlight /\ KeyOf(req[r]) = KeyOf(req[d])
    /\ \A r1, r2 \in Requests :
          r1 < r2 /\ KeyOf(req[r1]) = KeyOf(req[r2]) /\ req[r1].phase \in InFlight
          => req[r2].browser = "none"

\* A write that is in the extension's hands, or waits to be.
Exposed(q) ==
    Write(q) /\ (q.phase \in Unsettled \/ (q.phase # "lost" /\ q.browser = "executing"))
Young(ls, q) ==
    \A l \in ls : l.resource = q.tab /\ l.owner # q.session /\ l.left > 0 => l.id >= q.epoch
YoungInv ==
    /\ \A r \in Requests : req[r].epoch <= nextLease
    /\ Mode = "enforce" => \A r \in Requests : Exposed(req[r]) => Young(leases, req[r])

Inv == TableInv /\ ReqInv /\ QueueInv /\ OrderInv /\ CacheInv /\ KeyInv /\ YoungInv

\* A request joins the sequence.
LEMMA ReqGrows ==
    ASSUME req \in Seq(Request), NEW q \in Request, req' = Append(req, q)
    PROVE  /\ req' \in Seq(Request)
           /\ Len(req) \in Nat /\ Len(req') = Len(req) + 1
           /\ Requests' = Requests \union {Len(req) + 1}
           /\ \A r \in Requests : req'[r] = req[r] /\ r < Len(req) + 1
           /\ req'[Len(req) + 1] = q
<1>1. /\ req' \in Seq(Request) /\ Len(req) \in Nat /\ Len(req') = Len(req) + 1
      /\ \A i \in 1..Len(req) : req'[i] = req[i]
      /\ req'[Len(req) + 1] = q
  BY AppendProperties, LenProperties
<1> QED BY <1>1 DEF Requests

\* Requests change, none joins.
LEMMA ReqChanges ==
    ASSUME req \in Seq(Request), NEW f \in [Requests -> Request], req' = f
    PROVE  /\ req' \in Seq(Request) /\ Len(req') = Len(req) /\ Requests' = Requests
           /\ \A r \in Requests : req[r] \in Request
<1>1. Len(req) \in Nat /\ \A r \in 1..Len(req) : req[r] \in Request
  BY ElementOfSeq, LenProperties
<1>2. f \in Seq(Request) /\ Len(f) = Len(req)
  BY <1>1, SeqDef, LenProperties DEF Requests
<1> QED BY <1>1, <1>2 DEF Requests

\* One request changes.
LEMMA ReqChange ==
    ASSUME req \in Seq(Request), NEW r \in Requests, NEW q \in Request,
           req' = [req EXCEPT ![r] = q]
    PROVE  /\ req' \in Seq(Request) /\ Len(req') = Len(req) /\ Requests' = Requests
           /\ req'[r] = q /\ \A d \in Requests : d # r => req'[d] = req[d]
<1>1. req \in [Requests -> Request] /\ Len(req) \in Nat
  BY LenProperties, SeqDef DEF Requests
<1>2. [req EXCEPT ![r] = q] \in [Requests -> Request]
  BY <1>1
<1>3. req' \in Seq(Request) /\ Len(req') = Len(req) /\ Requests' = Requests
  BY <1>2, ReqChanges
<1> QED BY <1>1, <1>3

\* How a request may change: it stays the same request, it does not become
\* unsettled, running or exposed again.
Kin(q, p) == /\ p.session = q.session /\ p.action = q.action
             /\ p.tab = q.tab /\ p.key = q.key
Advances(q, p) ==
    /\ Kin(q, p)
    /\ p.phase \in Unsettled => q.phase \in Unsettled
    /\ p.phase \in InFlight => q.phase \in InFlight
    /\ Exposed(p) => Exposed(q)

LEMMA Same == \A q : Advances(q, q)
  BY DEF Advances, Kin

\* The queues stay as they are when no write joins or leaves the unsettled.
LEMMA QueueKept ==
    ASSUME QueueInv, UNCHANGED queue, Requests \subseteq Requests',
           \A r \in Requests : /\ Kin(req[r], req'[r])
                               /\ \/ req'[r].phase = req[r].phase
                                  \/ {req[r].phase, req'[r].phase} \intersect Unsettled = {},
           \A r \in Requests' \ Requests : ~(Write(req'[r]) /\ req'[r].phase \in Unsettled)
    PROVE  QueueInv'
<1> SUFFICES ASSUME NEW t \in Tab PROVE QueueOf(t)'
  BY DEF QueueInv
<1>1. /\ queue[t] \in Seq(Nat)
      /\ \A i, j \in 1..Len(queue[t]) : i < j => queue[t][i] < queue[t][j]
      /\ \A i \in 1..Len(queue[t]) :
            /\ queue[t][i] \in Requests
            /\ Waits(req[queue[t][i]], t)
            /\ i > 1 => req[queue[t][i]].phase = "queued"
      /\ \A r \in Requests : Waits(req[r], t) => \E i \in 1..Len(queue[t]) : queue[t][i] = r
  BY DEF QueueInv, QueueOf
<1>2. \A r \in Requests : Waits(req[r], t) => req'[r].phase = req[r].phase /\ Waits(req'[r], t)
  BY DEF Waits, Kin
<1>3. \A r \in Requests : Waits(req'[r], t) => Waits(req[r], t)
  BY DEF Waits, Kin
<1>4. \A r \in Requests' \ Requests : ~Waits(req'[r], t)
  BY DEF Waits, Write
<1> QED BY <1>1, <1>2, <1>3, <1>4 DEF QueueOf

\* The first write of its tab's queue, or what is in no queue, leaves.
LEMMA QueueLeaves ==
    ASSUME QueueInv, NEW r \in Requests, queue' = Leave(r), Requests' = Requests,
           \/ req[r].phase = "sent"
           \/ \E t \in Tab : queue[t] # <<>> /\ Head(queue[t]) = r,
           req'[r].phase \notin Unsettled,
           \A d \in Requests : d # r => req'[d] = req[d]
    PROVE  QueueInv'
<1>1. ASSUME NEW t \in Tab PROVE QueueOf(t)' /\ queue'[t] \in Seq(Nat)
  <2> DEFINE old == queue[t]
  <2>1. /\ old \in Seq(Nat)
        /\ \A i, j \in 1..Len(old) : i < j => old[i] < old[j]
        /\ \A i \in 1..Len(old) :
              /\ old[i] \in Requests
              /\ Waits(req[old[i]], t)
              /\ i > 1 => req[old[i]].phase = "queued"
        /\ \A d \in Requests : Waits(req[d], t) => \E i \in 1..Len(old) : old[i] = d
    BY DEF QueueInv, QueueOf
  <2>2. \A d \in Requests : Waits(req'[d], t) <=> d # r /\ Waits(req[d], t)
    BY DEF Waits
  <2> HIDE DEF old
  <2>3. CASE old # <<>> /\ Head(old) = r
    <3> DEFINE new == Tail(old)
    <3>1. queue'[t] = new
      BY <2>3 DEF Leave, old
    <3>2. /\ new \in Seq(Nat) /\ Len(new) = Len(old) - 1 /\ Len(old) \in Nat \ {0}
          /\ \A i \in 1..Len(new) : new[i] = old[i + 1]
      BY <2>1, <2>3, HeadTailProperties, LenProperties, EmptySeq
    <3>3. old[1] = r /\ 1 \in 1..Len(old)
      BY <2>1, <2>3, <3>2, HeadTailProperties
    <3> HIDE DEF new
    <3>4. ASSUME NEW i \in 1..Len(new), NEW j \in 1..Len(new), i < j PROVE new[i] < new[j]
      <4>1. i + 1 \in 1..Len(old) /\ j + 1 \in 1..Len(old) /\ i + 1 < j + 1
        BY <3>2, <3>4
      <4>2. new[i] = old[i + 1] /\ new[j] = old[j + 1]
        BY <3>2
      <4> HIDE DEF old
      <4> QED BY <2>1, <4>1, <4>2
    <3>5. ASSUME NEW i \in 1..Len(new)
          PROVE  /\ new[i] \in Requests /\ Waits(req'[new[i]], t)
                 /\ req'[new[i]].phase = "queued"
      <4>1. i + 1 \in 1..Len(old) /\ i + 1 > 1 /\ new[i] = old[i + 1]
        BY <3>2
      <4>2. /\ new[i] \in Requests /\ Waits(req[new[i]], t)
            /\ req[new[i]].phase = "queued"
        BY <2>1, <4>1
      <4>3. new[i] # r
        <5>1. old[1] < old[i + 1] /\ old[1] \in Nat
          BY <2>1, <3>3, <4>1, ElementOfSeq
        <5> QED BY <3>3, <4>1, <5>1
      <4> QED BY <2>2, <4>2, <4>3
    <3>6. ASSUME NEW d \in Requests, Waits(req'[d], t)
          PROVE  \E i \in 1..Len(new) : new[i] = d
      <4>1. PICK i \in 1..Len(old) : old[i] = d
        BY <2>1, <2>2, <3>6
      <4>2. i # 1
        BY <2>2, <3>3, <3>6, <4>1
      <4>3. i - 1 \in 1..Len(new) /\ new[i - 1] = old[i]
        BY <3>2, <4>2
      <4> QED BY <4>1, <4>3
    <3> QED BY <3>1, <3>2, <3>4, <3>5, <3>6 DEF QueueOf
  <2>4. CASE ~(old # <<>> /\ Head(old) = r)
    <3>1. queue'[t] = old
      BY <2>4 DEF Leave, old
    <3>2. ASSUME NEW i \in 1..Len(old), old[i] = r PROVE FALSE
      <4>1. Len(old) \in Nat \ {0} /\ old # <<>>
        BY <2>1, LenProperties, EmptySeq
      <4>2. i # 1
        BY <2>1, <2>4, <3>2, <4>1, HeadTailProperties
      <4>3. req[r].phase = "queued" /\ Waits(req[r], t)
        BY <2>1, <3>2, <4>2
      <4>4. PICK u \in Tab : queue[u] # <<>> /\ Head(queue[u]) = r
        BY <4>3
      <4>5. queue[u] \in Seq(Nat) /\ 1 \in 1..Len(queue[u]) /\ queue[u][1] = r
        BY <4>4, HeadTailProperties, LenProperties, EmptySeq DEF QueueInv
      <4>6. Waits(req[r], u)
        BY <4>5 DEF QueueInv, QueueOf
      <4> QED BY <2>4, <4>3, <4>4, <4>6 DEF Waits, old
    <3>3. \A i \in 1..Len(old) : /\ old[i] \in Requests /\ Waits(req'[old[i]], t)
                                 /\ i > 1 => req'[old[i]].phase = "queued"
      BY <2>1, <2>2, <3>2
    <3>4. \A d \in Requests : Waits(req'[d], t) => \E i \in 1..Len(old) : old[i] = d
      BY <2>1, <2>2
    <3> QED BY <2>1, <3>1, <3>3, <3>4 DEF QueueOf
  <2> QED BY <2>3, <2>4
<1>2. queue' \in [Tab -> Seq(Nat)]
  BY <1>1 DEF Leave
<1> QED BY <1>1, <1>2 DEF QueueInv

\* The first write of a tab is sent.
LEMMA QueueStarts ==
    ASSUME QueueInv, NEW t \in Tab, queue[t] # <<>>, UNCHANGED queue, Requests' = Requests,
           Kin(req[Head(queue[t])], req'[Head(queue[t])]),
           req'[Head(queue[t])].phase = "sent",
           \A d \in Requests : d # Head(queue[t]) => req'[d] = req[d]
    PROVE  QueueInv'
<1> DEFINE r == Head(queue[t])
<1>1. queue[t] \in Seq(Nat) /\ 1 \in 1..Len(queue[t]) /\ queue[t][1] = r
  BY HeadTailProperties, LenProperties, EmptySeq DEF QueueInv
<1>2. r \in Requests /\ Waits(req[r], t)
  BY <1>1 DEF QueueInv, QueueOf
<1> HIDE DEF r
<1> SUFFICES ASSUME NEW u \in Tab PROVE QueueOf(u)'
  BY DEF QueueInv
<1> DEFINE old == queue[u]
<1>3. /\ old \in Seq(Nat)
      /\ \A i, j \in 1..Len(old) : i < j => old[i] < old[j]
      /\ \A i \in 1..Len(old) :
            /\ old[i] \in Requests
            /\ Waits(req[old[i]], u)
            /\ i > 1 => req[old[i]].phase = "queued"
      /\ \A d \in Requests : Waits(req[d], u) => \E i \in 1..Len(old) : old[i] = d
  BY DEF QueueInv, QueueOf
<1>4. \A d \in Requests : Waits(req'[d], u) <=> Waits(req[d], u)
  BY <1>2 DEF Waits, Kin, r, Unsettled
<1>5. ASSUME NEW i \in 1..Len(old), i > 1 PROVE req'[old[i]].phase = "queued"
  <2>1. old[i] # r
    <3> SUFFICES ASSUME old[i] = r PROVE FALSE
      OBVIOUS
    <3>1. u = t
      BY <1>2, <1>3 DEF Waits
    <3>2. old[1] < old[i] /\ old[1] \in Nat
      BY <1>1, <1>3, <1>5, <3>1, ElementOfSeq
    <3> QED BY <1>1, <3>1, <3>2
  <2> QED BY <1>3, <1>5, <2>1 DEF r
<1> QED BY <1>3, <1>4, <1>5 DEF QueueOf

\* A write joins the queue of its tab.
LEMMA QueueGrows ==
    ASSUME QueueInv, req \in Seq(Request), NEW q \in Request, req' = Append(req, q),
           NEW t \in Tab, q.tab = t, Write(q), q.phase = "queued",
           queue' = [queue EXCEPT ![t] = Append(@, Len(req) + 1)]
    PROVE  QueueInv'
<1> DEFINE n == Len(req) + 1
<1>1. /\ Len(req) \in Nat
      /\ Requests' = Requests \union {n}
      /\ \A r \in Requests : req'[r] = req[r] /\ r < n
      /\ req'[n] = q
  BY ReqGrows
<1>2. n \in Nat
  BY <1>1
<1> HIDE DEF n
<1>3. Waits(req'[n], t) /\ \A u \in Tab : u # t => ~Waits(req'[n], u)
  BY <1>1 DEF Waits, Write, Unsettled
<1>4. ASSUME NEW u \in Tab PROVE QueueOf(u)' /\ queue'[u] \in Seq(Nat)
  <2> DEFINE old == queue[u]
  <2>1. /\ old \in Seq(Nat)
        /\ \A i, j \in 1..Len(old) : i < j => old[i] < old[j]
        /\ \A i \in 1..Len(old) :
              /\ old[i] \in Requests
              /\ Waits(req[old[i]], u)
              /\ i > 1 => req[old[i]].phase = "queued"
        /\ \A d \in Requests : Waits(req[d], u) => \E i \in 1..Len(old) : old[i] = d
    BY DEF QueueInv, QueueOf
  <2>2. \A r \in Requests : Waits(req'[r], u) <=> Waits(req[r], u)
    BY <1>1
  <2>3. CASE u # t
    <3>1. queue'[u] = old
      BY <2>3 DEF QueueInv
    <3>2. ~Waits(req'[n], u)
      BY <1>3, <2>3
    <3> HIDE DEF old
    <3>3. \A i \in 1..Len(old) : /\ old[i] \in Requests' /\ Waits(req'[old[i]], u)
                                 /\ i > 1 => req'[old[i]].phase = "queued"
      BY <1>1, <2>1, <2>2
    <3>4. \A d \in Requests' : Waits(req'[d], u) => \E i \in 1..Len(old) : old[i] = d
      BY <1>1, <2>1, <2>2, <3>2
    <3> QED BY <2>1, <3>1, <3>3, <3>4 DEF QueueOf
  <2>4. CASE u = t
    <3> DEFINE new == Append(old, n)
    <3>1. queue'[u] = new
      BY <2>4 DEF QueueInv, n
    <3> HIDE DEF old
    <3>2. /\ new \in Seq(Nat) /\ Len(new) = Len(old) + 1 /\ Len(old) \in Nat
          /\ \A i \in 1..Len(old) : new[i] = old[i]
          /\ new[Len(old) + 1] = n
      BY <1>2, <2>1, AppendProperties, LenProperties
    <3> HIDE DEF new
    <3>3. \A i \in 1..Len(new) : i \in 1..Len(old) \/ (i = Len(old) + 1 /\ new[i] = n)
      BY <3>2
    <3>4. \A i \in 1..Len(old) : old[i] \in Nat /\ old[i] < n
      BY <1>1, <2>1, ElementOfSeq
    <3>5. ASSUME NEW i \in 1..Len(new), NEW j \in 1..Len(new), i < j PROVE new[i] < new[j]
      <4>1. i \in 1..Len(old)
        BY <3>2, <3>5
      <4>2. CASE j \in 1..Len(old)
        BY <2>1, <3>2, <3>5, <4>1, <4>2
      <4>3. CASE j = Len(old) + 1
        BY <3>2, <3>4, <4>1, <4>3
      <4> QED BY <3>3, <4>2, <4>3
    <3>6. ASSUME NEW i \in 1..Len(new)
          PROVE  /\ new[i] \in Requests' /\ Waits(req'[new[i]], u)
                 /\ i > 1 => req'[new[i]].phase = "queued"
      <4>1. CASE i \in 1..Len(old)
        BY <1>1, <2>1, <2>2, <3>2, <4>1
      <4>2. CASE i = Len(old) + 1
        BY <1>1, <1>3, <2>4, <3>2, <4>2
      <4> QED BY <3>3, <4>1, <4>2
    <3>7. ASSUME NEW d \in Requests', Waits(req'[d], u)
          PROVE  \E i \in 1..Len(new) : new[i] = d
      <4>1. CASE d \in Requests
        <5>1. PICK i \in 1..Len(old) : old[i] = d
          BY <2>1, <2>2, <3>7, <4>1
        <5>2. i \in 1..Len(new) /\ new[i] = d
          BY <3>2, <5>1
        <5> QED BY <5>2
      <4>2. CASE d = n
        <5>1. Len(old) + 1 \in 1..Len(new) /\ new[Len(old) + 1] = d
          BY <3>2, <4>2
        <5> QED BY <5>1
      <4> QED BY <1>1, <4>1, <4>2
    <3> QED BY <3>1, <3>2, <3>5, <3>6, <3>7 DEF QueueOf
  <2> QED BY <2>3, <2>4
<1>5. queue' \in [Tab -> Seq(Nat)]
  BY <1>4 DEF QueueInv
<1> QED BY <1>4, <1>5 DEF QueueInv

\* Nothing new reaches the extension, except what is in no queue.
LEMMA OrderKept ==
    ASSUME OrderInv, Requests \subseteq Requests', Requests \subseteq Nat,
           \A r \in Requests : /\ Advances(req[r], req'[r])
                               /\ req[r].browser = "none" => req'[r].browser = "none",
           \A r \in Requests' \ Requests :
              /\ \A d \in Requests : d < r
              /\ \A d \in Requests' \ Requests : ~(r < d)
              /\ r \in Nat
              /\ Write(req'[r]) => req'[r].browser = "none"
    PROVE  OrderInv'
<1> SUFFICES ASSUME NEW r1 \in Requests', NEW r2 \in Requests', r1 < r2,
                    (req[r1].tab)' = (req[r2].tab)', Write(req'[r1]), Write(req'[r2]),
                    req'[r1].phase \in Unsettled
             PROVE  req'[r2].browser = "none"
  BY DEF OrderInv, Unsettled
<1>1. CASE r2 \in Requests
  <2>1. r1 \in Requests
    BY <1>1
  <2>2. /\ req[r1].tab = req[r2].tab /\ Write(req[r1]) /\ Write(req[r2])
        /\ req[r1].phase \in Unsettled
    BY <1>1, <2>1 DEF Advances, Kin, Write
  <2> QED BY <1>1, <2>1, <2>2 DEF OrderInv
<1>2. CASE r2 \notin Requests
  BY <1>2
<1> QED BY <1>1, <1>2

\* The first write of a tab is sent: what came before it has settled.
LEMMA OrderStarts ==
    ASSUME OrderInv, QueueInv, NEW t \in Tab, queue[t] # <<>>, Requests' = Requests,
           Requests \subseteq Nat,
           Kin(req[Head(queue[t])], req'[Head(queue[t])]),
           \A d \in Requests : d # Head(queue[t]) => req'[d] = req[d]
    PROVE  OrderInv'
<1> DEFINE r == Head(queue[t])
<1>1. queue[t] \in Seq(Nat) /\ 1 \in 1..Len(queue[t]) /\ queue[t][1] = r
  BY HeadTailProperties, LenProperties, EmptySeq DEF QueueInv
<1>2. r \in Requests /\ Waits(req[r], t)
  BY <1>1 DEF QueueInv, QueueOf
<1>3. ASSUME NEW d \in Requests, Waits(req[d], t) PROVE ~(d < r)
  <2>1. PICK i \in 1..Len(queue[t]) : queue[t][i] = d
    BY <1>3 DEF QueueInv, QueueOf
  <2>2. i = 1 \/ 1 < i
    OBVIOUS
  <2>3. 1 < i => queue[t][1] < queue[t][i]
    BY <1>1, <2>1 DEF QueueInv, QueueOf
  <2> QED BY <1>1, <1>2, <2>1, <2>2, <2>3
<1> HIDE DEF r
<1> SUFFICES ASSUME NEW r1 \in Requests, NEW r2 \in Requests, r1 < r2,
                    req'[r1].tab = req'[r2].tab, Write(req'[r1]), Write(req'[r2]),
                    req'[r1].phase \in Unsettled
             PROVE  req'[r2].browser = "none"
  BY DEF OrderInv, Unsettled
<1>4. \A d \in Requests : Kin(req[d], req'[d])
  BY DEF Kin, r
<1>5. /\ req[r1].tab = req[r2].tab /\ Write(req[r1]) /\ Write(req[r2])
  BY <1>4 DEF Kin, Write
<1>6. req[r1].phase \in Unsettled
  BY <1>2 DEF Waits, r
<1>7. r2 # r
  BY <1>2, <1>3, <1>5, <1>6 DEF Waits, Write
<1>8. req'[r2] = req[r2]
  BY <1>7 DEF r
<1> QED BY <1>5, <1>6, <1>8 DEF OrderInv

\* The cache remembers no more than before, and no execution begins.
LEMMA CacheKept ==
    ASSUME CacheInv, Requests \subseteq Requests',
           \A e \in completed' : Entry(e),
           \A k : Remembered(completed', k) => Remembered(completed, k),
           \A r \in Requests : Advances(req[r], req'[r]),
           \A r \in Requests' \ Requests : req'[r].phase \notin InFlight
    PROVE  CacheInv'
<1>1. Running = {r \in Requests : req[r].phase \in InFlight}
  BY DEF Running, InFlight, Unsettled
<1>2. Running' = {r \in Requests' : req'[r].phase \in InFlight}
  BY DEF Running, InFlight, Unsettled
<1>3. \A r \in Running' : r \in Running /\ Kin(req[r], req'[r])
  BY <1>1, <1>2 DEF Advances
<1>4. \A r \in Running' : KeyOf(req'[r]) = KeyOf(req[r])
  BY <1>3 DEF Kin, KeyOf
<1> QED BY <1>3, <1>4 DEF CacheInv

\* Evicting, and time, make the cache remember less.
LEMMA EvictLess ==
    /\ Evict(completed) \subseteq completed
    /\ \A k : Remembered(Evict(completed), k) => Remembered(completed, k)
<1>1. Evict(completed) \subseteq completed
  BY DEF Evict
<1> QED BY <1>1 DEF Remembered

LEMMA AgedLess ==
    ASSUME CacheInv, completed' = {[e EXCEPT !.left = IF @ > 0 THEN @ - 1 ELSE 0] : e \in completed}
    PROVE  /\ \A e \in completed' : Entry(e)
           /\ \A k : Remembered(completed', k) => Remembered(completed, k)
<1> DEFINE Older(e) == [e EXCEPT !.left = IF @ > 0 THEN @ - 1 ELSE 0]
<1>1. \A e \in completed : /\ Entry(Older(e)) /\ Older(e).key = e.key
                           /\ Older(e).left > 0 => e.left > 0
  <2> SUFFICES ASSUME NEW e \in completed
               PROVE  /\ Entry(Older(e)) /\ Older(e).key = e.key
                      /\ Older(e).left > 0 => e.left > 0
    OBVIOUS
  <2> DEFINE o == Older(e)
  <2>1. /\ o = [key |-> o.key, at |-> o.at, left |-> o.left, outcome |-> o.outcome]
        /\ o.key = e.key /\ o.outcome = e.outcome
        /\ o.left = IF e.left > 0 THEN e.left - 1 ELSE 0
    BY DEF CacheInv, Entry
  <2> HIDE DEF o
  <2>2. Entry(o) /\ o.key = e.key /\ (o.left > 0 => e.left > 0)
    BY <2>1 DEF CacheInv, Entry
  <2> QED BY <2>2 DEF o
<1>2. \A f \in completed' : \E e \in completed : f = Older(e)
  OBVIOUS
<1> HIDE DEF Older
<1> QED BY <1>1, <1>2 DEF Remembered

\* The leases of others on the tab of an exposed write stay younger than it.
LEMMA YoungKept ==
    ASSUME YoungInv, TableInv, TableInv', Descent, req' \in Seq(Request),
           Requests \subseteq Requests',
           \A r \in Requests : Advances(req[r], req'[r]) /\ req'[r].epoch = req[r].epoch,
           \A r \in Requests : req[r] \in Request,
           \A r \in Requests' \ Requests :
              /\ req'[r].epoch <= nextLease
              /\ Mode = "enforce" /\ Exposed(req'[r]) => Young(leases', req'[r])
    PROVE  YoungInv'
<1>0. nextLease \in Nat /\ nextLease' \in Nat /\ nextLease <= nextLease'
  BY DEF TableInv, P!IInv, Descent
<1>1. \A r \in Requests' : req'[r] \in Request
  BY ElementOfSeq, LenProperties DEF Requests
<1>2. \A r \in Requests' : req'[r].epoch <= nextLease'
  BY <1>0, <1>1 DEF YoungInv, Request
<1>3. ASSUME Mode = "enforce", NEW r \in Requests', Exposed(req'[r])
      PROVE  Young(leases', req'[r])
  <2>1. CASE r \notin Requests
    BY <1>3, <2>1
  <2>2. CASE r \in Requests
    <3>1. /\ Kin(req[r], req'[r]) /\ Exposed(req[r])
          /\ req'[r].epoch = req[r].epoch /\ req[r].epoch <= nextLease /\ req[r].epoch \in Nat
      BY <1>3, <2>2 DEF Advances, YoungInv, Request
    <3>2. Young(leases, req[r])
      BY <1>3, <2>2, <3>1 DEF YoungInv
    <3>3. ASSUME NEW k \in leases', k.resource = req'[r].tab, k.owner # req'[r].session,
                 k.left > 0
          PROVE  k.id >= req'[r].epoch
      <4>1. k.id \in Nat
        BY DEF TableInv, P!IInv, P!Sound, P!Lease
      <4>2. CASE k.id >= nextLease
        BY <1>0, <3>1, <4>1, <4>2
      <4>3. CASE ~(k.id >= nextLease)
        <5>1. PICK l \in leases : /\ l.id = k.id /\ l.resource = k.resource
                                  /\ l.owner = k.owner /\ l.left > 0
          BY <3>3, <4>3 DEF Descent, P!Descends
        <5> QED BY <3>1, <3>2, <3>3, <5>1 DEF Young, Kin
      <4> QED BY <4>2, <4>3
    <3> QED BY <3>3 DEF Young
  <2> QED BY <2>1, <2>2
<1> QED BY <1>2, <1>3 DEF YoungInv

\* Types of single requests.
LEMMA RequestTypes ==
    ASSUME ReqInv
    PROVE  /\ Len(req) \in Nat /\ Requests \subseteq Nat
           /\ \A r \in Requests : req[r] \in Request /\ Coherent(req[r])
           /\ req \in [Requests -> Request]
<1>1. req \in Seq(Request)
  BY DEF ReqInv
<1>2. Len(req) \in Nat /\ \A r \in 1..Len(req) : req[r] \in Request
  BY <1>1, ElementOfSeq, LenProperties
<1>3. req \in [1..Len(req) -> Request]
  BY <1>1, LenProperties
<1> QED BY <1>2, <1>3 DEF ReqInv, Requests

\* One request of those there are goes on; the cache keeps still.
LEMMA OneChanges ==
    ASSUME Inv, TableInv', Descent, NEW r \in Requests, NEW q \in Request, Coherent(q),
           req' = [req EXCEPT ![r] = q], Advances(req[r], q), q.epoch = req[r].epoch,
           UNCHANGED completed, recorder' \subseteq Requests, ready' \in BOOLEAN,
           q.phase # "joined", req[r].phase \in InFlight => q.phase \in InFlight,
           q.browser # "none" => req[r].browser # "none" \/ q.phase \in InFlight
    PROVE  /\ ReqInv' /\ CacheInv' /\ KeyInv' /\ YoungInv'
           /\ Requests' = Requests /\ req'[r] = q
           /\ \A d \in Requests : d # r => req'[d] = req[d]
           /\ (req[r].browser = "none" => q.browser = "none") => OrderInv'
<1>1. /\ Len(req) \in Nat /\ Requests \subseteq Nat
      /\ \A d \in Requests : req[d] \in Request /\ Coherent(req[d])
  BY RequestTypes DEF Inv
<1>2. /\ req' \in Seq(Request) /\ Requests' = Requests /\ req'[r] = q
      /\ \A d \in Requests : d # r => req'[d] = req[d]
  BY ReqChange DEF Inv, ReqInv
<1>3. \A d \in Requests : Advances(req[d], req'[d]) /\ req'[d].epoch = req[d].epoch
  BY <1>2, Same
<1>4. \A d \in Requests : Coherent(req'[d])
  BY <1>1, <1>2
<1>5. ReqInv'
  BY <1>2, <1>4 DEF ReqInv, Coherent, Write
<1>6. CacheInv'
  <2>1. CacheInv
    BY DEF Inv
  <2>2. \A e \in completed' : Entry(e)
    BY <2>1 DEF CacheInv
  <2> QED BY <1>2, <1>3, <2>1, <2>2, CacheKept
<1>7. YoungInv'
  BY <1>1, <1>2, <1>3, YoungKept DEF Inv
<1>8. ASSUME req[r].browser = "none" => q.browser = "none" PROVE OrderInv'
  <2>1. \A d \in Requests : req[d].browser = "none" => req'[d].browser = "none"
    BY <1>2, <1>8
  <2> QED BY <1>1, <1>2, <1>3, <2>1, OrderKept DEF Inv
<1>9. KeyInv'
  <2>1. \A d \in Requests : /\ KeyOf(req'[d]) = KeyOf(req[d])
                            /\ req'[d].phase \in InFlight <=> req[d].phase \in InFlight
                            /\ req'[d].phase = "joined" => req[d].phase = "joined"
    BY <1>2, <1>3 DEF Advances, Kin, KeyOf
  <2>2. ASSUME NEW r1 \in Requests, NEW r2 \in Requests, r1 < r2,
               KeyOf(req'[r1]) = KeyOf(req'[r2]), req'[r1].phase \in InFlight
        PROVE  req'[r2].browser = "none"
    <3>1. req[r2].browser = "none" /\ r1 # r2
      BY <1>1, <2>1, <2>2 DEF Inv, KeyInv
    <3>2. req'[r2].phase \notin InFlight
      BY <1>2, <1>6, <2>2, <3>1 DEF CacheInv, Running, InFlight, Unsettled
    <3> QED BY <1>2, <3>1, <3>2
  <2> QED BY <1>2, <2>1, <2>2 DEF Inv, KeyInv
<1> QED BY <1>2, <1>5, <1>6, <1>7, <1>8, <1>9

\* A request joins.
LEMMA OneJoins ==
    ASSUME Inv, TableInv', Descent, NEW q \in Request, Coherent(q), req' = Append(req, q),
           UNCHANGED <<recorder, ready>>, q.epoch = nextLease,
           Write(q) => q.browser = "none",
           q.phase = "joined" => Leaders(KeyOf(q)) # {},
           q.browser # "none" => Leaders(KeyOf(q)) = {},
           Mode = "enforce" /\ Exposed(q) => Young(leases', q)
    PROVE  /\ ReqInv' /\ OrderInv' /\ KeyInv' /\ YoungInv'
           /\ Requests' = Requests \union {Len(req) + 1} /\ Len(req) + 1 \notin Requests
           /\ req'[Len(req) + 1] = q
           /\ \A d \in Requests : req'[d] = req[d]
<1>1. /\ Len(req) \in Nat /\ Requests \subseteq Nat
      /\ \A d \in Requests : req[d] \in Request /\ Coherent(req[d])
  BY RequestTypes DEF Inv
<1> DEFINE n == Len(req) + 1
<1>2. /\ req' \in Seq(Request)
      /\ Requests' = Requests \union {n}
      /\ \A d \in Requests : req'[d] = req[d] /\ d < n
      /\ req'[n] = q
  BY ReqGrows DEF Inv, ReqInv
<1>3. n \in Nat /\ n \notin Requests
  BY <1>1 DEF Requests
<1> HIDE DEF n
<1>4. \A d \in Requests : Advances(req[d], req'[d]) /\ req'[d].epoch = req[d].epoch
  BY <1>2, Same
<1>5. ReqInv'
  <2>1. \A d \in Requests' : Coherent(req'[d])
    BY <1>1, <1>2
  <2>2. recorder' \subseteq Requests' /\ ready' \in BOOLEAN
    BY <1>2 DEF Inv, ReqInv
  <2> QED BY <1>2, <2>1, <2>2 DEF ReqInv, Coherent, Write
<1>6. Requests \subseteq Requests' /\ \A r \in Requests' \ Requests : r = n
  BY <1>2
<1>7. OrderInv'
  <2>1. \A r \in Requests : /\ Advances(req[r], req'[r])
                            /\ req[r].browser = "none" => req'[r].browser = "none"
    BY <1>2, <1>4
  <2>2. \A r \in Requests' \ Requests :
           /\ \A d \in Requests : d < r
           /\ \A d \in Requests' \ Requests : ~(r < d)
           /\ r \in Nat
           /\ Write(req'[r]) => req'[r].browser = "none"
    <3>1. ~(n < n)
      BY <1>3
    <3> QED BY <1>2, <1>3, <1>6, <3>1
  <2> QED BY <1>1, <1>6, <2>1, <2>2, OrderKept DEF Inv
<1>8. YoungInv'
  <2>1. nextLease \in Nat
    BY DEF Inv, TableInv, P!IInv
  <2>2. \A r \in Requests' \ Requests :
           /\ req'[r].epoch <= nextLease
           /\ Mode = "enforce" /\ Exposed(req'[r]) => Young(leases', req'[r])
    <3>1. Mode = "enforce" /\ Exposed(q) => Young(leases', q)
      OBVIOUS
    <3>2. q.epoch <= nextLease
      BY <2>1
    <3>3. \A r \in Requests' \ Requests : req'[r] = q
      BY <1>2, <1>6
    <3> QED BY <3>1, <3>2, <3>3
  <2>3. \A r \in Requests : req[r] \in Request
    BY <1>1
  <2> QED BY <1>2, <1>4, <1>6, <2>2, <2>3, YoungKept DEF Inv
<1>9. KeyInv'
  <2>1. \A k : Leaders(k) = {d \in Requests : req[d].phase \in InFlight /\ KeyOf(req[d]) = k}
    BY DEF Leaders, Running, InFlight, Unsettled
  <2>2. ASSUME NEW d \in Requests', req'[d].phase = "joined"
        PROVE  \E r \in Requests' : /\ req'[r].phase \in InFlight
                                    /\ KeyOf(req'[r]) = KeyOf(req'[d])
    <3>1. PICK r \in Requests : req[r].phase \in InFlight /\ KeyOf(req[r]) = KeyOf(req'[d])
      BY <1>2, <2>1, <2>2 DEF Inv, KeyInv
    <3> QED BY <1>2, <3>1
  <2>3. ASSUME NEW r1 \in Requests', NEW r2 \in Requests', r1 < r2,
               KeyOf(req'[r1]) = KeyOf(req'[r2]), req'[r1].phase \in InFlight
        PROVE  req'[r2].browser = "none"
    <3>1. r1 \in Requests /\ req'[r1] = req[r1]
      <4>1. r1 # n
        BY <1>1, <1>2, <1>3, <2>3
      <4> QED BY <1>2, <4>1
    <3>2. CASE r2 \in Requests
      BY <1>2, <2>3, <3>1, <3>2 DEF Inv, KeyInv
    <3>3. CASE r2 = n
      BY <1>2, <2>1, <2>3, <3>1, <3>3
    <3> QED BY <1>2, <3>2, <3>3
  <2> QED BY <2>2, <2>3 DEF KeyInv
<1> QED BY <1>2, <1>3, <1>5, <1>7, <1>8, <1>9 DEF n

\* Queue and cache for a request that joins without waiting for a tab.
LEMMA JoinsNoQueue ==
    ASSUME QueueInv, UNCHANGED queue, NEW n, n \notin Requests, Requests' = Requests \union {n},
           \A d \in Requests : req'[d] = req[d],
           ~(Write(req'[n]) /\ req'[n].phase \in Unsettled)
    PROVE  QueueInv'
  BY QueueKept DEF Kin

LEMMA JoinsSettled ==
    ASSUME CacheInv, completed' = Evict(completed), NEW n, n \notin Requests,
           Requests' = Requests \union {n},
           \A d \in Requests : req'[d] = req[d],
           req'[n].phase \notin InFlight
    PROVE  CacheInv'
<1>1. \A e \in completed' : Entry(e)
  BY EvictLess DEF CacheInv
<1>2. \A k : Remembered(completed', k) => Remembered(completed, k)
  BY EvictLess
<1>3. \A d \in Requests : Advances(req[d], req'[d])
  BY Same
<1> QED BY <1>1, <1>2, <1>3, CacheKept

\* A request with a key that nobody knows begins to execute.
LEMMA JoinsOriginal ==
    ASSUME CacheInv, completed' = Evict(completed), NEW n, n \notin Requests,
           Requests' = Requests \union {n},
           \A d \in Requests : req'[d] = req[d],
           Original(KeyOf(req'[n]))
    PROVE  CacheInv'
<1>1. \A e \in completed' : Entry(e)
  BY EvictLess DEF CacheInv
<1>2. \A k : Remembered(completed', k) => Remembered(completed, k)
  BY EvictLess
<1>3. Running = {r \in Requests : req[r].phase \in InFlight}
  BY DEF Running, InFlight, Unsettled
<1>4. Running' = {r \in Requests' : req'[r].phase \in InFlight}
  BY DEF Running, InFlight, Unsettled
<1>5. \A r \in Running' : r = n \/ (r \in Running /\ KeyOf(req'[r]) = KeyOf(req[r]))
  BY <1>3, <1>4
<1>6. /\ ~Remembered(completed', KeyOf(req'[n]))
      /\ \A r \in Running : KeyOf(req[r]) # KeyOf(req'[n])
  BY DEF Original, Leaders
<1> QED BY <1>1, <1>2, <1>5, <1>6 DEF CacheInv

\* An outcome is remembered under a key that no execution in flight has.
LEMMA CacheRemembers ==
    ASSUME CacheInv, NEW cs, cs \subseteq completed, NEW k, NEW outcome \in Errors \union {"ok"},
           completed' = Remember(cs, k, outcome),
           \A r \in Running' : /\ r \in Running /\ KeyOf(req'[r]) = KeyOf(req[r])
                               /\ KeyOf(req[r]) # k
    PROVE  CacheInv'
<1> DEFINE new == [key |-> k, at |-> Place(cs, k), left |-> CacheTtl, outcome |-> outcome]
<1>1. Entry(new) /\ new.key = k
  BY DEF Entry
<1>2. completed' = {e \in cs : e.key # k} \union {new}
  BY DEF Remember
<1> HIDE DEF new
<1>3. \A e \in completed' : Entry(e)
  BY <1>1, <1>2 DEF CacheInv
<1>4. \A j : Remembered(completed', j) => j = k \/ Remembered(completed, j)
  BY <1>1, <1>2 DEF Remembered
<1> QED BY <1>3, <1>4 DEF CacheInv

-----------------------------------------------------------------------------
(* The requests half, action by action.                                    *)

WorkInv == ReqInv /\ QueueInv /\ OrderInv /\ CacheInv /\ KeyInv /\ YoungInv

\* The timer of a pending request.
LEMMA TimeoutWork ==
    ASSUME Inv, TableInv', Descent, NEW r \in Requests, Timeout(r)
    PROVE  WorkInv'
<1> DEFINE q == [req[r] EXCEPT !.phase = "settling",
                               !.outcome = TimeoutOutcome(req[r].action)]
<1>1. /\ req[r] \in Request /\ Coherent(req[r]) /\ req[r].phase = "sent"
      /\ req \in [Requests -> Request]
      /\ queue' = Leave(r) /\ UNCHANGED <<completed, recorder, ready>>
  BY RequestTypes DEF Inv, Timeout
<1>2. /\ q \in Request /\ Kin(req[r], q) /\ q.phase = "settling"
      /\ q.outcome = TimeoutOutcome(req[r].action)
      /\ q.epoch = req[r].epoch /\ q.browser = req[r].browser
  BY <1>1 DEF Request, TimeoutOutcome, Errors, Kin
<1>3. req' = [req EXCEPT ![r] = q]
  BY <1>1 DEF Timeout
<1> HIDE DEF q
<1>4. Coherent(q) /\ Advances(req[r], q)
  BY <1>1, <1>2 DEF Coherent, Advances, Kin, Exposed, Write, Queued, TimeoutOutcome,
     Unsettled, InFlight
<1>5. /\ recorder' \subseteq Requests /\ ready' \in BOOLEAN /\ UNCHANGED completed
      /\ q.phase # "joined" /\ q.phase \in InFlight
      /\ req[r].browser = "none" => q.browser = "none"
  BY <1>1, <1>2 DEF Inv, ReqInv, InFlight
<1>6. /\ ReqInv' /\ CacheInv' /\ KeyInv' /\ YoungInv' /\ OrderInv'
      /\ Requests' = Requests /\ req'[r] = q
      /\ \A d \in Requests : d # r => req'[d] = req[d]
  BY <1>2, <1>3, <1>4, <1>5, OneChanges
<1>7. QueueInv'
  BY <1>1, <1>2, <1>6, QueueLeaves DEF Inv, Unsettled
<1> QED BY <1>6, <1>7 DEF WorkInv

\* The extension takes a request up.
LEMMA ExecuteWork ==
    ASSUME Inv, TableInv', Descent, NEW r \in Requests, Execute(r)
    PROVE  WorkInv'
<1>1. /\ req[r] \in Request /\ Coherent(req[r]) /\ req[r].phase \in {"sent", "lost"}
      /\ req[r].browser = "sent" /\ req \in [Requests -> Request]
      /\ UNCHANGED <<queue, completed, ready>>
  BY RequestTypes DEF Inv, Execute
<1>2. PICK state \in {"executing", "refusing"} : req' = [req EXCEPT ![r].browser = state]
  BY DEF Execute
<1> DEFINE q == [req[r] EXCEPT !.browser = state]
<1>3. /\ q \in Request /\ Kin(req[r], q) /\ q.phase = req[r].phase
      /\ q.outcome = req[r].outcome /\ q.epoch = req[r].epoch /\ q.browser = state
  BY <1>1 DEF Request, Kin
<1>4. req' = [req EXCEPT ![r] = q]
  BY <1>1, <1>2
<1> HIDE DEF q
<1>5. Coherent(q) /\ Advances(req[r], q)
  BY <1>1, <1>3 DEF Coherent, Advances, Kin, Exposed, Write, Unsettled, InFlight
<1>6. /\ recorder' \subseteq Requests /\ ready' \in BOOLEAN /\ UNCHANGED completed
      /\ q.phase # "joined" /\ req[r].browser # "none"
      /\ req[r].phase \in InFlight => q.phase \in InFlight
  BY <1>1, <1>3 DEF Inv, ReqInv, Execute, RecorderAfter
<1>7. /\ ReqInv' /\ CacheInv' /\ KeyInv' /\ YoungInv' /\ OrderInv'
      /\ Requests' = Requests /\ req'[r] = q
      /\ \A d \in Requests : d # r => req'[d] = req[d]
  BY <1>3, <1>4, <1>5, <1>6, OneChanges
<1>8. QueueInv'
  BY <1>1, <1>3, <1>7, QueueKept, Same DEF Inv, Advances
<1> QED BY <1>7, <1>8 DEF WorkInv

\* The extension is done, and is heard or not.
LEMMA RespondWork ==
    ASSUME Inv, TableInv', Descent, NEW r \in Requests, Respond(r)
    PROVE  WorkInv'
<1>1. /\ req[r] \in Request /\ Coherent(req[r])
      /\ req[r].browser \in {"executing", "refusing"} /\ req \in [Requests -> Request]
      /\ UNCHANGED <<completed, recorder>> /\ ready \in BOOLEAN
  BY RequestTypes DEF Inv, Respond, ReqInv
<1>2. recorder' \subseteq Requests /\ ready' \in BOOLEAN
  BY <1>1, BridgeAssumption DEF Inv, ReqInv, Respond
<1>3. ASSUME NEW q \in Request, Kin(req[r], q), Coherent(q), q.browser = "done",
             q.epoch = req[r].epoch, req' = [req EXCEPT ![r] = q],
             \/ q.phase = req[r].phase
             \/ q.phase = "settling" /\ req[r].phase = "sent"
      PROVE  /\ ReqInv' /\ CacheInv' /\ KeyInv' /\ YoungInv' /\ OrderInv'
             /\ Requests' = Requests /\ req'[r] = q
             /\ \A d \in Requests : d # r => req'[d] = req[d]
  <2>1. Advances(req[r], q)
    BY <1>1, <1>3 DEF Advances, Kin, Exposed, Write, Unsettled, InFlight
  <2>2. /\ UNCHANGED completed /\ q.phase # "joined" /\ req[r].browser # "none"
        /\ req[r].phase \in InFlight => q.phase \in InFlight
    BY <1>1, <1>3 DEF Coherent, InFlight
  <2> QED BY <1>2, <1>3, <2>1, <2>2, OneChanges
<1>4. CASE Heard(r)
  <2>1. PICK reply \in Replies(r) :
            req' = [[req EXCEPT ![r].browser = "done"]
                      EXCEPT ![r].phase = "settling", ![r].outcome = reply]
    BY <1>4 DEF Respond
  <2>2. reply \in (Errors \union {"ok"}) /\ reply # "none"
    BY BridgeAssumption DEF Replies, Errors
  <2> DEFINE q == [req[r] EXCEPT !.browser = "done", !.phase = "settling", !.outcome = reply]
  <2>3. req[r].phase = "sent" /\ queue' = Leave(r)
    BY <1>4 DEF Heard, Respond
  <2>4. /\ q \in Request /\ Kin(req[r], q) /\ q.phase = "settling" /\ q.browser = "done"
        /\ q.outcome = reply /\ q.epoch = req[r].epoch
    BY <1>1, <2>2 DEF Request, Kin
  <2>5. req' = [req EXCEPT ![r] = q]
    BY <1>1, <2>1
  <2> HIDE DEF q
  <2>6. Coherent(q)
    BY <2>2, <2>4 DEF Coherent
  <2>7. /\ ReqInv' /\ CacheInv' /\ KeyInv' /\ YoungInv' /\ OrderInv'
        /\ Requests' = Requests /\ req'[r] = q
        /\ \A d \in Requests : d # r => req'[d] = req[d]
    BY <1>3, <2>3, <2>4, <2>5, <2>6
  <2>8. QueueInv'
    BY <2>3, <2>4, <2>7, QueueLeaves DEF Inv, Unsettled
  <2> QED BY <2>7, <2>8 DEF WorkInv
<1>5. CASE ~Heard(r)
  <2> DEFINE q == [req[r] EXCEPT !.browser = "done"]
  <2>1. req' = [req EXCEPT ![r].browser = "done"] /\ UNCHANGED queue
    BY <1>5 DEF Respond
  <2>2. /\ q \in Request /\ Kin(req[r], q) /\ q.phase = req[r].phase /\ q.browser = "done"
        /\ q.outcome = req[r].outcome /\ q.epoch = req[r].epoch
    BY <1>1 DEF Request, Kin
  <2>3. req' = [req EXCEPT ![r] = q]
    BY <1>1, <2>1
  <2> HIDE DEF q
  <2>4. Coherent(q)
    BY <1>1, <2>2 DEF Coherent
  <2>5. /\ ReqInv' /\ CacheInv' /\ KeyInv' /\ YoungInv' /\ OrderInv'
        /\ Requests' = Requests /\ req'[r] = q
        /\ \A d \in Requests : d # r => req'[d] = req[d]
    BY <1>3, <2>2, <2>3, <2>4
  <2>6. QueueInv'
    BY <2>1, <2>2, <2>5, QueueKept, Same DEF Inv, Advances
  <2> QED BY <2>5, <2>6 DEF WorkInv
<1> QED BY <1>4, <1>5

\* forwardBrowserRequest on a request that waits.
LEMMA ForwardsTo ==
    ASSUME NEW q \in Request, Coherent(q), q.phase = "queued", NEW how \in Ways
    PROVE  LET p == Forwards(q, how)
           IN  /\ p \in Request /\ Kin(q, p) /\ Coherent(p) /\ p.epoch = q.epoch
               /\ Advances(q, p)
               /\ IF how = "sent" THEN p.phase = "sent" /\ p.browser = "sent"
                  ELSE p.phase = "settling" /\ p.browser = "none"
<1> DEFINE p == Forwards(q, how)
<1>1. how \in Errors \union {"sent"} /\ how # "none"
  BY BridgeAssumption DEF Ways, Errors
<1>2. q.browser = "none"
  BY DEF Coherent
<1>3. CASE how = "sent"
  <2>1. /\ p \in Request /\ Kin(q, p) /\ p.epoch = q.epoch
        /\ p.phase = "sent" /\ p.browser = "sent"
    BY <1>3 DEF Forwards, Request, Kin
  <2> HIDE DEF p
  <2>2. Coherent(p) /\ Advances(q, p)
    BY <2>1 DEF Coherent, Advances, Kin, Exposed, Write, Unsettled, InFlight
  <2> QED BY <1>3, <2>1, <2>2 DEF p
<1>4. CASE how # "sent"
  <2>1. /\ p \in Request /\ Kin(q, p) /\ p.epoch = q.epoch
        /\ p.phase = "settling" /\ p.browser = "none" /\ p.outcome # "none"
    BY <1>1, <1>2, <1>4 DEF Forwards, Request, Kin
  <2> HIDE DEF p
  <2>2. Coherent(p) /\ Advances(q, p)
    BY <2>1 DEF Coherent, Advances, Kin, Exposed, Write, Unsettled, InFlight
  <2> QED BY <1>4, <2>1, <2>2 DEF p
<1> QED BY <1>3, <1>4

\* The first write of a tab gets its turn.
LEMMA StartWriteWork ==
    ASSUME Inv, TableInv', Descent, NEW t \in Tab, StartWrite(t)
    PROVE  WorkInv'
<1> DEFINE r == Head(queue[t])
<1>1. queue[t] # <<>> /\ req[r].phase = "queued" /\ UNCHANGED <<completed, recorder, ready>>
  BY DEF StartWrite, Startable
<1>2. queue[t] \in Seq(Nat) /\ 1 \in 1..Len(queue[t]) /\ queue[t][1] = r
  BY <1>1, HeadTailProperties, LenProperties, EmptySeq DEF Inv, QueueInv
<1>3. r \in Requests
  BY <1>2 DEF Inv, QueueInv, QueueOf
<1>4. PICK how \in Ways : /\ req' = [req EXCEPT ![r] = Forwards(@, how)]
                          /\ queue' = IF how = "sent" THEN queue ELSE Leave(r)
  BY DEF StartWrite
<1> DEFINE q == Forwards(req[r], how)
<1>5. /\ req[r] \in Request /\ Coherent(req[r]) /\ req \in [Requests -> Request]
      /\ Requests \subseteq Nat
  BY <1>3, RequestTypes DEF Inv
<1> HIDE DEF r
<1>6. /\ q \in Request /\ Kin(req[r], q) /\ Coherent(q) /\ q.epoch = req[r].epoch
      /\ Advances(req[r], q)
      /\ IF how = "sent" THEN q.phase = "sent" /\ q.browser = "sent"
         ELSE q.phase = "settling" /\ q.browser = "none"
  BY <1>1, <1>5, ForwardsTo
<1>7. req' = [req EXCEPT ![r] = q]
  BY <1>3, <1>4, <1>5
<1> HIDE DEF q
<1>8. /\ recorder' \subseteq Requests /\ ready' \in BOOLEAN /\ UNCHANGED completed
      /\ q.phase # "joined" /\ q.phase \in InFlight
  BY <1>1, <1>6 DEF Inv, ReqInv, InFlight, Unsettled
<1>9. /\ ReqInv' /\ CacheInv' /\ KeyInv' /\ YoungInv'
      /\ Requests' = Requests /\ req'[r] = q
      /\ \A d \in Requests : d # r => req'[d] = req[d]
      /\ (req[r].browser = "none" => q.browser = "none") => OrderInv'
  BY <1>3, <1>6, <1>7, <1>8, OneChanges
<1>10. CASE how = "sent"
  <2>1. QueueInv'
    BY <1>1, <1>4, <1>6, <1>9, <1>10, QueueStarts DEF Inv, r
  <2>2. OrderInv'
    BY <1>1, <1>5, <1>6, <1>9, OrderStarts DEF Inv, r
  <2> QED BY <1>9, <2>1, <2>2 DEF WorkInv
<1>11. CASE how # "sent"
  <2>1. QueueInv'
    BY <1>1, <1>3, <1>4, <1>6, <1>9, <1>11, QueueLeaves DEF Inv, r, Unsettled
  <2> QED BY <1>6, <1>9, <1>11, <2>1 DEF WorkInv
<1> QED BY <1>10, <1>11

\* The record of a request that arrives.
LEMMA NewRequestIs ==
    ASSUME TableInv, NEW s \in Session, NEW action \in Action, NEW t \in Tab \union {NoTab},
           NEW key \in Key, NEW phase \in {"joined", "queued", "answered"},
           NEW outcome \in Errors \union {"ok", "none"},
           phase = "answered" => outcome # "none"
    PROVE  LET q == NewRequest(s, action, t, key, phase, outcome)
           IN  /\ q \in Request /\ Coherent(q)
               /\ q.epoch = nextLease /\ q.browser = "none" /\ q.phase = phase
               /\ q.session = s /\ q.action = action /\ q.tab = t
               /\ KeyOf(q) = CacheKey(s, action, key)
<1> DEFINE q == NewRequest(s, action, t, key, phase, outcome)
<1>1. nextLease \in Nat
  BY DEF TableInv, P!IInv
<1>2. /\ q \in Request /\ q.epoch = nextLease /\ q.browser = "none" /\ q.phase = phase
      /\ q.session = s /\ q.action = action /\ q.tab = t /\ q.key = key
      /\ q.outcome = outcome
  BY <1>1 DEF NewRequest, Request
<1> HIDE DEF q
<1>3. Coherent(q) /\ KeyOf(q) = CacheKey(s, action, key)
  BY <1>2 DEF Coherent, KeyOf
<1> QED BY <1>2, <1>3 DEF q

\* What joins settled, or joins an execution in flight, is in nobody's way.
LEMMA NotInFlight ==
    ASSUME NEW q, q.phase \in {"joined", "answered"}, q.browser = "none"
    PROVE  q.phase \notin Unsettled /\ q.phase \notin InFlight /\ ~Exposed(q)
  BY DEF Unsettled, InFlight, Exposed

\* A duplicate is answered from the cache.
LEMMA AnswerFromCacheWork ==
    ASSUME Inv, TableInv', Descent, NEW s \in Session, NEW action \in Action,
           NEW tab \in Tab \union {NoTab}, NEW key \in Key, AnswerFromCache(s, action, tab, key)
    PROVE  WorkInv'
<1> DEFINE k == CacheKey(s, action, key)
           outcome == OutcomeOf(completed', k)
           q == NewRequest(s, action, tab, key, "answered", outcome)
<1>1. /\ completed' = Evict(completed) /\ Remembered(completed', k)
      /\ req' = Append(req, q) /\ UNCHANGED <<queue, recorder, ready>>
  BY DEF AnswerFromCache
<1> HIDE DEF k
<1>2. outcome \in Errors \union {"ok"} /\ outcome # "none"
  <2>1. \E e \in completed' : e.key = k
    BY <1>1 DEF Remembered
  <2>2. (CHOOSE e \in completed' : e.key = k) \in completed
    BY <1>1, <2>1, EvictLess
  <2> QED BY <2>2 DEF OutcomeOf, Inv, CacheInv, Entry, Errors
<1> HIDE DEF outcome
<1>3. q \in Request /\ Coherent(q) /\ q.epoch = nextLease /\ q.phase = "answered"
      /\ q.browser = "none"
  BY <1>2, NewRequestIs DEF Inv
<1> HIDE DEF q
<1>4. q.phase \notin Unsettled /\ q.phase \notin InFlight /\ ~Exposed(q)
  BY <1>3, NotInFlight
<1>5. /\ ReqInv' /\ OrderInv' /\ KeyInv' /\ YoungInv'
      /\ Requests' = Requests \union {Len(req) + 1} /\ Len(req) + 1 \notin Requests
      /\ req'[Len(req) + 1] = q
      /\ \A d \in Requests : req'[d] = req[d]
  BY <1>1, <1>3, <1>4, OneJoins
<1>6. QueueInv'
  BY <1>1, <1>4, <1>5, JoinsNoQueue DEF Inv
<1>7. CacheInv'
  BY <1>1, <1>4, <1>5, JoinsSettled DEF Inv
<1> QED BY <1>5, <1>6, <1>7 DEF WorkInv

\* A duplicate waits for the execution in flight.
LEMMA JoinWork ==
    ASSUME Inv, TableInv', Descent, NEW s \in Session, NEW action \in Action,
           NEW tab \in Tab \union {NoTab}, NEW key \in Key, Join(s, action, tab, key)
    PROVE  WorkInv'
<1> DEFINE q == NewRequest(s, action, tab, key, "joined", "none")
<1>1. /\ completed' = Evict(completed) /\ req' = Append(req, q)
      /\ UNCHANGED <<queue, recorder, ready>> /\ Leaders(CacheKey(s, action, key)) # {}
  BY DEF Join
<1>2. q \in Request /\ Coherent(q) /\ q.epoch = nextLease /\ q.phase = "joined"
      /\ q.browser = "none" /\ KeyOf(q) = CacheKey(s, action, key)
  BY NewRequestIs DEF Inv
<1> HIDE DEF q
<1>3. q.phase \notin Unsettled /\ q.phase \notin InFlight /\ ~Exposed(q)
  BY <1>2, NotInFlight
<1>4. /\ ReqInv' /\ OrderInv' /\ KeyInv' /\ YoungInv'
      /\ Requests' = Requests \union {Len(req) + 1} /\ Len(req) + 1 \notin Requests
      /\ req'[Len(req) + 1] = q
      /\ \A d \in Requests : req'[d] = req[d]
  BY <1>1, <1>2, <1>3, OneJoins
<1>5. QueueInv'
  BY <1>1, <1>3, <1>4, JoinsNoQueue DEF Inv
<1>6. CacheInv'
  BY <1>1, <1>3, <1>4, JoinsSettled DEF Inv
<1> QED BY <1>4, <1>5, <1>6 DEF WorkInv

\* A request that is refused at its admission.
LEMMA RefuseWork ==
    ASSUME Inv, TableInv', Descent, NEW s \in Session, NEW action \in Action,
           NEW t \in Tab \union {NoTab}, NEW key \in Key, NEW a,
           a.error \in Errors \union {"none"}, Refuse(s, action, t, key, a)
    PROVE  WorkInv'
<1> DEFINE k == CacheKey(s, action, key)
           q == NewRequest(s, action, t, key, "answered", a.error)
<1>1. /\ completed' = Remember(Evict(completed), k, a.error) /\ Leaders(k) = {}
      /\ req' = Append(req, q) /\ UNCHANGED <<queue, recorder, ready>>
      /\ a.error \in Errors /\ a.error # "none"
  BY DEF Refuse, Prepare, Original
<1>2. q \in Request /\ Coherent(q) /\ q.epoch = nextLease /\ q.phase = "answered"
      /\ q.browser = "none"
  BY <1>1, NewRequestIs DEF Inv
<1> HIDE DEF q, k
<1>3. q.phase \notin Unsettled /\ q.phase \notin InFlight /\ ~Exposed(q)
  BY <1>2, NotInFlight
<1>4. /\ ReqInv' /\ OrderInv' /\ KeyInv' /\ YoungInv'
      /\ Requests' = Requests \union {Len(req) + 1} /\ Len(req) + 1 \notin Requests
      /\ req'[Len(req) + 1] = q
      /\ \A d \in Requests : req'[d] = req[d]
  BY <1>1, <1>2, <1>3, OneJoins
<1>5. QueueInv'
  BY <1>1, <1>3, <1>4, JoinsNoQueue DEF Inv
<1>6. ASSUME NEW r \in Running'
      PROVE  r \in Running /\ KeyOf(req'[r]) = KeyOf(req[r]) /\ KeyOf(req[r]) # k
  <2>1. r \in Requests' /\ req'[r].phase \in InFlight
    BY DEF Running, InFlight, Unsettled
  <2>2. r \in Requests /\ req'[r] = req[r]
    BY <1>3, <1>4, <2>1
  <2>3. r \in Running
    BY <2>1, <2>2 DEF Running, InFlight, Unsettled
  <2> QED BY <1>1, <2>2, <2>3 DEF Leaders
<1>7. CacheInv'
  BY <1>1, <1>6, EvictLess, CacheRemembers DEF Inv
<1> QED BY <1>4, <1>5, <1>7 DEF WorkInv

\* A read, or a request without a tab, is forwarded at once.
LEMMA ForwardNowWork ==
    ASSUME Inv, TableInv', Descent, NEW s \in Session, NEW action \in Action,
           NEW t \in Tab \union {NoTab}, NEW key \in Key, NEW a,
           ForwardNow(s, action, t, key, a)
    PROVE  WorkInv'
<1> DEFINE k == CacheKey(s, action, key)
           p == NewRequest(s, action, t, key, "queued", "none")
<1>1. PICK how \in Ways : req' = Append(req, Forwards(p, how))
  BY DEF ForwardNow
<1>2. /\ completed' = Evict(completed) /\ Original(k) /\ ~Queued(action, t)
      /\ UNCHANGED <<queue, recorder, ready>>
  BY DEF ForwardNow, Prepare
<1>3. /\ p \in Request /\ Coherent(p) /\ p.epoch = nextLease /\ p.phase = "queued"
      /\ p.action = action /\ p.tab = t /\ KeyOf(p) = k
  BY NewRequestIs DEF Inv
<1> HIDE DEF p, k
<1> DEFINE q == Forwards(p, how)
<1>4. q \in Request /\ Kin(p, q) /\ Coherent(q) /\ q.epoch = p.epoch
  BY <1>3, ForwardsTo
<1> HIDE DEF q
<1>5. ~Write(q) /\ KeyOf(q) = k
  BY <1>2, <1>3, <1>4 DEF Write, Kin, KeyOf
<1>6. ~Exposed(q)
  BY <1>5 DEF Exposed
<1>7. /\ ReqInv' /\ OrderInv' /\ KeyInv' /\ YoungInv'
      /\ Requests' = Requests \union {Len(req) + 1} /\ Len(req) + 1 \notin Requests
      /\ req'[Len(req) + 1] = q
      /\ \A d \in Requests : req'[d] = req[d]
  <2> SUFFICES req' = Append(req, q) /\ q.phase # "joined" /\ Leaders(KeyOf(q)) = {}
    BY <1>2, <1>3, <1>4, <1>5, <1>6, OneJoins
  <2>1. q.phase # "joined"
    BY <1>3, ForwardsTo DEF q
  <2> QED BY <1>1, <1>2, <1>5, <2>1 DEF q, Original
<1>8. QueueInv'
  BY <1>2, <1>5, <1>7, JoinsNoQueue DEF Inv
<1>9. CacheInv'
  BY <1>2, <1>5, <1>7, JoinsOriginal DEF Inv
<1> QED BY <1>7, <1>8, <1>9 DEF WorkInv

\* A write is admitted and waits for its turn.
LEMMA EnqueueWork ==
    ASSUME Inv, TableInv', Descent, NEW s \in Session, NEW action \in Action,
           NEW t \in Tab \union {NoTab}, NEW key \in Key, NEW a,
           Mode = "enforce" => \A l \in a.table.leases : l.resource = t => l.owner = s,
           Enqueue(s, action, t, key, a)
    PROVE  WorkInv'
<1> DEFINE k == CacheKey(s, action, key)
           q == NewRequest(s, action, t, key, "queued", "none")
<1>1. /\ completed' = Evict(completed) /\ Original(k) /\ Queued(action, t)
      /\ req' = Append(req, q) /\ queue' = [queue EXCEPT ![t] = Append(@, Len(req) + 1)]
      /\ UNCHANGED <<recorder, ready>> /\ leases' = a.table.leases
  BY DEF Enqueue, Prepare, SetTable
<1>2. /\ q \in Request /\ Coherent(q) /\ q.epoch = nextLease /\ q.phase = "queued"
      /\ q.browser = "none" /\ q.session = s /\ q.action = action /\ q.tab = t
      /\ KeyOf(q) = k
  <2>1. TableInv /\ "queued" \in {"joined", "queued", "answered"}
        /\ "none" \in Errors \union {"ok", "none"}
    BY DEF Inv
  <2> QED BY ONLY <2>1, NewRequestIs, s \in Session, action \in Action,
                  t \in Tab \union {NoTab}, key \in Key
<1> HIDE DEF q, k
<1>3. Write(q) /\ t \in Tab
  BY <1>1, <1>2 DEF Write, Queued
<1>4. Mode = "enforce" => Young(leases', q)
  BY <1>1, <1>2 DEF Young
<1>5. /\ ReqInv' /\ OrderInv' /\ KeyInv' /\ YoungInv'
      /\ Requests' = Requests \union {Len(req) + 1} /\ Len(req) + 1 \notin Requests
      /\ req'[Len(req) + 1] = q
      /\ \A d \in Requests : req'[d] = req[d]
  BY <1>1, <1>2, <1>4, OneJoins
<1>6. QueueInv'
  BY <1>1, <1>2, <1>3, QueueGrows DEF Inv, ReqInv
<1>7. CacheInv'
  BY <1>1, <1>2, <1>5, JoinsOriginal DEF Inv
<1> QED BY <1>5, <1>6, <1>7 DEF WorkInv

\* A request ends: it and its duplicates are answered.
LEMMA ConcludeWork ==
    ASSUME Inv, TableInv', Descent, NEW r \in Requests, Conclude(r)
    PROVE  WorkInv'
<1> DEFINE k == KeyOf(req[r])
           ended == {d \in Requests : req[d].phase = "joined" /\ KeyOf(req[d]) = k} \union {r}
           Ended(d) == [req[d] EXCEPT !.phase = "answered", !.outcome = req[r].outcome]
           f == [d \in Requests |-> IF d \in ended THEN Ended(d) ELSE req[d]]
<1>1. /\ req[r].phase = "settling" /\ completed' = Remember(completed, k, req[r].outcome)
      /\ req' = f /\ UNCHANGED <<queue, recorder, ready>>
  BY DEF Conclude
<1>2. /\ Requests \subseteq Nat
      /\ \A d \in Requests : req[d] \in Request /\ Coherent(req[d])
      /\ req \in Seq(Request)
  BY RequestTypes DEF Inv, ReqInv
<1>3. req[r].outcome \in Errors \union {"ok"} /\ req[r].outcome # "none"
  BY <1>1, <1>2 DEF Request, Coherent
<1>4. /\ \A d \in ended : /\ d \in Requests
                          /\ \/ req[d].phase = "joined"
                             \/ d = r /\ req[d].phase = "settling"
      /\ r \in ended
  BY <1>1
<1> HIDE DEF ended, k
<1>5. ASSUME NEW d \in ended
      PROVE  /\ Ended(d) \in Request /\ Kin(req[d], Ended(d)) /\ Ended(d).phase = "answered"
             /\ Ended(d).outcome = req[r].outcome /\ Ended(d).epoch = req[d].epoch
             /\ Ended(d).browser = req[d].browser
  BY <1>2, <1>3, <1>4 DEF Request, Kin
<1>6. ASSUME NEW d \in ended PROVE Coherent(Ended(d)) /\ Advances(req[d], Ended(d))
  <2> DEFINE p == Ended(d)
  <2>1. /\ p \in Request /\ Kin(req[d], p) /\ p.phase = "answered"
        /\ p.outcome = req[r].outcome /\ p.browser = req[d].browser
    BY <1>5
  <2>2. d \in Requests /\ (req[d].phase = "joined" \/ (d = r /\ req[d].phase = "settling"))
    BY <1>4
  <2> HIDE DEF p
  <2>3. Write(p) <=> Write(req[d])
    BY <2>1 DEF Write, Kin
  <2>4. CASE req[d].phase = "joined"
    <3>1. p.browser = "none"
      BY <1>2, <2>1, <2>2, <2>4 DEF Coherent
    <3> QED BY <1>3, <2>1, <3>1 DEF Coherent, Advances, Exposed, Unsettled, InFlight, p
  <2>5. CASE d = r /\ req[d].phase = "settling"
    <3>1. Coherent(p)
      BY <1>2, <1>3, <2>1, <2>2, <2>3, <2>5 DEF Coherent, Kin
    <3>2. Advances(req[d], p)
      BY <2>1, <2>3, <2>5 DEF Advances, Exposed, Unsettled, InFlight
    <3> QED BY <3>1, <3>2 DEF p
  <2> QED BY <2>2, <2>4, <2>5
<1> HIDE DEF Ended
<1>7. f \in [Requests -> Request]
  BY <1>2, <1>5
<1>8. /\ req' \in Seq(Request) /\ Requests' = Requests
      /\ \A d \in Requests : req'[d] = IF d \in ended THEN Ended(d) ELSE req[d]
  BY <1>1, <1>2, <1>7, ReqChanges
<1> HIDE DEF f
<1>9. \A d \in Requests : /\ Coherent(req'[d]) /\ Advances(req[d], req'[d])
                          /\ req'[d].epoch = req[d].epoch
                          /\ req'[d].browser = req[d].browser
                          /\ Kin(req[d], req'[d])
  BY <1>2, <1>5, <1>6, <1>8, Same DEF Advances
<1>10. ReqInv'
  <2>1. recorder' \subseteq Requests' /\ ready' \in BOOLEAN
    BY <1>1, <1>8 DEF Inv, ReqInv
  <2> QED BY <1>8, <1>9, <2>1 DEF ReqInv, Coherent, Write
<1>11. QueueInv'
  <2>1. \A d \in Requests : \/ req'[d].phase = req[d].phase
                            \/ {req[d].phase, req'[d].phase} \intersect Unsettled = {}
    BY <1>4, <1>5, <1>8 DEF Unsettled
  <2> QED BY <1>1, <1>8, <1>9, <2>1, QueueKept DEF Inv
<1>12. OrderInv'
  BY <1>2, <1>8, <1>9, OrderKept DEF Inv
<1>13. YoungInv'
  BY <1>2, <1>8, <1>9, YoungKept DEF Inv
<1>14. CacheInv'
  <2>1. r \in Running
    BY <1>1 DEF Running
  <2>2. ASSUME NEW d \in Running'
        PROVE  d \in Running /\ KeyOf(req'[d]) = KeyOf(req[d]) /\ KeyOf(req[d]) # k
    <3>1. d \in Requests /\ req'[d].phase \in InFlight
      BY <1>8 DEF Running, InFlight, Unsettled
    <3>2. d \notin ended
      BY <1>5, <1>8, <3>1 DEF InFlight, Unsettled
    <3>3. req'[d] = req[d] /\ d # r
      BY <1>4, <1>8, <3>1, <3>2
    <3>4. d \in Running
      BY <3>1, <3>3 DEF Running, InFlight, Unsettled
    <3>5. KeyOf(req[d]) # k
      BY <2>1, <3>3, <3>4 DEF Inv, CacheInv, k
    <3> QED BY <3>3, <3>4, <3>5
  <2>3. CacheInv /\ completed \subseteq completed
    BY DEF Inv
  <2> QED BY <1>1, <1>3, <2>2, <2>3, CacheRemembers
<1>15. KeyInv'
  <2>1. \A d \in Requests : KeyOf(req'[d]) = KeyOf(req[d])
    BY <1>9 DEF Kin, KeyOf
  <2>2. \A d \in Requests : req'[d].phase \in InFlight => req[d].phase \in InFlight
    BY <1>9 DEF Advances
  <2>3. ASSUME NEW d \in Requests, req'[d].phase = "joined"
        PROVE  \E l \in Requests : req'[l].phase \in InFlight /\ KeyOf(req'[l]) = KeyOf(req'[d])
    <3>1. d \notin ended /\ req'[d] = req[d]
      BY <1>5, <1>8, <2>3
    <3>2. KeyOf(req[d]) # k
      BY <2>3, <3>1 DEF ended
    <3>3. PICK l \in Requests : req[l].phase \in InFlight /\ KeyOf(req[l]) = KeyOf(req[d])
      BY <2>3, <3>1 DEF Inv, KeyInv
    <3>4. l \notin ended
      BY <1>4, <3>2, <3>3 DEF k, InFlight, Unsettled
    <3> QED BY <1>8, <2>1, <3>3, <3>4
  <2> QED BY <1>8, <1>9, <2>1, <2>2, <2>3 DEF Inv, KeyInv
<1> QED BY <1>10, <1>11, <1>12, <1>13, <1>14, <1>15 DEF WorkInv

\* Events that leave the requests alone: a handshake, a socket, a lease tool, time.
LEMMA RequestsKept ==
    ASSUME Inv, TableInv', Descent, UNCHANGED <<req, queue, recorder>>, ready' \in BOOLEAN,
           \A e \in completed' : Entry(e),
           \A k : Remembered(completed', k) => Remembered(completed, k)
    PROVE  WorkInv'
<1>1. Requests' = Requests /\ Requests \subseteq Nat /\ \A r \in Requests : req[r] \in Request
  BY RequestTypes DEF Requests, Inv
<1>2. \A r \in Requests : Advances(req[r], req'[r]) /\ Kin(req[r], req'[r])
  BY Same DEF Advances
<1>3. ReqInv'
  BY <1>1 DEF Inv, ReqInv, Coherent, Write
<1>4. QueueInv'
  BY <1>1, <1>2, QueueKept DEF Inv
<1>5. OrderInv'
  BY <1>1, <1>2, OrderKept DEF Inv
<1>6. CacheInv'
  BY <1>1, <1>2, CacheKept DEF Inv
<1>7. YoungInv'
  <2>1. req' \in Seq(Request)
    BY DEF Inv, ReqInv
  <2> QED BY <1>1, <1>2, <2>1, YoungKept DEF Inv
<1>8. KeyInv'
  BY <1>1 DEF Inv, KeyInv, KeyOf, CacheKey
<1> QED BY <1>3, <1>4, <1>5, <1>6, <1>7, <1>8 DEF WorkInv

\* The bridge dies and is started again.
LEMMA RestartWork == ASSUME Inv, Restart PROVE WorkInv'
<1>1. /\ queue' = [t \in Tab |-> <<>>] /\ completed' = {} /\ ready' = FALSE
      /\ leases' = {} /\ nextLease' = 1
  BY DEF Restart
<1>2. PICK browserToo \in BOOLEAN :
         /\ recorder' = IF browserToo THEN {} ELSE recorder
         /\ req' = [r \in Requests |->
               [req[r] EXCEPT !.phase = IF @ \in {"answered", "lost"} THEN @ ELSE "lost",
                              !.epoch = 0,
                              !.browser = IF browserToo /\ @ \in {"sent", "executing", "refusing"}
                                          THEN "gone" ELSE @]]
  BY DEF Restart
<1> DEFINE Left(r) ==
      [req[r] EXCEPT !.phase = IF @ \in {"answered", "lost"} THEN @ ELSE "lost",
                     !.epoch = 0,
                     !.browser = IF browserToo /\ @ \in {"sent", "executing", "refusing"}
                                 THEN "gone" ELSE @]
           f == [r \in Requests |-> Left(r)]
<1>3. /\ Requests \subseteq Nat /\ req \in Seq(Request)
      /\ \A r \in Requests : req[r] \in Request /\ Coherent(req[r])
  BY RequestTypes DEF Inv, ReqInv
<1>4. ASSUME NEW r \in Requests
      PROVE  /\ Left(r) \in Request /\ Kin(req[r], Left(r)) /\ Left(r).epoch = 0
             /\ Left(r).phase = IF req[r].phase \in {"answered", "lost"} THEN req[r].phase
                                ELSE "lost"
             /\ Left(r).browser \in {req[r].browser, "gone"}
             /\ Left(r).outcome = req[r].outcome
  BY <1>3 DEF Request, Kin
<1>5. req' = f
  BY <1>2
<1> HIDE DEF Left
<1>6. f \in [Requests -> Request]
  BY <1>4
<1>7. /\ req' \in Seq(Request) /\ Requests' = Requests
      /\ \A r \in Requests : req'[r] = Left(r)
  BY <1>3, <1>5, <1>6, ReqChanges
<1> HIDE DEF f
<1>8. \A r \in Requests : /\ Kin(req[r], req'[r]) /\ req'[r].epoch = 0
                          /\ req'[r].phase = IF req[r].phase \in {"answered", "lost"}
                                             THEN req[r].phase ELSE "lost"
                          /\ req'[r].browser \in {req[r].browser, "gone"}
                          /\ req'[r].outcome = req[r].outcome
  BY <1>4, <1>7
<1>9. \A r \in Requests : /\ req'[r].phase \in {"answered", "lost"}
                          /\ req'[r].phase \notin Unsettled /\ req'[r].phase \notin InFlight
  BY <1>8 DEF Unsettled, InFlight
<1>10. ReqInv'
  <2>1. ASSUME NEW r \in Requests PROVE Coherent(req'[r])
    <3>1. Coherent(req[r]) /\ req'[r].action = req[r].action
      BY <1>3, <1>8 DEF Kin
    <3>2. req'[r].phase = "answered" => req[r].phase = "answered"
      BY <1>8
    <3> QED BY <1>8, <1>9, <3>1, <3>2 DEF Coherent
  <2>2. recorder' \subseteq Requests' /\ ready' \in BOOLEAN
    BY <1>1, <1>2, <1>7 DEF Inv, ReqInv
  <2> QED BY <1>7, <2>1, <2>2 DEF ReqInv, Coherent, Write
<1>11. QueueInv'
  <2>1. queue' \in [Tab -> Seq(Nat)]
    BY <1>1
  <2>2. ASSUME NEW t \in Tab PROVE QueueOf(t)'
    <3>1. queue'[t] = <<>> /\ 1..Len(queue'[t]) = {} /\ queue'[t] \in Seq(Nat)
      BY <1>1
    <3>2. \A r \in Requests' : ~Waits(req'[r], t)
      BY <1>7, <1>9 DEF Waits
    <3> QED BY <3>1, <3>2 DEF QueueOf
  <2> QED BY <2>1, <2>2 DEF QueueInv
<1>12. OrderInv'
  BY <1>7, <1>9 DEF OrderInv, Unsettled
<1>13. CacheInv'
  <2>1. Running' = {}
    BY <1>7, <1>9 DEF Running
  <2> QED BY <1>1, <2>1 DEF CacheInv
<1>14. YoungInv'
  BY <1>1, <1>7, <1>8 DEF YoungInv, Young
<1>15. KeyInv'
  BY <1>7, <1>9 DEF KeyInv
<1> QED BY <1>10, <1>11, <1>12, <1>13, <1>14, <1>15 DEF WorkInv

-----------------------------------------------------------------------------
(* The invariant.                                                          *)

\* It holds of the bridge that has just started.
LEMMA InitInv == Init => Inv
<1> SUFFICES ASSUME Init PROVE Inv
  OBVIOUS
<1>1. /\ sessions = {} /\ leases = {} /\ nextLease = 1 /\ history = <<>>
      /\ defaultTab = [s \in Session |-> NoTab]
      /\ closed = {} /\ req = <<>> /\ queue = [t \in Tab |-> <<>>] /\ completed = {}
      /\ recording = {} /\ recorder = {} /\ ready = FALSE
  BY DEF Init, C!Init
<1>2. TableInv
  BY <1>1 DEF TableInv, Accounted, Recordings, P!IInv, P!Sound, P!IdsBelow
<1>3. Requests = {} /\ req \in Seq(Request) /\ Running = {}
  BY <1>1 DEF Requests, Running
<1>4. ReqInv /\ OrderInv /\ CacheInv /\ KeyInv /\ YoungInv
  BY <1>1, <1>3 DEF ReqInv, OrderInv, CacheInv, KeyInv, YoungInv
<1>5. QueueInv
  <2>1. ASSUME NEW t \in Tab PROVE QueueOf(t)
    <3>1. queue[t] = <<>> /\ queue[t] \in Seq(Nat) /\ 1..Len(queue[t]) = {}
      BY <1>1
    <3> QED BY <1>3, <3>1 DEF QueueOf
  <2> QED BY <1>1, <2>1 DEF QueueInv
<1> QED BY <1>2, <1>4, <1>5 DEF Inv

\* A request of a session arrives, whichever way it goes.
LEMMA ReceiveWork ==
    ASSUME Inv, TableInv', Descent, NEW s \in Session, Receive(s)
    PROVE  WorkInv'
<1>1. PICK action \in Action, tab \in Tab \union {NoTab}, key \in Key :
          \/ AnswerFromCache(s, action, tab, key)
          \/ Join(s, action, tab, key)
          \/ Handle(s, action, Target(s, action, tab), key,
                    Admission(s, action, Target(s, action, tab)))
  BY DEF Receive
<1>2. CASE AnswerFromCache(s, action, tab, key)
  BY <1>2, AnswerFromCacheWork
<1>3. CASE Join(s, action, tab, key)
  BY <1>3, JoinWork
<1>4. CASE Handle(s, action, Target(s, action, tab), key,
                  Admission(s, action, Target(s, action, tab)))
  <2> DEFINE t == Target(s, action, tab)
             a == Admission(s, action, t)
  <2>1. Prepare(s, action, t, key, a)
    BY <1>4 DEF Handle, Refuse, ForwardNow, Enqueue
  <2>2. s \in sessions
    BY <2>1 DEF Prepare, Arrives
  <2>3. t \in Tab \union {NoTab}
    BY <2>2, TargetType DEF Inv
  <2>4. Handle(s, action, t, key, a)
    BY <1>4
  <2> HIDE DEF t
  <2>5. /\ Sane(s, a)
        /\ Mode = "enforce" /\ Queued(action, t) /\ a.error = "none" =>
             \A l \in a.table.leases : l.resource = t => l.owner = s
    BY <2>2, <2>3, AdmissionSane DEF Inv, TableInv
  <2> HIDE DEF a
  <2>6. CASE Refuse(s, action, t, key, a)
    BY <2>3, <2>5, <2>6, RefuseWork DEF Sane
  <2>7. CASE ForwardNow(s, action, t, key, a)
    BY <2>3, <2>7, ForwardNowWork
  <2>8. CASE Enqueue(s, action, t, key, a)
    <3>1. Mode = "enforce" => \A l \in a.table.leases : l.resource = t => l.owner = s
      BY <2>5, <2>8 DEF Enqueue
    <3> QED BY <2>3, <2>8, <3>1, EnqueueWork
  <2> QED BY <2>4, <2>6, <2>7, <2>8 DEF Handle
<1> QED BY <1>1, <1>2, <1>3, <1>4

\* Every step keeps the invariant.
LEMMA StepInv == Inv /\ [Next]_vars => Inv'
<1> SUFFICES ASSUME Inv, [Next]_vars PROVE Inv'
  OBVIOUS
<1>1. TableInv' /\ (Descent \/ Restart)
  <2>1. \A r \in Requests : req[r].tab \in Tab \union {NoTab}
    BY RequestTypes DEF Inv, Request
  <2> QED BY <2>1, TableStep DEF Inv
<1>2. CASE Restart
  BY <1>1, <1>2, RestartWork DEF Inv, WorkInv
<1>3. CASE Descent
  <2>1. ASSUME UNCHANGED <<req, queue, completed, recorder>>, ready' \in BOOLEAN
        PROVE  WorkInv'
    <3>1. /\ \A e \in completed' : Entry(e)
          /\ \A k : Remembered(completed', k) => Remembered(completed, k)
      BY <2>1 DEF Inv, CacheInv
    <3> QED BY <1>1, <1>3, <2>1, <3>1, RequestsKept
  <2>2. ready \in BOOLEAN /\ CacheInv
    BY DEF Inv, ReqInv
  <2>3. ASSUME NEW t \in Tab, StartWrite(t) PROVE WorkInv'
    BY <1>1, <1>3, <2>3, StartWriteWork
  <2>4. ASSUME NEW r \in Requests, Conclude(r) PROVE WorkInv'
    BY <1>1, <1>3, <2>4, ConcludeWork
  <2>5. ASSUME NEW s \in Session, Open(s) \/ LeaseRequest(s) PROVE WorkInv'
    BY <2>1, <2>2, <2>5 DEF Open, LeaseRequest, bvars
  <2>6. ASSUME NEW s \in Session, Close(s) PROVE WorkInv'
    BY <2>1, <2>2, <2>6 DEF Close
  <2>7. ASSUME NEW s \in Session, Receive(s) PROVE WorkInv'
    BY <1>1, <1>3, <2>7, ReceiveWork
  <2>8. ASSUME NEW r \in Requests, Timeout(r) PROVE WorkInv'
    BY <1>1, <1>3, <2>8, TimeoutWork
  <2>9. ASSUME NEW r \in Requests, Execute(r) PROVE WorkInv'
    BY <1>1, <1>3, <2>9, ExecuteWork
  <2>10. ASSUME NEW r \in Requests, Respond(r) PROVE WorkInv'
    BY <1>1, <1>3, <2>10, RespondWork
  <2>11. ASSUME NEW valid \in Hellos, Hello(valid) PROVE WorkInv'
    BY <2>1, <2>11, BridgeAssumption DEF Hello
  <2>12. ASSUME Tick PROVE WorkInv'
    <3>1. /\ \A e \in completed' : Entry(e)
          /\ \A k : Remembered(completed', k) => Remembered(completed, k)
      BY <2>2, <2>12, AgedLess DEF Tick
    <3> QED BY <1>1, <1>3, <2>2, <2>12, <3>1, RequestsKept DEF Tick
  <2>13. ASSUME UNCHANGED vars PROVE WorkInv'
    BY <2>1, <2>2, <2>13 DEF vars, bvars
  <2>14. WorkInv'
    BY <1>2, <1>1, RestartWork, <2>3, <2>4, <2>5, <2>6, <2>7, <2>8, <2>9, <2>10, <2>11,
       <2>12, <2>13 DEF Next, Reaction, Event
  <2> QED BY <1>1, <2>14 DEF Inv, WorkInv
<1> QED BY <1>1, <1>2, <1>3

\* The invariant holds in every reachable state.
LEMMA Invariance == Spec => []Inv
  BY InitInv, StepInv, PTL DEF Spec

-----------------------------------------------------------------------------
(* What follows from it.                                                   *)

\* Every variable has its type, a settled request has an outcome, and the queue
\* of a tab holds exactly the unsettled writes to it (runTabWrite).
THEOREM TypeCorrect == Spec => []TypeOK
<1>1. Inv => TypeOK
  <2> SUFFICES ASSUME Inv PROVE TypeOK
    OBVIOUS
  <2>1. P!IInv /\ closed \subseteq Session /\ closed \intersect sessions = {}
        /\ Recordings(recording)
    BY DEF Inv, TableInv
  <2>2. C!TypeOK
    <3>1. C!Lease = P!Lease /\ C!Conflict = P!Conflict
      BY DEF C!Lease, P!Lease, C!Conflict, P!Conflict, C!Resource, P!Resource
    <3> QED BY <2>1, <3>1 DEF C!TypeOK, P!IInv, P!Sound, P!IdsBelow
  <2>3. \A r \in Requests : req[r] \in Request /\ Coherent(req[r])
    BY RequestTypes DEF Inv
  <2>4. ASSUME NEW r \in Requests
        PROVE  /\ req[r].session \in Session /\ req[r].action \in Action /\ req[r].key \in Key
               /\ req[r].tab \in Tab \union {NoTab}
               /\ req[r].phase \in {"joined", "queued", "sent", "settling", "answered", "lost"}
               /\ req[r].browser \in {"none", "sent", "executing", "refusing", "done", "gone"}
               /\ req[r].outcome \in Errors \union {"ok", "none"}
               /\ req[r].phase \in {"settling", "answered"} => req[r].outcome # "none"
    BY <2>3 DEF Request, Coherent
  <2>5. ASSUME NEW t \in Tab
        PROVE  {queue[t][i] : i \in 1..Len(queue[t])} =
                 {r \in Requests : /\ req[r].tab = t /\ Queued(req[r].action, t)
                                   /\ req[r].phase \in {"queued", "sent"}}
    BY DEF Inv, QueueInv, QueueOf, Waits, Unsettled
  <2>6. \A e \in completed : e.outcome \in Errors \union {"ok"}
    BY DEF Inv, CacheInv, Entry
  <2>7. recorder \subseteq Requests /\ ready \in BOOLEAN
    BY DEF Inv, ReqInv
  <2> QED BY <2>1, <2>2, <2>4, <2>5, <2>6, <2>7 DEF TypeOK, Recordings
<1> QED BY <1>1, Invariance, PTL

\* Two writes to a tab are executed at once only when the first has an unknown
\* outcome or was left by a bridge that died (runTabWrite, the timer of a
\* pending request and the native channel's end).
THEOREM Overlap == Spec => []OverlapOnlyAfterUnknown
<1>1. Inv => OverlapOnlyAfterUnknown
  <2> SUFFICES ASSUME Inv, NEW r1 \in Requests, NEW r2 \in Requests, r1 < r2,
                      req[r1].tab = req[r2].tab,
                      \A r \in {r1, r2} : /\ req[r].browser = "executing"
                                          /\ Queued(req[r].action, req[r].tab)
               PROVE  req[r1].outcome = "UNKNOWN_OUTCOME" \/ req[r1].phase = "lost"
    BY DEF OverlapOnlyAfterUnknown
  <2>1. req[r1] \in Request /\ Coherent(req[r1])
    BY RequestTypes DEF Inv
  <2>2. req[r1].phase \notin Unsettled
    BY DEF Inv, OrderInv, Write
  <2> QED BY <2>1, <2>2 DEF Request, Coherent, Write, Unsettled, Queued, TimeoutOutcome
<1> QED BY <1>1, Invariance, PTL

\* Writes of a tab come to the extension in the order in which they were admitted:
\* as long as one is unsettled no later one has been sent (runTabWrite).
THEOREM InOrder == Spec => []OrderInv
<1>1. Inv => OrderInv
  BY DEF Inv
<1> QED BY <1>1, Invariance, PTL

\* One request of a key is under way and none of a remembered key, a duplicate
\* waits for the one under way, and the extension executes two of a key at once
\* only when the first was given up (handleBrowserRequest's idempotencyCompleted
\* and idempotencyInFlight, the timer of a pending request).
THEOREM OneExecution == Spec => []OneExecutionPerKey
<1>1. Inv => OneExecutionPerKey
  <2> SUFFICES ASSUME Inv PROVE OneExecutionPerKey
    OBVIOUS
  <2>1. Running = {r \in Requests : req[r].phase \in InFlight}
    BY DEF Running, InFlight, Unsettled
  <2>2. \A r \in Running : ~Remembered(completed, KeyOf(req[r])) /\ Leaders(KeyOf(req[r])) = {r}
    BY DEF Inv, CacheInv, Leaders
  <2>3. \A d \in Requests : req[d].phase = "joined" => Leaders(KeyOf(req[d])) # {}
    BY <2>1 DEF Inv, KeyInv, Leaders
  <2>4. ASSUME NEW r1 \in Requests, NEW r2 \in Requests, r1 < r2,
               KeyOf(req[r1]) = KeyOf(req[r2]),
               \A r \in {r1, r2} : req[r].browser = "executing"
        PROVE  req[r1].outcome = TimeoutOutcome(req[r1].action) \/ req[r1].phase = "lost"
    <3>1. req[r1] \in Request /\ Coherent(req[r1])
      BY RequestTypes DEF Inv
    <3>2. req[r1].phase \notin InFlight
      BY <2>4 DEF Inv, KeyInv
    <3> QED BY <2>4, <3>1, <3>2 DEF Request, Coherent, InFlight, Unsettled
  <2> QED BY <2>2, <2>3, <2>4 DEF OneExecutionPerKey
<1> QED BY <1>1, Invariance, PTL

\* A write in the extension's hands is older than any lease of another agent on
\* its tab (coordinateBrowserRequest in enforce mode).
THEOREM YoungerLeases == Spec => []OnlyYoungerLeases
<1>1. Inv => OnlyYoungerLeases
  <2> SUFFICES ASSUME Inv, Mode = "enforce", NEW r \in Requests,
                      Queued(req[r].action, req[r].tab),
                      \/ req[r].phase \in {"queued", "sent"}
                      \/ req[r].phase # "lost" /\ req[r].browser = "executing",
                      NEW l \in C!OthersOn(C!Live(leases), req[r].session, req[r].tab)
               PROVE  l.id >= req[r].epoch
    BY DEF OnlyYoungerLeases
  <2>1. Exposed(req[r])
    BY DEF Exposed, Write, Unsettled
  <2>2. Young(leases, req[r])
    BY <2>1 DEF Inv, YoungInv
  <2> QED BY <2>2 DEF Young, C!OthersOn, C!On, C!Live
<1> QED BY <1>1, Invariance, PTL

\* Every lease on the recorder belongs to a recording the bridge knows of
\* (acquireRecordingLeases and releaseRecordingLeases).
THEOREM RecorderAccounted == Spec => []RecorderLeaseAccounted
<1>1. Inv => RecorderLeaseAccounted
  BY DEF Inv, TableInv, Accounted, RecorderLeaseAccounted, C!On, C!Live
<1> QED BY <1>1, Invariance, PTL

\* Requests are numbered from 1.
LEMMA Numbered == ASSUME ReqInv PROVE Requests = DOMAIN req
  BY LenProperties DEF ReqInv, Requests

\* An event waits until every promise reaction has run.
LEMMA EventWaits == Event => Quiet
<1>1. ASSUME NEW s \in Session, Receive(s) PROVE Quiet
  BY <1>1 DEF Receive, AnswerFromCache, Join, Handle, Refuse, ForwardNow, Enqueue, Prepare,
     Arrives
<1>2. ASSUME NEW s \in Session, Open(s) \/ Close(s) \/ LeaseRequest(s) PROVE Quiet
  BY <1>2 DEF Open, Close, LeaseRequest
<1>3. ASSUME NEW r \in Requests, Timeout(r) \/ Execute(r) \/ Respond(r) PROVE Quiet
  BY <1>3 DEF Timeout, Execute, Respond
<1>4. ASSUME NEW valid \in Hellos, Hello(valid) PROVE Quiet
  BY <1>4 DEF Hello
<1>5. Tick \/ Restart => Quiet
  BY DEF Tick, Restart
<1> QED BY <1>1, <1>2, <1>3, <1>4, <1>5 DEF Event

\* What a reaction does to the requests.
LEMMA StartWriteTouches ==
    ASSUME NEW t \in Tab, StartWrite(t)
    PROVE  /\ DOMAIN req' = DOMAIN req
           /\ req[Head(queue[t])].phase = "queued"
           /\ \A r \in DOMAIN req : r # Head(queue[t]) => req'[r] = req[r]
  BY DEF StartWrite, Startable

\* The end of a request answers it and its duplicates, and nobody else.
LEMMA ConcludeTouches ==
    ASSUME ReqInv, NEW r \in Requests, Conclude(r)
    PROVE  /\ DOMAIN req' = Requests
           /\ req[r].phase = "settling" /\ req'[r].outcome = req[r].outcome
           /\ \A d \in Requests : d # r /\ req[d].phase # "joined" => req'[d] = req[d]
<1> DEFINE ended == {d \in Requests : req[d].phase = "joined" /\ KeyOf(req[d]) = KeyOf(req[r])}
                      \union {r}
           Ended(d) == [req[d] EXCEPT !.phase = "answered", !.outcome = req[r].outcome]
<1>1. /\ req[r].phase = "settling"
      /\ req' = [d \in Requests |-> IF d \in ended THEN Ended(d) ELSE req[d]]
  BY DEF Conclude
<1>2. req[r] \in Request
  BY RequestTypes
<1>3. r \in ended /\ \A d \in Requests : d # r /\ req[d].phase # "joined" => d \notin ended
  OBVIOUS
<1> HIDE DEF ended
<1>4. req'[r] = Ended(r)
  BY <1>1, <1>3
<1>5. Ended(r).outcome = req[r].outcome
  BY <1>2 DEF Request
<1> QED BY <1>1, <1>3, <1>4, <1>5

\* An answer is given once: neither a late response nor a duplicate nor a
\* restart changes it (handlePipeRequest, handleNativeMessage).
THEOREM AnswerStays == Spec => AnswerIsFinal
<1> DEFINE Stays == \A r \in Requests : req[r].phase = "answered" =>
                       /\ r \in Requests' /\ req'[r].phase = "answered"
                       /\ req'[r].outcome = req[r].outcome
<1>1. Inv /\ Inv' /\ [Next]_vars => Stays
  <2> SUFFICES ASSUME Inv, Inv', [Next]_vars, NEW r \in Requests, req[r].phase = "answered"
               PROVE  /\ r \in Requests' /\ req'[r].phase = "answered"
                      /\ req'[r].outcome = req[r].outcome
    OBVIOUS
  <2>1. /\ Requests = DOMAIN req /\ Requests' = DOMAIN req' /\ req \in Seq(Request)
        /\ \A d \in Requests : req[d] \in Request
    <3>1. req \in Seq(Request) /\ req' \in Seq(Request)
      BY DEF Inv, ReqInv
    <3>2. Requests = DOMAIN req /\ Requests' = DOMAIN req'
      BY <3>1, LenProperties DEF Requests
    <3> QED BY <3>1, <3>2, RequestTypes DEF Inv
  <2>2. ASSUME r \in DOMAIN req', req'[r] = req[r]
        PROVE  /\ r \in Requests' /\ req'[r].phase = "answered"
               /\ req'[r].outcome = req[r].outcome
    BY <2>1, <2>2
  <2>3. ASSUME NEW q, req' = Append(req, q) PROVE r \in DOMAIN req' /\ req'[r] = req[r]
    BY <2>1, <2>3 DEF Requests
  <2>4. ASSUME NEW t \in Tab, StartWrite(t) PROVE r \in DOMAIN req' /\ req'[r] = req[r]
    BY <2>1, <2>4, StartWriteTouches
  <2>5. ASSUME NEW d \in Requests, Conclude(d) PROVE r \in DOMAIN req' /\ req'[r] = req[r]
    BY <2>5, ConcludeTouches DEF Inv
  <2>6. ASSUME NEW s \in Session, Open(s) \/ Close(s) \/ LeaseRequest(s)
        PROVE  r \in DOMAIN req' /\ req'[r] = req[r]
    BY <2>1, <2>6 DEF Open, Close, LeaseRequest, bvars
  <2>7. ASSUME NEW s \in Session, Receive(s) PROVE r \in DOMAIN req' /\ req'[r] = req[r]
    BY <2>3, <2>7 DEF Receive, AnswerFromCache, Join, Handle, Refuse, ForwardNow, Enqueue
  <2>8. ASSUME NEW d \in Requests, Timeout(d) PROVE r \in DOMAIN req' /\ req'[r] = req[r]
    BY <2>1, <2>8 DEF Timeout
  <2>9. ASSUME NEW d \in Requests, Execute(d) \/ Respond(d)
        PROVE  /\ r \in Requests' /\ req'[r].phase = "answered"
               /\ req'[r].outcome = req[r].outcome
    <3>1. PICK state \in {"executing", "refusing", "done"} :
            \/ req' = [req EXCEPT ![d].browser = state]
            \/ /\ req[d].phase = "sent"
               /\ \E outcome : req' = [[req EXCEPT ![d].browser = state]
                                         EXCEPT ![d].phase = "settling", ![d].outcome = outcome]
      BY <2>9 DEF Execute, Respond, Heard
    <3>2. /\ [req[d] EXCEPT !.browser = state].phase = req[d].phase
          /\ [req[d] EXCEPT !.browser = state].outcome = req[d].outcome
      BY <2>1 DEF Request
    <3>3. CASE d # r
      BY <2>1, <3>1, <3>3
    <3>4. CASE d = r
      <4>1. req' = [req EXCEPT ![r].browser = state]
        BY <3>1, <3>4
      <4>2. r \in DOMAIN req' /\ req'[r] = [req[r] EXCEPT !.browser = state]
        BY <2>1, <4>1
      <4> QED BY <2>1, <3>2, <3>4, <4>2
    <3> QED BY <3>3, <3>4
  <2>10. ASSUME NEW valid, Hello(valid) \/ Tick PROVE r \in DOMAIN req' /\ req'[r] = req[r]
    BY <2>1, <2>10 DEF Hello, Tick
  <2>11. ASSUME Restart
         PROVE  /\ r \in Requests' /\ req'[r].phase = "answered"
                /\ req'[r].outcome = req[r].outcome
    <3> DEFINE Left(b) == [req[r] EXCEPT
                  !.phase = IF @ \in {"answered", "lost"} THEN @ ELSE "lost",
                  !.epoch = 0,
                  !.browser = IF b /\ @ \in {"sent", "executing", "refusing"} THEN "gone" ELSE @]
    <3>1. PICK b \in BOOLEAN : DOMAIN req' = Requests /\ req'[r] = Left(b)
      BY <2>11 DEF Restart
    <3>2. Left(b).phase = "answered" /\ Left(b).outcome = req[r].outcome
      BY <2>1 DEF Request
    <3> HIDE DEF Left
    <3> QED BY <2>1, <3>1, <3>2
  <2>12. CASE UNCHANGED vars
    BY <2>1, <2>2, <2>12 DEF vars, bvars
  <2> QED BY <2>2, <2>4, <2>5, <2>6, <2>7, <2>8, <2>9, <2>10, <2>11, <2>12
          DEF Next, Reaction, Event
<1> QED BY <1>1, Invariance, StepInv, PTL DEF Spec, AnswerIsFinal

-----------------------------------------------------------------------------
(* What the agents may rely on.                                            *)

\* The lease tools and the sockets serve the session they belong to.
LEMMA SessionServes ==
    ASSUME TableInv, NEW s \in Session, Open(s) \/ Close(s) \/ LeaseRequest(s)
    PROVE  Serves(s)
<1>0. /\ leases \subseteq P!Lease /\ Ttl \subseteq Lifetimes
      /\ P!Live(leases) \subseteq P!Lease
  BY DEF TableInv, P!IInv, P!Sound, P!Live, Lifetimes
<1>1. P!OwnWork(s, Lifetimes, leases, P!Live(leases)) /\ C!Live(leases) = P!Live(leases)
  BY DEF P!OwnWork, P!Live, C!Live
<1>2. CASE Open(s) \/ Close(s) \/ C!Touch \/ \E id : C!Release(s, id)
  <2>1. /\ leases' \in SUBSET P!Live(leases)
        /\ \A k \in P!Live(leases) \ leases' : k.owner = s
    BY <1>1, <1>2 DEF Open, Close, C!Connect, C!Disconnect, C!AfterDisconnect, C!Touch,
       C!Release, C!AfterRelease
  <2> QED BY <1>1, <2>1, P!OwnWorkLess, Assumed DEF C!CoordinatorAssumption, Serves
<1>3. ASSUME NEW r, NEW ttl \in Ttl, C!Acquire(s, r, ttl) PROVE Serves(s)
  <2>1. leases' = P!AfterAcquire(P!Live(leases), nextLease, s, r, ttl)
    BY <1>1, <1>3, SameTables DEF C!Acquire
  <2>2. /\ \A k \in leases' : k \in P!Live(leases) \/ (k.owner = s /\ k.left = ttl)
        /\ \A l \in P!Live(leases) : l.owner # s => l \in leases'
    BY <1>0, <2>1, AcquireTouches
  <2> QED BY <1>0, <2>2 DEF Serves, P!OwnWork, P!Live
<1>4. ASSUME NEW id, NEW ttl \in Ttl, C!Renew(s, id, ttl) PROVE Serves(s)
  <2> DEFINE mine == {l \in P!Live(leases) : l.id = id /\ l.owner = s}
  <2>1. leases' = P!Extend(P!Live(leases), mine, ttl)
    BY <1>1, <1>4 DEF C!Renew, C!Extend, P!Extend
  <2>2. mine \in SUBSET {l \in P!Live(leases) : l.owner = s}
    OBVIOUS
  <2> HIDE DEF mine
  <2> QED BY <1>0, <2>1, <2>2, P!ExtendIsOwnWork, Assumed DEF C!CoordinatorAssumption, Serves
<1> QED BY <1>2, <1>3, <1>4 DEF LeaseRequest

\* Every step serves one session, or it is the clock's, or the bridge dies.
LEMMA StepServes ==
    ASSUME Inv, [Next]_vars
    PROVE  \/ UNCHANGED leases
           \/ \E s \in Session : Serves(s)
           \/ leases' = {P!Aged(l) : l \in leases}
           \/ MayRestart /\ Restart
<1>1. ASSUME NEW s \in Session, Receive(s) PROVE UNCHANGED leases \/ Serves(s)
  <2>1. PICK action \in Action, tab \in Tab \union {NoTab}, key \in Key :
            \/ AnswerFromCache(s, action, tab, key)
            \/ Join(s, action, tab, key)
            \/ Handle(s, action, Target(s, action, tab), key,
                      Admission(s, action, Target(s, action, tab)))
    BY <1>1 DEF Receive
  <2>2. CASE AnswerFromCache(s, action, tab, key) \/ Join(s, action, tab, key)
    BY <2>2 DEF AnswerFromCache, Join, cvars
  <2>3. CASE Handle(s, action, Target(s, action, tab), key,
                    Admission(s, action, Target(s, action, tab)))
    <3> DEFINE t == Target(s, action, tab)
    <3>1. Prepare(s, action, t, key, Admission(s, action, t))
      BY <2>3 DEF Handle, Refuse, ForwardNow, Enqueue
    <3>2. t \in Tab \union {NoTab}
      BY <3>1, TargetType DEF Prepare, Arrives, Inv
    <3> HIDE DEF t
    <3> QED BY <3>1, <3>2, PrepareTable DEF Inv
  <2> QED BY <2>1, <2>2, <2>3
<1>2. ASSUME NEW r \in Requests, Conclude(r) PROVE \E s \in Session : Serves(s)
  <2>1. req[r].session \in Session /\ req[r].tab \in Tab \union {NoTab}
    BY RequestTypes DEF Inv, Request
  <2> QED BY <1>2, <2>1, ConcludeTable DEF Inv
<1>3. ASSUME NEW t \in Tab, StartWrite(t) PROVE UNCHANGED leases
  BY <1>3 DEF StartWrite, cvars
<1>4. ASSUME NEW r \in Requests, Timeout(r) \/ Execute(r) \/ Respond(r) PROVE UNCHANGED leases
  BY <1>4 DEF Timeout, Execute, Respond, cvars
<1>5. ASSUME NEW valid, Hello(valid) PROVE UNCHANGED leases
  BY <1>5 DEF Hello, cvars
<1>6. ASSUME Tick PROVE leases' = {P!Aged(l) : l \in leases}
  BY <1>6 DEF Tick, C!Tick, C!Aged, P!Aged
<1>7. CASE UNCHANGED vars
  BY <1>7 DEF vars, cvars
<1>8. ASSUME NEW s \in Session, Open(s) \/ Close(s) \/ LeaseRequest(s) PROVE Serves(s)
  BY <1>8, SessionServes DEF Inv
<1> QED BY <1>1, <1>2, <1>3, <1>4, <1>5, <1>6, <1>7, <1>8 DEF Next, Reaction, Event

\* The holders are the same in both instances.
LEMMA SameHolders ==
    /\ C!Resource = P!Resource
    /\ \A ls, r : R!HolderIn(ls, r) = P!HolderIn(ls, r) /\ R!LeftIn(ls, r) = P!LeftIn(ls, r)
  BY DEF C!Resource, P!Resource, R!HolderIn, P!HolderIn, R!LeftIn, P!LeftIn, R!On, P!On,
         R!LeaseOn, P!LeaseOn

\* A new bridge has leased nothing.
LEMMA PromiseInit == Init => Promise!Init
  BY DEF Init, C!Init, Promise!Init, R!HolderIn, R!LeftIn, R!On

\* Each step of the bridge is a step of the service.
LEMMA PromiseStep ==
    ASSUME Mode = "enforce", Inv, Inv', [Next]_vars
    PROVE  [Promise!Next \/ (MayRestart /\ Restart)]_(Promise!avars)
<1>1. P!Sound(leases, sessions) /\ P!Sound(leases', sessions')
  BY DEF Inv, TableInv, P!IInv
<1>2. CASE UNCHANGED leases
  BY <1>2 DEF Promise!avars
<1>3. CASE leases' = {P!Aged(l) : l \in leases}
  <2>1. \A r \in P!Resource :
          /\ P!HolderIn(leases', r) = P!HolderIn(leases, r)
          /\ P!LeftIn(leases', r) = IF P!LeftIn(leases, r) > 0
                                     THEN P!LeftIn(leases, r) - 1 ELSE 0
    BY <1>1, <1>3, P!AgedMapping, Assumed DEF C!CoordinatorAssumption
  <2> QED BY <2>1, SameHolders DEF Promise!Next, Promise!Elapse
<1>4. ASSUME NEW s \in Session, Serves(s) PROVE Promise!Serve(s)
  <2>1. \A r \in P!Resource :
          /\ P!HolderIn(leases', r) \in Session \union {Nobody}
          /\ P!LeftIn(leases', r) \in Nat
    BY <1>1, P!MappingOfTable, Assumed DEF C!CoordinatorAssumption
  <2>2. \A r \in P!Resource :
          \/ /\ P!HolderIn(leases', r) = P!HolderIn(leases, r)
             /\ P!LeftIn(leases', r) = P!LeftIn(leases, r)
          \/ /\ P!LeftIn(leases, r) = 0
             /\ P!HolderIn(leases', r) = Nobody
             /\ P!LeftIn(leases', r) = 0
          \/ /\ P!LeftIn(leases, r) = 0 \/ P!HolderIn(leases, r) = s
             /\ P!HolderIn(leases', r) = s
             /\ P!LeftIn(leases', r) \in Lifetimes
          \/ /\ P!HolderIn(leases, r) = s
             /\ P!HolderIn(leases', r) = Nobody
             /\ P!LeftIn(leases', r) = 0
    BY <1>1, <1>4, P!OwnWorkIsServe, Assumed DEF C!CoordinatorAssumption, Serves
  <2> QED BY <2>1, <2>2, SameHolders DEF Promise!Serve, Promise!Keep, Promise!Lapse, Promise!Hold,
             Promise!GiveUp
<1> QED BY <1>2, <1>3, <1>4, StepServes DEF Promise!Next

\* In enforce mode every step of the bridge is one of ExclusiveLease, whatever
\* handlers do to the table, until the bridge dies: no request, recording,
\* quarantine or closed socket of one agent ends or shortens what another
\* agent holds and has time left on.
THEOREM LeasesAreKept == Mode = "enforce" /\ Spec => LeasesKept
<1> SUFFICES ASSUME Mode = "enforce" PROVE Spec => LeasesKept
  OBVIOUS
<1>1. Init => Promise!Init
  BY PromiseInit
<1>2. Inv /\ Inv' /\ [Next]_vars => [Promise!Next \/ (MayRestart /\ Restart)]_(Promise!avars)
  BY PromiseStep
<1> QED BY <1>1, <1>2, Invariance, PTL DEF Spec, LeasesKept

\* In enforce mode no tab, nor the recorder, is leased to two agents at a time
\* (acquire, quarantineTab and the handlers that call them).
THEOREM Exclusive == Spec => []EnforceExclusive
<1>1. Inv => EnforceExclusive
  BY DEF Inv, TableInv, P!IInv, P!Sound, EnforceExclusive, C!EnforceExclusive
<1> QED BY <1>1, Invariance, PTL

\* A bridge that is never restarted implements ExclusiveLease.
THEOREM Implementation == Mode = "enforce" /\ ~MayRestart /\ Spec => Promise!Spec
<1> SUFFICES ASSUME Mode = "enforce", ~MayRestart PROVE Spec => Promise!Spec
  OBVIOUS
<1>1. Init => Promise!Init
  BY PromiseInit
<1>2. Inv /\ Inv' /\ [Next]_vars => [Promise!Next]_(Promise!avars)
  <2> SUFFICES ASSUME Inv, Inv', [Next]_vars PROVE [Promise!Next]_(Promise!avars)
    OBVIOUS
  <2> QED BY PromiseStep
<1> QED BY <1>1, <1>2, Invariance, PTL DEF Spec, Promise!Spec

\* An unknown outcome quarantines the tab of a connected client, unless somebody
\* else holds an active lease there (handleBrowserRequest's catch, quarantineTab).
THEOREM UnknownQuarantines == Spec => UnknownOutcomeQuarantines
<1> DEFINE Safe == \A r \in Requests :
              /\ Concluded(r, "UNKNOWN_OUTCOME")
              /\ req[r].tab # NoTab
              /\ req[r].session \in sessions
              /\ C!Active(C!OthersOn(C!Live(leases), req[r].session, req[r].tab)) = {}
              => C!Quarantined(C!On(leases', req[r].tab)) # {}
<1>1. Inv /\ [Next]_vars => Safe
  <2> SUFFICES ASSUME Inv, [Next]_vars, NEW r \in Requests,
                      Concluded(r, "UNKNOWN_OUTCOME"),
                      req[r].tab # NoTab,
                      req[r].session \in sessions,
                      C!Active(C!OthersOn(C!Live(leases), req[r].session, req[r].tab)) = {}
               PROVE  C!Quarantined(C!On(leases', req[r].tab)) # {}
    OBVIOUS
  <2>1. /\ req[r].phase = "settling" /\ req'[r].phase = "answered"
        /\ req'[r].outcome = "UNKNOWN_OUTCOME"
    BY DEF Concluded
  <2>2. ~Event
    BY <2>1, EventWaits DEF Quiet
  <2>3. ~UNCHANGED vars
    BY <2>1 DEF vars, bvars
  <2>4. ASSUME NEW t \in Tab, StartWrite(t) PROVE FALSE
    BY <2>1, <2>4, StartWriteTouches, Numbered DEF Inv
  <2>5. PICK d \in Requests : Conclude(d)
    BY <2>2, <2>3, <2>4 DEF Next, Reaction
  <2>6. d = r /\ req[r].outcome = "UNKNOWN_OUTCOME"
    BY <2>1, <2>5, ConcludeTouches DEF Inv
  <2>7. req[r].tab \in Tab \union {NoTab}
    BY RequestTypes DEF Inv, Request
  <2> QED BY <2>5, <2>6, <2>7, ConcludeTable DEF Inv
<1> QED BY <1>1, Invariance, PTL DEF Spec, UnknownOutcomeQuarantines
=============================================================================
