------------------------- MODULE CoordinatorProofs -------------------------
(***************************************************************************)
(* Machine-checked proofs about the coordinator, for any sessions, tabs,   *)
(* lifetimes and mode.  The inductive invariant is the soundness of the    *)
(* lease table, a predicate over the table as data: each helper that       *)
(* computes a new table is shown to preserve it once, and each method of   *)
(* the class then follows.                                                 *)
(***************************************************************************)
EXTENDS CoordinatorRefinement, SequenceTheorems, TLAPS

\* A table ls is sound for the connected sessions ss.
Sound(ls, ss) ==
    /\ ls \subseteq Lease
    /\ Mode = "enforce" => \A l, m \in ls : l.resource = m.resource => l = m
    /\ \A l, m \in ls : l.resource = m.resource /\ l.owner = m.owner => l = m
    /\ \A l, m \in ls : l.resource = m.resource /\ l.state = "quarantined" => l = m
    /\ \A l \in ls : l.state = "active" => l.owner \in ss
    /\ \A l \in ls : l.state = "quarantined" => l.resource \in Tab
    /\ \A l, m \in ls : l.id = m.id => l = m

\* Every id in the table is below the next one.
IdsBelow(ls, n) == \A l \in ls : l.id < n

IInv ==
    /\ sessions \subseteq Session
    /\ defaultTab \in [Session -> Tab \union {NoTab}]
    /\ nextLease \in Nat \ {0}
    /\ history \in Seq(Conflict)
    /\ Sound(leases, sessions)
    /\ IdsBelow(leases, nextLease)

-----------------------------------------------------------------------------
(* Lemmas about the helpers over a table.                                  *)

\* Deleting leases keeps a table sound, as long as no session is lost that
\* owns an active lease that stays.
LEMMA ShrinkSound ==
    ASSUME NEW ls, NEW ss, NEW ks \in SUBSET ls, NEW tt, Sound(ls, ss),
           \A l \in ks : l.state = "active" => l.owner \in tt
    PROVE  Sound(ks, tt)
  BY DEF Sound

\* Giving leases more or less time changes nothing else.
LEMMA ExtendSound ==
    ASSUME NEW ls, NEW ss, Sound(ls, ss), NEW some \in SUBSET ls, NEW ttl \in Nat
    PROVE  /\ Sound(Extend(ls, some, ttl), ss)
           /\ \A n \in Nat : IdsBelow(ls, n) => IdsBelow(Extend(ls, some, ttl), n)
<1> DEFINE new == Extend(ls, some, ttl)
<1>1. \A k \in new : \E l \in ls :
        /\ k = l \/ (l \in some /\ k = [l EXCEPT !.left = ttl])
        /\ l \in some => k = [l EXCEPT !.left = ttl]
  BY DEF Extend
<1>2. \A k \in new : \E l \in ls :
        /\ k \in Lease /\ l \in Lease
        /\ k.id = l.id /\ k.resource = l.resource /\ k.owner = l.owner /\ k.state = l.state
        /\ l \in some => k = [l EXCEPT !.left = ttl]
        /\ l \notin some => k = l
  BY <1>1 DEF Sound, Lease
<1>3. Sound(new, ss)
  <2>1. new \subseteq Lease
    BY <1>2
  <2>2. \A l \in new : l.state = "active" => l.owner \in ss
    BY <1>2 DEF Sound
  <2>3. Mode = "enforce" => \A l, m \in new : l.resource = m.resource => l = m
    BY <1>2 DEF Sound
  <2>4. \A l, m \in new : l.resource = m.resource /\ l.owner = m.owner => l = m
    BY <1>2 DEF Sound
  <2>5. \A l, m \in new : l.resource = m.resource /\ l.state = "quarantined" => l = m
    BY <1>2 DEF Sound
  <2>6. \A l, m \in new : l.id = m.id => l = m
    BY <1>2 DEF Sound
  <2>7. \A l \in new : l.state = "quarantined" => l.resource \in Tab
    BY <1>2 DEF Sound
  <2> QED BY <2>1, <2>2, <2>3, <2>4, <2>5, <2>6, <2>7 DEF Sound
<1>4. \A n \in Nat : IdsBelow(ls, n) => IdsBelow(new, n)
  BY <1>2 DEF IdsBelow
<1> QED BY <1>3, <1>4

\* Time passing is an extension of every lease, with its own time left.
LEMMA AgedSound ==
    ASSUME NEW ls, NEW ss, Sound(ls, ss)
    PROVE  /\ Sound({Aged(l) : l \in ls}, ss)
           /\ \A n \in Nat : IdsBelow(ls, n) => IdsBelow({Aged(l) : l \in ls}, n)
<1> DEFINE new == {Aged(l) : l \in ls}
<1>1. \A k \in new : \E l \in ls : k = Aged(l) /\ l \in Lease
  BY DEF Sound
<1>2. \A l \in Lease : Aged(l) \in Lease /\ Aged(l).id = l.id
        /\ Aged(l).resource = l.resource /\ Aged(l).owner = l.owner /\ Aged(l).state = l.state
  BY DEF Aged, Lease
<1>3. \A k \in new : \E l \in ls :
        /\ k \in Lease /\ k = Aged(l)
        /\ k.id = l.id /\ k.resource = l.resource /\ k.owner = l.owner /\ k.state = l.state
  BY <1>1, <1>2
<1> HIDE DEF new
<1>4. Sound(new, ss)
  BY <1>3 DEF Sound
<1>5. \A n \in Nat : IdsBelow(ls, n) => IdsBelow(new, n)
  BY <1>3 DEF IdsBelow
<1> QED BY <1>4, <1>5 DEF new
-----------------------------------------------------------------------------
(* The two helpers that add a lease to a table.                            *)

\* acquire: a fresh active lease is added only beside nobody's lease (enforce),
\* or beside active leases of others (observe and off).
LEMMA AcquireSound ==
    ASSUME NEW ls, NEW ss, Sound(ls, ss), NEW n \in Nat, IdsBelow(ls, n),
           NEW s \in ss, s \in Session, NEW r \in Resource, NEW ttl \in Nat
    PROVE  LET next == AfterAcquire(ls, n, s, r, ttl)
           IN  /\ Sound(next, ss)
               /\ IdsBelow(next, IF AcquireResult(ls, s, r) = "granted" THEN n + 1 ELSE n)
<1> DEFINE result == AcquireResult(ls, s, r)
           new == NewLease(n, s, r, "active", ttl)
<1>1. CASE result = "extended"
  <2>1. AfterAcquire(ls, n, s, r, ttl) = Extend(ls, OwnOn(ls, s, r), ttl)
    BY <1>1 DEF AfterAcquire
  <2>2. OwnOn(ls, s, r) \in SUBSET ls
    BY DEF OwnOn, On
  <2> QED BY <1>1, <2>1, <2>2, ExtendSound
<1>2. CASE result = "granted"
  <2>1. AfterAcquire(ls, n, s, r, ttl) = ls \union {new}
    BY <1>2 DEF AfterAcquire
  <2>2. /\ OwnOn(ls, s, r) = {}
        /\ Quarantined(On(ls, r)) = {}
        /\ Mode = "enforce" => On(ls, r) = {}
    BY <1>2 DEF AcquireResult
  <2>3. /\ new \in Lease /\ new.resource = r /\ new.owner = s
        /\ new.state = "active" /\ new.id = n
    BY DEF NewLease, Lease
  <2> HIDE DEF new
  <2>4. /\ \A l \in ls : ~(l.resource = r /\ l.owner = s) /\ l.id # n
        /\ \A l \in ls : ~(l.resource = r /\ l.state = "quarantined")
        /\ Mode = "enforce" => \A l \in ls : l.resource # r
    BY <2>2 DEF OwnOn, On, Quarantined, IdsBelow
  <2>5. Sound(ls \union {new}, ss)
    BY <2>3, <2>4 DEF Sound
  <2>6. IdsBelow(ls \union {new}, n + 1)
    BY <2>3 DEF IdsBelow, Sound, Lease
  <2> QED BY <1>2, <2>1, <2>5, <2>6
<1>3. CASE result \notin {"extended", "granted"}
  BY <1>3 DEF AfterAcquire
<1> QED BY <1>1, <1>2, <1>3

\* quarantineTab: a tab leased to another active agent is left alone, so the
\* quarantine is the only lease on its tab.
LEMMA QuarantineSound ==
    ASSUME NEW ls, NEW ss, Sound(ls, ss), NEW n \in Nat, IdsBelow(ls, n),
           NEW s \in ss, s \in Session, NEW t \in Tab
    PROVE  LET next == AfterQuarantine(ls, n, s, t)
           IN  /\ Sound(next, ss)
               /\ IdsBelow(next, IF QuarantineResult(ls, s, t) = "created" THEN n + 1 ELSE n)
<1> DEFINE result == QuarantineResult(ls, s, t)
           new == NewLease(n, s, t, "quarantined", QuarantineTtl)
           own == OwnOn(ls, s, t)
           next == AfterQuarantine(ls, n, s, t)
<1>1. CASE result = "converted"
  <2>1. next = Rewrite(ls, own, "quarantined", QuarantineTtl)
    BY <1>1 DEF AfterQuarantine
  <2>2. Active(OthersOn(ls, s, t)) = {} /\ own # {}
    BY <1>1 DEF QuarantineResult
  <2>3. \A l \in ls : l.resource = t => l \in own
    <3> SUFFICES ASSUME NEW l \in ls, l.resource = t, l \notin own
                 PROVE  FALSE
      OBVIOUS
    <3>1. l \in OthersOn(ls, s, t)
      BY DEF OthersOn, OwnOn, On
    <3>2. l.state = "quarantined"
      BY <2>2, <3>1 DEF Active, Sound, Lease
    <3>3. PICK m \in own : TRUE
      BY <2>2
    <3>4. m \in ls /\ m.resource = t /\ m # l
      BY <3>3 DEF OwnOn, On
    <3> QED BY <3>2, <3>4 DEF Sound
  <2> DEFINE Changed(l) == [l EXCEPT !.left = QuarantineTtl, !.state = "quarantined"]
  <2>4. \A l \in Lease : /\ Changed(l) \in Lease /\ Changed(l).id = l.id
                         /\ Changed(l).resource = l.resource /\ Changed(l).owner = l.owner
                         /\ Changed(l).state = "quarantined"
    BY CoordinatorAssumption DEF Lease
  <2>5. \A k \in next : \/ k \in ls \ own
                        \/ \E l \in own : l \in ls /\ k = Changed(l)
    BY <2>1 DEF Rewrite, OwnOn, On
  <2> HIDE DEF Changed, next
  <2>6. /\ \A l \in own : l \in ls /\ l \in Lease /\ l.resource = t /\ l.owner = s
        /\ \A l, m \in own : l = m
    BY DEF OwnOn, On, Sound
  <2>7. \A k \in next : \/ k \in ls /\ k.resource # t
                        \/ /\ k \in Lease /\ k.resource = t /\ k.state = "quarantined"
                           /\ k.owner = s /\ \E l \in own : k = Changed(l) /\ k.id = l.id
    BY <2>3, <2>4, <2>5, <2>6
  <2>8. Sound(next, ss)
    <3>1. \A k, m \in next : k.resource = t /\ m.resource = t => k = m
      BY <2>6, <2>7
    <3>2. next \subseteq Lease
      BY <2>7 DEF Sound
    <3>3. \A k \in next : k.state = "active" => k.owner \in ss
      BY <2>7 DEF Sound
    <3>4. Mode = "enforce" => \A k, m \in next : k.resource = m.resource => k = m
      BY <2>7, <3>1 DEF Sound
    <3>5. \A k, m \in next : k.resource = m.resource /\ k.owner = m.owner => k = m
      BY <2>7, <3>1 DEF Sound
    <3>6. \A k, m \in next : k.resource = m.resource /\ k.state = "quarantined" => k = m
      BY <2>7, <3>1 DEF Sound
    <3>7. \A k, m \in next : k.id = m.id => k = m
      BY <2>6, <2>7 DEF Sound
    <3>8. \A k \in next : k.state = "quarantined" => k.resource \in Tab
      BY <2>7 DEF Sound
    <3> QED BY <3>2, <3>3, <3>4, <3>5, <3>6, <3>7, <3>8 DEF Sound
  <2>9. IdsBelow(next, n)
    BY <2>6, <2>7 DEF IdsBelow
  <2> QED BY <1>1, <2>8, <2>9 DEF next
<1>2. CASE result = "created"
  <2>1. next = ls \union {new}
    BY <1>2 DEF AfterQuarantine
  <2>2. Active(OthersOn(ls, s, t)) = {} /\ own = {} /\ OthersOn(ls, s, t) = {}
    BY <1>2 DEF QuarantineResult
  <2>3. \A l \in ls : l.resource # t /\ l.id # n
    BY <2>2 DEF OthersOn, OwnOn, On, IdsBelow
  <2>4. /\ new \in Lease /\ new.resource = t /\ new.state = "quarantined" /\ new.id = n
    BY CoordinatorAssumption DEF NewLease, Lease, Resource
  <2> HIDE DEF new
  <2>5. Sound(ls \union {new}, ss)
    BY <2>3, <2>4 DEF Sound
  <2>6. IdsBelow(ls \union {new}, n + 1)
    BY <2>4 DEF IdsBelow, Sound, Lease
  <2> QED BY <1>2, <2>1, <2>5, <2>6
<1>3. CASE result \notin {"converted", "created"}
  BY <1>3 DEF AfterQuarantine
<1> QED BY <1>1, <1>2, <1>3
\* A conflict record joins the history, which stays a sequence of conflicts.
LEMMA EmitType ==
    ASSUME NEW h \in Seq(Conflict), NEW s \in Session, NEW r \in Resource
    PROVE  Emit(h, s, r) \in Seq(Conflict)
<1>1. [session |-> s, resource |-> r] \in Conflict
  BY DEF Conflict
<1> DEFINE longer == Append(h, [session |-> s, resource |-> r])
<1>2. longer \in Seq(Conflict) /\ longer # <<>>
  BY <1>1, AppendProperties
<1> HIDE DEF longer
<1>3. Tail(longer) \in Seq(Conflict)
  BY <1>2, HeadTailProperties
<1> QED BY <1>2, <1>3 DEF Emit, longer

-----------------------------------------------------------------------------
(* The invariant, method by method.                                        *)

\* The table is in order at first, and every step keeps it.
LEMMA InitInv == Init => IInv
  BY DEF Init, IInv, Sound, IdsBelow

\* cleanupExpired, which every method but setDefaultTab runs, is harmless.
LEMMA LiveSound ==
    ASSUME IInv
    PROVE  Sound(Live(leases), sessions) /\ IdsBelow(Live(leases), nextLease)
<1>1. Live(leases) \in SUBSET leases
  BY DEF Live
<1>2. \A l \in Live(leases) : l.state = "active" => l.owner \in sessions
  BY DEF Live, IInv, Sound
<1> QED BY <1>1, <1>2, ShrinkSound DEF IInv, IdsBelow

\* release and renew, whatever id the caller names.
LEMMA ReleaseInv ==
    ASSUME IInv, NEW s, NEW id, Release(s, id)
    PROVE  IInv'
<1>0. Sound(Live(leases), sessions) /\ IdsBelow(Live(leases), nextLease)
  BY LiveSound
<1>1. leases' \in SUBSET Live(leases)
  BY DEF Release, AfterRelease
<1>2. Sound(leases', sessions)
  <2>1. \A l \in leases' : l.state = "active" => l.owner \in sessions
    BY <1>0, <1>1 DEF Sound
  <2> QED BY <1>0, <1>1, <2>1, ShrinkSound
<1>3. IdsBelow(leases', nextLease)
  BY <1>0, <1>1 DEF IdsBelow
<1> QED BY <1>2, <1>3 DEF Release, IInv

\* renew extends what the caller owns.
LEMMA RenewInv ==
    ASSUME IInv, NEW s, NEW id, NEW ttl \in Ttl, Renew(s, id, ttl)
    PROVE  IInv'
<1> DEFINE mine == {l \in Live(leases) : l.id = id /\ l.owner = s}
<1>1. mine \in SUBSET Live(leases) /\ ttl \in Nat /\ nextLease \in Nat
  BY CoordinatorAssumption DEF IInv
<1>2. leases' = Extend(Live(leases), mine, ttl)
  BY DEF Renew
<1> HIDE DEF mine
<1>3. Sound(leases', sessions) /\ IdsBelow(leases', nextLease)
  BY <1>1, <1>2, LiveSound, ExtendSound
<1> QED BY <1>3 DEF Renew, IInv

\* Every step keeps the invariant.
LEMMA StepInv == IInv /\ [Next]_cvars => IInv'
<1> SUFFICES ASSUME IInv, [Next]_cvars PROVE IInv'
  OBVIOUS
<1> DEFINE live == Live(leases)
<1>0. Sound(live, sessions) /\ IdsBelow(live, nextLease) /\ live \in SUBSET leases
  BY LiveSound DEF Live
<1> HIDE DEF live
<1>1. ASSUME Tick PROVE IInv'
  BY <1>1, AgedSound DEF Tick, IInv
<1>2. ASSUME UNCHANGED cvars PROVE IInv'
  BY <1>2 DEF cvars, IInv
<1>3. ASSUME NEW s \in Session, Connect(s) PROVE IInv'
  <2>1. Sound(live, sessions \union {s})
    BY <1>0, ShrinkSound DEF Sound
  <2> QED BY <1>0, <1>3, <2>1 DEF Connect, IInv, live
<1>4. ASSUME NEW s \in Session, Disconnect(s) PROVE IInv'
  <2>1. AfterDisconnect(live, s) \in SUBSET live
    BY DEF AfterDisconnect
  <2>2. \A l \in AfterDisconnect(live, s) : l.state = "active" => l.owner \in sessions \ {s}
    BY <1>0 DEF AfterDisconnect, Sound
  <2>3. Sound(AfterDisconnect(live, s), sessions \ {s})
    BY <1>0, <2>1, <2>2, ShrinkSound
  <2>4. IdsBelow(AfterDisconnect(live, s), nextLease)
    BY <1>0, <2>1 DEF IdsBelow
  <2> QED BY <1>4, <2>3, <2>4 DEF Disconnect, IInv, live
<1>5. ASSUME Touch PROVE IInv'
  BY <1>0, <1>5 DEF Touch, IInv, live
<1>6. ASSUME NEW s \in Session, NEW t \in Tab, SetDefaultTab(s, t) PROVE IInv'
  BY <1>6 DEF SetDefaultTab, IInv
<1>7. ASSUME NEW s \in Session, NEW t \in Tab, AssertWriteAllowed(s, t) PROVE IInv'
  <2>1. history' \in Seq(Conflict)
    BY <1>7, EmitType DEF AssertWriteAllowed, IInv, Resource
  <2>2. leases' = leases \/ leases' = live
    BY <1>7 DEF AssertWriteAllowed, live
  <2> QED BY <1>0, <1>7, <2>1, <2>2 DEF AssertWriteAllowed, IInv
<1>8. ASSUME NEW s \in Session, NEW t \in Tab, QuarantineTab(s, t) PROVE IInv'
  <2>1. s \in sessions /\ nextLease \in Nat
    BY <1>8 DEF QuarantineTab, IInv
  <2>2. /\ Sound(leases', sessions)
        /\ IdsBelow(leases', nextLease')
    BY <1>0, <1>8, <2>1, QuarantineSound DEF QuarantineTab, live
  <2>3. nextLease' \in Nat \ {0}
    BY <1>8 DEF QuarantineTab, IInv
  <2> QED BY <1>8, <2>2, <2>3 DEF QuarantineTab, IInv
<1>9. ASSUME NEW s \in Session, NEW r \in Resource, NEW ttl \in Ttl, Acquire(s, r, ttl)
      PROVE IInv'
  <2>1. s \in sessions /\ nextLease \in Nat /\ ttl \in Nat
    BY <1>9, CoordinatorAssumption DEF Acquire, IInv
  <2>2. /\ Sound(leases', sessions)
        /\ IdsBelow(leases', nextLease')
    BY <1>0, <1>9, <2>1, AcquireSound DEF Acquire, live
  <2>3. nextLease' \in Nat \ {0}
    BY <1>9 DEF Acquire, IInv
  <2>4. history' \in Seq(Conflict)
    BY <1>9, EmitType DEF Acquire, IInv
  <2> QED BY <1>9, <2>2, <2>3, <2>4 DEF Acquire, IInv
<1>10. ASSUME NEW s \in Session, NEW id \in 1..MaxLease, Release(s, id) PROVE IInv'
  BY <1>10, ReleaseInv
<1>11. ASSUME NEW s \in Session, NEW id \in 1..MaxLease, NEW ttl \in Ttl, Renew(s, id, ttl)
       PROVE IInv'
  BY <1>11, RenewInv
<1> QED
  BY <1>1, <1>2, <1>3, <1>4, <1>5, <1>6, <1>7, <1>8, <1>9, <1>10, <1>11 DEF Next, Call

LEMMA Invariance == Spec => []IInv
  BY InitInv, StepInv, PTL DEF Spec

-----------------------------------------------------------------------------
(* Theorems.                                                               *)

\* The variables of the coordinator keep their types.
THEOREM TypeCorrect == Spec => []TypeOK
<1>1. IInv => TypeOK
  BY DEF IInv, TypeOK, Sound, IdsBelow
<1> QED BY <1>1, Invariance, PTL

\* In enforce mode no resource is ever leased to two agents.
THEOREM Exclusion == Spec => []EnforceExclusive
<1>1. IInv => EnforceExclusive
  BY DEF IInv, EnforceExclusive, Sound
<1> QED BY <1>1, Invariance, PTL

\* In every mode a session holds a resource by one lease: acquiring it again
\* renews the lease it has (coordination.ts, acquire).
THEOREM OneLease == Spec => []OneLeasePerOwner
<1>1. IInv => OneLeasePerOwner
  BY DEF IInv, OneLeasePerOwner, Sound
<1> QED BY <1>1, Invariance, PTL

\* In every mode a quarantined resource has no other lease.
THEOREM Isolation == Spec => []QuarantineAlone
<1>1. IInv => QuarantineAlone
  BY DEF IInv, QuarantineAlone, Sound
<1> QED BY <1>1, Invariance, PTL

\* In every mode no active lease outlives the session that holds it.
THEOREM OwnersConnected == Spec => []ActiveOwnerConnected
<1>1. IInv => ActiveOwnerConnected
  BY DEF IInv, ActiveOwnerConnected, Active, Sound
<1> QED BY <1>1, Invariance, PTL

-----------------------------------------------------------------------------
(* What a call of one session may do to the table.                         *)

\* The lifetimes that the calls give leases.
Lifetimes == Ttl \union {QuarantineTtl}

\* From ls to ks, session s touched nothing but its own leases and expired ones;
\* what it has now and had not before has one of the lifetimes.
OwnWork(s, lifetimes, ls, ks) ==
    /\ \A l \in Live(ls) : l.owner # s => l \in ks
    /\ \A k \in ks : k \in ls \/ (k.owner = s /\ k.left \in lifetimes)

\* Own work may give up own leases, and follow own work on a table without
\* expired leases.
LEMMA OwnWorkLess ==
    ASSUME NEW s, NEW lifetimes, NEW ls, NEW ks, OwnWork(s, lifetimes, ls, ks),
           NEW js \in SUBSET ks, \A k \in ks \ js : k.owner = s
    PROVE  OwnWork(s, lifetimes, ls, js)
  BY DEF OwnWork

LEMMA OwnWorkTwice ==
    ASSUME NEW s, NEW lifetimes, NEW ls, NEW ks, NEW js,
           OwnWork(s, lifetimes, ls, ks), OwnWork(s, lifetimes, ks, js),
           \A k \in ks : k.left > 0
    PROVE  OwnWork(s, lifetimes, ls, js)
  BY DEF OwnWork, Live

\* Each operation is work of the caller on its own leases, or of the clock.
LEMMA ExtendIsOwnWork ==
    ASSUME NEW s, NEW ls, ls \subseteq Lease, NEW lifetimes, NEW ttl \in lifetimes,
           NEW some \in SUBSET {l \in Live(ls) : l.owner = s}
    PROVE  OwnWork(s, lifetimes, ls, Extend(Live(ls), some, ttl))
<1>1. \A l \in some : l \in Lease /\ l.owner = s
  BY DEF Live
<1>2. \A l \in Lease : [l EXCEPT !.left = ttl].owner = l.owner /\ [l EXCEPT !.left = ttl].left = ttl
  BY DEF Lease
<1> QED BY <1>1, <1>2 DEF OwnWork, Extend, Live

\* A quarantine of the own lease is own work.
LEMMA RewriteIsOwnWork ==
    ASSUME NEW s, NEW ls, ls \subseteq Lease, NEW lifetimes, NEW ttl \in lifetimes, NEW st,
           NEW some \in SUBSET {l \in Live(ls) : l.owner = s}
    PROVE  OwnWork(s, lifetimes, ls, Rewrite(Live(ls), some, st, ttl))
<1> DEFINE Changed(l) == [l EXCEPT !.left = ttl, !.state = st]
<1>1. \A l \in some : l \in Lease /\ l.owner = s
  BY DEF Live
<1>2. \A l \in Lease : Changed(l).owner = l.owner /\ Changed(l).left = ttl
  BY DEF Lease
<1>3. Rewrite(Live(ls), some, st, ttl) = (Live(ls) \ some) \union {Changed(l) : l \in some}
  BY DEF Rewrite
<1> HIDE DEF Changed
<1> QED BY <1>1, <1>2, <1>3 DEF OwnWork, Live

\* Each method touches the leases of its session only.
LEMMA CallIsOwnWork ==
    ASSUME NEW s \in Session, IInv, Call(s)
    PROVE  OwnWork(s, Lifetimes, leases, leases')
<1> DEFINE live == Live(leases)
<1>0. leases \subseteq Lease /\ Ttl \subseteq Lifetimes /\ QuarantineTtl \in Lifetimes
  BY DEF IInv, Sound, Lifetimes
<1>1. CASE leases' = live \/ leases' = leases
  BY <1>1 DEF OwnWork, Live
<1>2. CASE Disconnect(s)
  BY <1>2 DEF Disconnect, AfterDisconnect, OwnWork, Live
<1>3. ASSUME NEW id \in 1..MaxLease, Release(s, id) PROVE OwnWork(s, Lifetimes, leases, leases')
  BY <1>3 DEF Release, AfterRelease, OwnWork, Live
<1>4. ASSUME NEW id \in 1..MaxLease, NEW ttl \in Ttl, Renew(s, id, ttl)
      PROVE  OwnWork(s, Lifetimes, leases, leases')
  BY <1>0, <1>4, ExtendIsOwnWork DEF Renew
<1>5. ASSUME NEW r \in Resource, NEW ttl \in Ttl, Acquire(s, r, ttl)
      PROVE  OwnWork(s, Lifetimes, leases, leases')
  <2>1. CASE leases' = Extend(live, OwnOn(live, s, r), ttl)
    BY <1>0, <2>1, ExtendIsOwnWork DEF OwnOn, On
  <2>2. CASE leases' = live \union {NewLease(nextLease, s, r, "active", ttl)}
    BY <1>0, <2>2 DEF OwnWork, NewLease, Live
  <2> QED BY <1>1, <1>5, <2>1, <2>2 DEF Acquire, AfterAcquire
<1>6. ASSUME NEW t \in Tab, QuarantineTab(s, t) PROVE OwnWork(s, Lifetimes, leases, leases')
  <2>1. CASE leases' = Rewrite(live, OwnOn(live, s, t), "quarantined", QuarantineTtl)
    BY <1>0, <2>1, RewriteIsOwnWork DEF OwnOn, On
  <2>2. CASE leases' = live \union {NewLease(nextLease, s, t, "quarantined", QuarantineTtl)}
    BY <1>0, <2>2 DEF OwnWork, NewLease, Live
  <2> QED BY <1>1, <1>6, <2>1, <2>2 DEF QuarantineTab, AfterQuarantine
<1>7. CASE Connect(s) \/ Touch \/ \E t \in Tab : SetDefaultTab(s, t) \/ AssertWriteAllowed(s, t)
  BY <1>1, <1>7 DEF Connect, Touch, SetDefaultTab, AssertWriteAllowed
<1> QED BY <1>2, <1>3, <1>4, <1>5, <1>6, <1>7 DEF Call

\* No call of one agent changes a lease of another that has time left.
THEOREM OthersKeep == Spec => OthersKeepTheirLeases
<1> DEFINE A == \A s \in Session : Call(s) =>
                  \A l \in Live(leases) : l.owner # s => l \in leases'
<1>1. IInv => A
  BY CallIsOwnWork DEF OwnWork
<1>2. IInv /\ [Next]_cvars => [A]_cvars
  BY <1>1
<1> QED BY <1>2, Invariance, PTL DEF Spec, OthersKeepTheirLeases

-----------------------------------------------------------------------------
(* Where the leases of a table come from.                                  *)

\* Each lease of ks is younger than n, or it is a lease of ls that kept its
\* resource and its owner, did not come back to life, and was not lifted out
\* of quarantine.
Descends(ls, n, ks) ==
    \A k \in ks :
        \/ k.id >= n
        \/ \E l \in ls : /\ l.id = k.id /\ l.resource = k.resource /\ l.owner = k.owner
                         /\ k.left > 0 => l.left > 0
                         /\ l.state = "quarantined" => k.state = "quarantined"

\* Descent is kept by deleting leases, and from one table to the next.
LEMMA ShrinkDescends ==
    ASSUME NEW ls, NEW n, NEW ks, Descends(ls, n, ks), NEW js \in SUBSET ks
    PROVE  Descends(ls, n, js)
  BY DEF Descends

\* A table descends from itself, and so does each part of it.
LEMMA SubsetDescends ==
    ASSUME NEW ls, NEW n, NEW ks \in SUBSET ls
    PROVE  Descends(ls, n, ks)
  BY DEF Descends

LEMMA DescendsTwice ==
    ASSUME NEW ls, NEW n \in Nat, NEW ks, Descends(ls, n, ks),
           NEW m \in Nat, n <= m, NEW js, js \subseteq Lease, Descends(ks, m, js)
    PROVE  Descends(ls, n, js)
<1> SUFFICES ASSUME NEW j \in js
             PROVE  \/ j.id >= n
                    \/ \E l \in ls : /\ l.id = j.id /\ l.resource = j.resource
                                     /\ l.owner = j.owner
                                     /\ j.left > 0 => l.left > 0
                                     /\ l.state = "quarantined" => j.state = "quarantined"
  BY DEF Descends
<1>1. CASE j.id >= m
  BY <1>1 DEF Lease
<1>2. CASE \E k \in ks : /\ k.id = j.id /\ k.resource = j.resource /\ k.owner = j.owner
                         /\ j.left > 0 => k.left > 0
                         /\ k.state = "quarantined" => j.state = "quarantined"
  BY <1>2 DEF Descends
<1> QED BY <1>1, <1>2 DEF Descends

\* Extending leases that are alive.
LEMMA ExtendDescends ==
    ASSUME NEW ls, ls \subseteq Lease, NEW n, NEW ttl, NEW some \in SUBSET Live(ls)
    PROVE  Descends(ls, n, Extend(Live(ls), some, ttl))
<1> DEFINE Changed(l) == [l EXCEPT !.left = ttl]
<1>1. \A l \in some : l \in ls /\ l \in Lease /\ l.left > 0
  BY DEF Live
<1>2. \A l \in Lease : /\ Changed(l).id = l.id /\ Changed(l).resource = l.resource
                       /\ Changed(l).owner = l.owner /\ Changed(l).state = l.state
  BY DEF Lease
<1>3. Extend(Live(ls), some, ttl) = (Live(ls) \ some) \union {Changed(l) : l \in some}
  BY DEF Extend
<1> HIDE DEF Changed
<1> QED BY <1>1, <1>2, <1>3 DEF Descends, Live

\* Quarantining leases that are alive.
LEMMA RewriteDescends ==
    ASSUME NEW ls, ls \subseteq Lease, NEW n, NEW ttl, NEW some \in SUBSET Live(ls)
    PROVE  Descends(ls, n, Rewrite(Live(ls), some, "quarantined", ttl))
<1> DEFINE Changed(l) == [l EXCEPT !.left = ttl, !.state = "quarantined"]
<1>1. \A l \in some : l \in ls /\ l \in Lease /\ l.left > 0
  BY DEF Live
<1>2. \A l \in Lease : /\ Changed(l).id = l.id /\ Changed(l).resource = l.resource
                       /\ Changed(l).owner = l.owner /\ Changed(l).state = "quarantined"
  BY DEF Lease
<1>3. Rewrite(Live(ls), some, "quarantined", ttl)
        = (Live(ls) \ some) \union {Changed(l) : l \in some}
  BY DEF Rewrite
<1> HIDE DEF Changed
<1> QED BY <1>1, <1>2, <1>3 DEF Descends, Live

\* What acquire and quarantineTab make of a table without expired leases.
LEMMA AcquireDescends ==
    ASSUME NEW ls, ls \subseteq Lease, NEW n \in Nat, NEW s, NEW r, NEW ttl
    PROVE  Descends(ls, n, AfterAcquire(Live(ls), n, s, r, ttl))
<1> DEFINE live == Live(ls)
<1>1. CASE AfterAcquire(live, n, s, r, ttl) = Extend(live, OwnOn(live, s, r), ttl)
  BY <1>1, ExtendDescends DEF OwnOn, On
<1>2. CASE AfterAcquire(live, n, s, r, ttl) = live \union {NewLease(n, s, r, "active", ttl)}
  BY <1>2 DEF Descends, NewLease, Live
<1>3. CASE AfterAcquire(live, n, s, r, ttl) = live
  BY <1>3, SubsetDescends DEF Live
<1> QED BY <1>1, <1>2, <1>3 DEF AfterAcquire

\* quarantineTab adds a new lease or converts an old one.
LEMMA QuarantineDescends ==
    ASSUME NEW ls, ls \subseteq Lease, NEW n \in Nat, NEW s, NEW t
    PROVE  Descends(ls, n, AfterQuarantine(Live(ls), n, s, t))
<1> DEFINE live == Live(ls)
<1>1. CASE AfterQuarantine(live, n, s, t)
             = Rewrite(live, OwnOn(live, s, t), "quarantined", QuarantineTtl)
  BY <1>1, RewriteDescends DEF OwnOn, On
<1>2. CASE AfterQuarantine(live, n, s, t)
             = live \union {NewLease(n, s, t, "quarantined", QuarantineTtl)}
  BY <1>2 DEF Descends, NewLease, Live
<1>3. CASE AfterQuarantine(live, n, s, t) = live
  BY <1>3, SubsetDescends DEF Live
<1> QED BY <1>1, <1>2, <1>3 DEF AfterQuarantine

\* Time passing brings no lease back to life.
LEMMA AgedDescends ==
    ASSUME NEW ls, ls \subseteq Lease, NEW n
    PROVE  Descends(ls, n, {Aged(l) : l \in ls})
<1>1. \A l \in Lease : /\ Aged(l).id = l.id /\ Aged(l).resource = l.resource
                       /\ Aged(l).owner = l.owner /\ Aged(l).state = l.state
                       /\ Aged(l).left > 0 => l.left > 0
  BY DEF Aged, Lease
<1> QED BY <1>1 DEF Descends

\* Every step of the coordinator.
LEMMA StepDescends ==
    ASSUME IInv, [Next]_cvars
    PROVE  Descends(leases, nextLease, leases')
<1>0. leases \subseteq Lease /\ nextLease \in Nat
  BY DEF IInv, Sound
<1>1. CASE leases' \in SUBSET leases
  BY <1>1, SubsetDescends
<1>2. CASE Tick
  BY <1>0, <1>2, AgedDescends DEF Tick
<1>3. ASSUME NEW s \in Session, NEW id \in 1..MaxLease, NEW ttl \in Ttl, Renew(s, id, ttl)
      PROVE  Descends(leases, nextLease, leases')
  BY <1>0, <1>3, ExtendDescends DEF Renew
<1>4. ASSUME NEW s \in Session, NEW r \in Resource, NEW ttl \in Ttl, Acquire(s, r, ttl)
      PROVE  Descends(leases, nextLease, leases')
  BY <1>0, <1>4, AcquireDescends DEF Acquire
<1>5. ASSUME NEW s \in Session, NEW t \in Tab, QuarantineTab(s, t)
      PROVE  Descends(leases, nextLease, leases')
  BY <1>0, <1>5, QuarantineDescends DEF QuarantineTab
<1>6. ASSUME NEW s \in Session,
             \/ Connect(s) \/ Disconnect(s) \/ Touch
             \/ \E t \in Tab : SetDefaultTab(s, t) \/ AssertWriteAllowed(s, t)
             \/ \E id \in 1..MaxLease : Release(s, id)
      PROVE  leases' \in SUBSET leases
  BY <1>6 DEF Connect, Disconnect, Touch, SetDefaultTab, AssertWriteAllowed, Release,
     AfterDisconnect, AfterRelease, Live
<1> QED BY <1>1, <1>2, <1>3, <1>4, <1>5, <1>6 DEF Next, Call, cvars

\* A quarantined lease never becomes an active one: ids are never handed out
\* twice, and no call turns quarantined into active.
THEOREM NeverLifted == Spec => QuarantineNeverLifted
<1> DEFINE A == \A l \in Quarantined(leases), m \in leases' :
                    l.id = m.id => m.state = "quarantined"
<1>1. IInv /\ [Next]_cvars => [A]_cvars
  <2> SUFFICES ASSUME IInv, [Next]_cvars, NEW l \in Quarantined(leases), NEW m \in leases',
                      l.id = m.id
               PROVE  m.state = "quarantined"
    OBVIOUS
  <2>1. l \in leases /\ l.state = "quarantined"
    BY DEF Quarantined
  <2>2. ~(m.id >= nextLease)
    BY <2>1 DEF IInv, Sound, IdsBelow, Lease
  <2>3. PICK k \in leases : k.id = m.id /\ (k.state = "quarantined" => m.state = "quarantined")
    BY <2>2, StepDescends DEF Descends
  <2>4. k = l
    BY <2>1, <2>3 DEF IInv, Sound
  <2> QED BY <2>1, <2>3, <2>4
<1> QED BY <1>1, Invariance, PTL DEF Spec, QuarantineNeverLifted

\* A quarantine with time left outlives the disconnection of its owner: only
\* disconnect takes a session away, and it deletes active leases only.
THEOREM QuarantineStays == Spec => DisconnectKeepsQuarantine
<1> DEFINE A == \A l \in Quarantined(Live(leases)) :
                    l.owner \in sessions \ sessions' => l \in leases'
<1>1. IInv /\ [Next]_cvars => [A]_cvars
  <2> SUFFICES ASSUME IInv, Next, NEW l \in Quarantined(Live(leases)),
                      l.owner \in sessions \ sessions'
               PROVE  l \in leases'
    OBVIOUS
  <2>1. PICK s \in Session : Disconnect(s)
    BY DEF Next, Call, Tick, Connect, Touch, SetDefaultTab, AssertWriteAllowed, QuarantineTab,
       Acquire, Release, Renew
  <2> QED BY <2>1 DEF Disconnect, AfterDisconnect, Quarantined
<1> QED BY <1>1, Invariance, PTL DEF Spec, DisconnectKeepsQuarantine

\* The newest conflict ends the history, however long it is.
LEMMA EmitLast ==
    ASSUME NEW h \in Seq(Conflict), NEW s \in Session, NEW r \in Resource
    PROVE  /\ Emit(h, s, r) # <<>>
           /\ Emit(h, s, r)[Len(Emit(h, s, r))] = [session |-> s, resource |-> r]
<1> DEFINE conflict == [session |-> s, resource |-> r]
           longer == Append(h, conflict)
<1>1. conflict \in Conflict
  BY DEF Conflict
<1> HIDE DEF conflict
<1>2. /\ longer \in Seq(Conflict) /\ longer # <<>> /\ Len(longer) = Len(h) + 1
      /\ longer[Len(longer)] = conflict
  BY <1>1, AppendProperties
<1> HIDE DEF longer
<1>3. CASE Len(longer) > MaxHistory
  <2>1. /\ Tail(longer) \in Seq(Conflict) /\ Len(Tail(longer)) = Len(longer) - 1
        /\ \A i \in 1..Len(Tail(longer)) : Tail(longer)[i] = longer[i + 1]
    BY <1>2, HeadTailProperties
  <2>2. Len(Tail(longer)) \in Nat \ {0} /\ Len(longer) \in Nat
    BY <1>2, <1>3, <2>1, CoordinatorAssumption, LenProperties
  <2>3. Tail(longer) # <<>>
    BY <2>1, <2>2, EmptySeq
  <2>4. Len(longer) - 1 \in 1..Len(Tail(longer)) /\ (Len(longer) - 1) + 1 = Len(longer)
    BY <2>1, <2>2
  <2>5. Tail(longer)[Len(Tail(longer))] = conflict
    BY <1>2, <2>1, <2>4
  <2> QED BY <1>3, <2>3, <2>5 DEF Emit, longer, conflict
<1>4. CASE ~(Len(longer) > MaxHistory)
  BY <1>2, <1>4 DEF Emit, longer, conflict
<1> QED BY <1>3, <1>4

\* In observe mode a lease that is granted beside another agent's lease leaves
\* its conflict at the end of the history: only acquire creates active leases.
THEOREM OverlapReported == Spec => ObservedOverlapIsReported
<1> DEFINE Reported(l) == /\ history' # <<>>
                          /\ history'[Len(history')]
                               = [session |-> l.owner, resource |-> l.resource]
           A == Mode = "observe" =>
                  \A l \in Active(leases') :
                     l.id >= nextLease /\ OthersOn(Live(leases), l.owner, l.resource) # {}
                        => Reported(l)
           live == Live(leases)
<1>1. IInv /\ [Next]_cvars => [A]_cvars
  <2> SUFFICES ASSUME IInv, Next, Mode = "observe", NEW l \in Active(leases'),
                      l.id >= nextLease, OthersOn(live, l.owner, l.resource) # {}
               PROVE  Reported(l)
    OBVIOUS
  <2>0. l \in leases' /\ l.state = "active" /\ leases \subseteq Lease /\ nextLease \in Nat
    BY DEF Active, IInv, Sound
  <2>1. \A k \in leases : k.id # l.id
    BY <2>0 DEF IInv, IdsBelow, Lease
  <2>2. ~Tick
    <3> SUFFICES ASSUME Tick PROVE FALSE
      OBVIOUS
    <3>1. \A k \in leases : Aged(k).id = k.id
      BY <2>0 DEF Aged, Lease
    <3> QED BY <2>0, <2>1, <3>1 DEF Tick
  <2>3. ASSUME NEW ttl, NEW some \in SUBSET live PROVE l \notin Extend(live, some, ttl)
    <3>1. \A k \in Lease : [k EXCEPT !.left = ttl].id = k.id
      BY DEF Lease
    <3> QED BY <2>0, <2>1, <3>1 DEF Extend, Live
  <2>4. \A s, r, ttl : leases' # Extend(live, OwnOn(live, s, r), ttl)
    <3> SUFFICES ASSUME NEW s, NEW r, NEW ttl PROVE leases' # Extend(live, OwnOn(live, s, r), ttl)
      OBVIOUS
    <3>1. OwnOn(live, s, r) \in SUBSET live
      BY DEF OwnOn, On
    <3> QED BY <2>0, <2>3, <3>1
  <2>5. ASSUME NEW s \in Session, NEW id \in 1..MaxLease, NEW ttl \in Ttl PROVE ~Renew(s, id, ttl)
    BY <2>0, <2>3 DEF Renew
  <2>6. ASSUME NEW s \in Session, NEW t \in Tab PROVE ~QuarantineTab(s, t)
    <3> SUFFICES ASSUME QuarantineTab(s, t) PROVE FALSE
      OBVIOUS
    <3>1. \A k \in Lease : [k EXCEPT !.left = QuarantineTtl, !.state = "quarantined"].id = k.id
      BY DEF Lease
    <3>2. l \notin Rewrite(live, OwnOn(live, s, t), "quarantined", QuarantineTtl)
      BY <2>0, <2>1, <3>1 DEF Rewrite, OwnOn, On, Live
    <3>3. l \notin live \union {NewLease(nextLease, s, t, "quarantined", QuarantineTtl)}
      BY <2>0, <2>1 DEF NewLease, Live
    <3> QED BY <2>0, <3>2, <3>3 DEF QuarantineTab, AfterQuarantine
  <2>7. PICK s \in Session, r \in Resource, ttl \in Ttl : Acquire(s, r, ttl)
    BY <2>0, <2>1, <2>2, <2>5, <2>6 DEF Next, Call, Connect, Disconnect, Touch, SetDefaultTab,
       AssertWriteAllowed, Release, AfterDisconnect, AfterRelease, Live
  <2>8. /\ AcquireResult(live, s, r) = "granted"
        /\ leases' = live \union {NewLease(nextLease, s, r, "active", ttl)}
    BY <2>0, <2>1, <2>4, <2>7 DEF Acquire, AfterAcquire, Live
  <2>9. l.owner = s /\ l.resource = r
    BY <2>0, <2>1, <2>8 DEF NewLease, Live
  <2>10. On(live, r) # {}
    BY <2>9 DEF OthersOn
  <2>11. history' = Emit(history, s, r)
    BY <2>7, <2>8, <2>10 DEF Acquire
  <2> QED BY <2>9, <2>11, EmitLast DEF IInv
<1> QED BY <1>1, Invariance, PTL DEF Spec, ObservedOverlapIsReported

-----------------------------------------------------------------------------
(* The coordinator in enforce mode implements ExclusiveLease.              *)

\* The mapping, on a table with at most one lease per resource.
LEMMA MappingOfTable ==
    ASSUME NEW ls, NEW ss, Sound(ls, ss), Mode = "enforce", NEW r \in Resource
    PROVE  /\ \A l \in ls : l.resource = r => HolderIn(ls, r) = l.owner /\ LeftIn(ls, r) = l.left
           /\ (\A l \in ls : l.resource # r) => HolderIn(ls, r) = Nobody /\ LeftIn(ls, r) = 0
           /\ HolderIn(ls, r) \in Session \union {Nobody}
           /\ LeftIn(ls, r) \in Nat
<1>1. ASSUME NEW l \in ls, l.resource = r
      PROVE  HolderIn(ls, r) = l.owner /\ LeftIn(ls, r) = l.left
  <2>1. LeaseOn(ls, r) = l
    BY <1>1 DEF LeaseOn, Sound
  <2>2. On(ls, r) # {}
    BY <1>1 DEF On
  <2> QED BY <2>1, <2>2 DEF HolderIn, LeftIn
<1>2. ASSUME \A l \in ls : l.resource # r
      PROVE  HolderIn(ls, r) = Nobody /\ LeftIn(ls, r) = 0
  BY <1>2 DEF HolderIn, LeftIn, On
<1>3. \A l \in ls : l.owner \in Session /\ l.left \in Nat
  BY DEF Sound, Lease
<1> QED BY <1>1, <1>2, <1>3

\* The clock leaves the holders and takes a unit of what is left.
LEMMA AgedMapping ==
    ASSUME NEW ls, NEW ss, Sound(ls, ss), Mode = "enforce", NEW r \in Resource
    PROVE  LET ks == {Aged(l) : l \in ls}
           IN  /\ HolderIn(ks, r) = HolderIn(ls, r)
               /\ LeftIn(ks, r) = IF LeftIn(ls, r) > 0 THEN LeftIn(ls, r) - 1 ELSE 0
<1> DEFINE ks == {Aged(l) : l \in ls}
<1>1. Sound(ks, ss)
  BY AgedSound
<1>2. \A l \in ls : /\ Aged(l) \in ks /\ Aged(l).resource = l.resource
                    /\ Aged(l).owner = l.owner
                    /\ Aged(l).left = IF l.left > 0 THEN l.left - 1 ELSE 0
  BY DEF Aged, Sound, Lease
<1>3. \A k \in ks : \E l \in ls : k = Aged(l)
  OBVIOUS
<1> HIDE DEF ks
<1>4. CASE \E l \in ls : l.resource = r
  BY <1>1, <1>2, <1>4, MappingOfTable DEF ks
<1>5. CASE \A l \in ls : l.resource # r
  BY <1>1, <1>2, <1>3, <1>5, MappingOfTable DEF ks
<1> QED BY <1>4, <1>5

\* Own work on the table is a step of the abstract service for each resource.
LEMMA OwnWorkIsServe ==
    ASSUME NEW s \in Session, NEW ls, NEW ss, NEW ks, NEW tt, Mode = "enforce",
           Sound(ls, ss), Sound(ks, tt), NEW lifetimes, OwnWork(s, lifetimes, ls, ks),
           NEW r \in Resource
    PROVE  \/ HolderIn(ks, r) = HolderIn(ls, r) /\ LeftIn(ks, r) = LeftIn(ls, r)
           \/ LeftIn(ls, r) = 0 /\ HolderIn(ks, r) = Nobody /\ LeftIn(ks, r) = 0
           \/ /\ LeftIn(ls, r) = 0 \/ HolderIn(ls, r) = s
              /\ HolderIn(ks, r) = s
              /\ LeftIn(ks, r) \in lifetimes
           \/ HolderIn(ls, r) = s /\ HolderIn(ks, r) = Nobody /\ LeftIn(ks, r) = 0
<1>0. \A l \in ls : l.owner # s /\ l.left # 0 => l \in ks
  BY DEF OwnWork, Live, Sound, Lease
<1>1. CASE \A k \in ks : k.resource # r
  BY <1>0, <1>1, MappingOfTable
<1>2. ASSUME NEW k \in ks, k.resource = r, k \in ls
      PROVE  HolderIn(ks, r) = HolderIn(ls, r) /\ LeftIn(ks, r) = LeftIn(ls, r)
  BY <1>2, MappingOfTable
<1>3. ASSUME NEW k \in ks, k.resource = r, k.owner = s, k.left \in lifetimes
      PROVE  /\ LeftIn(ls, r) = 0 \/ HolderIn(ls, r) = s
             /\ HolderIn(ks, r) = s
             /\ LeftIn(ks, r) \in lifetimes
  <2>1. ASSUME NEW l \in ls, l.resource = r, l.owner # s PROVE l.left = 0
    BY <1>0, <1>3, <2>1 DEF Sound
  <2> QED BY <1>3, <2>1, MappingOfTable
<1> QED BY <1>1, <1>2, <1>3 DEF OwnWork

\* Every behaviour of the coordinator in enforce mode is one of ExclusiveLease.
THEOREM Refinement == Mode = "enforce" /\ Spec => ImplementsExclusiveLease
<1> SUFFICES ASSUME Mode = "enforce" PROVE Spec => ImplementsExclusiveLease
  OBVIOUS
<1>1. Init => Abstract!Init
  BY DEF Init, Abstract!Init, HolderIn, LeftIn, On
<1>2. IInv /\ IInv' /\ [Next]_cvars => [Abstract!Next]_(Abstract!avars)
  <2> SUFFICES ASSUME IInv, IInv', [Next]_cvars PROVE [Abstract!Next]_(Abstract!avars)
    OBVIOUS
  <2>1. CASE UNCHANGED cvars
    BY <2>1 DEF cvars, Abstract!avars
  <2>2. CASE Tick
    <3>1. \A r \in Resource :
            /\ HolderIn(leases', r) = HolderIn(leases, r)
            /\ LeftIn(leases', r) = IF LeftIn(leases, r) > 0 THEN LeftIn(leases, r) - 1 ELSE 0
      BY <2>2, AgedMapping DEF Tick, IInv
    <3> QED BY <3>1 DEF Abstract!Next, Abstract!Elapse
  <2>3. ASSUME NEW s \in Session, Call(s) PROVE Abstract!Serve(s)
    <3>1. OwnWork(s, Lifetimes, leases, leases')
      BY <2>3, CallIsOwnWork
    <3>2. \A r \in Resource : /\ HolderIn(leases', r) \in Session \union {Nobody}
                              /\ LeftIn(leases', r) \in Nat
      BY MappingOfTable DEF IInv
    <3> QED BY <3>1, <3>2, OwnWorkIsServe DEF Lifetimes, Abstract!Serve, Abstract!Keep,
               Abstract!Lapse, Abstract!Hold, Abstract!GiveUp, IInv
  <2> QED BY <2>1, <2>2, <2>3 DEF Next, Abstract!Next
<1> QED BY <1>1, <1>2, Invariance, PTL DEF Spec, Abstract!Spec, ImplementsExclusiveLease
=============================================================================
