---------------------------- MODULE Coordinator ----------------------------
(***************************************************************************)
(* MultiAgentCoordinator (apps/chrome-bridge/src/coordinator.ts): the      *)
(* process-local table of agent sessions and of the leases they hold on    *)
(* browser tabs and on the one flow recorder.                              *)
(*                                                                         *)
(* Every public method of the class is synchronous, so it is one action.   *)
(* A lease stores the milliseconds it has left instead of the wall-clock   *)
(* time at which it expires: `left = 0' is `expiresAt <= now'.  A lease    *)
(* that has expired stays in the table until the next call that runs       *)
(* cleanupExpired, exactly as in the code.                                 *)
(***************************************************************************)
EXTENDS Naturals, Sequences, FiniteSets

CONSTANTS
    Session,        \* session ids (randomUUID, one per accepted socket)
    Tab,            \* browser tabs: the resources `tab:N'
    Recorder,       \* the resource `global:recorder'
    NoTab,          \* defaultTabId is undefined
    Mode,           \* KBB_COORDINATION_MODE
    Ttl,            \* the valid lease lifetimes a caller asks for
    QuarantineTtl,  \* DEFAULT_QUARANTINE_TTL_MS
    MaxHistory,     \* MAX_CONFLICT_HISTORY
    MaxLease        \* bound: leases created in one behaviour

ASSUME CoordinatorAssumption ==
    /\ Recorder \notin Tab
    /\ NoTab \notin Tab
    /\ Mode \in {"off", "observe", "enforce"}
    /\ Ttl \subseteq Nat \ {0}
    /\ QuarantineTtl \in Nat \ {0}
    /\ MaxHistory \in Nat \ {0}
    /\ MaxLease \in Nat

VARIABLES
    sessions,    \* connected sessions
    defaultTab,  \* AgentSession.defaultTabId of each session
    leases,      \* the lease table
    nextLease,   \* nextLeaseId
    history      \* conflictHistory

cvars == <<sessions, defaultTab, leases, nextLease, history>>

Resource == Tab \union {Recorder}
Lease == [id : Nat, resource : Resource, owner : Session,
          state : {"active", "quarantined"}, left : Nat]
Conflict == [session : Session, resource : Resource]

-----------------------------------------------------------------------------
(* The table seen as data: helpers over a set of leases.                   *)

\* cleanupExpired: what is left of the table once expired leases are deleted.
Live(ls) == {l \in ls : l.left > 0}

\* activeResourceLeases: every lease on r, whatever its state.
On(ls, r) == {l \in ls : l.resource = r}
OwnOn(ls, s, r) == {l \in On(ls, r) : l.owner = s}
OthersOn(ls, s, r) == {l \in On(ls, r) : l.owner # s}
Quarantined(ls) == {l \in ls : l.state = "quarantined"}
Active(ls) == {l \in ls : l.state = "active"}

NewLease(id, s, r, state, ttl) ==
    [id |-> id, resource |-> r, owner |-> s, state |-> state, left |-> ttl]

\* Give each lease of `some' the lifetime ttl and the state st.
Rewrite(ls, some, st, ttl) ==
    (ls \ some) \union {[l EXCEPT !.left = ttl, !.state = st] : l \in some}
\* Mutant of Extend: extending a lease also makes it active.
ExtendRevives(ls, some, ttl) == Rewrite(ls, some, "active", ttl)
Extend(ls, some, ttl) ==
    (ls \ some) \union {[l EXCEPT !.left = ttl] : l \in some}

\* Mutants of AcquireResult: without the test for another agent's lease, and
\* without the search for the caller's own lease.
AcquireIgnoresOthers(ls, s, r) ==
    CASE OwnOn(ls, s, r) # {} -> "extended"
      [] OwnOn(ls, s, r) = {} /\ Quarantined(On(ls, r)) # {} -> "RESOURCE_QUARANTINED"
      [] OTHER -> "granted"
AcquireIgnoresOwn(ls, s, r) ==
    CASE Quarantined(On(ls, r)) # {} -> "RESOURCE_QUARANTINED"
      [] Quarantined(On(ls, r)) = {} /\ On(ls, r) # {} /\ Mode = "enforce" -> "RESOURCE_BUSY"
      [] OTHER -> "granted"

\* What acquire decides for session s on r, over a table without expired leases.
AcquireResult(ls, s, r) ==
    CASE OwnOn(ls, s, r) # {} -> "extended"
      [] OwnOn(ls, s, r) = {} /\ Quarantined(On(ls, r)) # {} -> "RESOURCE_QUARANTINED"
      [] OwnOn(ls, s, r) = {} /\ Quarantined(On(ls, r)) = {}
           /\ On(ls, r) # {} /\ Mode = "enforce" -> "RESOURCE_BUSY"
      [] OTHER -> "granted"

AfterAcquire(ls, id, s, r, ttl) ==
    LET result == AcquireResult(ls, s, r)
    IN  CASE result = "extended" -> Extend(ls, OwnOn(ls, s, r), ttl)
          [] result = "granted" -> ls \union {NewLease(id, s, r, "active", ttl)}
          [] OTHER -> ls

\* Mutant of QuarantineResult: laid over whatever lease another agent has.
QuarantineIgnoresOthers(ls, s, t) ==
    IF OwnOn(ls, s, t) # {} THEN "converted" ELSE "created"

\* What quarantineTab decides: another agent's lease is never taken away.
QuarantineResult(ls, s, t) ==
    CASE Active(OthersOn(ls, s, t)) # {} -> "RESOURCE_BUSY"
      [] Active(OthersOn(ls, s, t)) = {} /\ OwnOn(ls, s, t) # {} -> "converted"
      [] Active(OthersOn(ls, s, t)) = {} /\ OwnOn(ls, s, t) = {}
           /\ OthersOn(ls, s, t) # {} -> "RESOURCE_QUARANTINED"
      [] OTHER -> "created"

AfterQuarantine(ls, id, s, t) ==
    LET result == QuarantineResult(ls, s, t)
    IN  CASE result = "converted" ->
               Rewrite(ls, OwnOn(ls, s, t), "quarantined", QuarantineTtl)
          [] result = "created" ->
               ls \union {NewLease(id, s, t, "quarantined", QuarantineTtl)}
          [] OTHER -> ls

\* Mutant of WriteVerdict: another agent's active lease does not block a write.
VerdictIgnoresLeases(ls, s, t) ==
    IF Mode # "off" /\ Quarantined(OthersOn(ls, s, t)) # {} THEN "RESOURCE_QUARANTINED"
    ELSE "allowed"

\* What assertWriteAllowed decides for a write of session s on tab t.
WriteVerdict(ls, s, t) ==
    CASE Mode # "off" /\ Quarantined(OthersOn(ls, s, t)) # {} -> "RESOURCE_QUARANTINED"
      [] Mode = "enforce" /\ Quarantined(OthersOn(ls, s, t)) = {}
           /\ Active(OthersOn(ls, s, t)) # {} -> "RESOURCE_BUSY"
      [] OTHER -> "allowed"

\* Mutant of Emit: a full history drops the new conflict instead of the oldest.
EmitDropsNewest(h, s, r) ==
    IF Len(h) >= MaxHistory THEN h ELSE Append(h, [session |-> s, resource |-> r])

\* emitConflict: the newest MaxHistory conflicts are kept.
Emit(h, s, r) ==
    LET longer == Append(h, [session |-> s, resource |-> r])
    IN  IF Len(longer) > MaxHistory THEN Tail(longer) ELSE longer

\* Mutant of AfterRelease: whoever knows the id may delete the lease.
ReleaseAnyones(ls, s, id) == {l \in ls : l.id # id}

\* release: the caller's own lease is deleted, a quarantined one included.
AfterRelease(ls, s, id) == {l \in ls : ~(l.id = id /\ l.owner = s)}

\* Mutants of AfterDisconnect: nothing is released; quarantines are released too.
DisconnectKeepsLeases(ls, s) == ls
DisconnectDropsAll(ls, s) == {l \in ls : l.owner # s}

\* deleteLease over every active lease of s: what disconnect leaves behind.
AfterDisconnect(ls, s) == {l \in ls : ~(l.owner = s /\ l.state = "active")}

\* Mutant of Aged: no floor at zero.
AgedBelowZero(l) == [l EXCEPT !.left = l.left - 1]

\* The lease with one millisecond (one unit of the model) less to live.
Aged(l) == [l EXCEPT !.left = IF l.left > 0 THEN l.left - 1 ELSE 0]

-----------------------------------------------------------------------------
Init ==
    /\ sessions = {}
    /\ defaultTab = [s \in Session |-> NoTab]
    /\ leases = {}
    /\ nextLease = 1
    /\ history = <<>>

\* A session id that is already connected is refused (no state changes).
Connect(s) ==
    /\ s \notin sessions
    /\ sessions' = sessions \union {s}
    /\ defaultTab' = [defaultTab EXCEPT ![s] = NoTab]
    /\ leases' = Live(leases)
    /\ UNCHANGED <<nextLease, history>>

\* Quarantined leases survive the session that owns them.
Disconnect(s) ==
    /\ sessions' = sessions \ {s}
    /\ defaultTab' = [defaultTab EXCEPT ![s] = NoTab]
    /\ leases' = AfterDisconnect(Live(leases), s)
    /\ UNCHANGED <<nextLease, history>>

\* touch and status: the calls whose only effect on the table is the cleanup.
Touch ==
    /\ leases' = Live(leases)
    /\ UNCHANGED <<sessions, defaultTab, nextLease, history>>

SetDefaultTab(s, t) ==
    /\ s \in sessions
    /\ defaultTab' = [defaultTab EXCEPT ![s] = t]
    /\ UNCHANGED <<sessions, leases, nextLease, history>>

Acquire(s, r, ttl) ==
    LET live == Live(leases)
        result == AcquireResult(live, s, r)
    IN  /\ s \in sessions
        /\ result = "granted" => nextLease <= MaxLease
        /\ leases' = AfterAcquire(live, nextLease, s, r, ttl)
        /\ nextLease' = IF result = "granted" THEN nextLease + 1 ELSE nextLease
        /\ history' = IF result = "granted" /\ Mode = "observe" /\ On(live, r) # {}
                      THEN Emit(history, s, r) ELSE history
        /\ UNCHANGED <<sessions, defaultTab>>

\* renew asks for ownership only: neither the session nor the state is tested.
Renew(s, id, ttl) ==
    LET live == Live(leases)
        mine == {l \in live : l.id = id /\ l.owner = s}
    IN  /\ leases' = Extend(live, mine, ttl)
        /\ UNCHANGED <<sessions, defaultTab, nextLease, history>>

Release(s, id) ==
    /\ leases' = AfterRelease(Live(leases), s, id)
    /\ UNCHANGED <<sessions, defaultTab, nextLease, history>>

AssertWriteAllowed(s, t) ==
    LET live == Live(leases)
    IN  /\ s \in sessions
        /\ leases' = IF Mode = "off" THEN leases ELSE live
        /\ history' = IF /\ Mode = "observe"
                         /\ WriteVerdict(live, s, t) = "allowed"
                         /\ Active(OthersOn(live, s, t)) # {}
                      THEN Emit(history, s, t) ELSE history
        /\ UNCHANGED <<sessions, defaultTab, nextLease>>

QuarantineTab(s, t) ==
    LET live == Live(leases)
        result == QuarantineResult(live, s, t)
    IN  /\ s \in sessions
        /\ result = "created" => nextLease <= MaxLease
        /\ leases' = AfterQuarantine(live, nextLease, s, t)
        /\ nextLease' = IF result = "created" THEN nextLease + 1 ELSE nextLease
        /\ UNCHANGED <<sessions, defaultTab, history>>

\* Time passes; nothing is deleted until the next call.
Tick ==
    /\ leases' = {Aged(l) : l \in leases}
    /\ UNCHANGED <<sessions, defaultTab, nextLease, history>>

Call(s) ==
    \/ Connect(s)
    \/ Disconnect(s)
    \/ Touch
    \/ \E t \in Tab : SetDefaultTab(s, t) \/ AssertWriteAllowed(s, t) \/ QuarantineTab(s, t)
    \/ \E r \in Resource, ttl \in Ttl : Acquire(s, r, ttl)
    \/ \E id \in 1..MaxLease : Release(s, id)
    \/ \E id \in 1..MaxLease, ttl \in Ttl : Renew(s, id, ttl)

Next == Tick \/ \E s \in Session : Call(s)

Spec == Init /\ [][Next]_cvars

-----------------------------------------------------------------------------
(* Properties.                                                             *)

\* Every variable has its type, and every lease id was handed out by nextLeaseId.
TypeOK ==
    /\ sessions \subseteq Session
    /\ defaultTab \in [Session -> Tab \union {NoTab}]
    /\ leases \subseteq Lease
    /\ nextLease \in Nat \ {0}
    /\ \A l \in leases : l.id < nextLease
    /\ history \in Seq(Conflict)

\* In enforce mode a tab, and the recorder, is leased to at most one agent at
\* a time, however acquisitions, expiries, disconnects, renewals and
\* quarantines follow one another (acquire, quarantineTab, createLease).
EnforceExclusive ==
    Mode = "enforce" => \A l, m \in leases : l.resource = m.resource => l = m

\* In every mode a session holds at most one lease on a resource: acquire
\* extends and quarantineTab converts what the session already has.
OneLeasePerOwner ==
    \A l, m \in leases : l.resource = m.resource /\ l.owner = m.owner => l = m

\* In every mode a quarantined tab is leased to nobody else: a quarantine is
\* never laid over another agent's lease, and no lease is granted over it.
QuarantineAlone ==
    \A l, m \in leases : l.resource = m.resource /\ l.state = "quarantined" => l = m

\* An active lease belongs to a connected session, so that no tab stays leased
\* by an agent that is gone (disconnect deletes them; create needs a session).
ActiveOwnerConnected == \A l \in Active(leases) : l.owner \in sessions

\* No call of one agent ends, shortens, converts or otherwise changes a lease
\* of another agent that has time left, not even with the id of that lease.
OthersKeepTheirLeases ==
    [][\A s \in Session : Call(s) =>
          \A l \in Live(leases) : l.owner # s => l \in leases']_cvars

\* A quarantine with time left outlives the disconnection of its owner.
DisconnectKeepsQuarantine ==
    [][\A l \in Quarantined(Live(leases)) :
          l.owner \in sessions \ sessions' => l \in leases']_cvars

\* A quarantined lease never becomes an active one again: renewing it or
\* acquiring the tab once more extends the quarantine, it does not lift it.
QuarantineNeverLifted ==
    [][\A l \in Quarantined(leases), m \in leases' : l.id = m.id => m.state = "quarantined"]_cvars

\* In observe mode nobody shares a resource silently: a lease granted next to
\* another agent's live lease leaves its conflict at the end of the history.
ObservedOverlapIsReported ==
    [][Mode = "observe" =>
         \A l \in Active(leases') :
            l.id >= nextLease /\ OthersOn(Live(leases), l.owner, l.resource) # {}
               => /\ history' # <<>>
                  /\ history'[Len(history')] = [session |-> l.owner, resource |-> l.resource]
      ]_cvars
=============================================================================
