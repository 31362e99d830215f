------------------------------- MODULE Bridge -------------------------------
(***************************************************************************)
(* The request path of the Chrome Bridge (apps/chrome-bridge/src/bridge.ts)*)
(* from a client's socket to the extension and back, composed with the     *)
(* coordinator's lease table: the idempotency cache, the admission of      *)
(* writes, the write queue of each tab, the request timers, the quarantine *)
(* of a tab whose write has an unknown outcome, and the leases of a flow   *)
(* recording.                                                              *)
(*                                                                         *)
(* The bridge is one event loop.  A socket line, a native message, a timer *)
(* or a close is an action that waits until the promise reactions of the   *)
(* one before have run (Quiet); the reactions are the actions StartWrite   *)
(* and Conclude.  The queue of a tab is the FIFO of SerialWrites.          *)
(*                                                                         *)
(* Requests are numbered in the order in which the bridge receives them.   *)
(***************************************************************************)
EXTENDS Naturals, Sequences, FiniteSets

CONSTANTS
    Session, Tab, Recorder, NoTab, Mode, Ttl, QuarantineTtl, MaxHistory, MaxLease,
    ClientOf,       \* the clientId each session says hello with
    Key,            \* the idempotency keys clients use
    Action,         \* the browser actions clients ask for
    Leasable,       \* bound: the resources agents use the lease tools on
    RecordingTtl,   \* 300_000: lifetime of the leases of a recording
    CacheTtl,       \* 30_000: how long an outcome is remembered
    MaxCompleted,   \* 1024: outcomes remembered before old ones are evicted
    IdentityBound,  \* the bridge was launched for a managed identity
    Reply,          \* what the extension may answer
    SendFailure,    \* how forwarding may fail although the extension is ready
    Hellos,         \* bound: valid and invalid extension handshakes
    MayRestart,     \* bound: whether the bridge may die and be started again
    MaxRequests     \* bound: requests in one behaviour

ASSUME BridgeAssumption ==
    /\ Action \subseteq {"get_tabs", "snapshot", "new_tab", "click", "switch_tab",
                         "record_start", "record_stop"}
    /\ Leasable \subseteq Tab \union {Recorder}
    /\ Reply \subseteq {"ok", "EXTENSION_ERROR", "UNKNOWN_OUTCOME"}
    /\ SendFailure \subseteq {"REQUEST_TIMEOUT", "CONNECTION_CLOSED"}
    /\ {RecordingTtl, CacheTtl} \subseteq Nat \ {0}
    /\ {MaxCompleted, MaxRequests} \subseteq Nat
    /\ IdentityBound \in BOOLEAN /\ MayRestart \in BOOLEAN /\ Hellos \subseteq BOOLEAN

VARIABLES
    sessions, defaultTab, leases, nextLease, history,  \* the coordinator
    closed,     \* sessions whose socket is gone; a session id is never reused
    req,        \* the requests so far, with the promise each one waits for
    queue,      \* the write queue of each tab: unsettled writes in order
    completed,  \* idempotencyCompleted: entries [key, at, left, outcome], `at' for the
                \* place in the insertion order of the Map
    recording,  \* recordingLeases
    recorder,   \* flow-recorder's `active': the request that started it, if any
    ready       \* extensionConnected /\ nativeReady

C == INSTANCE Coordinator
F == INSTANCE FiniteSetsExt

ASSUME TableAssumption == C!CoordinatorAssumption

cvars == <<sessions, defaultTab, leases, nextLease, history>>
bvars == <<closed, req, queue, completed, recording, recorder, ready>>
vars == <<cvars, bvars>>

-----------------------------------------------------------------------------
(* Requests.                                                               *)

Requests == 1..Len(req)
NeedsTab(action) == action \notin {"get_tabs", "new_tab"}
IsRead(action) == action \in {"get_tabs", "snapshot"}
IsRecording(action) == action \in {"record_start", "record_stop"}

\* Writes with a tab go through the tab's queue, everything else does not.
Queued(action, tab) == tab # NoTab /\ ~IsRead(action)

CacheKey(s, action, key) == <<ClientOf[s], action, key>>
KeyOf(q) == CacheKey(q.session, q.action, q.key)

\* idempotencyInFlight: the request whose execution a duplicate would join.
Running == {r \in Requests : req[r].phase \in {"queued", "sent", "settling"}}
Leaders(k) == {r \in Running : KeyOf(req[r]) = k}

\* epoch (for OnlyYoungerLeases) is the id of the first lease after the admission.
NewRequest(s, action, tab, key, phase, outcome) ==
    [session |-> s, action |-> action, tab |-> tab, key |-> key, phase |-> phase,
     outcome |-> outcome, epoch |-> nextLease, browser |-> "none"]

\* The promise reactions of the last event have run.
Startable(t) == queue[t] # <<>> /\ req[Head(queue[t])].phase = "queued"
Quiet ==
    /\ \A r \in Requests : req[r].phase # "settling"
    /\ \A t \in Tab : ~Startable(t)

-----------------------------------------------------------------------------
(* The idempotency cache.                                                  *)

Remembered(cache, k) == \E e \in cache : e.key = k /\ e.left > 0
OutcomeOf(cache, k) == (CHOOSE e \in cache : e.key = k).outcome
NewerThan(cache, e) == {f \in cache : f.at > e.at}

\* Map.set: an old entry keeps its place, a new one goes to the end.
Place(cache, k) ==
    IF \E e \in cache : e.key = k THEN (CHOOSE e \in cache : e.key = k).at
    ELSE 1 + F!Max({0} \union {e.at : e \in cache})
Remember(cache, k, outcome) ==
    {e \in cache : e.key # k} \union
        {[key |-> k, at |-> Place(cache, k), left |-> CacheTtl, outcome |-> outcome]}

\* A cache that has grown too large loses its oldest entries, expired or not,
\* and then the expired ones.
Evict(cache) ==
    IF Cardinality(cache) <= MaxCompleted THEN cache
    ELSE {e \in cache : e.left > 0 /\ Cardinality(NewerThan(cache, e)) < MaxCompleted}

-----------------------------------------------------------------------------
(* The lease table as a value, for handlers that call the coordinator twice. *)

Table == [leases |-> C!Live(leases), next |-> nextLease, history |-> history]

\* The table once acquire has come to `result'.
Acquired(T, s, r, ttl, result) ==
    [leases |-> C!AfterAcquire(T.leases, T.next, s, r, ttl),
     next |-> IF result = "granted" THEN T.next + 1 ELSE T.next,
     history |-> IF result = "granted" /\ Mode = "observe" /\ C!On(T.leases, r) # {}
                 THEN C!Emit(T.history, s, r) ELSE T.history]

OwnLease(T, s, r) == (CHOOSE l \in C!OwnOn(T.leases, s, r) : TRUE).id

\* Mutant of AfterQuarantine: a tab the session has no lease on is left as it is.
QuarantineLeasedOnly(T, s, t) ==
    [T EXCEPT !.leases = C!Rewrite(T.leases, C!OwnOn(T.leases, s, t), "quarantined", QuarantineTtl)]

\* quarantineTab: logged and ignored when the session is gone or the coordinator refuses.
AfterQuarantine(T, s, t) ==
    IF s \notin sessions THEN T
    ELSE [T EXCEPT !.leases = C!AfterQuarantine(T.leases, T.next, s, t),
                   !.next = IF C!QuarantineResult(T.leases, s, t) = "created"
                            THEN T.next + 1 ELSE T.next]

RecordingOf(entries, s) == {e \in entries : e.session = s}

\* releaseRecordingLeases, without the quarantine.
Released(T, entries, s) ==
    [T EXCEPT !.leases = {l \in T.leases : ~\E e \in RecordingOf(entries, s) :
                              l.owner = s /\ l.id \in {e.tabLease, e.recorderLease}}]

\* Mutant of Rollback: the recorder is kept.
KeepRecorder(T, s, id) == T

\* The recorder lease of a recording that could not lease its tab is given back.
Rollback(T, s, id) == [T EXCEPT !.leases = C!AfterRelease(T.leases, s, id)]

\* What a handler has come to: an error, or "none", with the table and the
\* recording leases as they are then.
CameTo(error, T) == [error |-> error, table |-> T, recording |-> recording]

Recorded(T, s, t) ==
    [CameTo("none", T) EXCEPT !.recording = @ \union
        {[session |-> s, tab |-> t, recorderLease |-> OwnLease(T, s, Recorder),
          tabLease |-> OwnLease(T, s, t)]}]

\* acquireRecordingLeases: the recorder first, then the tab; the recorder is
\* given back when the tab is refused.
LeaseTab(T, s, t, result) ==
    IF result \in {"extended", "granted"}
    THEN Recorded(Acquired(T, s, t, RecordingTtl, result), s, t)
    ELSE CameTo(result, Rollback(T, s, OwnLease(T, s, Recorder)))
WithRecorder(T, s, t) == LeaseTab(T, s, t, C!AcquireResult(T.leases, s, t))
LeaseRecorder(T, s, t, result) ==
    IF result \in {"extended", "granted"}
    THEN WithRecorder(Acquired(T, s, Recorder, RecordingTtl, result), s, t)
    ELSE CameTo(result, T)

RecordingLeases(T, s, t) ==
    CASE RecordingOf(recording, s) = {} ->
           LeaseRecorder(T, s, t, C!AcquireResult(T.leases, s, Recorder))
      [] \E e \in RecordingOf(recording, s) : e.tab # t -> CameTo("INVALID_REQUEST", T)
      [] \E e \in RecordingOf(recording, s) : e.tab = t -> CameTo("none", T)

-----------------------------------------------------------------------------
(* handlePipeRequest, up to the point where it awaits the execution.       *)

\* resolveCoordinationParams: the tab a request is about.
Target(s, action, tab) == IF NeedsTab(action) /\ tab = NoTab THEN defaultTab[s] ELSE tab

\* A request that the coordinator refuses gives its recording leases back.
GivenBack(s, action, error, start) ==
    IF ~IsRecording(action) THEN [start EXCEPT !.error = error]
    ELSE [error |-> error, table |-> Released(start.table, start.recording, s),
          recording |-> start.recording \ RecordingOf(start.recording, s)]

\* coordinateBrowserRequest, from what acquireRecordingLeases has come to.
Admitted(s, action, t, start, verdict) ==
    CASE start.error # "none" -> start
      [] start.error = "none" /\ verdict # "allowed" -> GivenBack(s, action, verdict, start)
      [] start.error = "none" /\ verdict = "allowed" ->
           IF /\ Mode = "observe" /\ Queued(action, t)
              /\ C!Active(C!OthersOn(start.table.leases, s, t)) # {}
           THEN [start EXCEPT !.table.history = C!Emit(@, s, t)] ELSE start
Judged(s, action, t, start) ==
    Admitted(s, action, t, start, IF Queued(action, t) THEN C!WriteVerdict(start.table.leases, s, t)
                                  ELSE "allowed")

\* The admission of a request on tab t.
Admission(s, action, t) ==
    IF NeedsTab(action) /\ t = NoTab /\ Mode = "enforce" THEN CameTo("TAB_ID_REQUIRED", Table)
    ELSE Judged(s, action, t, IF action = "record_start" /\ t # NoTab
                              THEN RecordingLeases(Table, s, t) ELSE CameTo("none", Table))

SetTable(T) == leases' = T.leases /\ nextLease' = T.next /\ history' = T.history

\* A request arrives on the socket of a connected session.
Arrives(s) == Quiet /\ s \in sessions /\ Len(req) < MaxRequests

\* The same key within CacheTtl: the outcome is repeated, nothing is executed.
AnswerFromCache(s, action, tab, key) ==
    LET k == CacheKey(s, action, key)
    IN  /\ Arrives(s)
        /\ completed' = Evict(completed)
        /\ Remembered(completed', k)
        /\ req' = Append(req, NewRequest(s, action, tab, key, "answered",
                                         OutcomeOf(completed', k)))
        /\ UNCHANGED <<cvars, closed, queue, recording, recorder, ready>>

\* The same key while the first request is executing: one execution, two answers.
Join(s, action, tab, key) ==
    LET k == CacheKey(s, action, key)
    IN  /\ Arrives(s)
        /\ completed' = Evict(completed)
        /\ ~Remembered(completed', k)
        /\ Leaders(k) # {}
        /\ req' = Append(req, NewRequest(s, action, tab, key, "joined", "none"))
        /\ UNCHANGED <<cvars, closed, queue, recording, recorder, ready>>

\* Mutant of Original: an execution in flight is not looked for.
OriginalUnlessRemembered(k) == ~Remembered(Evict(completed), k)

\* Neither the cache nor an execution in flight knows the key.
Original(k) == ~Remembered(Evict(completed), k) /\ Leaders(k) = {}

\* What every request that is not a duplicate does before it is executed:
\* touch, resolve the tab, remember a switch, lease for a recording, admit (a).
Prepare(s, action, t, key, a) ==
    /\ Arrives(s)
    /\ Original(CacheKey(s, action, key))
    /\ defaultTab' = IF action = "switch_tab" /\ t # NoTab
                     THEN [defaultTab EXCEPT ![s] = t] ELSE defaultTab
    /\ SetTable(a.table)
    /\ nextLease' <= MaxLease + 1
    /\ recording' = a.recording
    /\ UNCHANGED <<sessions, closed, recorder, ready>>

\* A refused request is answered at once and its error is remembered.
Refuse(s, action, t, key, a) ==
    /\ a.error # "none"
    /\ Prepare(s, action, t, key, a)
    /\ completed' = Remember(Evict(completed), CacheKey(s, action, key), a.error)
    /\ req' = Append(req, NewRequest(s, action, t, key, "answered", a.error))
    /\ UNCHANGED queue

\* forwardBrowserRequest: refused without a ready extension, refused when the
\* caller's deadline has passed or the native channel fails, or sent.
Forwards(q, how) ==
    IF how = "sent" THEN [q EXCEPT !.phase = "sent", !.browser = "sent"]
    ELSE [q EXCEPT !.phase = "settling", !.outcome = how]
Ways == IF ready THEN {"sent"} \union SendFailure ELSE {"BRIDGE_NOT_READY"}

\* A read, or a request without a tab, is forwarded without waiting.
ForwardNow(s, action, t, key, a) ==
    /\ a.error = "none" /\ ~Queued(action, t)
    /\ Prepare(s, action, t, key, a)
    /\ completed' = Evict(completed)
    /\ \E how \in Ways :
          req' = Append(req, Forwards(NewRequest(s, action, t, key, "queued", "none"), how))
    /\ UNCHANGED queue

\* A write to a tab is admitted now and forwarded when its turn comes.
Enqueue(s, action, t, key, a) ==
    /\ a.error = "none" /\ Queued(action, t)
    /\ Prepare(s, action, t, key, a)
    /\ completed' = Evict(completed)
    /\ req' = Append(req, NewRequest(s, action, t, key, "queued", "none"))
    /\ queue' = [queue EXCEPT ![t] = Append(@, Len(req) + 1)]

Handle(s, action, t, key, a) ==
    \/ Refuse(s, action, t, key, a)
    \/ ForwardNow(s, action, t, key, a)
    \/ Enqueue(s, action, t, key, a)

Receive(s) ==
    \E action \in Action, tab \in Tab \union {NoTab}, key \in Key :
        \/ AnswerFromCache(s, action, tab, key)
        \/ Join(s, action, tab, key)
        \/ LET t == Target(s, action, tab)
           IN  Handle(s, action, t, key, Admission(s, action, t))

-----------------------------------------------------------------------------
(* Promise reactions.                                                      *)

\* Mutant of Leave: the next write of the tab is never released.
LeaveNothing(r) == queue

\* A write that settles leaves the queue of its tab, whose first it is
\* (runTabWrite's finally); what is not queued leaves no queue.
Leave(r) ==
    [t \in Tab |-> IF queue[t] # <<>> /\ Head(queue[t]) = r THEN Tail(queue[t]) ELSE queue[t]]

\* The first write of a tab's queue is forwarded; it is not admitted again.
StartWrite(t) ==
    /\ Startable(t)
    /\ \E how \in Ways :
          LET r == Head(queue[t])
          IN  /\ req' = [req EXCEPT ![r] = Forwards(@, how)]
              /\ queue' = IF how = "sent" THEN queue ELSE Leave(r)
    /\ UNCHANGED <<cvars, closed, completed, recording, recorder, ready>>

\* The handler goes on after its await: it remembers the outcome, gives a
\* recording's leases back, quarantines the tab of an unknown outcome, and
\* answers the request and its duplicates.  runTabWrite releases the next write
\* of the tab before its own promise settles, so that write has been started.
Conclude(r) ==
    LET q == req[r]
        unknown == q.outcome = "UNKNOWN_OUTCOME"
        over == \/ q.action = "record_stop"
                \/ q.action = "record_start" /\ q.outcome # "ok"
        freed == IF over THEN Released(Table, recording, q.session) ELSE Table
        suspects == IF q.tab # NoTab THEN {q.tab}
                    ELSE IF over THEN {e.tab : e \in RecordingOf(recording, q.session)} ELSE {}
        duplicates == {d \in Requests : req[d].phase = "joined" /\ KeyOf(req[d]) = KeyOf(q)}
    IN  /\ q.phase = "settling"
        /\ \A t \in Tab : ~Startable(t)
        /\ completed' = Remember(completed, KeyOf(q), q.outcome)
        /\ recording' = IF over THEN recording \ RecordingOf(recording, q.session) ELSE recording
        /\ IF unknown /\ suspects # {}
           THEN \E t \in suspects : SetTable(AfterQuarantine(freed, q.session, t))
           ELSE SetTable(freed)
        /\ req' = [d \in Requests |->
                     IF d \in duplicates \union {r}
                     THEN [req[d] EXCEPT !.phase = "answered", !.outcome = q.outcome]
                     ELSE req[d]]
        /\ UNCHANGED <<sessions, defaultTab, closed, queue, recorder, ready>>

-----------------------------------------------------------------------------
(* Timers and the extension.                                               *)

\* Mutant of TimeoutOutcome: a write that was sent is said to have timed out.
TimeoutIsTimeout(action) == "REQUEST_TIMEOUT"

\* The timer of a pending request: a write may have been executed, a read not.
TimeoutOutcome(action) == IF IsRead(action) THEN "REQUEST_TIMEOUT" ELSE "UNKNOWN_OUTCOME"

Timeout(r) ==
    /\ Quiet
    /\ req[r].phase = "sent"
    /\ req' = [req EXCEPT ![r].phase = "settling", ![r].outcome = TimeoutOutcome(req[r].action)]
    /\ queue' = Leave(r)
    /\ UNCHANGED <<cvars, closed, completed, recording, recorder, ready>>

\* The one flow recording refuses a second one, and to be stopped for another tab.
Accepts(r) ==
    CASE req[r].action = "record_start" -> recorder = {}
      [] req[r].action = "record_stop" -> \E a \in recorder : req[a].tab = req[r].tab
      [] OTHER -> TRUE

RecorderAfter(r) ==
    CASE req[r].action = "record_start" -> {r}
      [] req[r].action = "record_stop" -> {}
      [] OTHER -> recorder

\* The extension takes up a request whose deadline has not passed: it executes
\* it, or refuses it before it has done anything.
Execute(r) ==
    /\ Quiet
    /\ req[r].phase \in {"sent", "lost"} /\ req[r].browser = "sent"
    /\ \/ /\ Accepts(r)
          /\ req' = [req EXCEPT ![r].browser = "executing"]
          /\ recorder' = RecorderAfter(r)
       \/ /\ ~Accepts(r) \/ "EXTENSION_ERROR" \in Reply
          /\ req' = [req EXCEPT ![r].browser = "refusing"]
          /\ UNCHANGED recorder
    /\ UNCHANGED <<cvars, closed, queue, completed, recording, ready>>

\* What the extension answers.  A recording that was started is reported with
\* its id, unless it has been stopped again by then.
Replies(r) ==
    CASE req[r].browser = "refusing" -> {"EXTENSION_ERROR"}
      [] req[r].browser = "executing" /\ req[r].action = "record_start" ->
           IF recorder = {} THEN {"EXTENSION_ERROR"} ELSE {"ok"}
      [] OTHER -> Reply

\* Mutant of Heard: the response is not matched with a pending request.
HeardUnmatched(r) == ready \/ ~IdentityBound

\* The response to r is not dropped and r is pending.
Heard(r) == (ready \/ ~IdentityBound) /\ req[r].phase = "sent"

\* The extension is done and its response reaches the bridge.  Before the
\* identity handshake the response is dropped; without a pending entry it is
\* an orphan; otherwise it settles the request.
Respond(r) ==
    /\ Quiet
    /\ req[r].browser \in {"executing", "refusing"}
    /\ \E reply \in Replies(r) :
          LET done == [req EXCEPT ![r].browser = "done"]
          IN  /\ req' = IF Heard(r) THEN [done EXCEPT ![r].phase = "settling", ![r].outcome = reply]
                        ELSE done
              /\ queue' = IF Heard(r) THEN Leave(r) ELSE queue
              /\ ready' = (ready \/ ~IdentityBound)
    /\ UNCHANGED <<cvars, closed, completed, recording, recorder>>

\* extension:hello, valid for this identity or not.
Hello(valid) ==
    /\ Quiet
    /\ ready' = valid
    /\ UNCHANGED <<cvars, closed, req, queue, completed, recording, recorder>>

-----------------------------------------------------------------------------
(* Sockets, leases and time.                                               *)

Open(s) ==
    /\ Quiet
    /\ s \notin closed
    /\ C!Connect(s)
    /\ UNCHANGED bvars

\* The requests of a closed socket go on; only their answers have no reader.
Close(s) ==
    /\ Quiet
    /\ s \in sessions
    /\ C!Disconnect(s)
    /\ closed' = closed \union {s}
    /\ recording' = recording \ RecordingOf(recording, s)
    /\ UNCHANGED <<req, queue, completed, recorder, ready>>

\* handleCoordinationRequest: touch, then the coordinator's own method.
LeaseRequest(s) ==
    /\ Quiet
    /\ s \in sessions
    /\ \/ \E r \in Leasable, ttl \in Ttl : C!Acquire(s, r, ttl)
       \/ \E l \in leases : l.resource \in Leasable /\ C!Release(s, l.id)
       \/ \E l \in leases, ttl \in Ttl : l.resource \in Leasable /\ C!Renew(s, l.id, ttl)
       \/ C!Touch
    /\ UNCHANGED bvars

\* One unit of time: leases and remembered outcomes get older.
Tick ==
    /\ Quiet
    /\ C!Tick
    /\ completed' = {[e EXCEPT !.left = IF @ > 0 THEN @ - 1 ELSE 0] : e \in completed}
    /\ UNCHANGED <<closed, req, queue, recording, recorder, ready>>

\* The native channel ends, or a signal comes: pending requests are rejected
\* but the process exits before any handler goes on, so no one is answered.
\* Chrome starts a new bridge, which knows nothing.  The extension may have
\* gone as well, or go on with what it was doing.  The leases of the next
\* bridge, numbered from 1 again, are younger than every request so far (epoch).
Restart ==
    /\ Quiet
    /\ sessions' = {}
    /\ defaultTab' = [s \in Session |-> NoTab]
    /\ leases' = {} /\ nextLease' = 1 /\ history' = <<>>
    /\ closed' = closed \union sessions
    /\ queue' = [t \in Tab |-> <<>>]
    /\ completed' = {}
    /\ recording' = {}
    /\ ready' = FALSE
    /\ \E browserToo \in BOOLEAN :
          /\ recorder' = IF browserToo THEN {} ELSE recorder
          /\ req' = [r \in Requests |->
                [req[r] EXCEPT !.phase = IF @ \in {"answered", "lost"} THEN @ ELSE "lost",
                               !.epoch = 0,
                               !.browser = IF browserToo /\ @ \in {"sent", "executing", "refusing"}
                                           THEN "gone" ELSE @]]

Init ==
    /\ C!Init
    /\ closed = {}
    /\ req = <<>>
    /\ queue = [t \in Tab |-> <<>>]
    /\ completed = {}
    /\ recording = {}
    /\ recorder = {}
    /\ ready = FALSE

Reaction ==
    \/ \E t \in Tab : StartWrite(t)
    \/ \E r \in Requests : Conclude(r)

Event ==
    \/ \E s \in Session : Open(s) \/ Close(s) \/ LeaseRequest(s) \/ Receive(s)
    \/ \E r \in Requests : Timeout(r) \/ Execute(r) \/ Respond(r)
    \/ \E valid \in Hellos : Hello(valid)
    \/ Tick
    \/ MayRestart /\ Restart

Next == Reaction \/ Event

\* Promise reactions run and timers fire; nothing else is promised.
Fairness ==
    /\ WF_vars(Reaction)
    /\ \A r \in 1..MaxRequests : WF_vars(r \in Requests /\ Timeout(r))

Spec == Init /\ [][Next]_vars
FairSpec == Spec /\ Fairness

-----------------------------------------------------------------------------
(* Properties.                                                             *)

Errors == {"TAB_ID_REQUIRED", "INVALID_REQUEST", "RESOURCE_BUSY", "RESOURCE_QUARANTINED",
           "BRIDGE_NOT_READY", "REQUEST_TIMEOUT", "CONNECTION_CLOSED", "EXTENSION_ERROR",
           "UNKNOWN_OUTCOME"}

\* Every variable has its type; a request has an outcome once it has settled,
\* and a tab's queue holds exactly the unsettled writes to that tab.
TypeOK ==
    /\ C!TypeOK
    /\ closed \subseteq Session /\ closed \intersect sessions = {}
    /\ \A r \in Requests :
         /\ req[r].session \in Session /\ req[r].action \in Action /\ req[r].key \in Key
         /\ req[r].tab \in Tab \union {NoTab}
         /\ req[r].phase \in {"joined", "queued", "sent", "settling", "answered", "lost"}
         /\ req[r].browser \in {"none", "sent", "executing", "refusing", "done", "gone"}
         /\ req[r].outcome \in Errors \union {"ok", "none"}
         /\ req[r].phase \in {"settling", "answered"} => req[r].outcome # "none"
    /\ \A t \in Tab : {queue[t][i] : i \in 1..Len(queue[t])} =
         {r \in Requests : /\ req[r].tab = t /\ Queued(req[r].action, t)
                           /\ req[r].phase \in {"queued", "sent"}}
    /\ \A e \in completed : e.outcome \in Errors \union {"ok"}
    /\ \A e \in recording : e.session \in Session /\ e.tab \in Tab
    /\ recorder \subseteq Requests
    /\ ready \in BOOLEAN

\* The extension executes the writes to a tab one at a time: two are executed at
\* once only when the client of the first was told that its outcome is
\* unknown, or was left by a bridge that died.
OverlapOnlyAfterUnknown ==
    \A r1, r2 \in Requests :
        /\ r1 < r2
        /\ req[r1].tab = req[r2].tab
        /\ \A r \in {r1, r2} : req[r].browser = "executing" /\ Queued(req[r].action, req[r].tab)
        => req[r1].outcome = "UNKNOWN_OUTCOME" \/ req[r1].phase = "lost"

\* In enforce mode two agents never have a lease on one tab or on the recorder,
\* though a handler may change the table several times and recordings, quarantines
\* and restarts come between the calls of the lease tools.
EnforceExclusive == C!EnforceExclusive

\* What a key promises, and for how long.  Of the requests of one client with one
\* key at most one is under way, it has no outcome in the cache, and every
\* duplicate that waits waits for it.  The extension executes two of them at once
\* only when the first was given up by its timer or by a bridge that died.  An
\* outcome is remembered for CacheTtl, or until MaxCompleted younger ones have
\* pushed it out: then the key runs again.
OneExecutionPerKey ==
    /\ \A r \in Running : /\ ~Remembered(completed, KeyOf(req[r]))
                          /\ Leaders(KeyOf(req[r])) = {r}
    /\ \A d \in Requests : req[d].phase = "joined" => Leaders(KeyOf(req[d])) # {}
    /\ \A r1, r2 \in Requests :
          /\ r1 < r2 /\ KeyOf(req[r1]) = KeyOf(req[r2])
          /\ \A r \in {r1, r2} : req[r].browser = "executing"
          => req[r1].outcome = TimeoutOutcome(req[r1].action) \/ req[r1].phase = "lost"

\* An answer is given once: neither a late response of the extension nor a
\* duplicate nor a restart changes it.
AnswerIsFinal ==
    [][\A r \in Requests : req[r].phase = "answered" =>
          /\ r \in Requests' /\ req'[r].phase = "answered"
          /\ req'[r].outcome = req[r].outcome]_vars

\* In enforce mode a write waits for, is sent to or is executed on a tab that
\* somebody else holds only when that lease is younger than its admission.
OnlyYoungerLeases ==
    Mode = "enforce" =>
        \A r \in Requests :
            /\ Queued(req[r].action, req[r].tab)
            /\ \/ req[r].phase \in {"queued", "sent"}
               \/ req[r].phase # "lost" /\ req[r].browser = "executing"
            =>  \A l \in C!OthersOn(C!Live(leases), req[r].session, req[r].tab) :
                    l.id >= req[r].epoch

Concluded(r, outcome) ==
    req[r].phase = "settling" /\ req'[r].phase = "answered" /\ req'[r].outcome = outcome

\* An unknown outcome on a tab quarantines the tab, as long as its client is
\* connected and nobody else holds an active lease on the tab.
UnknownOutcomeQuarantines ==
    [][\A r \in Requests :
          /\ Concluded(r, "UNKNOWN_OUTCOME")
          /\ req[r].tab # NoTab
          /\ req[r].session \in sessions
          /\ C!Active(C!OthersOn(C!Live(leases), req[r].session, req[r].tab)) = {}
          => C!Quarantined(C!On(leases', req[r].tab)) # {}]_vars

\* When agents leave the recorder to record_start, every lease on it belongs to
\* a recording the bridge knows of: a refused, failed, stopped or abandoned
\* recording never leaves the recorder locked behind.
RecorderLeaseAccounted ==
    Recorder \notin Leasable =>
        \A l \in C!On(C!Live(leases), Recorder) :
            \E e \in recording : e.session = l.owner /\ e.recorderLease = l.id

\* What the documents say and the code does not do.

\* docs/compatibility.md: "unknown write outcomes keep the affected resource
\* quarantined until its TTL expires" - also when the client is gone by then.
UnknownAlwaysQuarantined ==
    [][\A r \in Requests :
          Concluded(r, "UNKNOWN_OUTCOME") /\ req[r].tab # NoTab
          => C!Quarantined(C!On(leases', req[r].tab)) # {}]_vars

\* coordinator.test.mjs: "quarantine blocks other owners and remains until TTL" -
\* no write is sent to a tab while somebody else's quarantine on it lasts.
QuarantineBlocksOthers ==
    [][\A r \in Requests :
          req[r].phase = "queued" /\ req'[r].phase = "sent" =>
            C!Quarantined(C!OthersOn(C!Live(leases), req[r].session, req[r].tab)) = {}]_vars

\* SKILL.md: "Only one Agent may own the recorder at a time. Stop or hand off
\* recording explicitly before another Agent starts it." - while the recording
\* of a connected agent runs, no other agent holds the recorder.
OneRecorderOwner ==
    \A r \in recorder : req[r].session \in sessions =>
        C!OthersOn(C!Live(leases), req[r].session, Recorder) = {}

-----------------------------------------------------------------------------
\* Every request gets an answer, whatever the extension does, unless the
\* bridge itself ends.
EveryRequestSettles ==
    \A r \in 1..MaxRequests :
        (r \in Requests) ~> (r \in Requests /\ req[r].phase \in {"answered", "lost"})
=============================================================================
