---------------------------- MODULE BridgeClient ----------------------------
(***************************************************************************)
(* BridgeClient (apps/codex-mcp-server/src/bridge-client.ts): the MCP      *)
(* server's connection to the bridge.  Requests share one connection       *)
(* attempt; a lost connection is reported to what is pending and repaired  *)
(* by a timer; selecting an identity resets the client and connects to     *)
(* another bridge.                                                         *)
(*                                                                         *)
(* An attempt (a call of connect) has at most one socket, so attempts and  *)
(* sockets share their numbers.  The promise reactions of an event (Resume *)
(* and Dispatch) run before the next event: every event asks for Quiet.    *)
(***************************************************************************)
EXTENDS Naturals, Sequences, FiniteSets

CONSTANTS
    MaxAttempts,    \* bound: calls of connect in one behaviour
    MaxRequests,    \* bound: calls of request in one behaviour
    MaxSelections   \* bound: identity selections in one behaviour

ASSUME BridgeClientAssumption ==
    {MaxAttempts, MaxRequests, MaxSelections} \subseteq Nat

VARIABLES
    route,          \* KV_BROWSER_BRIDGE_CONFIG: the selection it is from, or 0
    attempts,       \* the calls of connect, with the life of their sockets
    socket,         \* the installed socket, 0 for null
    connection,     \* the attempt that callers share, 0 for null
    authenticated,
    suppress,       \* suppressNextReconnect
    enabled,        \* reconnectEnabled
    timer,          \* whether reconnectTimer is set
    requests,       \* the calls of request
    writes,         \* the writes of the tab in the order they were queued
    selections      \* the calls of browser_select_identity

link == <<route, attempts, socket, connection, authenticated, suppress, enabled, timer>>
vars == <<link, requests, writes, selections>>

None == 0
Attempts == 1..Len(attempts)
Requests == 1..Len(requests)
Selections == 1..Len(selections)

\* Reads, operations on the browser, and operations on the page
\* (transient_input and external_commit are treated like browser_mutation).
Effects == {"passive_read", "control_plane", "browser_mutation"}

\* Whether a request is queued is another matter: it names a tab, and its method is
\* not in the list of reads, which lacks some passive reads.
NewRequest(effect, queued, a) ==
    [effect |-> effect, queued |-> queued, stage |-> "connecting", on |-> a, answer |-> "none"]

Alive(a) == a # None /\ attempts[a].life = "open"
Usable == Alive(socket) /\ authenticated

-----------------------------------------------------------------------------
(* What a request that gets no answer is told *)

\* Mutant: a lost connection makes every request retryable.
DisconnectIsUnavailable(effect) == "unavailable"

\* disconnectOutcomeFor
DisconnectOutcome(effect) ==
    IF effect = "browser_mutation" THEN "unknown" ELSE "unavailable"

\* timeoutOutcomeFor
TimeoutOutcome(effect) ==
    IF effect = "passive_read" THEN "timeout" ELSE "unknown"

Answered(r, how) == [requests EXCEPT ![r].stage = "answered", ![r].answer = how]

\* Mutant of GivenUp: the request is forgotten, not rejected.
Forgotten(q) == IF q.stage = "pending" THEN [q EXCEPT !.stage = "lost"] ELSE q

GivenUp(q) ==
    IF q.stage = "pending"
    THEN [q EXCEPT !.stage = "answered", !.answer = DisconnectOutcome(q.effect)]
    ELSE q

\* rejectPending: whatever socket a request was written to.
Rejected == [r \in Requests |-> GivenUp(requests[r])]

\* ... the hellos that wait for an answer are in the same map.
Greeting == {a \in Attempts : attempts[a].stage = "hello"}

\* The attempts after some hellos failed and some sockets were destroyed.
Ended(hellos, destroyed) == [a \in Attempts |->
    [route |-> attempts[a].route,
     stage |-> IF a \in hellos THEN "failed" ELSE attempts[a].stage,
     life  |-> IF a \in destroyed /\ Alive(a) THEN "destroyed" ELSE attempts[a].life]]

\* ... and after the close event of socket c.
EndedBy(hellos, c) == [a \in Attempts |->
    [route |-> attempts[a].route,
     stage |-> IF a \in hellos THEN "failed" ELSE attempts[a].stage,
     life  |-> IF a = c THEN "closed" ELSE attempts[a].life]]

\* Mutant of Reconnecting: a closed client reconnects, too.
ReconnectingAlways(on) == TRUE

\* scheduleReconnect: whether the timer is set after it.
Reconnecting(on) == timer \/ on

-----------------------------------------------------------------------------
(* Promise reactions *)

\* connect is called with the route of that moment (loadConfig).
NewAttempt(to) == [route |-> to, stage |-> "opening", life |-> "none"]
Connect == Append(attempts, NewAttempt(route))

\* Whether the await of ensureConnected is over for request r.
Resumable(r) ==
    /\ requests[r].stage = "connecting"
    /\ requests[r].on # None => attempts[requests[r].on].stage \in {"done", "failed"}

\* Mutant of Dispatchable: a write does not wait for the one before it.
DispatchableAtOnce(r) == requests[r].stage = "queued"

\* The write queue of the tab: every write before it is over.
Dispatchable(r) ==
    /\ requests[r].stage = "queued"
    /\ \A i, j \in DOMAIN writes :
           i < j /\ writes[j] = r => requests[writes[i]].stage = "answered"

\* The request of selection s for the status of its bridge is over.
Checked(s) ==
    /\ selections[s].stage = "checking"
    /\ requests[selections[s].request].stage = "answered"

Quiet ==
    /\ \A r \in Requests : ~Resumable(r) /\ ~Dispatchable(r)
    /\ \A s \in Selections : ~Checked(s)

\* requestOnce and write: a socket that is gone answers at once.
Written(r) ==
    IF Alive(socket) THEN [requests EXCEPT ![r].stage = "pending", ![r].on = socket]
    ELSE [requests EXCEPT ![r].stage = "answered", ![r].answer = "unavailable", ![r].on = None]

\* The attempt failed, or what it gave is gone already.
Refused(r) ==
    \/ requests[r].on # None /\ attempts[requests[r].on].stage = "failed"
    \/ socket = None
    \/ ~authenticated

\* request, after its await: callers of one attempt resume in order.
Resume(r) ==
    /\ Resumable(r)
    /\ \A q \in 1..(r - 1) : ~Resumable(q)
    /\ IF Refused(r)
       THEN requests' = [Answered(r, "unavailable") EXCEPT ![r].on = None] /\ UNCHANGED writes
       ELSE IF requests[r].queued
       THEN /\ requests' = [requests EXCEPT ![r].stage = "queued", ![r].on = None]
            /\ writes' = Append(writes, r)
       ELSE requests' = Written(r) /\ UNCHANGED writes
    /\ UNCHANGED <<link, selections>>

Dispatch(r) ==
    /\ Dispatchable(r)
    /\ requests' = Written(r)
    /\ UNCHANGED <<link, writes, selections>>

-----------------------------------------------------------------------------
(* Calls *)

\* request, up to its await: it shares the attempt that is under way.
Request(effect, queued) ==
    /\ Quiet
    /\ Len(requests) < MaxRequests
    /\ enabled' = TRUE
    /\ \E a \in 0..(Len(attempts) + 1) :
           /\ requests' = Append(requests, NewRequest(effect, queued, a))
           /\ \/ Usable /\ a = None /\ UNCHANGED <<attempts, connection>>
              \/ /\ ~Usable /\ connection # None /\ a = connection
                 /\ UNCHANGED <<attempts, connection>>
              \/ /\ ~Usable /\ connection = None
                 /\ Len(attempts) < MaxAttempts
                 /\ a = Len(attempts) + 1
                 /\ attempts' = Connect
                 /\ connection' = a
    /\ UNCHANGED <<route, socket, authenticated, suppress, timer, writes, selections>>

\* What reset does to the socket.  A hello that it rejects fails its attempt: the
\* catch of connect sets suppress, and that of ensureConnected schedules a
\* reconnect.
Unlink ==
    /\ suppress' = (Alive(socket) \/ Greeting # {})
    /\ socket' = None
    /\ authenticated' = FALSE

Reset(on) ==
    /\ Unlink
    /\ connection' = None
    /\ attempts' = Ended(Greeting, {socket})
    /\ requests' = Rejected
    /\ timer' = (on /\ Greeting # {})

\* browser_select_identity remembers the configuration and looks for the identity.
Select ==
    /\ Quiet
    /\ Len(selections) < MaxSelections
    /\ selections' = Append(selections, [from |-> route, request |-> 0, stage |-> "resolving"])
    /\ UNCHANGED <<link, requests, writes>>

\* It is found: the configuration is replaced, the client reset, and the new bridge
\* asked for its status, which starts an attempt.  A hello that the reset rejected
\* ends after that, and its ensureConnected clears the connection.
Resolved(s) ==
    /\ Quiet
    /\ selections[s].stage = "resolving"
    /\ Len(requests) < MaxRequests
    /\ Len(attempts) < MaxAttempts
    /\ selections' = [selections EXCEPT ![s].stage = "checking", ![s].request = Len(requests) + 1]
    /\ route' = s
    /\ enabled' = TRUE
    /\ Unlink
    /\ connection' = IF Greeting = {} THEN Len(attempts) + 1 ELSE None
    /\ attempts' = Append(Ended(Greeting, {socket}), NewAttempt(s))
    /\ requests' = Append(Rejected, NewRequest("passive_read", FALSE, Len(attempts) + 1))
    /\ timer' = (Greeting # {})
    /\ UNCHANGED writes

\* It is not found, the bridge does not answer, or it is another one: the
\* configuration that was remembered is put back and the client reset again.
NotSelected(s) ==
    /\ (selections[s].stage = "resolving" /\ Quiet) \/ Checked(s)
    /\ selections' = [selections EXCEPT ![s].stage = "over"]
    /\ route' = selections[s].from
    /\ Reset(enabled)
    /\ UNCHANGED <<enabled, writes>>

Selected(s) ==
    /\ Checked(s)
    /\ requests[selections[s].request].answer = "bridge"
    /\ selections' = [selections EXCEPT ![s].stage = "selected"]
    /\ UNCHANGED <<link, requests, writes>>

\* browser_clear_identity
Clear ==
    /\ Quiet
    /\ route' = 0
    /\ Reset(enabled)
    /\ UNCHANGED <<enabled, writes, selections>>

\* close: a later request enables the client again.
Close ==
    /\ Quiet
    /\ enabled
    /\ enabled' = FALSE
    /\ Reset(FALSE)
    /\ UNCHANGED <<route, writes, selections>>

-----------------------------------------------------------------------------
(* Events *)

\* The socket of attempt a is connected and installed, whatever was there; its
\* hello is written.
Opened(a) ==
    /\ Quiet
    /\ attempts[a].stage = "opening"
    /\ attempts' = [attempts EXCEPT ![a].stage = "hello", ![a].life = "open"]
    /\ socket' = a
    /\ UNCHANGED <<route, connection, authenticated, suppress, enabled, timer, requests, writes, selections>>

\* No configuration, or no bridge at the endpoint.
NotOpened(a) ==
    /\ Quiet
    /\ attempts[a].stage = "opening"
    /\ attempts' = [attempts EXCEPT ![a].stage = "failed"]
    /\ connection' = None
    /\ timer' = Reconnecting(enabled)
    /\ UNCHANGED <<route, socket, authenticated, suppress, enabled, requests, writes, selections>>

Welcomed(a) ==
    /\ Quiet
    /\ attempts[a].stage = "hello"
    /\ Alive(a)
    /\ attempts' = [attempts EXCEPT ![a].stage = "done"]
    /\ authenticated' = TRUE
    /\ connection' = None
    /\ UNCHANGED <<route, socket, suppress, enabled, timer, requests, writes, selections>>

\* The hello is refused or its timer fires; the client drops its socket.
HelloFails(a) ==
    /\ Quiet
    /\ attempts[a].stage = "hello"
    /\ suppress' = TRUE
    /\ attempts' = Ended({a}, {socket})
    /\ socket' = None
    /\ authenticated' = FALSE
    /\ connection' = None
    /\ timer' = Reconnecting(enabled)
    /\ UNCHANGED <<route, enabled, requests, writes, selections>>

\* The bridge goes away, or sends what cannot be parsed (protocolDisconnect);
\* the close event is still to come.
Drop(a) ==
    /\ Quiet
    /\ Alive(a)
    /\ attempts' = Ended({}, {a})
    /\ UNCHANGED <<route, socket, connection, authenticated, suppress, enabled, timer,
                   requests, writes, selections>>

\* handleDisconnect, for the close event of socket a.  It does not ask which
\* socket was closed.
Closed(a) ==
    /\ Quiet
    /\ attempts[a].life = "destroyed"
    /\ \/ /\ suppress
          /\ suppress' = FALSE
          /\ attempts' = EndedBy({}, a)
          /\ UNCHANGED <<socket, connection, authenticated, timer, requests>>
       \/ /\ ~suppress
          /\ suppress' = (Greeting # {})
          /\ attempts' = EndedBy(Greeting, a)
          /\ socket' = None
          /\ connection' = IF Greeting = {} THEN connection ELSE None
          /\ authenticated' = FALSE
          /\ requests' = Rejected
          /\ timer' = Reconnecting(enabled)
    /\ UNCHANGED <<route, enabled, writes, selections>>

\* The timer of scheduleReconnect calls ensureConnected.
ReconnectTimer ==
    /\ Quiet
    /\ timer
    /\ timer' = FALSE
    /\ \/ (Usable \/ connection # None) /\ UNCHANGED <<attempts, connection>>
       \/ /\ ~Usable /\ connection = None
          /\ Len(attempts) < MaxAttempts
          /\ attempts' = Connect
          /\ connection' = Len(attempts) + 1
    /\ UNCHANGED <<route, socket, authenticated, suppress, enabled, requests, writes, selections>>

RequestTimer(r) ==
    /\ Quiet
    /\ requests[r].stage = "pending"
    /\ requests' = Answered(r, TimeoutOutcome(requests[r].effect))
    /\ UNCHANGED <<link, writes, selections>>

\* handleResponse: the answer of the bridge, on the socket of the request.
Response(r) ==
    /\ Quiet
    /\ requests[r].stage = "pending"
    /\ Alive(requests[r].on)
    /\ requests' = Answered(r, "bridge")
    /\ UNCHANGED <<link, writes, selections>>

Init ==
    /\ route = 0
    /\ attempts = <<>>
    /\ socket = None
    /\ connection = None
    /\ authenticated = FALSE
    /\ suppress = FALSE
    /\ enabled = TRUE
    /\ timer = FALSE
    /\ requests = <<>>
    /\ writes = <<>>
    /\ selections = <<>>

Reaction(r) == Resume(r) \/ Dispatch(r)
Verdict(s) == Checked(s) /\ (NotSelected(s) \/ Selected(s))
Opening(a) == Opened(a) \/ NotOpened(a)

Next ==
    \/ \E effect \in Effects, queued \in BOOLEAN : Request(effect, queued)
    \/ Select \/ Clear \/ Close \/ ReconnectTimer
    \/ \E s \in Selections : Resolved(s) \/ NotSelected(s) \/ Selected(s)
    \/ \E r \in Requests :
           Resume(r) \/ Dispatch(r) \/ RequestTimer(r) \/ Response(r)
    \/ \E a \in Attempts :
           Opened(a) \/ NotOpened(a) \/ Welcomed(a) \/ HelloFails(a) \/ Drop(a) \/ Closed(a)

\* Promise reactions run, timers fire, and the operating system decides an
\* attempt to open a pipe.
Fairness ==
    /\ \A r \in 1..MaxRequests :
           WF_vars(r \in Requests /\ Reaction(r)) /\ WF_vars(r \in Requests /\ RequestTimer(r))
    /\ \A a \in 1..MaxAttempts :
           WF_vars(a \in Attempts /\ Opening(a)) /\ WF_vars(a \in Attempts /\ HelloFails(a))
    /\ \A s \in 1..MaxSelections : WF_vars(s \in Selections /\ Verdict(s))

Spec == Init /\ [][Next]_vars
FairSpec == Spec /\ Fairness
-----------------------------------------------------------------------------
AttemptRecord == [route : Nat, stage : {"opening", "hello", "done", "failed"},
                  life : {"none", "open", "destroyed", "closed"}]
RequestRecord == [effect : Effects, queued : BOOLEAN,
                  stage : {"connecting", "queued", "pending", "answered"}, on : Nat,
                  answer : {"none", "bridge", "unavailable", "timeout", "unknown"}]
SelectionRecord == [from : Nat, request : Nat,
                    stage : {"resolving", "checking", "selected", "over"}]

\* Every variable has its type, and what refers to an attempt or a request
\* refers to one that exists.
TypeOK ==
    /\ attempts \in Seq(AttemptRecord)
    /\ requests \in Seq(RequestRecord)
    /\ writes \in Seq(Requests)
    /\ selections \in Seq(SelectionRecord)
    /\ {route, socket, connection} \subseteq Nat
    /\ {authenticated, suppress, enabled, timer} \subseteq BOOLEAN
    /\ socket <= Len(attempts)
    /\ connection <= Len(attempts)
    /\ \A r \in Requests : requests[r].on <= Len(attempts)

\* A write to the page that may have reached the bridge is never answered with
\* an error that allows a retry, however the connection is lost, reset, closed
\* or too late (rejectPending, requestOnce).
AmbiguousNeverRetryable ==
    \A r \in Requests :
        requests[r].stage = "answered" /\ requests[r].on # None
            /\ requests[r].effect = "browser_mutation"
        => requests[r].answer \in {"bridge", "unknown"}

\* Whatever happens to the connection, at most one write of the tab waits for
\* its answer, and it was queued before every write that still waits in the
\* queue (PerTabWriteQueue).
WritesInTurn ==
    \A i, j \in DOMAIN writes :
        i < j /\ requests[writes[i]].stage # "answered" => requests[writes[j]].stage = "queued"

\* A closed client connects to nothing until it is used again: not by a timer
\* that was set before, and not after a loss that comes later (close,
\* scheduleReconnect).  An attempt that is under way is not stopped.
ClosedStaysClosed ==
    [][~enabled /\ ~enabled' => Len(attempts') = Len(attempts)]_vars

\* Every request is answered: waiting for a connection, in the queue of the
\* tab, or for the bridge.
EveryRequestSettles ==
    \A r \in 1..MaxRequests : (r \in Requests) ~> (r \in Requests /\ requests[r].stage = "answered")

\* "resets the old route without reconnecting it" (KV_IDENTITY_MANIFEST_V1.md):
\* the installed socket leads to the selected bridge.  Violated: an attempt that
\* is under way at the time of the reset installs its socket after it.
OldRouteStaysDown == socket # None => attempts[socket].route = route

\* "A reconnecting, line-delimited JSON-RPC client" (bridge-client.ts): when no
\* close event is to come, the client has dropped a socket that was closed, with
\* what was pending on it.  Violated: when a hello fails because its connection
\* was lost, suppress is left behind and swallows the next loss.
LossIsNoticed ==
    socket # None /\ attempts[socket].life = "closed"
    => \E a \in Attempts : attempts[a].life = "destroyed"

\* "Later browser tools are locked to the selected Bridge" (server.ts:102): a
\* selection that fails puts back the route that its own one replaced.  Violated: two
\* selections overlap, and the one that fails undoes the one that succeeded.
FailureUndoesItself ==
    [][\A s \in Selections :
          selections[s].stage # "over" /\ selections'[s].stage = "over"
          => route' = route \/ route = s]_vars
=============================================================================
