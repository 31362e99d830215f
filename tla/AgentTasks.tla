----------------------------- MODULE AgentTasks -----------------------------
(***************************************************************************)
(* Conversations with the coding agent: the tasks of the desktop renderer  *)
(* (stores/tasks-store.ts, Composer.tsx), the wire to the process that     *)
(* runs the agents (Electron's IPC, or the WebSocket of web-transport.ts   *)
(* and apps/server), and the live sessions of the AgentManager of          *)
(* packages/agent-core.                                                    *)
(*                                                                         *)
(* A new task names itself by a clientRequestId (here: itself) until       *)
(* session:created binds it to the id the SDK chose (here: the number of   *)
(* its first live session; 0 is no id).  A live session is one long-lived  *)
(* query of the SDK: prompts are pushed into its pump, frames come back.   *)
(* What is said (blocks, deltas, tool uses) is left out, as is             *)
(* applyFlagSettings: the composer passes no folders, so none ever change. *)
(***************************************************************************)
EXTENDS Naturals, Sequences, FiniteSets

CONSTANTS
    Task, NoTask,
    Client,     \* the window of Electron, or browser pages
    Placements, \* the pages the tasks may be on
    TranscriptsLate, \* do pages list a session only once session:created has come?
    MaxSends,   \* bound: prompts in one behaviour
    MaxUpsets,  \* bound: stop button, deleted tasks and sockets that close
    MaxLag      \* bound: events a page lags behind when an agent emits more

ASSUME AgentTasksAssumption ==
    /\ NoTask \notin Task /\ TranscriptsLate \in BOOLEAN /\ Placements \subseteq [Task -> Client]
    /\ {MaxSends, MaxUpsets, MaxLag} \subseteq Nat

VARIABLES
    owner,      \* the page each task is on (fixed)
    tasks,      \* useTasksStore
    link,       \* the pages that are connected
    outbox,     \* web-transport: lines written while the socket was closed
    up, down,   \* lines under way to the server and events under way to a page
    handlers,   \* lines whose handler on the server is at an await
    lives,      \* every live session there was, in the order of creation
    sends, upsets, \* how many of them there were (bounds)
    broken      \* tasks whose prompt was lost, or whose socket or query ended under it

wire == <<link, outbox, up>>
bounds == <<sends, upsets>>
vars == <<owner, tasks, wire, down, handlers, lives, bounds, broken>>

-----------------------------------------------------------------------------
(* Live sessions (agent-manager.ts).                                       *)

Lives == 1..Len(lives)

\* liveSessions.get, and pendingLiveSessions in the order of insertion.
Named(s) == {i \in Lives : lives[i].on /\ lives[i].sid = s /\ s # 0}
Unnamed == {i \in Lives : lives[i].on /\ lives[i].sid = 0}
Latest(S) == CHOOSE i \in S : \A j \in S : j <= i
First(S) == CHOOSE i \in S : \A j \in S : i <= j

\* createLiveSession, and the push of the first prompt into its pump.
NewLive(line) ==
    [sid |-> line.sid, crid |-> line.crid, on |-> TRUE, inbox |-> 1,
     turn |-> FALSE, interrupted |-> FALSE]

\* An event is session:created or says that a turn is over: chat:complete,
\* chat:error, agent:status (never `running') and session:messages.
Event(type, sid, crid) == [type |-> type, sid |-> sid, crid |-> crid]

\* Mutant of Over: no clientRequestId.
OverNameless(i) == Event("over", lives[i].sid, NoTask)

\* emit: until the session has a name its events carry the clientRequestId.
\* The end of a turn is two events, a result or an error and a status.
Over(i) ==
    Event("over", lives[i].sid, IF lives[i].sid = 0 THEN lives[i].crid ELSE NoTask)

\* broadcast of the server; Electron's main process has one window.
Broadcast(events) ==
    down' = [c \in Client |-> IF c \in link THEN down[c] \o events ELSE down[c]]

-----------------------------------------------------------------------------
(* The renderer.                                                           *)

\* newEmptyTask, and a task that deleteTask removed: nothing is bound to it.
NewTask == [open |-> TRUE, session |-> 0, pending |-> FALSE, running |-> FALSE]
Deleted == [open |-> FALSE, session |-> 0, pending |-> FALSE, running |-> FALSE]

Line(type, sid, crid, from) == [type |-> type, sid |-> sid, crid |-> crid, from |-> from]

\* window.ccb.send: a line goes out, or waits for the socket to open.
Post(c, line) ==
    IF c \in link THEN up' = [up EXCEPT ![c] = Append(@, line)] /\ UNCHANGED <<link, outbox>>
    ELSE outbox' = [outbox EXCEPT ![c] = Append(@, line)] /\ UNCHANGED <<link, up>>

\* The composer sends only while its task is not running.
Send(t) ==
    /\ tasks[t].open /\ ~tasks[t].running
    /\ sends < MaxSends /\ sends' = sends + 1
    /\ LET s == tasks[t].session
       IN  /\ tasks' = [tasks EXCEPT ![t].running = TRUE, ![t].pending = @ \/ s = 0]
           /\ Post(owner[t], Line("send", s, IF s = 0 THEN t ELSE NoTask, t))
    /\ UNCHANGED <<owner, down, handlers, lives, upsets, broken>>

\* The stop button: nothing is sent for a session that has no name yet.
Stop(t) ==
    /\ tasks[t].running /\ tasks[t].session # 0
    /\ upsets < MaxUpsets /\ upsets' = upsets + 1
    /\ Post(owner[t], Line("interrupt", tasks[t].session, NoTask, t))
    /\ UNCHANGED <<owner, tasks, down, handlers, lives, sends, broken>>

\* deleteTask: the agent of a running task goes on.
Delete(t) ==
    /\ tasks[t].open
    /\ upsets < MaxUpsets /\ upsets' = upsets + 1
    /\ tasks' = [tasks EXCEPT ![t] = Deleted]
    /\ UNCHANGED <<owner, wire, down, handlers, lives, sends, broken>>

\* A session that session:list may have shown.  The list is read from the disk,
\* where the SDK writes a transcript when it likes: only TranscriptsLate says that
\* it is not there, or not asked for, before session:created is with the page.
Listed(c, s) ==
    /\ c \in link
    /\ \/ \E i \in Lives : lives[i].sid = s
       \/ ~TranscriptsLate /\ lives[s].turn
    /\ TranscriptsLate =>
           \A k \in 1..Len(down[c]) : down[c][k].type = "created" => down[c][k].sid # s

\* Mutant of Unbound: every pick opens a task.
UnboundAlways(c, s) == TRUE

\* resumeSession reuses the task that is bound to the session.
Unbound(c, s) == \A u \in Task : owner[u] = c => tasks[u].session # s

Resume(t, s) ==
    /\ tasks[t] = NewTask
    /\ Listed(owner[t], s) /\ Unbound(owner[t], s)
    /\ tasks' = [tasks EXCEPT ![t].session = s, ![t].running = TRUE]
    /\ Post(owner[t], Line("resume", s, NoTask, t))
    /\ UNCHANGED <<owner, down, handlers, lives, bounds, broken>>

\* findTaskId: by session id first, by clientRequestId otherwise.  It takes the
\* first task it finds; OneTaskPerSession says that there is one at most.
Requested(c, e) == {t \in Task : owner[t] = c /\ e.crid = t /\ tasks[t].pending}
Bound(c, e) ==
    LET bySession == {t \in Task : owner[t] = c /\ e.sid # 0 /\ tasks[t].session = e.sid}
    IN  IF bySession # {} THEN bySession ELSE Requested(c, e)

\* Mutant of Created: the request stays pending.
CreatedStillPending(t, s) ==
    [open |-> TRUE, session |-> s, pending |-> tasks[t].pending, running |-> tasks[t].running]

\* session:created looks for the clientRequestId only, and forgets it.
Created(t, s) ==
    [open |-> TRUE, session |-> s, pending |-> FALSE, running |-> tasks[t].running]

\* handleServer.
AfterEvent(c, e) ==
    IF e.type = "created"
    THEN [t \in Task |-> IF t \in Requested(c, e) THEN Created(t, e.sid) ELSE tasks[t]]
    ELSE [t \in Task |-> IF t \in Bound(c, e)
                         THEN [tasks[t] EXCEPT !.running = FALSE] ELSE tasks[t]]

Deliver(c) ==
    /\ c \in link /\ down[c] # <<>>
    /\ tasks' = AfterEvent(c, Head(down[c]))
    /\ down' = [down EXCEPT ![c] = Tail(@)]
    /\ UNCHANGED <<owner, wire, handlers, lives, bounds, broken>>

\* The socket of a page closes (Electron's wire never does): what is under way
\* on it is lost.
Drop(c) ==
    /\ c \in link
    /\ upsets < MaxUpsets /\ upsets' = upsets + 1
    /\ link' = link \ {c}
    /\ up' = [up EXCEPT ![c] = <<>>]
    /\ down' = [down EXCEPT ![c] = <<>>]
    /\ broken' = broken \union {t \in Task : owner[t] = c /\ tasks[t].running}
    /\ UNCHANGED <<owner, tasks, outbox, handlers, lives, sends>>

\* onclose reconnects after a second; onopen sends the outbox.
Reopen(c) ==
    /\ c \notin link /\ \E t \in Task : owner[t] = c
    /\ link' = link \union {c}
    /\ up' = [up EXCEPT ![c] = outbox[c]]
    /\ outbox' = [outbox EXCEPT ![c] = <<>>]
    /\ UNCHANGED <<owner, tasks, down, handlers, lives, bounds, broken>>

-----------------------------------------------------------------------------
(* The server: dispatch, and AgentManager.sendMessage.                     *)

\* Mutant of Ask: every prompt starts a query.
AskAnew(line) == Append(lives, NewLive(line))

\* sendMessage once the images are stored: push to the running query of the
\* session, or start one.
Ask(line) ==
    LET old == Named(line.sid)
    IN  IF old = {} THEN Append(lives, NewLive(line))
        ELSE [lives EXCEPT ![Latest(old)].inbox = @ + 1]

\* sendMessage stores attached images first, and awaits it.
ReceiveSend(c, images) ==
    /\ up[c] # <<>> /\ Head(up[c]).type = "send"
    /\ up' = [up EXCEPT ![c] = Tail(@)]
    /\ IF images THEN handlers' = Append(handlers, Head(up[c])) /\ UNCHANGED lives
       ELSE lives' = Ask(Head(up[c])) /\ UNCHANGED handlers
    /\ UNCHANGED <<owner, tasks, link, outbox, down, bounds, broken>>

Done(k) == SubSeq(handlers, 1, k - 1) \o SubSeq(handlers, k + 1, Len(handlers))

ImagesStored(k) ==
    /\ handlers[k].type = "send"
    /\ handlers' = Done(k)
    /\ lives' = Ask(handlers[k])
    /\ UNCHANGED <<owner, tasks, wire, down, bounds, broken>>

\* The rejection of sendMessage is logged and nobody is told.
ImagesFail(k) ==
    /\ handlers[k].type = "send"
    /\ handlers' = Done(k)
    /\ broken' = broken \union {handlers[k].from}
    /\ UNCHANGED <<owner, tasks, wire, down, lives, bounds>>

\* agent:interrupt: a session that is not live is taken for the first one that
\* has no name yet.  What the SDK makes of it is a Result or a Throw.
Interrupted(s) ==
    IF Named(s) # {} THEN {Latest(Named(s))}
    ELSE IF Unnamed # {} THEN {First(Unnamed)} ELSE {}

ReceiveInterrupt(c) ==
    /\ up[c] # <<>> /\ Head(up[c]).type = "interrupt"
    /\ up' = [up EXCEPT ![c] = Tail(@)]
    /\ LET s == Head(up[c]).sid
       IN  /\ lives' = [i \in Lives |->
                          IF i \in Interrupted(s)
                          THEN [lives[i] EXCEPT !.interrupted = TRUE] ELSE lives[i]]
           /\ IF Interrupted(s) # {} THEN Broadcast(<<Event("over", s, NoTask)>>)
              ELSE UNCHANGED down
    /\ UNCHANGED <<owner, tasks, link, outbox, handlers, bounds, broken>>

\* session:resume reads the history from the disk and sends it to every page.
ReceiveResume(c) ==
    /\ up[c] # <<>> /\ Head(up[c]).type = "resume"
    /\ up' = [up EXCEPT ![c] = Tail(@)]
    /\ handlers' = Append(handlers, Head(up[c]))
    /\ UNCHANGED <<owner, tasks, link, outbox, down, lives, bounds, broken>>

HistoryRead(k) ==
    /\ handlers[k].type = "resume"
    /\ handlers' = Done(k)
    /\ Broadcast(<<Event("over", handlers[k].sid, NoTask)>>)
    /\ UNCHANGED <<owner, tasks, wire, lives, bounds, broken>>

-----------------------------------------------------------------------------
(* The SDK and runConsumer.                                                *)

\* The agents wait for pages that lag behind (bound).
Room == \A c \in Client : Len(down[c]) <= MaxLag

\* The query reads its next prompt, between turns or in the middle of one.
Take(i) ==
    /\ lives[i].on /\ lives[i].inbox > 0
    /\ lives' = [lives EXCEPT ![i].turn = TRUE, ![i].inbox = @ - 1]
    /\ UNCHANGED <<owner, tasks, wire, down, handlers, bounds, broken>>

\* The first frame of a new session names it.
FirstFrame(i) ==
    /\ Room /\ lives[i].on /\ lives[i].turn /\ lives[i].sid = 0
    /\ lives' = [lives EXCEPT ![i].sid = i]
    /\ Broadcast(<<Event("created", i, lives[i].crid)>>)
    /\ UNCHANGED <<owner, tasks, wire, handlers, bounds, broken>>

\* The result of a turn: success, or an error that is taken for the effect of
\* the stop button when the flag is set.
Result(i, ok) ==
    /\ Room /\ lives[i].on /\ lives[i].turn /\ lives[i].sid # 0
    /\ lives' = [lives EXCEPT ![i].turn = FALSE, ![i].interrupted = ok /\ @]
    /\ Broadcast(<<Over(i), Over(i)>>)
    /\ UNCHANGED <<owner, tasks, wire, handlers, bounds, broken>>

\* The query throws (its process died, or was aborted): catch and finally.
\* Prompts that it had not read are lost.
Throws(i) ==
    /\ Room /\ lives[i].on
    /\ lives' = [lives EXCEPT ![i].on = FALSE, ![i].turn = FALSE, ![i].inbox = 0,
                              ![i].interrupted = FALSE]
    /\ Broadcast(<<Over(i), Over(i)>>)
    /\ UNCHANGED <<owner, tasks, wire, handlers, bounds, broken>>

\* The tasks that session i works for.
Served(i) ==
    {t \in Task : lives[i].crid = t \/ (lives[i].sid # 0 /\ tasks[t].session = lives[i].sid)}

\* The query comes to its end: only the finally runs and nobody is told, not even
\* when a turn is under way or a prompt has not been read.
Ends(i) ==
    /\ lives[i].on
    /\ lives' = [lives EXCEPT ![i].on = FALSE, ![i].turn = FALSE, ![i].inbox = 0,
                              ![i].interrupted = FALSE]
    /\ broken' = IF lives[i].turn \/ lives[i].inbox > 0 THEN broken \union Served(i) ELSE broken
    /\ UNCHANGED <<owner, tasks, wire, down, handlers, bounds>>

-----------------------------------------------------------------------------
Init ==
    /\ owner \in Placements
    /\ tasks = [t \in Task |-> NewTask]
    /\ link = {owner[t] : t \in Task}
    /\ outbox = [c \in Client |-> <<>>]
    /\ up = [c \in Client |-> <<>>]
    /\ down = [c \in Client |-> <<>>]
    /\ handlers = <<>> /\ lives = <<>>
    /\ sends = 0 /\ upsets = 0 /\ broken = {}

User ==
    \E t \in Task :
        \/ Send(t)
        \/ Stop(t)
        \/ Delete(t)
        \/ \E s \in Lives : Resume(t, s)

Receive(c) ==
    (\E images \in BOOLEAN : ReceiveSend(c, images)) \/ ReceiveInterrupt(c) \/ ReceiveResume(c)
Awaited(k) == ImagesStored(k) \/ ImagesFail(k) \/ HistoryRead(k)
Progress(i) == Take(i) \/ FirstFrame(i) \/ \E ok \in BOOLEAN : Result(i, ok)

Next ==
    \/ User
    \/ \E c \in Client : Deliver(c) \/ Drop(c) \/ Reopen(c) \/ Receive(c)
    \/ \E k \in 1..Len(handlers) : Awaited(k)
    \/ \E i \in Lives : Progress(i) \/ Throws(i) \/ Ends(i)

Spec == Init /\ [][Next]_vars

\* Wires deliver, awaits come back and pages reconnect.  An agent with a prompt
\* takes it and comes to a result; strong fairness, as the bound MaxLag makes it
\* wait again and again.
Transport ==
    \/ \E c \in Client : Deliver(c) \/ Receive(c) \/ Reopen(c)
    \/ \E k \in 1..Len(handlers) : Awaited(k)
Agents == \E i \in Lives : Progress(i)
Fairness == WF_vars(Transport) /\ SF_vars(Agents)
FairSpec == Spec /\ Fairness

-----------------------------------------------------------------------------
(* Properties.                                                             *)

\* Types.  A task has a session or a request that is pending, never both.
Sid == 0..Len(lives)
TypeOK ==
    /\ owner \in Placements /\ link \subseteq Client /\ broken \subseteq Task
    /\ tasks \in [Task -> [open : BOOLEAN, session : Sid, pending : BOOLEAN,
                           running : BOOLEAN]]
    /\ \A t \in Task : tasks[t].pending => tasks[t].session = 0
    /\ lives \in Seq([sid : Sid, crid : Task \union {NoTask}, on : BOOLEAN,
                      inbox : Nat, turn : BOOLEAN, interrupted : BOOLEAN])
    /\ sends \in 0..MaxSends /\ upsets \in 0..MaxUpsets

\* A session has one agent at a time: two would write one transcript.  Tasks of
\* two pages may be bound to it, its query may have ended, and their prompts may
\* wait for their images: only the first of them may start the next agent.  It
\* needs TranscriptsLate: a task that resumes a session before its first frame
\* finds no live session under that id and starts a second query.
OneAgentPerSession == \A s \in Sid : Cardinality(Named(s)) <= 1

\* No two tasks of a page are bound to one session: findTaskId would give all
\* events to one of them and the other would run for ever.  Sessions are bound
\* by two ways, session:created and resumeSession, that meet only in the order
\* of the events of the page.  It needs TranscriptsLate: session:created does not
\* look for a task that has resumed the session already.
OneTaskPerSession ==
    \A t, u \in Task :
        t # u /\ owner[t] = owner[u] /\ tasks[t].session # 0
        => tasks[t].session # tasks[u].session

\* A task that runs comes to rest, unless its prompt was lost, it was running
\* when the socket of its page closed, or the query that worked for it came to
\* its end without an error before the turn or the prompts were done with (then
\* runConsumer tells nobody and the task does run for ever).
RunningTasksRest ==
    \A t \in Task : tasks[t].running ~> (~tasks[t].running \/ t \in broken)
=============================================================================
