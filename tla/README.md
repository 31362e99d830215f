# Kv Browser Bridge: specifications, model checking and proofs

Kv Browser Bridge lets several AI agents drive one Chrome browser. An agent's
MCP server talks over a named pipe to a *bridge* process, which Chrome starts
as a native-messaging host; the bridge talks over stdin/stdout to the browser
extension, which acts on tabs through the Chrome debugger. This directory
holds TLA+ modules of the parts of that path where order, failure and sharing
matter, the TLC configurations that check them on small instances, and TLAPS
proofs of what must hold for every instance.

Source paths are relative to the repository root; the mapping of every
definition to source lines is in `PROJECT.json` ("map").

## 1. Inventory

| Part | Source | State it keeps | Operations | Status |
|---|---|---|---|---|
| Lease coordinator | `apps/chrome-bridge/src/coordinator.ts` | agent sessions with a default tab, the lease table, the conflict history | connect, disconnect, touch, setDefaultTab, acquire, renew, release, assertWriteAllowed, quarantineTab, status | `Coordinator` |
| Write queue of the bridge | same, `runTabWrite` | the newest promise of each tab | a write arrives, starts, settles | `TabWriteQueue` |
| Request path of the bridge, with the flow recorder as it answers | `apps/chrome-bridge/src/bridge.ts`, `apps/extension/src/background/flow-recorder.ts` | pending requests and timers, idempotency maps, recording leases, extension readiness | hello, request, response, timer, socket close, native error, restart | `Bridge` |
| Bridge client | `apps/codex-mcp-server/src/bridge-client.ts`, `reliability.ts` | socket, shared connection promise, pending map, reconnect timer, suppress flag, per-tab tails; the selected identity (`server.ts`) | request, connect, hello, close event, reset, close, reconnect, select an identity, clear it | `BridgeClient` |
| Identity lock and session | `apps/chrome-bridge/src/identity/lock.ts`, `session.ts`, `session-supervisor.ts` | lock file, receipt file, browser process | start, stop (recover is a stop); acquire, promote, release, archive | `IdentitySession` |
| Extension: service worker, executor, refs, input and upload transactions | `apps/extension/src/background/` | attached tabs, the refs of the last observation, phases of a click or an upload, native port and its timer, active identity | snapshot, click, type, upload; navigation, detach, disconnect, reconnect | `PageInput` |
| Go agent | `apps/go-agent/src/core.ts`, `apps/codex-mcp-server/src/go.ts` | engines, their timer, round, cooldown | go_start, go_stop, go_continue, go_configure_decision, tick, nudge | `GoAgent` |
| Agent conversations | `packages/agent-core/src/agent-manager.ts`, `apps/server`, `apps/desktop` (task store, web transport) | tasks and what they are bound to, lines and events on the wire, live sessions of the SDK | send, stop, delete, resume, deliver, reconnect; the agent names itself, answers, throws, ends | `AgentTasks` |
| Native channel | `apps/chrome-bridge/src/native-channel.ts` | frame buffer, partial transfers | frame, chunk, expiry, close | not modelled |
| Runtime and replay | `apps/chrome-bridge/src/runtime.ts` | active run, replay position | record, replay step | not modelled |
| Action sequences | `apps/codex-mcp-server/src/action-sequence.ts` | position, deadline | run, abort | not modelled |
| Identity supervision, network observation | `apps/chrome-bridge/src/identity/` (rest) | probe results | poll, verify | not modelled |
| Computer use, receipts, launchers, UIA driver | `apps/codex-mcp-server`, `apps/windows-uia-driver` | operating-system handles | OS calls | not modelled |
| Side panel, editor, VOM rendering, command lines | `apps/desktop` (rest), `packages/vom`, `apps/go-cli`, `apps/go-api` | view state | user interface, formatting | not modelled |

How the parts interact: a client call becomes one line on the pipe, is
deduplicated by its idempotency key, resolved to a tab, admitted against the
lease table, queued behind the writes of that tab, forwarded to the extension
with a timer, and answered when the response, the timer or a failure comes
first. Socket closes reach the coordinator; native-channel failures end the
bridge process, and Chrome starts a new one. The extension executes what comes
in overlapping async functions. A GO agent lives in the MCP server and works a
chat page with the same page operations. Which bridge a client talks to
follows from the identity, whose browser a launcher starts under a lock file.
The desktop application is a second product of the repository: tasks, a wire
and long-lived agent sessions.

What is hard: everything in the bridge is asynchronous, so a decision taken at
admission is used after an unbounded wait; a timer does not stop the
extension; one client identity may use several sockets; leases expire lazily;
a crash forgets leases and quarantines while the browser goes on. A lock file
is read and then acted on in a second step. A page navigates while it is being
read. Ticks of a timer do not wait for each other. A session of an agent gets
its name only with its first frame. The hazards are listed one by one, at
their source lines, in `PROJECT.json`.

What makes each part correct, in a sentence: a resource has one holder
(coordinator); writes of a tab run alone and in order (queue, bridge, client);
one execution at a time for one key and none beside an outcome that is
remembered, no overlap but after an outcome nobody knows (bridge); no retry is advised for what may have happened (client, extension);
one browser for an identity (lock: the code does not keep it, see
section 3); refs belong to the document on show
(extension); a round is an answer and nudges keep their distance (GO agent);
one agent and one task for a session, and no task that runs for ever (agent
conversations).

## 2. The modules

**`Coordinator`** is the class `MultiAgentCoordinator`, one action per public
method (each is synchronous). A lease holds the time it has *left*; `left = 0`
means `expiresAt <= now`, and such a lease stays in the table until the next
call runs `cleanupExpired` (`Live`), as in the code. What a method decides
(`AcquireResult`, `QuarantineResult`, `WriteVerdict`) and what it makes of the
table (`AfterAcquire`, `AfterQuarantine`, `AfterRelease`, `AfterDisconnect`)
are operators over the table as data, used again by `Bridge` for handlers
that call the coordinator several times.

**`ExclusiveLease`** is what an agent may rely on in enforce mode: a resource
is free or has a holder with some time left, and until that time has run out
only the holder can change that. **`CoordinatorRefinement`** maps the lease
table to it, and **`BridgeRefinement`** says the same of the bridge, whose
handlers change the table several times in one step.

**`TabWriteQueue`** is `runTabWrite`: the chain of promises of each tab and
the map entry that is deleted by the last write. **`SerialWrites`** is the
FIFO it implements.

**`Bridge`** composes the lease table with the request path. A request is a
record with the promise its handler waits for (`phase`: joined to a duplicate,
queued, sent, settling, answered, lost with the bridge) and with what the
browser does about it (`browser`); the queue of a tab is the FIFO of
`SerialWrites`. The cache of outcomes is a set of entries, each with its key, its
place in the order of insertion (`Map.set` on an old key keeps the place) and the
time it has left; `Evict` is the loop over the entries in that order. Events of the Node event loop (a line, a native message, a
timer, a close) are atomic and wait until the promise reactions of the event
before have run (`Quiet`); the reactions are `StartWrite` and `Conclude`. The
order of the two matters: `runTabWrite` releases the next write before its own
promise settles, so the next write has been forwarded when the handler of a
timed-out write quarantines the tab.

**`BridgeClient`** is the other end of the pipe, in the agent's MCP server. A
call of `connect` is an *attempt*; it has at most one socket, so both share a
number. An attempt has a `stage` (what the promise of `connect` waits for) and
its socket a `life`: open, destroyed (the close event is still to come),
closed. `socket`, `connection`, `authenticated`, `suppress`, `enabled` and
`timer` are the fields of the class. `HelloFails`, `Reset` and `Closed` include
the promise reactions they set off (the catch of `connect`, the catch and the
`finally` of `ensureConnected`); what callers do after their await (`Resume`)
and the queue of the tab (`Dispatch`) are actions that run before the next
event. A request has an effect class and, apart from it, is queued or not: the
list of reads by which `PerTabWriteQueue` decides is not the table of effect
classes. Selecting an identity takes four actions: `Select` remembers the
configuration, `Resolved` replaces it, resets the client and asks the new bridge
for its status, `Selected` and `NotSelected` are the two ends of the `try`, the second
with the configuration put back and a second reset. The route is the number of the
selection, and a socket belongs to the route its attempt was started with.

**`IdentitySession`** is a managed identity as the processes see it that start
and stop it. A step is one access to the disk (`openSync 'wx'`, the write into
the new file, a read, the rename of a stale lock to its archive, the unlink of
`release`) or one call on a process (a check of a pid, a spawn), so that two processes interleave between
any two of them. The lock, the receipt and the browser of a session are named
by the starter; what a process has read and has not yet acted on is in `seen`.
A process may crash between any two steps and a browser may exit at any time.
Two ghosts: `lost` becomes true when a process archives, replaces or unlinks a
file that is not the one it read, `loose` holds browsers that a crash before
`promote`, or a termination that failed, left behind.

**`GoAgent`** is `GoController` and its `GoEngine` on one tab. Every tool call
and every tick of the `setInterval` is a run, cut at its awaits; a step is what
the page answers and what the run does with it until its next await. Operations
on a page go through the queue of its tab, so `runs` is in the order in which
they last asked and the page serves the first. All engines that were ever built
are kept: the entry of the tab has the last one, an older one may still have
its timer. `faults` counts failed reads of the text that became the baseline of
an engine, `late` the rounds that a tick counted on an isBusy that failed or was
out of date: `asked`, a ghost of the run, holds how many answers there were when
it read isBusy, and it is out of date once the model began another.

**`PageInput`** is the extension. A call (snapshot, click, type, upload) is an
async function, cut at its awaits; a command of the DevTools protocol and what
follows its reply are one action, except where a timeout or a detach may fall
between the effect and the reply. `doc` is the document a tab shows and
`loading` the events that will say so to the service worker; `debug` is whose
debugger is attached, `leaving` the `onDetach` events on their way, and
`debuggerTabs` what the service worker believes. The
ref store has one observation; whether it was overtaken is recorded with it.
The native port, its reconnect timer and the identity of `bridge:ready` decide
under which owner refs are stored and resolved.

**`AgentTasks`** is a conversation from the composer to the agent: the tasks of
the renderer (`tasks-store.ts`, `Composer.tsx`), the wire (Electron's IPC or the
WebSocket of `web-transport.ts`, which keeps an outbox while it is closed), and
the live sessions of `AgentManager`. `handlers` are lines whose handler is at an
await (storing images, reading a history). A session has no id until the
first frame of its agent; until then its events carry the request id, here the
task. What is said is left out: an event names a session or says that a turn
is over. `TranscriptsLate` is an assumption on the SDK, see section 5.

`MCCoordinator`, `MCBridge`, `MCPageInput` and `MCAgentTasks` instantiate for TLC; the other
modules have only numbers and sets of model values as constants and are checked
as they are.

## 3. What is checked

| Run | Question | Bounds |
|---|---|---|
| `leases` | with sharing allowed (observe mode): one lease per owner and resource, nobody touches another's lease, quarantines stand alone, outlive a disconnect and are never lifted, every overlap is reported | 3 sessions, 1 tab and the recorder, 3 leases, lifetimes 1 and 2, history of 1 |
| `write_queue` | refinement of `SerialWrites`, no stale and no early-deleted entry, every write runs | 2 tabs, 5 writes |
| `bridge_writes` | enforce mode: can two agents hold one resource; does the lease table implement `ExclusiveLease` until the bridge dies; two writes of a tab execute at once only after an unknown outcome or a lost bridge; a conflicting lease is younger than the write's admission; an unknown outcome quarantines its tab; every request is answered | 2 agents, 2 requests, 3 leases, lease calls, valid and invalid handshakes, a restart |
| `bridge_repeats` | a session repeats a record_start or record_stop while it runs, after it was answered or failed, after the cache evicted it: requests of a key run one after the other and never beside a remembered outcome, answers are final, the recorder is not left leased | one agent with 2 sockets, 3 requests with one key, cache of 1 entry, 2 leases, no restart |
| `client` | an ambiguous write is never retryable; the writes of a tab wait in turn; a closed client stays closed; every request is answered | 2 attempts, 2 requests, 1 selection, any number of clears, closes, losses and timers |
| `agent_tasks` | a session has one agent and a page one task for it; a task that shows a running turn comes to rest | 2 tasks on one page or two, 3 prompts, 1 stop, delete or lost socket |
| `identity_session` | where does a shared profile come from; every start and stop returns | 2 starters, 1 stopper, an old lock and receipt, any crash |
| `go_agent` | a round is an answer, a failed read or an overtaken tick; between two starts nudges are a cooldown apart | 2 calls, 2 overlapping runs, 2 nudges, 2 rounds, 1 answer, 1 change of the text, 1 fault |
| `page_input` | refs are of the document on show unless a snapshot was overtaken; "no effect" is said of what had none and interception is cleaned up, with the exceptions named below | 2 overlapping calls, 2 documents, 2 interchangeable identities, 1 error, 1 detach, 2 ports |
| `write_into_quarantine`, `identity_promise`, `go_stop` | three statements of the repository that the code does not keep (below) | as needed |

Why the bounds are enough: two sessions give an owner and an "other", a third
gives an other that comes after the other; two tabs and the recorder give
same-resource and different-resource interleavings; a lease is created at most
`MaxLease` times, enough for grant, expiry and a new grant to somebody else;
lifetimes 1 and 2 give leases that end before, with and after each other; two
requests give a head and a follower of a queue, three a duplicate that joins and one
that comes after the eviction. `MaxCompleted` is 0 or 1 instead of 1024 so
that eviction happens.

In the newer modules two actors of a kind are what an interleaving needs: two
starters race for a lock (and a third process stops), two calls of the extension overlap while the page goes from its first
document to a second, two tasks share a page or a session. For the GO agent two calls
give a restart between two nudges, and two runs a tick that is overtaken while it
holds an old isBusy, so that more rounds are counted than there were answers (the
ghost `late` is needed). A third run lets such a tick be overtaken by one that sees the
answer *and* one that counts it: with it the properties hold as well (21 million states
when the text does not change, not a listed run), and the theorems have no
bound. Three prompts let
a task get its session, be asked again, and the other task ask as well. One
error, detach, fault or upset suffices, because the properties are about what
one failure leaves behind. The sessions of the runs with a SYMMETRY are
interchangeable, they are only compared, so the symmetry is sound for the safety
properties checked there. The theorems of section 4 have no bound. `MaxLag = 0`
lets an agent emit only when all pages have read what was sent: it bounds the
queues of events to the few that one step emits; lines to the server are not held back.

Fairness. `TabWriteQueue`: promise reactions run, and the work settles because
it is a browser request with a timer. `Bridge`: promise reactions run and the
timer of a sent request fires (`setTimeout` in `forwardBrowserRequest`).
Nothing is assumed of the extension, the agents or the passage of time; under
just that every request is answered (`EveryRequestSettles`), because a timer
is the only thing a queue ever waits for in the end. `BridgeClient`: promise
reactions run, the timers of requests and of hellos fire, and the operating
system decides an attempt to open the pipe (the code has no timer for that).

`AgentTasks`: wires deliver, awaits come back, pages reconnect (`onclose` of
`web-transport.ts` sets a timer), weak fairness; an agent that has a prompt takes
it and comes to a result. For the agents it is strong fairness, only because
the bound `MaxLag` makes them wait again and again. Nothing is assumed of the
user, of sockets that close or of agents that throw. `IdentitySession`: a
process that has started goes on to its next step unless it crashes. `GoAgent` and
`PageInput` are checked for safety only.

The configurations that switch deadlock checking off are those where everything
may be over: all the writes, calls, prompts or processes of the bound are done
and the client is idle or closed. In the others time can always pass.

Two attempts are enough for `BridgeClient`: the new one and the one that a
reset, a close or a failed hello left behind. One request is pending and one waits for
the connection or in the queue; in a selection, one of the two is the request for
the status.

### Findings

Three statements of the repository that the code does not keep have a run:

* `QuarantineBlocksOthers` (bridge.ts:553). A write is admitted before it
  waits for its tab. If the write before it times out and its agent's
  quarantine is laid meanwhile, the waiting write of another agent is
  forwarded into the quarantine.
* `NeverShared` (lock.ts:74). `docs/contracts/KV_IDENTITY_MANIFEST_V1.md` says
  "directories are never shared concurrently" (line 10), "Concurrent sessions are
  blocked by default" (12) and "The lock is the concurrency authority" (76). Two
  starters read the same stale lock; the first archives it, writes its own and
  spawns its browser; the second archives that fresh lock, writes its own and
  spawns a second browser on the profile. Nobody crashes. `promote` and `release`,
  which check the lock id and then write or unlink the path, are further ways, and so
  is a launcher that dies between spawning its browser and `promote`. These are
  all the ways: that is what `OneBrowserWhileChecksHold` says, with the ghosts
  `lost` and `loose` for them.
* `StopMeansStopped` (go.ts:462). `go_configure_decision`, or a `go_start` with a
  decision, builds a new engine for the tab and forgets the one that runs.
  `go_stop` stops the new one; the old one keeps nudging.

More are defined and have no run of their own. TLC finds each violated in seconds
or minutes when it takes the place of the properties of a listed configuration:

| Statement | Kind | Configuration |
|---|---|---|
| `UnknownAlwaysQuarantined` | PROPERTY | `MCBridge_writes.cfg` |
| `OneRecorderOwner` | INVARIANT | `MCBridge_repeats.cfg` with `ClientOf <- AgentPerSession`, `Key = {k1, k2}`, `MaxLease = 4`, `RecordingTtl = 2` and `Reply` extended by `"EXTENSION_ERROR"` |
| `OldRouteStaysDown`, `LossIsNoticed` | INVARIANT | `BridgeClient.cfg` with `MaxAttempts = 3` |
| `FailureUndoesItself` | PROPERTY | `BridgeClient.cfg` with `MaxSelections = 2` |
| `NudgesApartAlways` | PROPERTY | `GoAgent.cfg` |
| `NoneMeansUntouched`, `InterceptionEnds`, `AttachedIsKnown` | INVARIANT | `MCPageInput.cfg` |
| `OneAgentPerSession`, `OneTaskPerSession` | INVARIANT | `MCAgentTasks.cfg` with `TranscriptsLate = FALSE` |

* `UnknownAlwaysQuarantined` (bridge.ts:592). `docs/compatibility.md:26` keeps
  a resource with an unknown outcome quarantined. When the client disconnected
  before its write timed out, `quarantineTab` of the coordinator throws (no
  such session), the bridge logs it, and the tab is open to every agent.
* `OneRecorderOwner` (bridge.ts:516). A `record_stop` that the extension
  refuses still gives the recording leases back, and a recording may outlive
  its leases (the shortest trace); another agent then holds the recorder while
  the first recording runs.
* `OldRouteStaysDown` (bridge-client.ts:247). `reset` forgets the attempt that
  is under way but does not stop it. Its pipe connects after the reset and the
  socket to the *previous* identity's bridge is installed, over the new one
  if that came first.
* `LossIsNoticed` (bridge-client.ts:259). When a hello fails because its
  connection was lost, `suppressNextReconnect` is set although the close event
  is over. The next loss is swallowed: what is pending waits for its timers,
  the closed socket counts as authenticated, no reconnect is scheduled. (A new
  request repairs it, because `ensureConnected` looks at `destroyed`.)

* `FailureUndoesItself` (server.ts:117). "Later browser tools are locked to the
  selected Bridge" (server.ts:102). A selection that fails puts back the configuration
  that it found: when two selections overlap, the one that fails undoes the one
  that succeeded, and later tools go to the bridge of before.
* `NudgesApartAlways` (core.ts:301). The comment at core.ts:319 says (in Chinese) that the
  cooldown is locked first, so that the timer does not enter again and send
  nudges in a row. With a decision engine its answer is awaited before that:
  two ticks both pass the cooldown and both nudge.
* `NoneMeansUntouched` (cdp-input.ts:227). The header promises `none` for "nothing
  dispatched, safe to retry" (cdp-input.ts:9-11) and line 191 `none` only "until
  mousePressed has been sent". When the reply of the press is lost to a detach, the
  page has the press and the answer is `none`. An upload whose click
  opened no chooser, or one that does not take the files, is answered `none` as well,
  against upload-transaction.ts:12-13. `EffectsAccounted` is the rest:
  files are never set by such a call, now or later, and the lost reply is the
  only way to such a click.
* `InterceptionEnds` (upload-transaction.ts:319). Interception of file choosers ends
  with its upload, but when the arming timed out the cleanup is skipped and the arming
  may take effect afterwards; the tab then opens no chooser for the user.
* `AttachedIsKnown` (browser-executor.ts:180). Any debugger command that fails takes the
  tab from `debuggerTabs` although the debugger is attached; the next attach then finds
  our own debugger and refuses, with DEBUGGER_IN_USE, for good (:163).
* `OneAgentPerSession`, `OneTaskPerSession` (server/src/index.ts:113). `session:list`
  reads the disk. If the SDK writes a transcript before its first frame, or the list
  overtakes `session:created`, a task can resume a session that has no name in the
  `AgentManager` yet: its next prompt starts a second agent on the same transcript,
  and `session:created` binds a second task. Whether it can happen depends on the SDK.

### What the models show of the code besides

No document of the repository that we know of promises otherwise, so these are
exceptions in the properties or observations, not findings.

* Bridge. An outcome is remembered for `CacheTtl`, or until `MaxCompleted` younger ones
  have pushed it out. A key whose outcome was evicted runs again.
* GO agent. Overlapping ticks can count one answer twice: a tick that read
  isBusy before the answer began, or whose read failed, counts it while another has
  seen it or sees it later (`late`). A start or a resume takes a read that failed
  for an empty page and counts what was there as an answer (`faults`). A go_start
  within the cooldown resets it (`lastNudgeAt = 0`), so the nudges before and after
  it may be close. A stop during a start does not keep
  the protocol text from being typed.
* Extension. A snapshot that a navigation overtakes stores refs of the old document
  after the event that should drop them. An `onDetach` that comes after the tab was
  attached again takes the tab from `debuggerTabs`.
* Agent conversations. An interrupt of a session that is not live hits the
  first agent that has no name yet. A `deleteTask` leaves the agent running. The flag of
  an interrupt survives a successful result, so that a later error is shown as
  the effect of the stop button. A task whose socket closed
  under it, whose images could not be stored, or whose query came to its end
  without an error in mid turn (agent-manager.ts:592 emits nothing) runs until the user
  does something (`broken`).

## 4. What is proved

`CoordinatorProofs` (any sessions, tabs, lifetimes, mode and bound, from
`CoordinatorAssumption`):

* `TypeCorrect`, `Exclusion`, `OneLease`, `Isolation`, `OwnersConnected`: the
  inductive invariant `IInv` says that the table is `Sound`: leases are well
  typed; in enforce mode one lease per resource; in every mode one lease per
  owner and resource and quarantines alone; active leases belong to connected
  sessions; and that ids in the table are below `nextLease`. It is stronger
  than `EnforceExclusive` because that property is not inductive: quarantining
  converts *the* own lease, which is sound only if there is one, and a
  disconnect would leave orphans without the ownership part. One lemma per
  table helper shows that it preserves `Sound`; the step lemma has one case per
  method.
* `OthersKeep`: no call of one agent changes another's lease that has time left.
* `NeverLifted`, `QuarantineStays`, `OverlapReported`: what a single step may do to
  quarantines and to the conflict history. The first two rest on one relation
  between tables, `Descends`: every lease of the new table is new, or is one of the
  old table with its resource and owner, which did not come back to life and was not
  lifted out of quarantine. It holds of each table helper and from one table to the
  next, so that `Bridge`, whose handlers use several helpers, uses it as well.
* `Refinement`: in enforce mode `Coordinator` implements `ExclusiveLease`;
  each method is a `Serve` step of its session because it is "own work" on the table.
  The run `bridge_writes` checks the refinement on the bridge (`LeasesKept`).

`TabWriteQueueProofs` (any tabs, any number of writes): `TypeCorrect`,
`NoStaleEntry`, and `Serialization`, the refinement of `SerialWrites`. The
invariant relates the map entry (the newest write, or all are released), the
chain (what is older than my predecessor needs no waiting for) and the order
(what started has everything before it released).

`BridgeProofs` (any number of agents, sockets, tabs, requests, leases, cache entries
and any lifetimes, from `BridgeAssumption` and the coordinator's own assumption):
`TypeCorrect`, `Exclusive`, `Overlap`, `InOrder`, `OneExecution`, `YoungerLeases`,
`RecorderAccounted`, the action properties `AnswerStays` and `UnknownQuarantines`, and
the refinement `Implementation`. The invariant `Inv` has two
halves. `TableInv` is about the lease table that the handlers share with the
coordinator: the `IInv` of `CoordinatorProofs` (instantiated, not proved again), and
that a lease on the recorder is one that a recording remembers (`Accounted`). The
other half is about requests. `ReqInv`: a request's phase, its outcome and what the
browser does about it are `Coherent`; in particular, a write that still executes after
its handler went on has an unknown outcome. `QueueInv`: a tab's queue holds its
unsettled writes in the order of their arrival, and only the first may have been
sent. `OrderInv`: while a write is unsettled, no later write of its tab has come to the
extension. `CacheInv`: one request in flight for a key, and none whose outcome is
remembered. `YoungInv`: a lease of another agent on the tab of a write that waits or
executes is not older than the write's admission (`epoch`). `Overlap` follows from
`OrderInv` and `Coherent`, the others from the part that has their name. `OrderInv` is
not inductive without `QueueInv`, which says why the next write to be sent has no
unsettled write before it. Tables only descend (`Descent`, from `Descends` above) and
requests only advance (`Advances`), so most handlers need one fact about the table and
one about a request; `Conclude`, which remembers, releases, quarantines and answers
in one step, is split into its effect on each.

`LeasesAreKept` carries the promise of `ExclusiveLease` from the coordinator to the
bridge that uses it: in enforce mode every step of the bridge keeps it, except that of a
bridge that dies (`Restart` forgets all leases), and `Implementation` is the refinement
without restarts. The coordinator's own refinement does not give that, because a handler
calls several methods in one step (the two leases of a recording and the rollback of the
first; a release and then a quarantine). The relation `OwnWork` of `CoordinatorProofs`,
from one table to another that a session has worked on, composes; each handler is own
work of the session whose request it handles, also when that session is gone. The
mapping is the one of `CoordinatorRefinement`; the run `bridge_writes` checks it
as `LeasesKept`.

`BridgeClientProofs` (any number of attempts, requests and selections):
`TypeCorrect`, `Ambiguity`, `Turns`, `StaysClosed`. The invariant adds two
facts: the reconnect timer is set only while the client is enabled, and a
request is in the queue once and does not go back to waiting for a connection.
Every step on requests is one of three: a request moves on (`Moved`), all
pending ones are given up (`RejectedKeeps`), a new one is appended
(`RequestKeeps`).

`IdentitySessionProofs` (any number of starters and stoppers, from
`IdentityAssumption`): `TypeCorrect` and `SharedOnlyThroughGaps`. The second does
not say that a profile is never shared, which is false, but that the gaps named in
section 3 are the only ways to it. `OneBrowserWhileChecksHold`
alone is far from inductive. `IInv` adds that a live browser is `Held`: the lock
names its session, and while the lock still has the starter's pid the starter is at
a step before `promote` (`HeldInv`); and what each process knows of the file it is
about to act on (`SeenInv`): who archives has seen the lock of the dead, who
stops has seen the browser die, who aborts has only its own browser to answer
for. While nothing is `lost`, a held lock can then be taken away by nobody.

`GoAgentProofs` (any number of engines, runs, nudges, answers): `TypeCorrect`,
`Apart` and `Owing`. `Apart` is about one engine without a decision engine, between two
starts of it. An engine begins to cool down only with a nudge, and nudges are
counted; a run at an await that found the cooldown over, and finds as many
nudges as then, still finds it over (`Fine`). For the rounds, an engine has a
*claim* while it may still count one without a new answer: the model writes, or a
tick at its second await knows that it wrote, or the engine has seen an answer or
will find the text changed. Rounds and claim together are paid for by answers,
faults and late counts (`Owed`). A tick that counts gives up the claim, unless the
model writes or another tick knows that it did; if its own isBusy is right and no
answer began since, both are excluded, because the queue of the tab has served every
tick that asked before it (`Order`). The property that stood here before called a
round late only when the model was writing as it was counted. With three runs that is false (TLC
shows two rounds for one answer, the second counted on an isBusy from before
the answer, after its end), and no invariant could have proved it.

`PageInputProofs` (any number of tabs, identities, calls and failures, from
`PageAssumption`): `TypeCorrect`, `RefsCurrent`, `Accounted` (that the exceptions of
`EffectsAccounted` are the only ones). The invariant says
what a call can have done where it awaits (`GoodCall`: before its answer nothing
is set and a click has pressed only at its release), and that whoever left the
interception on is still to clean it up or has said that it could not
(`Answerable`). For the refs, the events under way are fewer than the documents
there were.

`AgentTasksProofs` (any tasks, pages, prompts and failures, from
`AgentTasksAssumption`): `TypeCorrect`, `OneAgent`, `OneTask`, each under
`TranscriptsLate`, without which the last two are false. An id that is in use
anywhere, on a wire, in a handler or in a task, is the name of the live session
it was first given to (`Known`), so the id of a session that is named now is
nobody's; and while the event that tells a page so is on its way, no task of the
page has the id and no second event gives it (`Fresh`). The second is what makes
`OneTaskPerSession` inductive: a session is bound by `session:created` and by
`resumeSession`, which are ordered by the events of the page only.

Every safety and action property that a passing run checks is a theorem. Only
model-checked are the liveness properties (`EveryWriteRuns`, `EveryRequestSettles`,
`EveryCallReturns`, `RunningTasksRest`): liveness under fairness is outside the
prover's reach, as are ENABLED, induction over recursively defined data and
RECURSIVE operators (no module declares one). The three violations are TLC's as well:
a theorem cannot show a counterexample.

## 5. Not modelled

In `Bridge`: runtime recording and replay, artifacts, status
broadcasts, go events, payload validation, the native channel's framing. Time
is abstract: a lease's and a cached outcome's remaining life count down in
units, and a request's timer may fire at any moment after it was sent.

In `BridgeClient`: the framing of lines, pushed events, the status
record, backoff delays (a timer may fire at any time) and tabs other than one
(queues of different tabs do not meet).

In `IdentitySession`: the DevToolsActivePort file (only the supervisor's polling
of Chrome reads it), the launch plan, the checks of paths, writes of a receipt
or of a promoted lock that fail. In `GoAgent`: the contents of prompts and
decisions, the ledger and the stored state (`restore` has no caller). In
`PageInput`: generations of refs (no tool passes one), reads that touch no ref,
validation of files, panels and heartbeat. In `AgentTasks`: the content of a
stream, permissions, titles, `applyFlagSettings` (the composer never changes a
folder), and `apps/host`, which this fork does not start.

Two assumptions of `AgentTasks` are about the SDK. `TranscriptsLate`: a page does not
list a session before its `session:created` has come (`session:list` reads
transcripts from the disk, and when the SDK writes them is not known from this
repository). And for `RunningTasksRest`, that an agent with a prompt comes to a
result, throws or ends; a query may end at any time (`Ends`), and one that ends in mid
turn tells nobody, which the property excepts.

Components that have no module:

* The native channel frames and reassembles bytes; its sender posts all
  pieces of a message at once, so nothing interleaves with them.
* The runtime reads and writes recorded workflows and repeats their steps
  through the bridge's forward function. That it goes past the coordinator
  and the queue of the tab is listed as a hazard.
* An action sequence is a loop over a few requests of `BridgeClient` with a
  deadline; it shares no state.
* Identity supervision and network observation, computer use, receipts,
  launchers and the UIA driver are operating-system I/O behind the steps that
  are modelled.
* The Page observation model, the side panel, the editor and the command lines
  render or forward; no order or failure of theirs changes shared state.

Most of the repository's lines are of these kinds, so the map covers the code that
decides about shared state, about a ninth of all, and not the bulk of the source.
