------------------------------ MODULE PageInput ------------------------------
(***************************************************************************)
(* How the extension reads and operates a page: the attachment of          *)
(* chrome.debugger, snapshots and the refs they leave in the RefStore, and *)
(* the clicks, inputs and uploads that a ref or a locator aims at          *)
(* (apps/extension/src/background), together with the native port that     *)
(* says under which identity refs are stored and resolved.                 *)
(*                                                                         *)
(* A call of the bridge is an async function, cut at its awaits; calls     *)
(* overlap.  A command of the DevTools protocol and what the call does     *)
(* with the reply until its next await are one action, except where a      *)
(* timeout or a detach can fall between the effect and the reply.          *)
(* Consecutive commands that only look (probing the target, testing for    *)
(* what covers it) are one step.                                           *)
(*                                                                         *)
(* Left out: the generation a caller could pin a ref to (no tool passes    *)
(* one), the content of the views, validation of files, the abort signal   *)
(* (nobody passes one), release of object groups, closing of tabs (the     *)
(* handler does what it does for a detach).                                *)
(***************************************************************************)
EXTENDS Integers, Sequences

CONSTANTS
    Tab,
    Session,     \* identity and runtime session of a bridge
    None,
    MaxCalls,    \* bound: calls
    MaxDocs,     \* bound: documents of a tab
    MaxErrors,   \* bound: commands that fail or time out without a visible reason
    MaxDetaches, \* bound: times the debugger is detached
    MaxLinks     \* bound: native ports

ASSUME PageAssumption ==
    /\ None \notin Session
    /\ {MaxCalls, MaxDocs, MaxErrors, MaxDetaches, MaxLinks} \subseteq Nat
    /\ MaxDocs > 0

VARIABLES
    \* The browser
    doc,          \* which document the tab shows
    loading,      \* how many "loading" events of the tab are on their way
    leaving,      \* how many onDetach events of the tab are on their way
    debug,        \* whose debugger is attached: "nobody", "ours", "another"
    intercept,    \* is the interception of file choosers on?
    \* The service worker
    debuggerTabs, \* the tabs it takes for attached
    refs,         \* the observation in the RefStore, or None
    calls,        \* the calls, in the order in which they came
    link,         \* the native port: "down", "open", "ready"
    timer,        \* is the reconnect timer set?
    active,       \* activeIdentity, or None
    \* Counters of the bounds
    errors, detaches, links

browser == <<doc, loading, leaving, debug, intercept>>
native == <<link, timer, active>>
bounds == <<errors, detaches, links>>
vars == <<browser, debuggerTabs, refs, calls, native, bounds>>

-----------------------------------------------------------------------------
(* The service worker's link to the bridge (service-worker.ts)             *)

\* Mutant of ConnectBridge: the error of connectNative is only logged.
ConnectBridgeOnce(afterwards) ==
    \/ /\ links < MaxLinks
       /\ links' = links + 1
       /\ link' = "open"
       /\ timer' = afterwards
    \/ /\ link' = "down"
       /\ timer' = afterwards
       /\ UNCHANGED links

\* connectBridge.  connectNative may throw; then a timer is set.
ConnectBridge(afterwards) ==
    \/ /\ links < MaxLinks
       /\ links' = links + 1
       /\ link' = "open"
       /\ timer' = afterwards
    \/ /\ link' = "down"
       /\ timer' = TRUE
       /\ UNCHANGED links

\* The reconnect timer, which may find that a port is there already.
ReconnectTimer ==
    /\ timer
    /\ IF link = "down" THEN ConnectBridge(FALSE) ELSE timer' = FALSE /\ UNCHANGED <<link, links>>
    /\ UNCHANGED <<browser, debuggerTabs, refs, calls, active, errors, detaches>>

\* The listeners of onStartup and onInstalled.
Startup ==
    /\ link = "down"
    /\ ConnectBridge(timer)
    /\ UNCHANGED <<browser, debuggerTabs, refs, calls, active, errors, detaches>>

\* The user asks for it: the identity stays until the next bridge:ready.
ForceReconnect ==
    /\ ConnectBridge(FALSE)
    /\ UNCHANGED <<browser, debuggerTabs, refs, calls, active, errors, detaches>>

\* onDisconnect of the current port.
Disconnect ==
    /\ link # "down"
    /\ link' = "down"
    /\ timer' = TRUE
    /\ active' = None
    /\ UNCHANGED <<browser, debuggerTabs, refs, calls, bounds>>

\* A switch drops the refs of the previous session.  None: a bridge without an
\* identity (legacy).
AcknowledgeIdentity(s) ==
    /\ active' = s
    /\ refs' = IF active \notin {None, s} /\ refs # None /\ refs.owner = active
                 THEN None ELSE refs

\* bridge:ready
BridgeReady(s) ==
    /\ link = "open"
    /\ link' = "ready"
    /\ AcknowledgeIdentity(s)
    /\ UNCHANGED <<browser, debuggerTabs, calls, timer, bounds>>

-----------------------------------------------------------------------------
(* The browser                                                             *)

InvalidateTab(t) == refs' = IF refs # None /\ refs.tab = t THEN None ELSE refs

\* The tab gets another document; chrome.tabs.onUpdated is on its way.
Navigate(t) ==
    /\ doc[t] < MaxDocs
    /\ doc' = [doc EXCEPT ![t] = @ + 1]
    /\ loading' = [loading EXCEPT ![t] = @ + 1]
    /\ UNCHANGED <<leaving, debug, intercept, debuggerTabs, refs, calls, native, bounds>>

\* Mutant of OnUpdated: refs survive a navigation.
OnUpdatedKeeps(t) ==
    /\ loading[t] > 0
    /\ loading' = [loading EXCEPT ![t] = @ - 1]
    /\ UNCHANGED <<doc, leaving, debug, intercept, debuggerTabs, refs, calls, native, bounds>>

\* onUpdated with status "loading".
OnUpdated(t) ==
    /\ loading[t] > 0
    /\ loading' = [loading EXCEPT ![t] = @ - 1]
    /\ InvalidateTab(t)
    /\ UNCHANGED <<doc, leaving, debug, intercept, debuggerTabs, calls, native, bounds>>

\* The session of the debugger ends, and its interception with it; onDetach is on
\* its way, and every command fails from now on.
Detached(t) ==
    /\ debug[t] = "ours"
    /\ detaches < MaxDetaches
    /\ detaches' = detaches + 1
    /\ debug' = [debug EXCEPT ![t] = "nobody"]
    /\ intercept' = [intercept EXCEPT ![t] = FALSE]
    /\ leaving' = [leaving EXCEPT ![t] = @ + 1]
    /\ UNCHANGED <<doc, loading, debuggerTabs, refs, native, errors, links>>

Detach(t) == Detached(t) /\ UNCHANGED calls

\* onDetach, which does not ask whether the tab was attached again since.
OnDetach(t) ==
    /\ leaving[t] > 0
    /\ leaving' = [leaving EXCEPT ![t] = @ - 1]
    /\ debuggerTabs' = debuggerTabs \ {t}
    /\ InvalidateTab(t)
    /\ UNCHANGED <<doc, loading, debug, intercept, calls, native, bounds>>

\* Another extension attaches its debugger, and leaves.
AnotherDebugger(t) ==
    /\ \E from, to \in {"nobody", "another"} :
          from # to /\ debug[t] = from /\ debug' = [debug EXCEPT ![t] = to]
    /\ UNCHANGED <<doc, loading, leaving, intercept, debuggerTabs, refs, calls, native, bounds>>

-----------------------------------------------------------------------------
(* Calls                                                                   *)

\* at: where it awaits; goal: what it does once the debugger is attached;
\* again: the read was tried a second time; doc: the document its tree or its
\* node is of; armed, probed: what an upload has to clean up; late: a command
\* that timed out and may still take effect; failed: the cleanup did; pressed,
\* set: what happened to the page; lost: the reply of the press was.
NewCall(kind, t) ==
    [kind |-> kind, tab |-> t, at |-> "new", goal |-> "none", again |-> FALSE, doc |-> 0,
     armed |-> FALSE, probed |-> FALSE, late |-> "nothing", failed |-> FALSE,
     pressed |-> FALSE, set |-> FALSE, lost |-> FALSE, answer |-> "pending"]

Calls == 1..Len(calls)
Is(i, at) == calls[i].at = at
Become(i, c) == calls' = [calls EXCEPT ![i] = c]
Goto(i, at) == calls' = [calls EXCEPT ![i].at = at]

Fault(counts) ==
    IF counts THEN errors < MaxErrors /\ errors' = errors + 1 ELSE UNCHANGED errors

\* sendDebuggerCommand: a reply, or an error.  Any error takes the tab out of
\* debuggerTabs, also one that leaves the debugger attached.
Replied(i) ==
    /\ debug[calls[i].tab] = "ours"
    /\ UNCHANGED <<debuggerTabs, errors>>

Rejected(i, gone) ==
    /\ debuggerTabs' = debuggerTabs \ {calls[i].tab}
    /\ Fault(debug[calls[i].tab] = "ours" /\ ~gone)

\* The node the call is about went with its document.
Gone(i) == calls[i].doc # doc[calls[i].tab]

\* ensureAttached, then the command of the goal.
Ensured(c, goal, tabs) ==
    [c EXCEPT !.at = IF c.tab \in tabs THEN goal ELSE "targets", !.goal = goal]

\* Mutant of Ended: the cleanup is run for transactions that set files.
EndedUnclean(c, answer) ==
    [c EXCEPT !.answer = answer,
              !.at = IF answer # "committed" THEN "done"
                       ELSE IF c.probed THEN "unprobe" ELSE IF c.armed THEN "unarm" ELSE "done"]

\* The outcome is known; an upload cleans up first.  What the call no longer
\* needs is forgotten.
Ended(c, answer) ==
    [c EXCEPT !.answer = answer, !.goal = "none", !.again = FALSE,
              !.doc = IF c.probed THEN @ ELSE 0,
              !.at = IF c.probed THEN "unprobe" ELSE IF c.armed THEN "unarm" ELSE "done"]

\* Nothing but the call, the belief and the errors changes.
Local == UNCHANGED <<browser, refs, native, detaches, links>>

\* gateRef: the ref is in the store and belongs to the identity, session and
\* tab of the call.  A call that is refused here changes nothing.
Gate(t) == active # None /\ refs # None /\ refs.tab = t /\ refs.owner = active

\* A request of the bridge: a snapshot, a call on a ref, a call on a locator.
Snapshot(t) == Ensured(NewCall("snapshot", t), "tree", debuggerTabs)

OnRef(kind, t) ==
    LET c == [NewCall(kind, t) EXCEPT !.doc = refs.doc]
    IN  IF kind = "upload" THEN [c EXCEPT !.at = "arm"] ELSE Ensured(c, "resolve", debuggerTabs)

Located(kind, t) == Ensured(NewCall(kind, t), "locate", debuggerTabs)

Request(t) ==
    /\ link = "ready"
    /\ Len(calls) < MaxCalls
    /\ \/ calls' = Append(calls, Snapshot(t))
       \/ Gate(t) /\ \E kind \in {"click", "type", "upload"} : calls' = Append(calls, OnRef(kind, t))
       \/ \E kind \in {"click", "upload"} : calls' = Append(calls, Located(kind, t))
    /\ UNCHANGED <<browser, debuggerTabs, refs, native, bounds>>

\* The view is rendered and replaces the refs of the store, under the identity
\* of now.  overtaken: the document went, and its event came, during the read.
Observed(i) ==
    LET c == calls[i]
    IN  /\ Become(i, Ended(c, "stored"))
        /\ refs' = IF active = None THEN refs
                     ELSE [tab |-> c.tab, owner |-> active, doc |-> c.doc,
                           overtaken |-> Gone(i) /\ loading[c.tab] = 0]

\* withSafeDebuggerRead: once more after DEBUGGER_DETACHED, no more otherwise.
\* A tree that cannot be read is replaced by a view of the DOM without refs, a
\* layout by a default.
ReadFails(i, detached) ==
    LET c == calls[i]
    IN  IF detached /\ ~c.again
          THEN Become(i, [Ensured(c, c.goal, debuggerTabs') EXCEPT !.again = TRUE]) /\ UNCHANGED refs
          ELSE IF c.goal = "tree" THEN Become(i, Ended(c, "dom")) /\ UNCHANGED refs
          ELSE Observed(i)

\* ensureAttached throws: DEBUGGER_IN_USE, or DEBUGGER_DETACHED.
NotAttached(i, detached) ==
    LET c == calls[i]
    IN  IF c.kind = "snapshot" THEN ReadFails(i, detached)
        ELSE /\ Become(i, Ended(c, IF c.kind = "type" \/ c.goal = "locate" THEN "thrown" ELSE "none"))
             /\ UNCHANGED refs

\* chrome.debugger.getTargets
Targets(i) ==
    /\ Is(i, "targets")
    /\ IF debug[calls[i].tab] = "nobody" THEN Goto(i, "attach") /\ UNCHANGED refs
                                        ELSE NotAttached(i, FALSE)
    /\ UNCHANGED <<browser, debuggerTabs, native, bounds>>

\* chrome.debugger.attach
Attach(i) ==
    LET t == calls[i].tab
    IN  /\ Is(i, "attach")
        /\ \/ /\ debug[t] = "nobody"
              /\ debug' = [debug EXCEPT ![t] = "ours"]
              /\ debuggerTabs' = debuggerTabs \cup {t}
              /\ Goto(i, calls[i].goal)
              /\ UNCHANGED <<refs, errors>>
           \/ /\ debug[t] # "nobody"
              /\ UNCHANGED <<debug, debuggerTabs, errors>>
              /\ NotAttached(i, FALSE)
           \/ /\ Fault(TRUE)
              /\ UNCHANGED <<debug, debuggerTabs>>
              /\ NotAttached(i, TRUE)
        /\ UNCHANGED <<doc, loading, leaving, intercept, native, detaches, links>>

-----------------------------------------------------------------------------
(* snapshot (browser-executor.ts)                                          *)

\* Accessibility.getFullAXTree, which may have no nodes.
Tree(i) ==
    /\ Is(i, "tree")
    /\ \/ /\ Replied(i)
          /\ \E c \in {[calls[i] EXCEPT !.doc = doc[calls[i].tab], !.again = FALSE]} :
                \/ Become(i, Ensured(c, "layout", debuggerTabs))
                \/ Become(i, Ended(c, "dom"))
          /\ UNCHANGED refs
       \/ Rejected(i, FALSE) /\ ReadFails(i, TRUE)
    /\ UNCHANGED <<browser, native, detaches, links>>

\* Page.getLayoutMetrics
Layout(i) ==
    /\ Is(i, "layout")
    /\ \/ Replied(i) /\ Observed(i)
       \/ Rejected(i, FALSE) /\ ReadFails(i, TRUE)
    /\ UNCHANGED <<browser, native, detaches, links>>

-----------------------------------------------------------------------------
(* Input on a node (browser-executor.ts, cdp-input.ts)                     *)

\* backendNodeIdForLocator
Locate(i) ==
    LET c == [calls[i] EXCEPT !.doc = doc[calls[i].tab]]
    IN  /\ Is(i, "locate")
        /\ \/ /\ Replied(i)
              /\ \/ Become(i, IF c.kind = "upload" THEN [c EXCEPT !.at = "arm"]
                                                   ELSE Ensured(c, "resolve", debuggerTabs))
                 \/ Become(i, Ended(c, "thrown"))
           \/ Rejected(i, FALSE) /\ Become(i, Ended(c, "thrown"))
        /\ Local

\* DOM.resolveNode: a node of another document fails, unless that document
\* uses the number again.
Resolve(i) ==
    LET c == [calls[i] EXCEPT !.doc = doc[calls[i].tab]]
    IN  /\ Is(i, "resolve")
        /\ \/ Replied(i) /\ Become(i, [c EXCEPT !.at = IF c.kind = "type" THEN "apply" ELSE "look"])
           \/ Rejected(i, Gone(i)) /\ Become(i, Ended(c, IF c.kind = "type" THEN "thrown" ELSE "none"))
        /\ Local

\* Runtime.callFunctionOn of callOnNode, whose reply may be an exception.
Apply(i) ==
    /\ Is(i, "apply")
    /\ \/ Replied(i) /\ ~Gone(i) /\ Become(i, Ended(calls[i], "ok"))
       \/ Replied(i) /\ Become(i, Ended(calls[i], "thrown"))
       \/ Rejected(i, Gone(i)) /\ Become(i, Ended(calls[i], "thrown"))
    /\ Local

\* The target is probed and its point tested; it may be hidden, covered or a
\* publish button.
Look(i) ==
    /\ Is(i, "look")
    /\ \/ Replied(i) /\ ~Gone(i) /\ Goto(i, "move")
       \/ Replied(i) /\ Become(i, Ended(calls[i], "none"))
       \/ Rejected(i, Gone(i)) /\ Become(i, Ended(calls[i], "none"))
    /\ Local

Move(i) ==
    /\ Is(i, "move")
    /\ \/ Replied(i) /\ Goto(i, "press")
       \/ Rejected(i, FALSE) /\ Become(i, Ended(calls[i], "none"))
    /\ Local

Press(i) ==
    /\ Is(i, "press")
    /\ \/ Replied(i) /\ Become(i, [calls[i] EXCEPT !.at = "release", !.pressed = TRUE])
       \/ Rejected(i, FALSE) /\ Become(i, Ended(calls[i], "none"))
    /\ Local

\* The press reaches the page, and the debugger is detached before the reply.
PressLost(i) ==
    /\ Is(i, "press")
    /\ Detached(calls[i].tab)
    /\ Become(i, Ended([calls[i] EXCEPT !.pressed = TRUE, !.lost = TRUE], "none"))

\* Mutant of Release: a click whose end is not known is reported as not made.
ReleaseNone(i) ==
    /\ Is(i, "release")
    /\ \/ Replied(i) /\ Become(i, IF calls[i].kind = "upload" THEN [calls[i] EXCEPT !.at = "poll"]
                                                             ELSE Ended(calls[i], "committed"))
       \/ Rejected(i, FALSE) /\ Become(i, Ended(calls[i], "none"))
    /\ Local

Release(i) ==
    /\ Is(i, "release")
    /\ \/ Replied(i) /\ Become(i, IF calls[i].kind = "upload" THEN [calls[i] EXCEPT !.at = "poll"]
                                                             ELSE Ended(calls[i], "committed"))
       \/ Rejected(i, FALSE) /\ Become(i, Ended(calls[i], "unknown"))
    /\ Local

-----------------------------------------------------------------------------
(* uploadThroughActivatedFileInput (upload-transaction.ts)                 *)

\* A bounded wait ends before the reply: the command may still take effect.
TimedOut(i, command, answer) ==
    /\ Fault(TRUE)
    /\ Become(i, Ended([calls[i] EXCEPT !.late = command], answer))
    /\ UNCHANGED debuggerTabs

\* Page.setInterceptFileChooserDialog
Arm(i) ==
    LET t == calls[i].tab
    IN  /\ Is(i, "arm")
        /\ \/ /\ Replied(i)
              /\ intercept' = [intercept EXCEPT ![t] = TRUE]
              /\ Become(i, [calls[i] EXCEPT !.at = "install", !.armed = TRUE])
           \/ Rejected(i, FALSE) /\ Become(i, Ended(calls[i], "none")) /\ UNCHANGED intercept
           \/ TimedOut(i, "arm", "none") /\ UNCHANGED intercept
        /\ UNCHANGED <<doc, loading, leaving, debug, refs, native, detaches, links>>

\* The trigger is resolved and the probe installed; then it is clicked.
Install(i) ==
    LET c == [calls[i] EXCEPT !.doc = doc[calls[i].tab]]
    IN  /\ Is(i, "install")
        /\ \/ Replied(i) /\ Become(i, Ensured([c EXCEPT !.probed = TRUE], "resolve", debuggerTabs))
           \/ Rejected(i, Gone(i)) /\ Become(i, Ended(c, "none"))
           \/ TimedOut(i, "nothing", "none")
        /\ Local

\* The page is asked until the grace is over: one chooser that takes the
\* files, one input, or anything else.
Poll(i) ==
    /\ Is(i, "poll")
    /\ \/ Replied(i) /\ ~Gone(i) /\ \E next \in {"input", "set"} : Goto(i, next)
       \/ Replied(i) /\ Become(i, Ended(calls[i], "none"))
       \/ Rejected(i, Gone(i)) /\ Become(i, Ended(calls[i], "none"))
    /\ Local

\* The activated input is described; an error, or a reply without a node, is not
\* caught.
Input(i) ==
    /\ Is(i, "input")
    /\ \/ Replied(i) /\ ~Gone(i) /\ Goto(i, "set")
       \/ Replied(i) /\ \E answer \in {"none", "thrown"} : Become(i, Ended(calls[i], answer))
       \/ Rejected(i, Gone(i)) /\ Become(i, Ended(calls[i], "thrown"))
    /\ Local

\* DOM.setFileInputFiles
SetFiles(i) ==
    /\ Is(i, "set")
    /\ \/ Replied(i) /\ ~Gone(i) /\ Become(i, Ended([calls[i] EXCEPT !.set = TRUE], "committed"))
       \/ Rejected(i, Gone(i)) /\ Become(i, Ended(calls[i], "unknown"))
       \/ TimedOut(i, "set", "unknown")
    /\ Local

\* A command that timed out is executed after all.
LateEffect(i) ==
    LET c == calls[i]
    IN  /\ c.late # "nothing"
        /\ debug[c.tab] = "ours"
        /\ intercept' = IF c.late = "arm" THEN [intercept EXCEPT ![c.tab] = TRUE] ELSE intercept
        /\ Become(i, [c EXCEPT !.late = "nothing", !.failed = @ \/ c.late = "arm",
                              !.set = @ \/ c.late = "set"])
        /\ UNCHANGED <<doc, loading, leaving, debug, debuggerTabs, refs, native, bounds>>

\* Or it fails after all, and takes the tab out of debuggerTabs.
LateRejected(i) ==
    /\ calls[i].late # "nothing"
    /\ Become(i, [calls[i] EXCEPT !.late = "nothing"])
    /\ debuggerTabs' = debuggerTabs \ {calls[i].tab}
    /\ Local
    /\ UNCHANGED errors

\* The cleanup of the probe; whatever comes of it, the next one follows.
Unprobe(i) ==
    /\ Is(i, "unprobe")
    /\ Replied(i) \/ Rejected(i, Gone(i)) \/ (Fault(TRUE) /\ UNCHANGED debuggerTabs)
    /\ Goto(i, IF calls[i].armed THEN "unarm" ELSE "done")
    /\ Local

\* Page.setInterceptFileChooserDialog, off
Unarm(i) ==
    LET t == calls[i].tab
    IN  /\ Is(i, "unarm")
        /\ \/ /\ Replied(i)
              /\ intercept' = [intercept EXCEPT ![t] = FALSE]
              /\ Goto(i, "done")
           \/ /\ Rejected(i, FALSE) \/ (Fault(TRUE) /\ UNCHANGED debuggerTabs)
              /\ Become(i, [calls[i] EXCEPT !.at = "done", !.failed = TRUE])
              /\ UNCHANGED intercept
        /\ UNCHANGED <<doc, loading, leaving, debug, refs, native, detaches, links>>

-----------------------------------------------------------------------------
Init ==
    /\ doc = [t \in Tab |-> 1]
    /\ loading = [t \in Tab |-> 0]
    /\ leaving = [t \in Tab |-> 0]
    /\ debug = [t \in Tab |-> "nobody"]
    /\ intercept = [t \in Tab |-> FALSE]
    /\ debuggerTabs = {}
    /\ refs = None
    /\ calls = << >>
    /\ link = "open"
    /\ timer = FALSE
    /\ active = None
    /\ errors = 0
    /\ detaches = 0
    /\ links = 1

Native ==
    \/ ReconnectTimer
    \/ Startup
    \/ ForceReconnect
    \/ Disconnect
    \/ \E s \in Session \cup {None} : BridgeReady(s)

Browser ==
    \E t \in Tab : \/ Navigate(t) \/ OnUpdated(t)
                  \/ Detach(t) \/ OnDetach(t) \/ AnotherDebugger(t)

Reading(i) == Targets(i) \/ Attach(i) \/ Tree(i) \/ Layout(i)

Clicking(i) ==
    \/ Locate(i) \/ Resolve(i) \/ Apply(i) \/ Look(i)
    \/ Move(i) \/ Press(i) \/ PressLost(i) \/ Release(i)

Uploading(i) ==
    \/ Arm(i) \/ Install(i) \/ Poll(i) \/ Input(i) \/ SetFiles(i) \/ LateEffect(i)
    \/ LateRejected(i) \/ Unprobe(i) \/ Unarm(i)

Next ==
    \/ Native
    \/ Browser
    \/ \E t \in Tab : Request(t)
    \/ \E i \in Calls : Reading(i) \/ Clicking(i) \/ Uploading(i)

Spec == Init /\ [][Next]_vars

-----------------------------------------------------------------------------
(* Properties                                                              *)

Places == {"targets", "attach", "tree", "layout", "locate", "resolve", "apply", "look", "move",
           "press", "release", "arm", "install", "poll", "input", "set", "unprobe", "unarm", "done"}

Call == [kind : {"snapshot", "click", "type", "upload"}, tab : Tab, at : Places,
         goal : {"none", "tree", "layout", "locate", "resolve"}, again : BOOLEAN, doc : 0..MaxDocs,
         armed : BOOLEAN, probed : BOOLEAN, late : {"nothing", "arm", "set"}, failed : BOOLEAN,
         pressed : BOOLEAN, set : BOOLEAN, lost : BOOLEAN,
         answer : {"pending", "stored", "dom", "ok", "none", "unknown", "committed", "thrown"}]

Observation == [tab : Tab, owner : Session, doc : 1..MaxDocs, overtaken : BOOLEAN]

\* Every variable has its type; the service worker takes a tab for attached
\* only when it is or the onDetach of the tab is on its way, and a service worker
\* without a port has a timer to get one.
TypeOK ==
    /\ doc \in [Tab -> 1..MaxDocs]
    /\ loading \in [Tab -> 0..MaxDocs]
    /\ leaving \in [Tab -> Nat]
    /\ debug \in [Tab -> {"nobody", "ours", "another"}]
    /\ intercept \in [Tab -> BOOLEAN]
    /\ debuggerTabs \in SUBSET {t \in Tab : debug[t] = "ours" \/ leaving[t] > 0}
    /\ refs \in Observation \cup {None}
    /\ calls \in Seq(Call)
    /\ link \in {"down", "open", "ready"}
    /\ timer \in BOOLEAN
    /\ link = "down" => timer
    /\ active \in Session \cup {None}
    /\ <<errors, detaches, links>> \in Nat \X Nat \X Nat

\* The refs of the store are of the document the tab shows, or the event that
\* drops them is on its way ("Navigation replaces the document ... so drop the
\* navigated tab's refs", browser-executor.ts:206).  The exception is a
\* snapshot that the navigation overtook between its tree and its refs.
RefsOfTheDocument ==
    refs # None =>
        (refs.doc = doc[refs.tab]) \/ loading[refs.tab] > 0 \/ refs.overtaken

\* An answer with effectState "none" is true of the files: none are set, now or
\* later.  It is true of a click, too, but for one case: the reply of the press was
\* lost to a detach, and the click is reported as not made although the page got
\* it.  Of the click of an upload it says nothing (NoneMeansUntouched).
NoneMeansNothing ==
    \A i \in Calls :
        calls[i].answer = "none" =>
            /\ ~calls[i].set
            /\ calls[i].late # "set"
            /\ calls[i].kind = "click" => calls[i].pressed = calls[i].lost

\* File choosers are intercepted only while an upload of the tab runs, but for two
\* cases: its cleanup failed, or its arming timed out and took effect afterwards.
InterceptionIsCleanedUp ==
    \A t \in Tab : intercept[t] =>
        \E i \in Calls :
            /\ calls[i].tab = t
            /\ (calls[i].armed /\ calls[i].at # "done") \/ calls[i].failed

\* What input leaves behind is accounted for, with the exceptions named above.
EffectsAccounted == NoneMeansNothing /\ InterceptionIsCleanedUp

-----------------------------------------------------------------------------
(* What the comments say and the code does not do.                         *)

\* "none (nothing dispatched, safe to retry)" (cdp-input.ts:9-11, and 191: "none
\* until mousePressed has been sent"; upload-transaction.ts:12): false when the
\* reply of the press is lost (cdp-input.ts:227), and when the click of an upload
\* opened no chooser, or one that does not take the files.
NoneMeansUntouched == \A i \in Calls : calls[i].answer = "none" => ~calls[i].pressed

\* An upload that times out "keeps its cleanup" (upload-transaction.ts:14): false
\* when its arming timed out, for the cleanup is skipped and the arming may follow.
InterceptionEnds ==
    \A t \in Tab : intercept[t] =>
        \E i \in Calls : calls[i].tab = t /\ calls[i].kind = "upload" /\ calls[i].at # "done"

\* debuggerTabs has the tabs that are attached (ensureDebuggerAttached asks nothing
\* else): false after any command that failed on a page that is still attached.
AttachedIsKnown == \A t \in Tab : debug[t] = "ours" => t \in debuggerTabs
=============================================================================
