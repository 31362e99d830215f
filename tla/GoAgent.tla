------------------------------- MODULE GoAgent -------------------------------
(***************************************************************************)
(* The GO agent on one tab: GoController of apps/codex-mcp-server/src/go.ts *)
(* and its GoEngine of apps/go-agent/src/core.ts, which watches a chat     *)
(* page, counts the answers of the model as rounds and nudges it on until  *)
(* a checkpoint.                                                           *)
(*                                                                         *)
(* Every call and every tick of the timer is an async function: a run.  It *)
(* is cut at its awaits, so that runs overlap as they do in the code; the  *)
(* ticks of a setInterval do not wait for each other.  All operations on   *)
(* the page go through the queue of its tab (browser_evaluate counts as a  *)
(* mutation): `runs' is kept in the order in which they last asked, and    *)
(* the page serves the first.  A step of the page and what the run does    *)
(* with the answer until its next await are one action.                    *)
(*                                                                         *)
(* Left out: the contents of texts, the ledger and the storage (nobody     *)
(* calls restore), phase and nextActionAt (shown only), go_status, go_wait *)
(* and go_resolve_conversation, which change nothing.                      *)
(***************************************************************************)
EXTENDS Integers, Sequences, SequencesExt

CONSTANTS
    MaxRounds,  \* config.maxRounds
    MaxCalls,   \* bound: go_start, go_continue and go_configure_decision
    MaxEngines, \* bound: engines that are built
    MaxRuns,    \* bound: runs at an await at one time
    MaxNudges,  \* bound: nudges of an engine
    MaxAnswers, \* bound: answers of the model
    MaxText,    \* bound: changes of the text of the page
    MaxFaults   \* bound: failed reads of the text that become a baseline

ASSUME GoAssumption ==
    /\ MaxRounds \in Nat \ {0}
    /\ {MaxCalls, MaxEngines, MaxRuns, MaxNudges, MaxAnswers, MaxText, MaxFaults} \subseteq Nat

VARIABLES
    engines,    \* every engine there was; the entry of the tab has the last
    runs,       \* the async functions that are at an await, in order
    page,       \* what the model is doing: [busy, text]
    calls,      \* how many calls there were (bound)
    answers,    \* ghost: how many answers the model began
    faults,     \* ghost: failed reads of the text that became a baseline
    late,       \* ghost: rounds counted on an isBusy that failed or is out of date
    stopped     \* ghost: go_stop was the last call, and none is under way

ghosts == <<calls, answers, faults, late, stopped>>
vars == <<engines, runs, page, ghosts>>

-----------------------------------------------------------------------------
Engines == 1..Len(engines)
Blank == -1 \* adapter.lastText() failed, or there is no answer on the page

\* now is before lastNudgeAt + cooldownMs, or after it; start sets lastNudgeAt = 0.
Cooling == {"never", "yes", "over"}

\* quiet: idleThresholdMs went by since lastStableAt.
NewEngine(llm) ==
    [llm |-> llm, running |-> FALSE, timer |-> FALSE, round |-> 0, seen |-> FALSE,
     last |-> Blank, quiet |-> FALSE, cooling |-> "never", nudges |-> 0, injected |-> FALSE]

\* A run: the engine it is about (0: not yet built), where it awaits, and what
\* it knows: isBusy, whether its `now' was after the cooldown, and nudges then.
\* asked (ghost): the answers there were when isBusy was read, if the read was right.
Run(at, e) ==
    [at |-> at, on |-> e, busy |-> FALSE, asked |-> Blank, ready |-> FALSE, stamp |-> 0]

OnPage == {"start text", "protocol", "protocol send", "settled text", "resume text", "risk",
           "busy", "text", "type", "send", "reread"}
Entries == {"entry start", "entry continue", "entry configure"}
Elsewhere == Entries \union {"start save", "resume save", "save", "decide"}
Calling == Entries \union {"start text", "start save", "protocol", "protocol send",
                           "settled text", "resume text", "resume save"}

\* The page serves the runs in the order in which they asked.
Served(i) ==
    /\ runs[i].at \in OnPage
    /\ \A j \in 1..(i - 1) : runs[j].at \notin OnPage

Leave(i) == runs' = RemoveAt(runs, i)
Goto(i, at) == runs' = Append(RemoveAt(runs, i), Run(at, runs[i].on))

\* The engine of run i.
Of(i) == engines[runs[i].on]
Now(i, f) == engines' = [engines EXCEPT ![runs[i].on] = f]

\* stop(): the timer ends, what is at an await goes on.
Halted(e) == [e EXCEPT !.running = FALSE, !.timer = FALSE]

-----------------------------------------------------------------------------
(* GoController.                                                           *)

\* All three calls await entryFor, go_start the platform of the page, too, before
\* they look for their engine; without an entry, each of them will build one.
Call(at) ==
    /\ calls < MaxCalls /\ calls' = calls + 1
    /\ Len(runs) < MaxRuns
    /\ runs' = Append(runs, Run(at, Len(engines)))
    /\ stopped' = FALSE
    /\ UNCHANGED <<engines, page, answers, faults, late>>

\* A start with a decision engine builds a new GoEngine, too.
Entered(i, llm) ==
    LET build == runs[i].on = 0 \/ llm
        e == IF build THEN Len(engines) + 1 ELSE Len(engines)
        start == runs[i].at = "entry start"
        old == IF build THEN NewEngine(llm) ELSE engines[e]
        new == [old EXCEPT !.running = TRUE, !.round = IF start THEN 0 ELSE @]
    IN  /\ runs[i].at \in {"entry start", "entry continue"}
        /\ llm => start
        /\ e <= MaxEngines
        /\ engines' = IF build THEN Append(engines, new) ELSE [engines EXCEPT ![e] = new]
        /\ runs' = Append(RemoveAt(runs, i), Run(IF start THEN "start text" ELSE "resume text", e))
        /\ UNCHANGED <<page, ghosts>>

\* go_configure_decision: the engine of before is not stopped.
Configured(i) ==
    /\ runs[i].at = "entry configure"
    /\ Len(engines) < MaxEngines
    /\ engines' = Append(engines, NewEngine(TRUE))
    /\ Leave(i)
    /\ UNCHANGED <<page, ghosts>>

\* go_stop stops the engine of the entry.
GoStop ==
    /\ engines # <<>>
    /\ engines' = [engines EXCEPT ![Len(engines)] = Halted(@)]
    /\ stopped' = (\A i \in DOMAIN runs : runs[i].at \notin Calling)
    /\ UNCHANGED <<runs, page, calls, answers, faults, late>>

-----------------------------------------------------------------------------
(* GoEngine.start and resume.                                              *)

\* What lastText gives: in start and resume a failed read is the baseline.
Baseline(text) ==
    /\ text \in {page.text, Blank}
    /\ faults' = IF text = page.text THEN faults ELSE faults + 1
    /\ faults' <= MaxFaults
Rebased(e, text) == [e EXCEPT !.last = text, !.quiet = FALSE, !.seen = FALSE]

StartText(i) ==
    /\ runs[i].at = "start text" /\ Served(i)
    /\ \E text \in {page.text, Blank} :
          /\ Baseline(text)
          /\ Now(i, [Rebased(Of(i), text) EXCEPT !.cooling = "never"])
    /\ Goto(i, "start save")
    /\ UNCHANGED <<page, calls, answers, late, stopped>>

\* resetTimer; the protocol is sent once for each engine.
StartSaved(i) ==
    /\ runs[i].at = "start save"
    /\ Now(i, [Of(i) EXCEPT !.timer = TRUE])
    /\ \/ Goto(i, "settled text")
       \/ ~Of(i).injected /\ Goto(i, "protocol")
    /\ UNCHANGED <<page, ghosts>>

Protocol(i) ==
    /\ runs[i].at = "protocol" /\ Served(i)
    /\ Goto(i, "protocol send") \/ Goto(i, "settled text")
    /\ UNCHANGED <<engines, page, ghosts>>

ProtocolSend(i) ==
    /\ runs[i].at = "protocol send" /\ Served(i)
    /\ \E ok \in BOOLEAN : Now(i, [Of(i) EXCEPT !.injected = ok \/ @])
    /\ Goto(i, "settled text")
    /\ UNCHANGED <<page, ghosts>>

\* After the protocol: back, or the first tick.
SettledText(i) ==
    /\ runs[i].at = "settled text" /\ Served(i)
    /\ IF Of(i).running
       THEN \E text \in {page.text, Blank} :
               /\ Baseline(text)
               /\ Now(i, [Of(i) EXCEPT !.last = text, !.quiet = FALSE])
               /\ Goto(i, "risk")
       ELSE Leave(i) /\ UNCHANGED <<engines, faults>>
    /\ UNCHANGED <<page, calls, answers, late, stopped>>

ResumeText(i) ==
    /\ runs[i].at = "resume text" /\ Served(i)
    /\ \E text \in {page.text, Blank} : Baseline(text) /\ Now(i, Rebased(Of(i), text))
    /\ Goto(i, "resume save")
    /\ UNCHANGED <<page, calls, answers, late, stopped>>

ResumeSaved(i) ==
    /\ runs[i].at = "resume save"
    /\ Now(i, [Of(i) EXCEPT !.timer = TRUE])
    /\ IF Of(i).running THEN Goto(i, "risk") ELSE Leave(i)
    /\ UNCHANGED <<page, ghosts>>

-----------------------------------------------------------------------------
(* GoEngine.tick and doNudge.                                              *)

\* setInterval: the ticks before may still be at an await.
Tick(e) ==
    /\ engines[e].running /\ engines[e].timer
    /\ Len(runs) < MaxRuns
    /\ runs' = Append(runs, Run("risk", e))
    /\ UNCHANGED <<engines, page, ghosts>>

\* A captcha, or a bridge that stopped answering, stops the engine.
Risk(i) ==
    /\ runs[i].at = "risk" /\ Served(i)
    /\ \/ Goto(i, "busy") /\ UNCHANGED engines
       \/ Leave(i) /\ Now(i, Halted(Of(i)))
    /\ UNCHANGED <<page, ghosts>>

\* isBusy: a read that fails is `not busy'.
IsBusy(i) ==
    /\ runs[i].at = "busy" /\ Served(i)
    /\ \E busy \in {page.busy, FALSE} :
          runs' = Append(RemoveAt(runs, i),
                         [runs[i] EXCEPT !.at = "text", !.busy = busy,
                                         !.asked = IF busy = page.busy THEN answers ELSE Blank])
    /\ UNCHANGED <<engines, page, ghosts>>

\* doNudge up to its first await: ask the decision engine, or lock the cooldown
\* and type.
Locked(e) ==
    [e EXCEPT !.cooling = "yes", !.nudges = @ + 1, !.seen = FALSE, !.quiet = FALSE]
Lock(i) ==
    /\ Of(i).nudges < MaxNudges
    /\ Now(i, Locked(Of(i)))
    /\ Goto(i, "type")

\* Mutant of DoNudge: without a decision engine, too.
DoNudgeAsks(i) == Goto(i, "decide") /\ UNCHANGED engines

DoNudge(i) == IF Of(i).llm THEN Goto(i, "decide") /\ UNCHANGED engines ELSE Lock(i)

\* lastText, and what tick makes of it.  A blank text is skipped.
TextBlank(i) ==
    /\ runs[i].at = "text" /\ Served(i)
    /\ Leave(i)
    /\ UNCHANGED <<engines, page, ghosts>>

Generating(i) ==
    /\ runs[i].at = "text" /\ Served(i) /\ page.text # Blank
    /\ runs[i].busy \/ page.text # Of(i).last
    /\ \E stalled \in BOOLEAN :
          IF runs[i].busy
          THEN /\ stalled => page.text = Of(i).last
               /\ Now(i, [Of(i) EXCEPT !.seen = TRUE, !.quiet = @ /\ ~stalled])
          ELSE Now(i, [Of(i) EXCEPT !.seen = TRUE, !.last = page.text, !.quiet = FALSE])
    /\ Leave(i)
    /\ UNCHANGED <<page, ghosts>>

Idle(i) ==
    /\ runs[i].at = "text" /\ Served(i) /\ page.text # Blank
    /\ ~runs[i].busy /\ page.text = Of(i).last

\* No answer was seen: nudge again when it has been quiet for long.
Silent(i) ==
    /\ Idle(i) /\ ~Of(i).seen
    /\ IF ~Of(i).quiet \/ Of(i).cooling = "yes" THEN Leave(i) /\ UNCHANGED engines
       ELSE IF Of(i).round >= MaxRounds THEN Leave(i) /\ Now(i, Halted(Of(i)))
       ELSE DoNudge(i)
    /\ UNCHANGED <<page, ghosts>>

\* Mutant of Counted: the answer is still there to be counted.
CountedAgain(e) == [e EXCEPT !.round = @ + 1, !.quiet = FALSE]

\* An answer is over: count a round.
Counted(e) == [e EXCEPT !.round = @ + 1, !.quiet = FALSE, !.seen = FALSE]

Finished(i) ==
    /\ Idle(i) /\ Of(i).seen
    /\ Now(i, Counted(Of(i)))
    /\ runs' = Append(RemoveAt(runs, i),
                      [Run("save", runs[i].on) EXCEPT !.ready = Of(i).cooling # "yes",
                                                      !.stamp = Of(i).nudges])
    /\ late' = IF runs[i].asked = answers THEN late ELSE late + 1
    /\ UNCHANGED <<page, calls, answers, faults, stopped>>

\* Mutant of Cool: only what was known before the round was saved.
CoolBefore(i) == Of(i).cooling = "never" \/ runs[i].ready

\* The `now' of the tick against the lastNudgeAt of now.
Cool(i) == Of(i).cooling = "never" \/ (runs[i].ready /\ runs[i].stamp = Of(i).nudges)

\* The round is saved: stop at a checkpoint or at the limit, or nudge.
Saved(i, checkpoint) ==
    /\ runs[i].at = "save"
    /\ IF checkpoint \/ Of(i).round >= MaxRounds THEN Leave(i) /\ Now(i, Halted(Of(i)))
       ELSE IF Cool(i) THEN DoNudge(i)
       ELSE Leave(i) /\ UNCHANGED engines
    /\ UNCHANGED <<page, ghosts>>

\* The decision engine answers: stop, or anything else is a nudge.
Decided(i) ==
    /\ runs[i].at = "decide"
    /\ Lock(i) \/ (Leave(i) /\ Now(i, Halted(Of(i))))
    /\ UNCHANGED <<page, ghosts>>

Type(i) ==
    /\ runs[i].at = "type" /\ Served(i)
    /\ Goto(i, "send") \/ Leave(i)
    /\ UNCHANGED <<engines, page, ghosts>>

SendNudge(i) ==
    /\ runs[i].at = "send" /\ Served(i)
    /\ Goto(i, "reread") \/ Leave(i)
    /\ UNCHANGED <<engines, page, ghosts>>

\* Here a failed read keeps the baseline.
Reread(i) ==
    /\ runs[i].at = "reread" /\ Served(i)
    /\ \E text \in {page.text, Of(i).last} :
          Now(i, [Of(i) EXCEPT !.last = IF text = Blank THEN @ ELSE text, !.quiet = FALSE])
    /\ Leave(i)
    /\ UNCHANGED <<page, ghosts>>

-----------------------------------------------------------------------------
(* Time, and the page.                                                     *)

Quieten(e) ==
    /\ engines[e].running /\ ~engines[e].quiet
    /\ engines' = [engines EXCEPT ![e].quiet = TRUE]
    /\ UNCHANGED <<runs, page, ghosts>>

CoolDown(e) ==
    /\ engines[e].cooling = "yes"
    /\ engines' = [engines EXCEPT ![e].cooling = "over"]
    /\ UNCHANGED <<runs, page, ghosts>>

\* The model answers somebody: a nudge, the protocol, or the user.
Begin ==
    /\ ~page.busy /\ answers < MaxAnswers
    /\ page' = [page EXCEPT !.busy = TRUE]
    /\ answers' = answers + 1
    /\ UNCHANGED <<engines, runs, calls, faults, late, stopped>>

Grow ==
    /\ page.busy /\ page.text < MaxText
    /\ page' = [page EXCEPT !.text = @ + 1]
    /\ UNCHANGED <<engines, runs, ghosts>>

End ==
    /\ page.busy
    /\ page' = [page EXCEPT !.busy = FALSE]
    /\ UNCHANGED <<engines, runs, ghosts>>

-----------------------------------------------------------------------------
Init ==
    /\ engines = <<>> /\ runs = <<>>
    /\ page \in [busy : {FALSE}, text : {Blank, 0}]
    /\ calls = 0 /\ answers = 0 /\ faults = 0 /\ late = 0 /\ stopped = FALSE

Controller == (\E at \in Entries : Call(at)) \/ GoStop
Starting(i) ==
    \/ (\E llm \in BOOLEAN : Entered(i, llm)) \/ Configured(i)
    \/ StartText(i) \/ StartSaved(i) \/ Protocol(i) \/ ProtocolSend(i) \/ SettledText(i)
    \/ ResumeText(i) \/ ResumeSaved(i)
Ticking(i) ==
    \/ Risk(i) \/ IsBusy(i) \/ TextBlank(i) \/ Generating(i) \/ Silent(i) \/ Finished(i)
    \/ \E checkpoint \in BOOLEAN : Saved(i, checkpoint)
Nudging(i) == Decided(i) \/ Type(i) \/ SendNudge(i) \/ Reread(i)

Next ==
    \/ Controller
    \/ \E i \in DOMAIN runs : Starting(i) \/ Ticking(i) \/ Nudging(i)
    \/ \E e \in Engines : Tick(e) \/ Quieten(e) \/ CoolDown(e)
    \/ Begin \/ Grow \/ End

Spec == Init /\ [][Next]_vars

-----------------------------------------------------------------------------
(* Properties.                                                             *)

\* Types; a run that has passed entryFor is about an engine that exists, and only
\* an engine with a decision engine waits for one.
TypeOK ==
    /\ \A e \in Engines :
          engines[e] \in [llm : BOOLEAN, running : BOOLEAN, timer : BOOLEAN, round : Nat,
                          seen : BOOLEAN, last : Blank..MaxText, quiet : BOOLEAN,
                          cooling : Cooling, nudges : 0..MaxNudges, injected : BOOLEAN]
    /\ \A i \in DOMAIN runs :
          /\ runs[i] \in [at : OnPage \union Elsewhere, on : 0..Len(engines), busy : BOOLEAN,
                          asked : Blank..MaxAnswers, ready : BOOLEAN, stamp : 0..MaxNudges]
          /\ runs[i].on = 0 => runs[i].at \in Entries
          /\ runs[i].at = "decide" => Of(i).llm
    /\ page \in [busy : BOOLEAN, text : Blank..MaxText]
    /\ calls \in 0..MaxCalls /\ answers \in 0..MaxAnswers /\ faults \in 0..MaxFaults
    /\ late \in Nat /\ stopped \in BOOLEAN

\* Every round that is counted is owed to an answer of the model, to a failed
\* read of the text that became the baseline, or to a tick whose isBusy failed or
\* is out of date: the model began an answer since.
RoundsAreAnswers == \A e \in Engines : engines[e].round <= answers + faults + late

\* Between two starts of an engine without a decision engine its nudges are a
\* cooldown apart, although its ticks overlap and a round is saved between the
\* reading of the clock and the nudge: while the engine cools down it sends none,
\* and the cooldown is over early only when a go_start of this engine reads its
\* first text (start sets lastNudgeAt = 0).  So two nudges of a tab may be closer:
\* after a go_start, or of two engines of the tab (StopMeansStopped).
NudgesApart ==
    [][\A e \in Engines :
          engines[e].cooling = "yes" /\ ~engines[e].llm =>
             /\ engines'[e].nudges = engines[e].nudges
             /\ engines'[e].cooling = "never" =>
                   \E i \in DOMAIN runs : runs[i].on = e /\ StartText(i)]_vars

\* What doNudge says of every engine (core.ts:319, the cooldown is locked first, so
\* that a timer that enters again sends no second nudge), without the restriction
\* above: with a decision engine it is false, for the cooldown is locked after its
\* answer, and ticks that ask it in the meantime nudge, too.
NudgesApartAlways ==
    [][\A e \in Engines :
          engines[e].cooling = "yes" => engines'[e].nudges = engines[e].nudges]_vars

\* After go_stop, with no call under way, no engine of the tab runs.
StopMeansStopped == stopped => \A e \in Engines : ~engines[e].running
=============================================================================
