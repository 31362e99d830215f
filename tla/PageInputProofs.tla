--------------------------- MODULE PageInputProofs ---------------------------
(***************************************************************************)
(* What the extension may say of a page and of its input, for any number   *)
(* of tabs, sessions, calls and failures.  Why: what a call has done is    *)
(* known where it awaits (GoodCall), a call answers once, and whoever      *)
(* leaves the interception on is either still to clean it up or has said   *)
(* that it could not (Answerable).                                         *)
(***************************************************************************)
EXTENDS PageInput, SequenceTheorems, TLAPS

Over == {"unprobe", "unarm", "done"}

\* An answer that says `none', and what is true of a call that is under way.
NothingDone(c) ==
    ~c.set /\ c.late # "set" /\ (c.kind = "click" => c.pressed = c.lost)
NotYet(c) ==
    /\ ~c.set /\ c.late = "nothing" /\ ~c.lost
    /\ (c.kind = "click" /\ c.pressed) => c.at = "release"

GoodCall(c) ==
    /\ c \in Call
    /\ c.at \in {"targets", "attach"} => c.goal # "none"
    /\ c.at \in {"tree", "layout"} => c.goal = c.at
    /\ c.kind = "snapshot" => /\ c.goal \in {"none", "tree", "layout"}
                              /\ c.at \in {"targets", "attach", "tree", "layout"} \cup Over
    /\ c.goal \in {"tree", "layout"} => c.kind = "snapshot"
    /\ c.goal = "layout" => c.doc # 0
    /\ IF c.at \in Over THEN c.answer # "pending" ELSE c.answer = "pending" /\ NotYet(c)
    /\ c.answer = "none" => NothingDone(c)

CallsInv == calls \in Seq(Call) /\ \A i \in Calls : GoodCall(calls[i])

\* The call will clean up, or could not.
Answerable(c) == (c.armed /\ c.at # "done") \/ c.failed

StateInv ==
    /\ doc \in [Tab -> 1..MaxDocs] /\ loading \in [Tab -> 0..MaxDocs]
    /\ \A t \in Tab : loading[t] < doc[t]
    /\ leaving \in [Tab -> Nat]
    /\ debug \in [Tab -> {"nobody", "ours", "another"}] /\ intercept \in [Tab -> BOOLEAN]
    /\ debuggerTabs \in SUBSET {t \in Tab : debug[t] = "ours" \/ leaving[t] > 0}
    /\ refs \in Observation \cup {None}
    /\ link \in {"down", "open", "ready"} /\ timer \in BOOLEAN /\ (link = "down" => timer)
    /\ active \in Session \cup {None}
    /\ errors \in Nat /\ detaches \in Nat /\ links \in Nat

IInv == StateInv /\ CallsInv /\ RefsOfTheDocument /\ InterceptionIsCleanedUp

-----------------------------------------------------------------------------
(* What the steps have in common                                           *)

\* An outcome leaves a call in order, and whoever was to clean up still is.
LEMMA Ends ==
    ASSUME NEW c \in Call,
           NEW answer \in {"stored", "dom", "ok", "none", "unknown", "committed", "thrown"},
           answer = "none" => NothingDone(c)
    PROVE  /\ GoodCall(Ended(c, answer))
           /\ Ended(c, answer).tab = c.tab
           /\ Answerable(c) => Answerable(Ended(c, answer))
<1> DEFINE d == Ended(c, answer)
<1> DEFINE n == IF c.probed THEN c.doc ELSE 0
<1> DEFINE at == IF c.probed THEN "unprobe" ELSE IF c.armed THEN "unarm" ELSE "done"
<1>a. n \in 0..MaxDocs
  BY PageAssumption DEF Call
<1>b. at \in Over /\ at \in Places
  BY DEF Over, Places
<1>c. d = [c EXCEPT !.answer = answer, !.goal = "none", !.again = FALSE, !.doc = n, !.at = at]
  BY DEF Call, Ended
<1> HIDE DEF n, at
<1>1. d \in Call
  <2> HIDE DEF d
  <2> QED BY <1>a, <1>b, <1>c DEF Call
<1>2. /\ d.tab = c.tab /\ d.kind = c.kind /\ d.set = c.set /\ d.late = c.late
      /\ d.pressed = c.pressed /\ d.lost = c.lost
      /\ d.armed = c.armed /\ d.failed = c.failed
      /\ d.goal = "none" /\ d.answer = answer
  BY DEF Call, Ended
<1>3. d.at \in Over /\ (c.armed => d.at # "done")
  BY DEF Call, Ended, Over
<1> HIDE DEF d
<1>4. GoodCall(d) /\ (Answerable(c) => Answerable(d))
  BY <1>1, <1>2, <1>3 DEF GoodCall, NothingDone, Answerable, Over
<1> QED BY <1>2, <1>4 DEF d

\* So does waiting for the debugger.
LEMMA Ensures ==
    ASSUME NEW c \in Call, NEW goal \in {"tree", "layout", "locate", "resolve"}, NEW tabs,
           c.answer = "pending", NotYet(c), ~(c.kind = "click" /\ c.pressed),
           goal \in {"tree", "layout"} <=> c.kind = "snapshot",
           goal = "layout" => c.doc # 0
    PROVE  /\ GoodCall(Ensured(c, goal, tabs))
           /\ Ensured(c, goal, tabs).tab = c.tab
           /\ Answerable(c) => Answerable(Ensured(c, goal, tabs))
<1> DEFINE at == IF c.tab \in tabs THEN goal ELSE "targets"
<1> DEFINE d == Ensured(c, goal, tabs)
<1>1. at \in Places /\ at \notin Over /\ (at \in {"tree", "layout"} => at = goal)
  BY DEF Places, Over
<1>2. at # "attach" /\ (c.kind = "snapshot" => at \in {"targets", "attach", "tree", "layout"})
  OBVIOUS
<1>3. d = [c EXCEPT !.at = at, !.goal = goal]
  BY DEF Ensured
<1> HIDE DEF at, d
<1>4. d \in Call
  BY <1>1, <1>3 DEF Call
<1>5. /\ d.tab = c.tab /\ d.kind = c.kind /\ d.set = c.set /\ d.late = c.late /\ d.doc = c.doc
      /\ d.pressed = c.pressed /\ d.lost = c.lost
      /\ d.armed = c.armed /\ d.failed = c.failed
      /\ d.goal = goal /\ d.answer = c.answer /\ d.at = at
  BY <1>3 DEF Call
<1>6. GoodCall(d)
  BY <1>1, <1>2, <1>4, <1>5 DEF GoodCall, NotYet
<1>7. Answerable(c) => Answerable(d)
  BY <1>1, <1>5 DEF Answerable, Over
<1> QED BY <1>5, <1>6, <1>7 DEF d

\* A call goes on: the others are what they were, and the interception of
\* other tabs is.
LEMMA Goes ==
    ASSUME CallsInv, InterceptionIsCleanedUp, intercept \in [Tab -> BOOLEAN],
           NEW i \in Calls, NEW c, GoodCall(c), c.tab = calls[i].tab, Become(i, c),
           \A t \in Tab \ {c.tab} : intercept'[t] = intercept[t],
           intercept'[c.tab] => Answerable(c) \/ (intercept[c.tab] /\ ~Answerable(calls[i]))
    PROVE  CallsInv' /\ InterceptionIsCleanedUp'
<1>1. c \in Call
  BY DEF GoodCall
<1>2. calls' \in Seq(Call) /\ Calls' = Calls
  BY <1>1, ExceptSeq DEF CallsInv, Become, Calls
<1>3. \A j \in Calls : calls'[j] = IF j = i THEN c ELSE calls[j]
  BY DEF CallsInv, Become, Calls
<1>4. CallsInv'
  BY <1>2, <1>3 DEF CallsInv
<1>5. ASSUME NEW t \in Tab, intercept'[t]
      PROVE  \E j \in Calls : calls'[j].tab = t /\ Answerable(calls'[j])
  <2>1. CASE t = c.tab /\ Answerable(c)
    BY <2>1, <1>3
  <2>2. CASE t # c.tab \/ ~Answerable(c)
    <3>1. intercept[t] /\ (t = c.tab => ~Answerable(calls[i]))
      BY <2>2, <1>5
    <3>2. PICK j \in Calls : calls[j].tab = t /\ Answerable(calls[j])
      BY <3>1 DEF InterceptionIsCleanedUp, Answerable
    <3>3. j # i
      BY <3>1, <3>2
    <3> QED BY <3>2, <3>3, <1>3
  <2> QED BY <2>1, <2>2
<1>6. InterceptionIsCleanedUp'
  BY <1>2, <1>5 DEF InterceptionIsCleanedUp, Answerable
<1> QED BY <1>4, <1>6

\* A step of a call that changes nothing but the call, the belief about the
\* debugger and the count of errors.
LEMMA LocalStep ==
    ASSUME IInv, NEW i \in Calls, NEW c, GoodCall(c), c.tab = calls[i].tab,
           Answerable(calls[i]) => Answerable(c), Become(i, c), Local,
           debuggerTabs' \in SUBSET debuggerTabs, errors' \in Nat
    PROVE  IInv'
<1>1. intercept' = intercept /\ intercept \in [Tab -> BOOLEAN]
  BY DEF IInv, StateInv, Local, browser
<1>2. CallsInv' /\ InterceptionIsCleanedUp'
  BY <1>1, Goes DEF IInv
<1>3. StateInv' /\ RefsOfTheDocument'
  BY DEF IInv, StateInv, RefsOfTheDocument, Local, browser, native
<1> QED BY <1>2, <1>3 DEF IInv

\* The reply, the error and the silence of a command.
LEMMA Commands ==
    ASSUME IInv, NEW i \in Calls, NEW gone \in BOOLEAN,
           Replied(i) \/ Rejected(i, gone) \/ (Fault(TRUE) /\ UNCHANGED debuggerTabs)
    PROVE  debuggerTabs' \in SUBSET debuggerTabs /\ errors' \in Nat
BY DEF IInv, StateInv, Replied, Rejected, Fault

\* What a call in order says of itself.
LEMMA Known ==
    ASSUME IInv, NEW i \in Calls
    PROVE  /\ GoodCall(calls[i]) /\ calls[i] \in Call
           /\ calls[i].tab \in Tab /\ doc[calls[i].tab] \in 1..MaxDocs
BY DEF IInv, CallsInv, StateInv, GoodCall, Call

\* A call that awaits something other than the release has done nothing yet.
LEMMA Underway ==
    ASSUME NEW c, GoodCall(c), c.at \notin Over
    PROVE  /\ c \in Call /\ c.answer = "pending" /\ NotYet(c)
           /\ c.at # "release" => NothingDone(c) /\ ~(c.kind = "click" /\ c.pressed)
<1>1. c \in Call /\ c.answer = "pending" /\ NotYet(c)
  BY DEF GoodCall
<1>2. c.pressed \in BOOLEAN /\ c.lost \in BOOLEAN
  BY <1>1 DEF Call
<1>3. c.at # "release" => NothingDone(c) /\ ~(c.kind = "click" /\ c.pressed)
  BY <1>1, <1>2 DEF NotYet, NothingDone
<1> QED BY <1>1, <1>3

\* Learning which document its node is of leaves a call in order.
LEMMA Learns ==
    ASSUME IInv, NEW i \in Calls, NEW c,
           c = calls[i] \/ c = [calls[i] EXCEPT !.doc = doc[calls[i].tab]]
    PROVE  /\ GoodCall(c) /\ c \in Call
           /\ c.tab = calls[i].tab /\ c.at = calls[i].at /\ c.kind = calls[i].kind
           /\ c.goal = calls[i].goal
           /\ c.pressed = calls[i].pressed
           /\ Answerable(calls[i]) => Answerable(c)
<1>1. CASE c = calls[i]
  BY <1>1, Known
<1>2. CASE c = [calls[i] EXCEPT !.doc = doc[calls[i].tab]]
  <2> DEFINE n == doc[calls[i].tab]
  <2> DEFINE d == calls[i]
  <2>1. n \in 1..MaxDocs /\ n \in 0..MaxDocs /\ n # 0 /\ GoodCall(d) /\ d \in Call
    BY Known, PageAssumption
  <2>2. c = [d EXCEPT !.doc = n]
    BY <1>2
  <2> HIDE DEF n, d
  <2>3. c \in Call
    BY <2>1, <2>2 DEF Call
  <2>4. /\ c.tab = d.tab /\ c.kind = d.kind /\ c.set = d.set /\ c.late = d.late /\ c.doc = n
        /\ c.pressed = d.pressed /\ c.lost = d.lost
        /\ c.armed = d.armed /\ c.failed = d.failed
        /\ c.goal = d.goal /\ c.answer = d.answer /\ c.at = d.at
    BY <2>1, <2>2 DEF Call
  <2>5. GoodCall(c)
    BY <2>1, <2>3, <2>4 DEF GoodCall, NotYet, NothingDone
  <2>6. Answerable(d) => Answerable(c)
    BY <2>4 DEF Answerable
  <2> QED BY <2>3, <2>4, <2>5, <2>6 DEF d
<1> QED BY <1>1, <1>2

\* Going on to another command of input leaves a call in order.
LEMMA Moves ==
    ASSUME NEW c, GoodCall(c), c.at \notin Over, c.kind # "snapshot",
           NEW at \in Places \ (Over \cup {"targets", "attach", "tree", "layout"}),
           (c.kind = "click" /\ c.pressed) => at = "release"
    PROVE  /\ GoodCall([c EXCEPT !.at = at])
           /\ Answerable(c) => Answerable([c EXCEPT !.at = at])
           /\ [c EXCEPT !.at = at].tab = c.tab
<1> DEFINE d == [c EXCEPT !.at = at]
<1>0. c \in Call
  BY DEF GoodCall
<1>1. d \in Call
  BY <1>0 DEF Call
<1>2. /\ d.tab = c.tab /\ d.kind = c.kind /\ d.set = c.set /\ d.late = c.late /\ d.doc = c.doc
      /\ d.pressed = c.pressed /\ d.lost = c.lost
      /\ d.armed = c.armed /\ d.failed = c.failed
      /\ d.goal = c.goal /\ d.answer = c.answer /\ d.at = at
  BY <1>0 DEF Call
<1> HIDE DEF d
<1>3. GoodCall(d)
  BY <1>1, <1>2 DEF GoodCall, NotYet, NothingDone
<1>4. Answerable(c) => Answerable(d)
  BY <1>2 DEF Answerable, Over
<1> QED BY <1>2, <1>3, <1>4 DEF d

\* A command was answered, rejected or given up.
CommandOver(i) ==
    \/ Replied(i)
    \/ \E gone \in BOOLEAN : Rejected(i, gone)
    \/ Fault(TRUE) /\ UNCHANGED debuggerTabs

\* Whatever came of the command, the belief about the debugger only shrinks.
LEMMA CommandsOver ==
    ASSUME IInv, NEW i \in Calls, CommandOver(i)
    PROVE  debuggerTabs' \in SUBSET debuggerTabs /\ errors' \in Nat
BY Commands DEF CommandOver

\* A step that ends a call, one that takes it to its next command, and one
\* that takes it to the debugger.
LEMMA EndStep ==
    ASSUME IInv, NEW i \in Calls, NEW c, GoodCall(c), c.tab = calls[i].tab,
           Answerable(calls[i]) => Answerable(c), c.at \notin Over,
           NEW answer \in {"stored", "dom", "ok", "none", "unknown", "committed", "thrown"},
           answer = "none" => c.at # "release",
           Become(i, Ended(c, answer)), Local, CommandOver(i)
    PROVE  IInv'
<1>1. c \in Call /\ (answer = "none" => NothingDone(c))
  BY Underway
<1>2. GoodCall(Ended(c, answer)) /\ Ended(c, answer).tab = calls[i].tab
  BY <1>1, Ends
<1>3. Answerable(calls[i]) => Answerable(Ended(c, answer))
  BY <1>1, Ends
<1>4. debuggerTabs' \in SUBSET debuggerTabs /\ errors' \in Nat
  BY CommandsOver
<1> QED BY <1>2, <1>3, <1>4, LocalStep

\* The same for a call that goes to its next command,
LEMMA MoveStep ==
    ASSUME IInv, NEW i \in Calls, NEW c, GoodCall(c), c.tab = calls[i].tab,
           Answerable(calls[i]) => Answerable(c), c.at \notin Over, c.kind # "snapshot",
           NEW at \in Places \ (Over \cup {"targets", "attach", "tree", "layout"}),
           (c.kind = "click" /\ c.pressed) => at = "release",
           Become(i, [c EXCEPT !.at = at]), Local, CommandOver(i)
    PROVE  IInv'
<1>1. GoodCall([c EXCEPT !.at = at]) /\ [c EXCEPT !.at = at].tab = calls[i].tab
  BY Moves
<1>2. Answerable(calls[i]) => Answerable([c EXCEPT !.at = at])
  BY Moves
<1>3. debuggerTabs' \in SUBSET debuggerTabs /\ errors' \in Nat
  BY CommandsOver
<1> QED BY <1>1, <1>2, <1>3, LocalStep

\* and for one that waits for the debugger first.
LEMMA EnsureStep ==
    ASSUME IInv, NEW i \in Calls, NEW c, GoodCall(c), c.tab = calls[i].tab,
           Answerable(calls[i]) => Answerable(c), c.at \notin Over \cup {"release"},
           NEW goal \in {"locate", "resolve"}, c.kind # "snapshot",
           Become(i, Ensured(c, goal, debuggerTabs)), Local, CommandOver(i)
    PROVE  IInv'
<1> DEFINE d == Ensured(c, goal, debuggerTabs)
<1>1. c \in Call /\ c.answer = "pending" /\ NotYet(c) /\ ~(c.kind = "click" /\ c.pressed)
  BY Underway
<1>2. GoodCall(d) /\ d.tab = calls[i].tab /\ (Answerable(calls[i]) => Answerable(d))
  BY <1>1, Ensures
<1>3. debuggerTabs' \in SUBSET debuggerTabs /\ errors' \in Nat
  BY CommandsOver
<1> QED BY <1>2, <1>3, LocalStep

-----------------------------------------------------------------------------
(* Input on a node                                                         *)

\* The three ways in which the actions say so.
LEMMA Overs ==
    ASSUME NEW i \in Calls
    PROVE  /\ Replied(i) => CommandOver(i)
           /\ \A gone \in BOOLEAN : Rejected(i, gone) => CommandOver(i)
           /\ (Fault(TRUE) /\ UNCHANGED debuggerTabs) => CommandOver(i)
BY Zenon DEF CommandOver

\* Only calls that act wait at commands of input.
LEMMA Kinds ==
    ASSUME NEW c, GoodCall(c), c.at \notin Over \cup {"targets", "attach", "tree", "layout"}
    PROVE  c.kind \in {"click", "type", "upload"}
BY DEF GoodCall, Call

\* One lemma for each action, or for several of a shape: the invariant is kept.
LEMMA LocateStep ==
    ASSUME IInv, NEW i \in Calls, Locate(i)
    PROVE  IInv'
<1> DEFINE c == [calls[i] EXCEPT !.doc = doc[calls[i].tab]]
<1>1. /\ GoodCall(c) /\ c.tab = calls[i].tab /\ c.at = "locate"
      /\ Answerable(calls[i]) => Answerable(c)
  BY Learns DEF Locate, Is
<1>2. /\ \/ Replied(i) /\ \/ Become(i, IF c.kind = "upload" THEN [c EXCEPT !.at = "arm"]
                                          ELSE Ensured(c, "resolve", debuggerTabs))
                          \/ Become(i, Ended(c, "thrown"))
         \/ Rejected(i, FALSE) /\ Become(i, Ended(c, "thrown"))
      /\ Local
  BY DEF Locate
<1> HIDE DEF c
<1>3. c.at \notin Over \cup {"release"} /\ c.kind # "snapshot"
  BY <1>1, Kinds DEF Over
<1>4. CommandOver(i)
  BY <1>2, Overs
<1>5. CASE Become(i, Ended(c, "thrown"))
  BY <1>1, <1>2, <1>3, <1>4, <1>5, EndStep
<1>6. CASE c.kind = "upload" /\ Become(i, [c EXCEPT !.at = "arm"])
  <2>1. "arm" \in Places \ (Over \cup {"targets", "attach", "tree", "layout"})
    BY DEF Places, Over
  <2> QED BY <1>1, <1>2, <1>3, <1>4, <1>6, <2>1, MoveStep
<1>7. CASE Become(i, Ensured(c, "resolve", debuggerTabs))
  BY <1>1, <1>2, <1>3, <1>4, <1>7, EnsureStep
<1> QED BY <1>2, <1>5, <1>6, <1>7

\* The node is resolved, or the call ends.
LEMMA ResolveStep ==
    ASSUME IInv, NEW i \in Calls, Resolve(i)
    PROVE  IInv'
<1> DEFINE c == [calls[i] EXCEPT !.doc = doc[calls[i].tab]]
<1>1. /\ GoodCall(c) /\ c.tab = calls[i].tab /\ c.at = "resolve"
      /\ Answerable(calls[i]) => Answerable(c)
  BY Learns DEF Resolve, Is
<1>2. /\ \/ Replied(i) /\ Become(i, [c EXCEPT !.at = IF c.kind = "type" THEN "apply" ELSE "look"])
         \/ Rejected(i, Gone(i)) /\ Become(i, Ended(c, IF c.kind = "type" THEN "thrown" ELSE "none"))
      /\ Local
  BY DEF Resolve
<1>3. Gone(i) \in BOOLEAN
  BY DEF Gone
<1> HIDE DEF c
<1>4. c.at \notin Over \cup {"release"} /\ c.kind # "snapshot"
  BY <1>1, Kinds DEF Over
<1>5. CommandOver(i)
  BY <1>2, <1>3, Overs
<1>6. ASSUME NEW answer \in {"thrown", "none"}, Become(i, Ended(c, answer))
      PROVE  IInv'
  BY <1>1, <1>2, <1>4, <1>5, <1>6, EndStep
<1>7. ASSUME NEW at \in {"apply", "look"}, Become(i, [c EXCEPT !.at = at])
      PROVE  IInv'
  <2>1. at \in Places \ (Over \cup {"targets", "attach", "tree", "layout"})
    BY DEF Places, Over
  <2>2. ~(c.kind = "click" /\ c.pressed)
    BY <1>1, <1>4, Underway
  <2> QED BY <1>1, <1>2, <1>4, <1>5, <1>7, <2>1, <2>2, MoveStep
<1> QED BY <1>2, <1>6, <1>7

\* A step that takes a call to its next command, or ends it.
GoesTo(i, at) ==
    /\ at \in Places \ (Over \cup {"targets", "attach", "tree", "layout"})
    /\ (calls[i].kind = "click" /\ calls[i].pressed) => at = "release"
    /\ Goto(i, at)

EndsWith(i, answer) ==
    /\ answer \in {"ok", "none", "unknown", "committed", "thrown"}
    /\ answer = "none" => calls[i].at # "release"
    /\ Become(i, Ended(calls[i], answer))

\* Either of the two keeps the invariant.
LEMMA InputStep ==
    ASSUME IInv, NEW i \in Calls, Local, CommandOver(i),
           calls[i].at \notin Over \cup {"targets", "attach", "tree", "layout"},
           (\E at : GoesTo(i, at)) \/ (\E answer : EndsWith(i, answer))
    PROVE  IInv'
<1> DEFINE c == calls[i]
<1>1. GoodCall(c) /\ c.tab = calls[i].tab /\ (Answerable(calls[i]) => Answerable(c))
  BY Known
<1>2. c.kind # "snapshot" /\ c.at \notin Over
  BY <1>1, Kinds
<1>3. ASSUME NEW at, GoesTo(i, at)
      PROVE  IInv'
  <2>1. Become(i, [c EXCEPT !.at = at])
    BY <1>3 DEF GoesTo, Goto, Become
  <2> QED BY <1>1, <1>2, <1>3, <2>1, MoveStep DEF GoesTo
<1>4. ASSUME NEW answer, EndsWith(i, answer)
      PROVE  IInv'
  BY <1>1, <1>2, <1>4, EndStep DEF EndsWith
<1> QED BY <1>3, <1>4

\* The commands that do no more than that.
LEMMA SimpleSteps ==
    ASSUME IInv, NEW i \in Calls,
           Apply(i) \/ Look(i) \/ Move(i) \/ Release(i) \/ Poll(i) \/ Input(i)
    PROVE  IInv'
<1> DEFINE c == calls[i]
<1>1. GoodCall(c)
  BY Known
<1>2. c.at \in {"apply", "look", "move", "release", "poll", "input"}
  BY DEF Apply, Look, Move, Release, Poll, Input, Is
<1>3. c.at \notin Over \cup {"targets", "attach", "tree", "layout"}
  BY <1>2 DEF Over
<1>4. c.at # "release" => ~(c.kind = "click" /\ c.pressed)
  BY <1>1, <1>3, Underway
<1>5. {"move", "press", "poll", "input", "set"}
          \subseteq Places \ (Over \cup {"targets", "attach", "tree", "layout"})
  BY DEF Places, Over
<1>6. Gone(i) \in BOOLEAN
  BY DEF Gone
<1>7. Local /\ CommandOver(i)
  BY <1>6, Overs DEF Apply, Look, Move, Release, Poll, Input
<1>8. (\E at : GoesTo(i, at)) \/ (\E answer : EndsWith(i, answer))
  <2>1. CASE Apply(i)
    <3>1. EndsWith(i, "ok") \/ EndsWith(i, "thrown")
      BY <2>1 DEF Apply, EndsWith
    <3> QED BY <3>1
  <2>2. CASE Look(i)
    <3>1. Is(i, "look")
      BY <2>2 DEF Look
    <3>2. GoesTo(i, "move") \/ EndsWith(i, "none")
      BY <2>2, <3>1, <1>4, <1>5 DEF Look, GoesTo, EndsWith, Is
    <3> QED BY <3>2
  <2>3. CASE Move(i)
    <3>1. Is(i, "move")
      BY <2>3 DEF Move
    <3>2. GoesTo(i, "press") \/ EndsWith(i, "none")
      BY <2>3, <3>1, <1>4, <1>5 DEF Move, GoesTo, EndsWith, Is
    <3> QED BY <3>2
  <2>4. CASE Release(i)
    <3>1. c.kind = "upload" => (Become(i, [c EXCEPT !.at = "poll"]) => GoesTo(i, "poll"))
      BY <1>5 DEF GoesTo, Goto, Become
    <3>2. GoesTo(i, "poll") \/ EndsWith(i, "committed") \/ EndsWith(i, "unknown")
      BY <2>4, <3>1 DEF Release, EndsWith
    <3> QED BY <3>2
  <2>5. CASE Poll(i)
    <3>1. Is(i, "poll")
      BY <2>5 DEF Poll
    <3>2. GoesTo(i, "input") \/ GoesTo(i, "set") \/ EndsWith(i, "none")
      BY <2>5, <3>1, <1>4, <1>5 DEF Poll, GoesTo, EndsWith, Is
    <3> QED BY <3>2
  <2>6. CASE Input(i)
    <3>1. Is(i, "input")
      BY <2>6 DEF Input
    <3>2. GoesTo(i, "set") \/ EndsWith(i, "none") \/ EndsWith(i, "thrown")
      BY <2>6, <3>1, <1>4, <1>5 DEF Input, GoesTo, EndsWith, Is
    <3> QED BY <3>2
  <2> QED BY <2>1, <2>2, <2>3, <2>4, <2>5, <2>6
<1> QED BY <1>3, <1>7, <1>8, InputStep

\* The press, which is the first effect of a click.
LEMMA PressStep ==
    ASSUME IInv, NEW i \in Calls, Press(i)
    PROVE  IInv'
<1> DEFINE c == calls[i]
<1> DEFINE d == [c EXCEPT !.at = "release", !.pressed = TRUE]
<1>1. GoodCall(c) /\ c \in Call /\ c.at = "press" /\ c.at \notin Over
  BY Known DEF Press, Is, Over
<1>2. Local /\ CommandOver(i)
  BY Overs DEF Press
<1>3. CASE Become(i, d)
  <2>1. d \in Call
    BY <1>1 DEF Call, Places
  <2>2. /\ d.tab = c.tab /\ d.kind = c.kind /\ d.set = c.set /\ d.late = c.late /\ d.doc = c.doc
        /\ d.pressed = TRUE /\ d.lost = c.lost
        /\ d.armed = c.armed /\ d.failed = c.failed
        /\ d.goal = c.goal /\ d.answer = c.answer /\ d.at = "release"
    BY <1>1 DEF Call
  <2>3. c.kind # "snapshot"
    BY <1>1, Kinds
  <2> HIDE DEF d
  <2>4. GoodCall(d)
    BY <1>1, <2>1, <2>2, <2>3 DEF GoodCall, NotYet, Over
  <2>5. Answerable(c) => Answerable(d)
    BY <2>2 DEF Answerable
  <2>6. debuggerTabs' \in SUBSET debuggerTabs /\ errors' \in Nat
    BY <1>2, CommandsOver
  <2> QED BY <1>2, <1>3, <2>2, <2>4, <2>5, <2>6, LocalStep
<1>4. CASE Become(i, Ended(c, "none"))
  BY <1>1, <1>2, <1>4, EndStep
<1> QED BY <1>3, <1>4 DEF Press

\* A detach: the interception of the tab goes with it.
LEMMA DetachedStep ==
    ASSUME IInv, NEW t \in Tab, Detached(t)
    PROVE  /\ StateInv' /\ RefsOfTheDocument'
           /\ intercept' = [intercept EXCEPT ![t] = FALSE]
<1>1. debug' = [debug EXCEPT ![t] = "nobody"] /\ leaving' = [leaving EXCEPT ![t] = leaving[t] + 1]
      /\ debuggerTabs' = debuggerTabs
  BY DEF Detached
<1>2. debug' \in [Tab -> {"nobody", "ours", "another"}] /\ leaving' \in [Tab -> Nat]
      /\ leaving'[t] > 0
  BY <1>1 DEF IInv, StateInv
<1>3. debuggerTabs' \in SUBSET {u \in Tab : debug'[u] = "ours" \/ leaving'[u] > 0}
  BY <1>1, <1>2 DEF IInv, StateInv
<1>4. refs' \in Observation \cup {None} /\ RefsOfTheDocument'
  BY DEF IInv, StateInv, RefsOfTheDocument, Detached
<1>5. StateInv'
  BY <1>2, <1>3, <1>4 DEF IInv, StateInv, Detached, native
<1> QED BY <1>4, <1>5 DEF Detached

\* The press whose reply was lost says `none', which NoneMeansNothing grants.
LEMMA PressLostStep ==
    ASSUME IInv, NEW i \in Calls, PressLost(i)
    PROVE  IInv'
<1> DEFINE c == calls[i]
<1> DEFINE d == [c EXCEPT !.pressed = TRUE, !.lost = TRUE]
<1>1. GoodCall(c) /\ c \in Call /\ c.at = "press" /\ c.tab \in Tab
  BY Known DEF PressLost, Is
<1>2. NotYet(c)
  BY <1>1, Underway DEF Over
<1>3. d \in Call /\ d.tab = c.tab /\ (Answerable(c) => Answerable(d))
  BY <1>1 DEF Call, Answerable
<1>4. NothingDone(d)
  BY <1>1, <1>2 DEF Call, NotYet, NothingDone
<1>5. Become(i, Ended(d, "none")) /\ Detached(c.tab)
  BY DEF PressLost
<1> HIDE DEF d
<1>6. GoodCall(Ended(d, "none")) /\ Ended(d, "none").tab = c.tab
  BY <1>3, <1>4, Ends
<1>7. /\ StateInv' /\ RefsOfTheDocument'
      /\ intercept' = [intercept EXCEPT ![c.tab] = FALSE]
  BY <1>1, <1>5, DetachedStep
<1>8. intercept \in [Tab -> BOOLEAN]
  BY DEF IInv, StateInv
<1>9. ~intercept'[c.tab] /\ \A t \in Tab \ {c.tab} : intercept'[t] = intercept[t]
  BY <1>1, <1>7, <1>8
<1>10. CallsInv' /\ InterceptionIsCleanedUp'
  <2> DEFINE e == Ended(d, "none")
  <2>1. GoodCall(e) /\ e.tab = calls[i].tab /\ Become(i, e)
    BY <1>5, <1>6
  <2>2. ~intercept'[e.tab] /\ \A t \in Tab \ {e.tab} : intercept'[t] = intercept[t]
    BY <1>9, <2>1
  <2> HIDE DEF e
  <2>3. CallsInv /\ InterceptionIsCleanedUp
    BY DEF IInv
  <2> QED BY <1>8, <2>1, <2>2, <2>3, Goes
<1> QED BY <1>7, <1>10 DEF IInv

-----------------------------------------------------------------------------
(* Uploads                                                                 *)

\* A command that was given up ends its call; it may still take effect, which
\* matters to a call that says `none'.
LEMMA TimedOutCall ==
    ASSUME IInv, NEW i \in Calls, calls[i].at \notin Over \cup {"release"},
           NEW command \in {"nothing", "arm", "set"}, NEW answer \in {"none", "unknown"},
           answer = "none" => command # "set"
    PROVE  LET d == Ended([calls[i] EXCEPT !.late = command], answer)
           IN  GoodCall(d) /\ d.tab = calls[i].tab /\ (Answerable(calls[i]) => Answerable(d))
<1> DEFINE c == calls[i]
<1> DEFINE d == [c EXCEPT !.late = command]
<1>1. GoodCall(c) /\ c \in Call
  BY Known
<1>2. NothingDone(c)
  BY <1>1, Underway
<1>3. d \in Call /\ d.tab = c.tab /\ (Answerable(c) => Answerable(d))
  BY <1>1 DEF Call, Answerable
<1>4. answer = "none" => NothingDone(d)
  BY <1>1, <1>2 DEF Call, NothingDone
<1> HIDE DEF d
<1>5. GoodCall(Ended(d, answer)) /\ Ended(d, answer).tab = d.tab
      /\ (Answerable(d) => Answerable(Ended(d, answer)))
  BY <1>3, <1>4, Ends
<1> QED BY <1>3, <1>5 DEF d

\* The same as a step.
LEMMA TimedOutStep ==
    ASSUME IInv, NEW i \in Calls, calls[i].at \notin Over \cup {"release"},
           NEW command \in {"nothing", "arm", "set"}, NEW answer \in {"none", "unknown"},
           answer = "none" => command # "set",
           TimedOut(i, command, answer), Local
    PROVE  IInv'
<1> DEFINE d == Ended([calls[i] EXCEPT !.late = command], answer)
<1>1. GoodCall(d) /\ d.tab = calls[i].tab /\ (Answerable(calls[i]) => Answerable(d))
  BY TimedOutCall
<1>2. Become(i, d) /\ CommandOver(i)
  BY DEF TimedOut, CommandOver
<1>3. debuggerTabs' \in SUBSET debuggerTabs /\ errors' \in Nat
  BY <1>2, CommandsOver
<1> HIDE DEF d
<1> QED BY <1>1, <1>2, <1>3, LocalStep

\* The probe is installed; from here on there is a probe to clean up.
LEMMA InstallStep ==
    ASSUME IInv, NEW i \in Calls, Install(i)
    PROVE  IInv'
<1> DEFINE c == [calls[i] EXCEPT !.doc = doc[calls[i].tab]]
<1> DEFINE d == [c EXCEPT !.probed = TRUE]
<1>1. /\ GoodCall(c) /\ c \in Call /\ c.tab = calls[i].tab /\ c.at = "install"
      /\ calls[i].at = "install"
      /\ Answerable(calls[i]) => Answerable(c)
  BY Learns DEF Install, Is
<1>2. /\ \/ Replied(i) /\ Become(i, Ensured(d, "resolve", debuggerTabs))
         \/ Rejected(i, Gone(i)) /\ Become(i, Ended(c, "none"))
         \/ TimedOut(i, "nothing", "none")
      /\ Local
  BY DEF Install
<1>3. Gone(i) \in BOOLEAN
  BY DEF Gone
<1> HIDE DEF c
<1>4. CASE Replied(i) /\ Become(i, Ensured(d, "resolve", debuggerTabs))
  <2>1. d \in Call
    BY <1>1 DEF Call
  <2>2. /\ d.tab = c.tab /\ d.kind = c.kind /\ d.set = c.set /\ d.late = c.late /\ d.doc = c.doc
        /\ d.pressed = c.pressed /\ d.lost = c.lost
        /\ d.armed = c.armed /\ d.failed = c.failed
        /\ d.goal = c.goal /\ d.answer = c.answer /\ d.at = c.at
    BY <1>1 DEF Call
  <2> HIDE DEF d
  <2>3. GoodCall(d) /\ d.tab = calls[i].tab /\ (Answerable(calls[i]) => Answerable(d))
    BY <1>1, <2>1, <2>2 DEF GoodCall, NotYet, NothingDone, Answerable
  <2>4. d.at \notin Over \cup {"release"} /\ d.kind # "snapshot"
    BY <1>1, <2>2, <2>3, Kinds DEF Over
  <2>5. CommandOver(i)
    BY <1>4, Overs
  <2> QED BY <1>2, <1>4, <2>3, <2>4, <2>5, EnsureStep
<1>5. CASE Rejected(i, Gone(i)) /\ Become(i, Ended(c, "none"))
  <2>1. CommandOver(i)
    BY <1>3, <1>5, Overs
  <2>2. c.at \notin Over /\ c.at # "release"
    BY <1>1 DEF Over
  <2> QED BY <1>1, <1>2, <1>5, <2>1, <2>2, EndStep
<1>6. CASE TimedOut(i, "nothing", "none")
  <2>1. calls[i].at \notin Over \cup {"release"}
    BY <1>1 DEF Over
  <2> QED BY <1>2, <1>6, <2>1, TimedOutStep
<1> QED BY <1>2, <1>4, <1>5, <1>6

\* The files are set, and the call says `committed' or `unknown'.
LEMMA SetFilesStep ==
    ASSUME IInv, NEW i \in Calls, SetFiles(i)
    PROVE  IInv'
<1> DEFINE c == calls[i]
<1> DEFINE d == [c EXCEPT !.set = TRUE]
<1>1. GoodCall(c) /\ c \in Call /\ c.at = "set" /\ c.at \notin Over \cup {"release"}
  BY Known DEF SetFiles, Is, Over
<1>2. Local /\ Gone(i) \in BOOLEAN
  BY DEF SetFiles, Gone
<1>3. CASE Replied(i) /\ Become(i, Ended(d, "committed"))
  <2>1. d \in Call /\ d.tab = c.tab /\ (Answerable(c) => Answerable(d))
    BY <1>1 DEF Call, Answerable
  <2> HIDE DEF d
  <2>2. /\ GoodCall(Ended(d, "committed")) /\ Ended(d, "committed").tab = c.tab
        /\ Answerable(c) => Answerable(Ended(d, "committed"))
    BY <2>1, Ends
  <2>3. debuggerTabs' \in SUBSET debuggerTabs /\ errors' \in Nat
    BY <1>3, Overs, CommandsOver
  <2> QED BY <1>2, <1>3, <2>2, <2>3, LocalStep
<1>4. CASE Rejected(i, Gone(i)) /\ Become(i, Ended(c, "unknown"))
  <2>1. CommandOver(i)
    BY <1>2, <1>4, Overs
  <2> QED BY <1>1, <1>2, <1>4, <2>1, EndStep
<1>5. CASE TimedOut(i, "set", "unknown")
  BY <1>1, <1>2, <1>5, TimedOutStep
<1> QED BY <1>3, <1>4, <1>5 DEF SetFiles

\* A step that turns the interception of the call's tab on or off.
LEMMA ArmingStep ==
    ASSUME IInv, NEW i \in Calls, NEW c, GoodCall(c), c.tab = calls[i].tab, Become(i, c),
           NEW b \in BOOLEAN, intercept' = [intercept EXCEPT ![c.tab] = b],
           b => Answerable(c),
           UNCHANGED <<doc, loading, leaving, debug, refs, native, detaches, links>>,
           debuggerTabs' \in SUBSET debuggerTabs, errors' \in Nat
    PROVE  IInv'
<1>1. c.tab \in Tab /\ intercept \in [Tab -> BOOLEAN]
  BY Known DEF IInv, StateInv
<1>2. intercept' \in [Tab -> BOOLEAN] /\ intercept'[c.tab] = b
  BY <1>1
<1>3. \A t \in Tab \ {c.tab} : intercept'[t] = intercept[t]
  BY <1>1
<1>4. CallsInv' /\ InterceptionIsCleanedUp'
  BY <1>1, <1>2, <1>3, Goes DEF IInv
<1>5. StateInv' /\ RefsOfTheDocument'
  BY <1>2 DEF IInv, StateInv, RefsOfTheDocument, native
<1> QED BY <1>4, <1>5 DEF IInv

\* The upload turns the interception on and answers for it.
LEMMA ArmStep ==
    ASSUME IInv, NEW i \in Calls, Arm(i)
    PROVE  IInv'
<1> DEFINE c == calls[i]
<1> DEFINE d == [c EXCEPT !.at = "install", !.armed = TRUE]
<1>1. GoodCall(c) /\ c \in Call /\ c.at = "arm" /\ c.at \notin Over \cup {"release"}
  BY Known DEF Arm, Is, Over
<1>2. c.kind # "snapshot" /\ NotYet(c) /\ ~(c.kind = "click" /\ c.pressed)
  BY <1>1, Kinds, Underway
<1>3. CASE /\ Replied(i)
           /\ intercept' = [intercept EXCEPT ![c.tab] = TRUE]
           /\ Become(i, d)
  <2>1. d \in Call
    BY <1>1 DEF Call, Places
  <2>2. /\ d.tab = c.tab /\ d.kind = c.kind /\ d.set = c.set /\ d.late = c.late /\ d.doc = c.doc
        /\ d.pressed = c.pressed /\ d.lost = c.lost
        /\ d.armed = TRUE
        /\ d.goal = c.goal /\ d.answer = c.answer /\ d.at = "install"
    BY <1>1 DEF Call
  <2> HIDE DEF d
  <2>3. GoodCall(d)
    BY <1>1, <1>2, <2>1, <2>2 DEF GoodCall, NotYet, Over
  <2>4. Answerable(d)
    BY <2>2 DEF Answerable
  <2>5. debuggerTabs' \in SUBSET debuggerTabs /\ errors' \in Nat
    BY <1>3, Overs, CommandsOver
  <2>6. UNCHANGED <<doc, loading, leaving, debug, refs, native, detaches, links>>
    BY DEF Arm
  <2> QED BY <1>3, <2>2, <2>3, <2>4, <2>5, <2>6, ArmingStep
<1>4. CASE Rejected(i, FALSE) /\ Become(i, Ended(c, "none")) /\ UNCHANGED intercept
  <2>1. Local
    BY <1>4 DEF Arm, Local, browser
  <2>2. CommandOver(i)
    BY <1>4, Overs
  <2> QED BY <1>1, <1>4, <2>1, <2>2, EndStep
<1>5. CASE TimedOut(i, "arm", "none") /\ UNCHANGED intercept
  <2>1. Local
    BY <1>5 DEF Arm, Local, browser
  <2> QED BY <1>1, <1>5, <2>1, TimedOutStep
<1> QED BY <1>3, <1>4, <1>5 DEF Arm

\* A call whose outcome is known stays in order while it cleans up, whether
\* the cleanup works or not.
LEMMA CleansUp ==
    ASSUME NEW c, GoodCall(c), c.at \in Over, NEW at \in Over
    PROVE  /\ GoodCall([c EXCEPT !.at = at])
           /\ [c EXCEPT !.at = at].tab = c.tab /\ [c EXCEPT !.at = at].at = at
           /\ [c EXCEPT !.at = at].armed = c.armed
           /\ [c EXCEPT !.at = at].failed = c.failed
<1> DEFINE d == [c EXCEPT !.at = at]
<1>1. c \in Call /\ at \in Places
  BY DEF GoodCall, Over, Places
<1>2. d \in Call
  BY <1>1 DEF Call
<1>3. /\ d.tab = c.tab /\ d.kind = c.kind /\ d.set = c.set /\ d.late = c.late /\ d.doc = c.doc
      /\ d.pressed = c.pressed /\ d.lost = c.lost /\ d.armed = c.armed
      /\ d.goal = c.goal /\ d.answer = c.answer /\ d.at = at
      /\ d.failed = c.failed
  BY <1>1 DEF Call
<1> HIDE DEF d
<1>4. GoodCall(d)
  BY <1>2, <1>3 DEF GoodCall, NothingDone, Over
<1> QED BY <1>3, <1>4 DEF d

\* The second case.
LEMMA FailsToCleanUp ==
    ASSUME NEW c, GoodCall(c), c.at \in Over, NEW at \in Over
    PROVE  /\ GoodCall([c EXCEPT !.at = at, !.failed = TRUE])
           /\ [c EXCEPT !.at = at, !.failed = TRUE].tab = c.tab
           /\ [c EXCEPT !.at = at, !.failed = TRUE].failed
<1> DEFINE d == [c EXCEPT !.at = at, !.failed = TRUE]
<1>1. c \in Call /\ at \in Places
  BY DEF GoodCall, Over, Places
<1>2. d \in Call
  BY <1>1 DEF Call
<1>3. /\ d.tab = c.tab /\ d.kind = c.kind /\ d.set = c.set /\ d.late = c.late /\ d.doc = c.doc
      /\ d.pressed = c.pressed /\ d.lost = c.lost /\ d.armed = c.armed
      /\ d.goal = c.goal /\ d.answer = c.answer /\ d.at = at
      /\ d.failed = TRUE
  BY <1>1 DEF Call
<1> HIDE DEF d
<1>4. GoodCall(d)
  BY <1>2, <1>3 DEF GoodCall, NothingDone, Over
<1> QED BY <1>3, <1>4 DEF d

\* The first part of the cleanup.
LEMMA UnprobeStep ==
    ASSUME IInv, NEW i \in Calls, Unprobe(i)
    PROVE  IInv'
<1> DEFINE c == calls[i]
<1> DEFINE at == IF c.armed THEN "unarm" ELSE "done"
<1> DEFINE d == [c EXCEPT !.at = at]
<1>1. GoodCall(c) /\ c.at \in Over
  BY Known DEF Unprobe, Is, Over
<1>2. at \in Over /\ (c.armed => at # "done")
  BY DEF Over
<1>3. Become(i, d)
  BY DEF Unprobe, Goto, Become
<1> HIDE DEF at
<1>4. GoodCall(d) /\ d.tab = c.tab /\ d.failed = c.failed /\ d.at = at /\ d.armed = c.armed
  BY <1>1, <1>2, CleansUp
<1> HIDE DEF d
<1>5. Answerable(c) => Answerable(d)
  BY <1>2, <1>4 DEF Answerable
<1>6. Gone(i) \in BOOLEAN
  BY DEF Gone
<1>7. Local /\ CommandOver(i)
  BY <1>6, Overs DEF Unprobe
<1>8. debuggerTabs' \in SUBSET debuggerTabs /\ errors' \in Nat
  BY <1>7, CommandsOver
<1> QED BY <1>3, <1>4, <1>5, <1>7, <1>8, LocalStep

\* The second turns the interception off, or says that it could not.
LEMMA UnarmStep ==
    ASSUME IInv, NEW i \in Calls, Unarm(i)
    PROVE  IInv'
<1> DEFINE c == calls[i]
<1>1. GoodCall(c) /\ c.at \in Over /\ "done" \in Over
  BY Known DEF Unarm, Is, Over
<1>2. CASE /\ Replied(i)
           /\ intercept' = [intercept EXCEPT ![c.tab] = FALSE]
           /\ Goto(i, "done")
  <2> DEFINE d == [c EXCEPT !.at = "done"]
  <2>1. Become(i, d)
    BY <1>2 DEF Goto, Become
  <2>2. GoodCall(d) /\ d.tab = c.tab
    BY <1>1, CleansUp
  <2> HIDE DEF d
  <2>3. debuggerTabs' \in SUBSET debuggerTabs /\ errors' \in Nat
    BY <1>2, Overs, CommandsOver
  <2>4. UNCHANGED <<doc, loading, leaving, debug, refs, native, detaches, links>>
    BY DEF Unarm
  <2> QED BY <1>2, <2>1, <2>2, <2>3, <2>4, ArmingStep
<1>3. CASE /\ Rejected(i, FALSE) \/ (Fault(TRUE) /\ UNCHANGED debuggerTabs)
           /\ Become(i, [c EXCEPT !.at = "done", !.failed = TRUE])
           /\ UNCHANGED intercept
  <2> DEFINE d == [c EXCEPT !.at = "done", !.failed = TRUE]
  <2>1. GoodCall(d) /\ d.tab = c.tab /\ d.failed
    BY <1>1, FailsToCleanUp
  <2>2. Become(i, d)
    BY <1>3
  <2> HIDE DEF d
  <2>3. Answerable(d)
    BY <2>1 DEF Answerable
  <2>4. Local
    BY <1>3 DEF Unarm, Local, browser
  <2>5. CommandOver(i)
    BY <1>3, Overs
  <2>6. debuggerTabs' \in SUBSET debuggerTabs /\ errors' \in Nat
    BY <2>5, CommandsOver
  <2> QED BY <2>1, <2>2, <2>3, <2>4, <2>6, LocalStep
<1> QED BY <1>2, <1>3 DEF Unarm

\* A late effect is one the call had not denied.
LEMMA LateEffectStep ==
    ASSUME IInv, NEW i \in Calls, LateEffect(i)
    PROVE  IInv'
<1> DEFINE c == calls[i]
<1> DEFINE failed == c.failed \/ c.late = "arm"
<1> DEFINE set == c.set \/ c.late = "set"
<1> DEFINE d == [c EXCEPT !.late = "nothing", !.failed = failed, !.set = set]
<1>1. GoodCall(c) /\ c \in Call /\ c.late # "nothing"
  BY Known DEF LateEffect
<1>2. failed \in BOOLEAN /\ set \in BOOLEAN
  BY <1>1 DEF Call
<1>3. c.at \in Over
  BY <1>1 DEF GoodCall, NotYet
<1>4. Become(i, d)
  BY DEF LateEffect
<1>5. c.answer = "none" => (set <=> c.set)
  BY <1>1 DEF GoodCall, NothingDone
<1>6. c.failed => failed
  OBVIOUS
<1>7. c.late = "arm" => failed
  OBVIOUS
<1> HIDE DEF failed, set
<1>8. d \in Call
  BY <1>1, <1>2 DEF Call
<1>9. /\ d.tab = c.tab /\ d.kind = c.kind /\ d.set = set /\ d.late = "nothing" /\ d.doc = c.doc
      /\ d.pressed = c.pressed /\ d.lost = c.lost
      /\ d.armed = c.armed /\ d.failed = failed
      /\ d.goal = c.goal /\ d.answer = c.answer /\ d.at = c.at
  BY <1>1 DEF Call
<1> HIDE DEF d
<1>10. GoodCall(d)
  BY <1>1, <1>3, <1>5, <1>8, <1>9 DEF GoodCall, NothingDone
<1>11. Answerable(c) => Answerable(d)
  BY <1>6, <1>9 DEF Answerable
<1>12. debuggerTabs' \in SUBSET debuggerTabs /\ errors' \in Nat
  BY DEF LateEffect, bounds, IInv, StateInv
<1>13. CASE c.late = "arm"
  <2>1. Answerable(d)
    BY <1>7, <1>9, <1>13 DEF Answerable
  <2>2. intercept' = [intercept EXCEPT ![c.tab] = TRUE]
    BY <1>13 DEF LateEffect
  <2>3. UNCHANGED <<doc, loading, leaving, debug, refs, native, detaches, links>>
    BY DEF LateEffect, bounds
  <2> QED BY <1>4, <1>9, <1>10, <1>12, <2>1, <2>2, <2>3, ArmingStep
<1>14. CASE c.late # "arm"
  <2>1. Local
    BY <1>14 DEF LateEffect, Local, browser, bounds
  <2> QED BY <1>4, <1>9, <1>10, <1>11, <1>12, <2>1, LocalStep
<1> QED BY <1>13, <1>14

\* Or it fails after all.
LEMMA LateRejectedStep ==
    ASSUME IInv, NEW i \in Calls, LateRejected(i)
    PROVE  IInv'
<1> DEFINE c == calls[i]
<1> DEFINE d == [c EXCEPT !.late = "nothing"]
<1>1. GoodCall(c) /\ c \in Call /\ c.late # "nothing"
  BY Known DEF LateRejected
<1>2. c.at \in Over
  BY <1>1 DEF GoodCall, NotYet
<1>3. d \in Call
  BY <1>1 DEF Call
<1>4. /\ d.tab = c.tab /\ d.kind = c.kind /\ d.set = c.set /\ d.late = "nothing" /\ d.doc = c.doc
      /\ d.pressed = c.pressed /\ d.lost = c.lost /\ d.armed = c.armed /\ d.failed = c.failed
      /\ d.goal = c.goal /\ d.answer = c.answer /\ d.at = c.at
  BY <1>1 DEF Call
<1>5. Become(i, d)
  BY DEF LateRejected
<1> HIDE DEF d
<1>6. GoodCall(d)
  BY <1>1, <1>2, <1>3, <1>4 DEF GoodCall, NothingDone, Over
<1>7. Answerable(c) => Answerable(d)
  BY <1>4 DEF Answerable
<1>8. Local /\ debuggerTabs' \in SUBSET debuggerTabs /\ errors' \in Nat
  BY DEF LateRejected, IInv, StateInv
<1> QED BY <1>4, <1>5, <1>6, <1>7, <1>8, LocalStep

-----------------------------------------------------------------------------
(* Attaching, and snapshots                                                *)

\* What such a step leaves of the calls and of the refs.
Kept == CallsInv' /\ InterceptionIsCleanedUp' /\ refs' \in Observation \cup {None} /\ RefsOfTheDocument'

\* What the call does not touch.
Around == UNCHANGED <<doc, loading, leaving, intercept, active>>

\* A call that ends, or waits for the debugger, without touching the refs.
LEMMA KeptByEnd ==
    ASSUME IInv, Around, UNCHANGED refs, NEW i \in Calls, NEW c, GoodCall(c),
           c.tab = calls[i].tab, Answerable(calls[i]) => Answerable(c), Become(i, c)
    PROVE  Kept
<1>1. intercept' = intercept /\ intercept \in [Tab -> BOOLEAN]
  BY DEF Around, IInv, StateInv
<1>2. CallsInv' /\ InterceptionIsCleanedUp'
  BY <1>1, Goes DEF IInv
<1>3. refs' \in Observation \cup {None} /\ RefsOfTheDocument'
  BY DEF IInv, StateInv, RefsOfTheDocument, Around
<1> QED BY <1>2, <1>3 DEF Kept

\* A snapshot that stores its refs.
LEMMA KeptByObserved ==
    ASSUME IInv, Around, NEW i \in Calls, Observed(i),
           calls[i].at \notin Over \cup {"release"}, calls[i].doc # 0
    PROVE  Kept
<1> DEFINE c == calls[i]
<1>1. GoodCall(c) /\ c \in Call /\ c.tab \in Tab
  BY Known
<1>2. /\ GoodCall(Ended(c, "stored")) /\ Ended(c, "stored").tab = c.tab
      /\ Answerable(c) => Answerable(Ended(c, "stored"))
  BY <1>1, Ends
<1>3. intercept' = intercept /\ intercept \in [Tab -> BOOLEAN]
  BY DEF Around, IInv, StateInv
<1>4. CallsInv' /\ InterceptionIsCleanedUp'
  <2> DEFINE e == Ended(c, "stored")
  <2>1. Become(i, e) /\ GoodCall(e) /\ e.tab = calls[i].tab /\ (Answerable(calls[i]) => Answerable(e))
    BY <1>2 DEF Observed
  <2> HIDE DEF e
  <2> QED BY <1>3, <2>1, Goes DEF IInv
<1>5. refs' \in Observation \cup {None} /\ RefsOfTheDocument'
  <2>1. CASE active = None
    BY <2>1 DEF IInv, StateInv, RefsOfTheDocument, Around, Observed
  <2>2. CASE active # None
    <3>1. refs' = [tab |-> c.tab, owner |-> active, doc |-> c.doc,
                   overtaken |-> Gone(i) /\ loading[c.tab] = 0]
      BY <2>2 DEF Observed
    <3>2. active \in Session /\ c.doc \in 1..MaxDocs
      BY <1>1, <2>2, PageAssumption DEF IInv, StateInv, Call
    <3>3. (Gone(i) /\ loading[c.tab] = 0) \in BOOLEAN
      OBVIOUS
    <3>4. refs' \in Observation
      BY <1>1, <3>1, <3>2, <3>3 DEF Observation
    <3>5. loading[c.tab] \in Nat
      BY <1>1, PageAssumption DEF IInv, StateInv
    <3>6. RefsOfTheDocument'
      <4> DEFINE b == Gone(i) /\ loading[c.tab] = 0
      <4>1. CASE b
        <5>1. refs'.overtaken
          BY <3>1, <4>1
        <5> QED BY <5>1 DEF RefsOfTheDocument
      <4>2. CASE ~b
        <5>1. refs'.doc = c.doc /\ refs'.tab = c.tab
          BY <3>1
        <5>2. c.doc = doc[c.tab] \/ loading[c.tab] > 0
          BY <3>5, <4>2 DEF Gone
        <5> QED BY <5>1, <5>2 DEF RefsOfTheDocument, Around
      <4> QED BY <4>1, <4>2
    <3> QED BY <3>4, <3>6
  <2> QED BY <2>1, <2>2
<1> QED BY <1>4, <1>5 DEF Kept

\* A read that failed: it is tried again, or a lesser view is returned.
LEMMA KeptByReadFails ==
    ASSUME IInv, Around, NEW i \in Calls, NEW detached \in BOOLEAN, ReadFails(i, detached),
           calls[i].at \in {"targets", "attach", "tree", "layout"}, calls[i].kind = "snapshot"
    PROVE  Kept
<1> DEFINE c == calls[i]
<1>1. GoodCall(c) /\ c \in Call /\ c.at \notin Over \cup {"release"}
  BY Known DEF Over
<1>2. c.goal \in {"tree", "layout"} /\ (c.goal = "layout" => c.doc # 0)
  BY <1>1 DEF GoodCall
<1>3. c.answer = "pending" /\ NotYet(c)
  BY <1>1, Underway
<1>4. CASE detached /\ ~c.again
  <2> DEFINE e == Ensured(c, c.goal, debuggerTabs')
  <2> DEFINE d == [e EXCEPT !.again = TRUE]
  <2>1. GoodCall(e) /\ e.tab = c.tab /\ (Answerable(c) => Answerable(e))
    BY <1>1, <1>2, <1>3, Ensures
  <2>2. Become(i, d) /\ UNCHANGED refs
    BY <1>4 DEF ReadFails
  <2> HIDE DEF e
  <2>3. e \in Call
    BY <2>1 DEF GoodCall
  <2>4. d \in Call
    BY <2>3 DEF Call
  <2>5. /\ d.tab = e.tab /\ d.kind = e.kind /\ d.set = e.set /\ d.late = e.late /\ d.doc = e.doc
        /\ d.pressed = e.pressed /\ d.lost = e.lost /\ d.armed = e.armed /\ d.failed = e.failed
        /\ d.goal = e.goal /\ d.answer = e.answer /\ d.at = e.at
    BY <2>3 DEF Call
  <2> HIDE DEF d
  <2>6. GoodCall(d) /\ d.tab = c.tab /\ (Answerable(c) => Answerable(d))
    BY <2>1, <2>4, <2>5 DEF GoodCall, NotYet, NothingDone, Answerable
  <2> QED BY <2>2, <2>6, KeptByEnd
<1>5. CASE ~(detached /\ ~c.again) /\ c.goal = "tree"
  <2>1. Become(i, Ended(c, "dom")) /\ UNCHANGED refs
    BY <1>5 DEF ReadFails
  <2>2. GoodCall(Ended(c, "dom")) /\ Ended(c, "dom").tab = c.tab
        /\ (Answerable(c) => Answerable(Ended(c, "dom")))
    BY <1>1, Ends
  <2> QED BY <2>1, <2>2, KeptByEnd
<1>6. CASE ~(detached /\ ~c.again) /\ c.goal # "tree"
  <2>1. Observed(i)
    BY <1>6 DEF ReadFails
  <2> QED BY <1>1, <1>2, <1>6, <2>1, KeptByObserved
<1> QED BY <1>4, <1>5, <1>6

\* A debugger that could not be attached.
LEMMA KeptByNotAttached ==
    ASSUME IInv, Around, NEW i \in Calls, NEW detached \in BOOLEAN, NotAttached(i, detached),
           calls[i].at \in {"targets", "attach"}
    PROVE  Kept
<1> DEFINE c == calls[i]
<1> DEFINE answer == IF c.kind = "type" \/ c.goal = "locate" THEN "thrown" ELSE "none"
<1>1. GoodCall(c) /\ c \in Call /\ c.at \notin Over \cup {"release"}
  BY Known DEF Over
<1>2. CASE c.kind = "snapshot"
  <2>1. ReadFails(i, detached)
    BY <1>2 DEF NotAttached
  <2> QED BY <1>2, <2>1, KeptByReadFails
<1>3. CASE c.kind # "snapshot"
  <2>1. Become(i, Ended(c, answer)) /\ UNCHANGED refs /\ answer \in {"thrown", "none"}
    BY <1>3 DEF NotAttached
  <2> HIDE DEF answer
  <2>2. NothingDone(c)
    BY <1>1, Underway
  <2>3. GoodCall(Ended(c, answer)) /\ Ended(c, answer).tab = c.tab
        /\ (Answerable(c) => Answerable(Ended(c, answer)))
    BY <1>1, <2>1, <2>2, Ends
  <2> QED BY <2>1, <2>3, KeptByEnd
<1> QED BY <1>2, <1>3

\* The rest of the state, for a step that ends in Kept.
LEMMA KeptState ==
    ASSUME IInv, Kept, Around, UNCHANGED <<link, timer, detaches, links>>, errors' \in Nat,
           debug' \in [Tab -> {"nobody", "ours", "another"}],
           debuggerTabs' \in SUBSET {t \in Tab : debug'[t] = "ours" \/ leaving'[t] > 0}
    PROVE  IInv'
<1>1. StateInv'
  BY DEF IInv, StateInv, Kept, Around
<1> QED BY <1>1 DEF IInv, Kept

\* The same for a command of an attached debugger.
LEMMA KeptCommand ==
    ASSUME IInv, Kept, UNCHANGED <<browser, native, detaches, links>>, NEW i \in Calls, CommandOver(i)
    PROVE  IInv'
<1>1. debuggerTabs' \in SUBSET debuggerTabs /\ errors' \in Nat
  BY CommandsOver
<1>2. debug' = debug /\ Around /\ UNCHANGED <<link, timer, detaches, links>>
  BY DEF Around, browser, native
<1>3. debug' \in [Tab -> {"nobody", "ours", "another"}]
  BY <1>2 DEF IInv, StateInv
<1>4. debuggerTabs' \in SUBSET {t \in Tab : debug'[t] = "ours" \/ leaving'[t] > 0}
  BY <1>1, <1>2 DEF IInv, StateInv, Around
<1> QED BY <1>1, <1>2, <1>3, <1>4, KeptState

\* The steps that attach, and those that read.
LEMMA TargetsStep ==
    ASSUME IInv, NEW i \in Calls, Targets(i)
    PROVE  IInv'
<1> DEFINE c == calls[i]
<1> DEFINE d == [c EXCEPT !.at = "attach"]
<1>1. GoodCall(c) /\ c \in Call /\ c.at = "targets"
  BY Known DEF Targets, Is
<1>2. Around /\ UNCHANGED <<browser, native, detaches, links, debuggerTabs, errors>>
  BY DEF Targets, Around, browser, native, bounds
<1>3. Kept
  <2>1. CASE debug[c.tab] = "nobody"
    <3>1. Become(i, d) /\ UNCHANGED refs
      BY <2>1 DEF Targets, Goto, Become
    <3>2. d \in Call
      BY <1>1 DEF Call, Places
    <3>3. /\ d.tab = c.tab /\ d.kind = c.kind /\ d.set = c.set /\ d.late = c.late /\ d.doc = c.doc
          /\ d.pressed = c.pressed /\ d.lost = c.lost /\ d.armed = c.armed /\ d.failed = c.failed
          /\ d.goal = c.goal /\ d.answer = c.answer /\ d.at = "attach"
      BY <1>1 DEF Call
    <3> HIDE DEF d
    <3>4. GoodCall(d)
      BY <1>1, <3>2, <3>3 DEF GoodCall, NotYet, NothingDone, Over
    <3>5. Answerable(c) => Answerable(d)
      BY <3>3 DEF Answerable
    <3> QED BY <1>2, <3>1, <3>3, <3>4, <3>5, KeptByEnd
  <2>2. CASE debug[c.tab] # "nobody"
    <3>1. NotAttached(i, FALSE)
      BY <2>2 DEF Targets
    <3> QED BY <1>1, <1>2, <3>1, KeptByNotAttached
  <2> QED BY <2>1, <2>2
<1>4. errors' \in Nat /\ debuggerTabs' \in SUBSET {t \in Tab : debug'[t] = "ours" \/ leaving'[t] > 0}
      /\ debug' \in [Tab -> {"nobody", "ours", "another"}]
  BY <1>2 DEF IInv, StateInv, browser
<1>5. UNCHANGED <<link, timer, detaches, links>>
  BY <1>2 DEF native
<1> QED BY <1>2, <1>3, <1>4, <1>5, KeptState

LEMMA AttachStep ==
    ASSUME IInv, NEW i \in Calls, Attach(i)
    PROVE  IInv'
<1> DEFINE c == calls[i]
<1> DEFINE d == [c EXCEPT !.at = c.goal]
<1>1. GoodCall(c) /\ c \in Call /\ c.at = "attach" /\ c.tab \in Tab
  BY Known DEF Attach, Is
<1>2. Around /\ UNCHANGED <<link, timer, detaches, links>>
  BY DEF Attach, Around, native
<1>3. CASE /\ debug[c.tab] = "nobody"
           /\ debug' = [debug EXCEPT ![c.tab] = "ours"]
           /\ debuggerTabs' = debuggerTabs \cup {c.tab}
           /\ Goto(i, c.goal)
           /\ UNCHANGED <<refs, errors>>
  <2>1. c.goal \in {"tree", "layout", "locate", "resolve"}
    BY <1>1 DEF GoodCall, Call
  <2>2. NotYet(c) /\ ~(c.kind = "click" /\ c.pressed) /\ c.answer = "pending"
    BY <1>1, Underway DEF Over
  <2>3. Become(i, d)
    BY <1>3 DEF Goto, Become
  <2>4. c.goal \in Places
    BY <2>1 DEF Places
  <2>5. d \in Call
    BY <1>1, <2>4 DEF Call
  <2>6. /\ d.tab = c.tab /\ d.kind = c.kind /\ d.set = c.set /\ d.late = c.late /\ d.doc = c.doc
        /\ d.pressed = c.pressed /\ d.lost = c.lost /\ d.armed = c.armed /\ d.failed = c.failed
        /\ d.goal = c.goal /\ d.answer = c.answer /\ d.at = c.goal
    BY <1>1 DEF Call
  <2> HIDE DEF d
  <2>7. GoodCall(d)
    BY <1>1, <2>1, <2>2, <2>5, <2>6 DEF GoodCall, NotYet, Over
  <2>8. Answerable(c) => Answerable(d)
    BY <2>1, <2>6 DEF Answerable
  <2>9. Kept
    BY <1>2, <1>3, <2>3, <2>6, <2>7, <2>8, KeptByEnd
  <2>10. debug' \in [Tab -> {"nobody", "ours", "another"}]
    BY <1>3 DEF IInv, StateInv
  <2>11. debuggerTabs' \in SUBSET {t \in Tab : debug'[t] = "ours" \/ leaving'[t] > 0}
    BY <1>1, <1>2, <1>3 DEF IInv, StateInv, Around
  <2>12. errors' \in Nat
    BY <1>3 DEF IInv, StateInv
  <2> QED BY <1>2, <2>9, <2>10, <2>11, <2>12, KeptState
<1>4. CASE /\ debug[c.tab] # "nobody"
           /\ UNCHANGED <<debug, debuggerTabs, errors>>
           /\ NotAttached(i, FALSE)
  <2>1. Kept
    BY <1>1, <1>2, <1>4, KeptByNotAttached
  <2>2. /\ debug' \in [Tab -> {"nobody", "ours", "another"}] /\ errors' \in Nat
        /\ debuggerTabs' \in SUBSET {t \in Tab : debug'[t] = "ours" \/ leaving'[t] > 0}
    BY <1>2, <1>4 DEF IInv, StateInv, Around
  <2> QED BY <1>2, <2>1, <2>2, KeptState
<1>5. CASE /\ Fault(TRUE)
           /\ UNCHANGED <<debug, debuggerTabs>>
           /\ NotAttached(i, TRUE)
  <2>1. Kept
    BY <1>1, <1>2, <1>5, KeptByNotAttached
  <2>2. /\ debug' \in [Tab -> {"nobody", "ours", "another"}] /\ errors' \in Nat
        /\ debuggerTabs' \in SUBSET {t \in Tab : debug'[t] = "ours" \/ leaving'[t] > 0}
    BY <1>2, <1>5 DEF IInv, StateInv, Fault, Around
  <2> QED BY <1>2, <2>1, <2>2, KeptState
<1> QED BY <1>3, <1>4, <1>5 DEF Attach

LEMMA TreeStep ==
    ASSUME IInv, NEW i \in Calls, Tree(i)
    PROVE  IInv'
<1> DEFINE c == [calls[i] EXCEPT !.doc = doc[calls[i].tab], !.again = FALSE]
<1>1. GoodCall(calls[i]) /\ calls[i] \in Call /\ calls[i].at = "tree" /\ doc[calls[i].tab] \in 1..MaxDocs
  BY Known DEF Tree, Is
<1>2. Around /\ UNCHANGED <<browser, native, detaches, links>>
  BY DEF Tree, Around, browser, native
<1>3. CASE Replied(i) /\ UNCHANGED refs
           /\ (Become(i, Ensured(c, "layout", debuggerTabs)) \/ Become(i, Ended(c, "dom")))
  <2> DEFINE n == doc[calls[i].tab]
  <2>1. n # 0 /\ n \in 0..MaxDocs
    BY <1>1, PageAssumption
  <2>2. calls[i].kind = "snapshot" /\ calls[i].answer = "pending" /\ NotYet(calls[i])
    BY <1>1, Underway DEF GoodCall, Over
  <2> HIDE DEF n
  <2>3. c \in Call
    BY <1>1, <2>1 DEF Call, n
  <2>4. /\ c.tab = calls[i].tab /\ c.kind = "snapshot" /\ c.set = calls[i].set /\ c.late = calls[i].late
        /\ c.doc = n /\ c.lost = calls[i].lost /\ c.armed = calls[i].armed /\ c.failed = calls[i].failed
        /\ c.answer = "pending" /\ c.at = calls[i].at
    BY <1>1, <2>2 DEF Call, n
  <2> HIDE DEF c
  <2>5. NotYet(c) /\ c.kind # "click" /\ (Answerable(calls[i]) => Answerable(c))
    BY <2>2, <2>4 DEF NotYet, Answerable
  <2>6. /\ GoodCall(Ensured(c, "layout", debuggerTabs))
        /\ Ensured(c, "layout", debuggerTabs).tab = c.tab
        /\ Answerable(c) => Answerable(Ensured(c, "layout", debuggerTabs))
    BY <2>1, <2>3, <2>4, <2>5, Ensures
  <2>7. GoodCall(Ended(c, "dom")) /\ Ended(c, "dom").tab = c.tab
        /\ (Answerable(c) => Answerable(Ended(c, "dom")))
    BY <2>3, Ends
  <2>8. Kept
    <3>1. CASE Become(i, Ensured(c, "layout", debuggerTabs))
      BY <1>2, <1>3, <2>4, <2>5, <2>6, <3>1, KeptByEnd
    <3>2. CASE Become(i, Ended(c, "dom"))
      BY <1>2, <1>3, <2>4, <2>5, <2>7, <3>2, KeptByEnd
    <3> QED BY <1>3, <3>1, <3>2
  <2> QED BY <1>2, <1>3, <2>8, Overs, KeptCommand
<1>4. CASE Rejected(i, FALSE) /\ ReadFails(i, TRUE)
  <2>1. calls[i].kind = "snapshot"
    BY <1>1 DEF GoodCall
  <2>2. Kept
    BY <1>1, <1>2, <1>4, <2>1, KeptByReadFails
  <2> QED BY <1>2, <1>4, <2>2, Overs, KeptCommand
<1> QED BY <1>3, <1>4 DEF Tree

LEMMA LayoutStep ==
    ASSUME IInv, NEW i \in Calls, Layout(i)
    PROVE  IInv'
<1>1. GoodCall(calls[i]) /\ calls[i].at = "layout" /\ calls[i].kind = "snapshot" /\ calls[i].doc # 0
  BY Known DEF Layout, Is, GoodCall
<1>2. Around /\ UNCHANGED <<browser, native, detaches, links>>
  BY DEF Layout, Around, browser, native
<1>3. CASE Replied(i) /\ Observed(i)
  <2>1. Kept
    BY <1>1, <1>2, <1>3, KeptByObserved DEF Over
  <2> QED BY <1>2, <1>3, <2>1, Overs, KeptCommand
<1>4. CASE Rejected(i, FALSE) /\ ReadFails(i, TRUE)
  <2>1. Kept
    BY <1>1, <1>2, <1>4, KeptByReadFails
  <2> QED BY <1>2, <1>4, <2>1, Overs, KeptCommand
<1> QED BY <1>3, <1>4 DEF Layout

-----------------------------------------------------------------------------
(* Requests, the browser and the native port                               *)

\* The call that came in, with all its fields.
NewCallAt(kind, t, n, at, goal) ==
    [kind |-> kind, tab |-> t, at |-> at, goal |-> goal, again |-> FALSE, doc |-> n,
     armed |-> FALSE, probed |-> FALSE, late |-> "nothing", failed |-> FALSE,
     pressed |-> FALSE, set |-> FALSE, lost |-> FALSE, answer |-> "pending"]

\* A call that came in is in order.
LEMMA NewCalls ==
    ASSUME NEW t \in Tab, NEW kind \in {"snapshot", "click", "type", "upload"},
           NEW n \in 0..MaxDocs, NEW at \in Places \ Over, NEW goal \in {"none", "tree", "locate", "resolve"},
           kind = "snapshot" <=> goal = "tree",
           at \in {"targets", "attach"} => goal # "none",
           at \in {"tree", "layout"} => goal = at,
           kind = "snapshot" => at \in {"targets", "tree"},
           NEW c, c = NewCallAt(kind, t, n, at, goal)
    PROVE  GoodCall(c)
<1>1. c \in Call
  BY DEF NewCallAt, Call
<1>2. /\ c.kind = kind /\ c.at = at /\ c.goal = goal /\ c.answer = "pending" /\ ~c.set /\ ~c.pressed
      /\ ~c.lost /\ c.late = "nothing"
  BY DEF NewCallAt
<1> QED BY <1>1, <1>2 DEF GoodCall, NotYet, Over

\* A request appends one call.
LEMMA RequestStep ==
    ASSUME IInv, NEW t \in Tab, Request(t)
    PROVE  IInv'
<1>1. PICK c : calls' = Append(calls, c) /\ GoodCall(c)
  <2>0. 0 \in 0..MaxDocs
    BY PageAssumption
  <2>1. CASE calls' = Append(calls, Snapshot(t))
    <3> DEFINE at == IF t \in debuggerTabs THEN "tree" ELSE "targets"
    <3>1. at \in Places \ Over /\ at \in {"targets", "tree"}
      BY DEF Places, Over
    <3>2. Snapshot(t) = NewCallAt("snapshot", t, 0, at, "tree")
      <4>1. Snapshot(t) = [NewCall("snapshot", t) EXCEPT !.at = at, !.goal = "tree"]
        BY DEF Snapshot, Ensured, NewCall
      <4> HIDE DEF at
      <4> QED BY <4>1 DEF NewCall, NewCallAt
    <3> HIDE DEF at
    <3>3. GoodCall(Snapshot(t))
      BY <2>0, <3>1, <3>2, NewCalls
    <3> QED BY <2>1, <3>3
  <2>2. ASSUME Gate(t), NEW kind \in {"click", "type", "upload"}, calls' = Append(calls, OnRef(kind, t))
        PROVE  \E c : calls' = Append(calls, c) /\ GoodCall(c)
    <3>1. refs.doc \in 0..MaxDocs
      BY <2>2 DEF Gate, IInv, StateInv, Observation
    <3>2. CASE kind = "upload"
      <4>1. OnRef(kind, t) = NewCallAt(kind, t, refs.doc, "arm", "none")
        BY <3>2 DEF OnRef, NewCall, NewCallAt
      <4>2. "arm" \in Places \ Over
        BY DEF Places, Over
      <4>3. GoodCall(OnRef(kind, t))
        BY <3>1, <3>2, <4>1, <4>2, NewCalls
      <4> QED BY <2>2, <4>3
    <3>3. CASE kind # "upload"
      <4> DEFINE at == IF t \in debuggerTabs THEN "resolve" ELSE "targets"
      <4>1. at \in Places \ Over /\ at \in {"targets", "resolve"}
        BY DEF Places, Over
      <4>2. OnRef(kind, t) = NewCallAt(kind, t, refs.doc, at, "resolve")
        BY <3>3 DEF OnRef, Ensured, NewCall, NewCallAt
      <4> HIDE DEF at
      <4>3. GoodCall(OnRef(kind, t))
        BY <3>1, <4>1, <4>2, NewCalls
      <4> QED BY <2>2, <4>3
    <3> QED BY <3>2, <3>3
  <2>3. ASSUME NEW kind \in {"click", "upload"}, calls' = Append(calls, Located(kind, t))
        PROVE  \E c : calls' = Append(calls, c) /\ GoodCall(c)
    <3> DEFINE at == IF t \in debuggerTabs THEN "locate" ELSE "targets"
    <3>1. at \in Places \ Over /\ at \in {"targets", "locate"}
      BY DEF Places, Over
    <3>2. Located(kind, t) = NewCallAt(kind, t, 0, at, "locate")
      <4>1. Located(kind, t) = [NewCall(kind, t) EXCEPT !.at = at, !.goal = "locate"]
        BY DEF Located, Ensured, NewCall
      <4> HIDE DEF at
      <4> QED BY <4>1 DEF NewCall, NewCallAt
    <3> HIDE DEF at
    <3>3. GoodCall(Located(kind, t))
      BY <2>0, <3>1, <3>2, NewCalls
    <3> QED BY <2>3, <3>3
  <2> QED BY <2>1, <2>2, <2>3 DEF Request
<1>2. calls \in Seq(Call) /\ c \in Call
  BY <1>1 DEF IInv, CallsInv, GoodCall
<1>3. calls' \in Seq(Call) /\ Len(calls') = Len(calls) + 1 /\ Calls' = 1..(Len(calls) + 1)
  BY <1>1, <1>2 DEF Calls
<1>4. \A j \in Calls' : calls'[j] = IF j \in Calls THEN calls[j] ELSE c
  BY <1>1, <1>2, <1>3 DEF Calls
<1>5. CallsInv'
  BY <1>1, <1>3, <1>4 DEF IInv, CallsInv
<1>6. intercept' = intercept /\ Calls \subseteq Calls'
  BY <1>2, <1>3 DEF Request, browser, Calls
<1>7. InterceptionIsCleanedUp'
  BY <1>4, <1>6 DEF IInv, InterceptionIsCleanedUp
<1>8. StateInv' /\ RefsOfTheDocument'
  BY DEF IInv, StateInv, RefsOfTheDocument, Request, browser, native, bounds
<1> QED BY <1>5, <1>7, <1>8 DEF IInv

\* What leaves the calls and the interception alone.
LEMMA CallsStay ==
    ASSUME IInv, UNCHANGED <<calls, intercept>>
    PROVE  CallsInv' /\ InterceptionIsCleanedUp'
BY DEF IInv, CallsInv, InterceptionIsCleanedUp, Calls

\* Navigations, their events, detaches and other debuggers.
LEMMA BrowserStep ==
    ASSUME IInv, NEW t \in Tab,
           Navigate(t) \/ OnUpdated(t) \/ Detach(t) \/ OnDetach(t) \/ AnotherDebugger(t)
    PROVE  IInv'
<1>1. CASE Navigate(t)
  <2>1. doc' = [doc EXCEPT ![t] = doc[t] + 1] /\ loading' = [loading EXCEPT ![t] = loading[t] + 1]
        /\ doc[t] < MaxDocs
    BY <1>1 DEF Navigate
  <2>2. /\ doc[t] \in 1..MaxDocs /\ loading[t] \in 0..MaxDocs /\ loading[t] < doc[t]
    BY DEF IInv, StateInv
  <2>3. doc[t] + 1 \in 1..MaxDocs /\ loading[t] + 1 \in 0..MaxDocs /\ loading[t] + 1 > 0
    BY <2>1, <2>2, PageAssumption
  <2>4. doc' \in [Tab -> 1..MaxDocs] /\ loading' \in [Tab -> 0..MaxDocs]
    BY <2>1, <2>3 DEF IInv, StateInv
  <2>5. \A u \in Tab : loading'[u] < doc'[u]
    BY <2>1, <2>2, PageAssumption DEF IInv, StateInv
  <2>6. RefsOfTheDocument'
    <3>1. ASSUME refs # None
          PROVE  refs.doc = doc'[refs.tab] \/ loading'[refs.tab] > 0 \/ refs.overtaken
      <4>1. refs.tab \in Tab
        BY <3>1 DEF IInv, StateInv, Observation
      <4>2. CASE refs.tab = t
        BY <2>1, <2>3, <4>1, <4>2 DEF IInv, StateInv
      <4>3. CASE refs.tab # t
        BY <2>1, <3>1, <4>1, <4>3 DEF IInv, StateInv, RefsOfTheDocument
      <4> QED BY <4>2, <4>3
    <3> QED BY <1>1, <3>1 DEF Navigate, RefsOfTheDocument
  <2>7. StateInv'
    BY <1>1, <2>4, <2>5 DEF IInv, StateInv, Navigate, native, bounds
  <2> QED BY <1>1, <2>6, <2>7, CallsStay DEF IInv, Navigate
<1>2. CASE OnUpdated(t)
  <2>1. loading' = [loading EXCEPT ![t] = loading[t] - 1] /\ loading[t] > 0
    BY <1>2 DEF OnUpdated
  <2>2. loading[t] - 1 \in 0..MaxDocs /\ loading[t] - 1 < loading[t]
    BY <2>1, PageAssumption DEF IInv, StateInv
  <2>3. loading' \in [Tab -> 0..MaxDocs]
    BY <2>1, <2>2 DEF IInv, StateInv
  <2>4. \A u \in Tab : loading'[u] < doc[u]
    BY <2>1, <2>2, PageAssumption DEF IInv, StateInv
  <2>5. refs' \in Observation \cup {None}
    BY <1>2 DEF OnUpdated, InvalidateTab, IInv, StateInv
  <2>6. StateInv'
    BY <1>2, <2>3, <2>4, <2>5 DEF IInv, StateInv, OnUpdated, native, bounds
  <2>7. RefsOfTheDocument'
    <3>1. CASE refs' = None
      BY <3>1 DEF RefsOfTheDocument
    <3>2. CASE refs' # None
      <4>1. refs' = refs /\ refs.tab # t /\ refs # None
        BY <1>2, <3>2 DEF OnUpdated, InvalidateTab
      <4>2. refs.tab \in Tab
        BY <4>1 DEF IInv, StateInv, Observation
      <4>3. loading'[refs.tab] = loading[refs.tab]
        BY <2>1, <4>1, <4>2 DEF IInv, StateInv
      <4> QED BY <1>2, <4>1, <4>3 DEF RefsOfTheDocument, IInv, OnUpdated
    <3> QED BY <3>1, <3>2
  <2> QED BY <1>2, <2>6, <2>7, CallsStay DEF IInv, OnUpdated
<1>3. CASE Detach(t)
  <2>1. /\ StateInv' /\ RefsOfTheDocument' /\ UNCHANGED calls
        /\ intercept' = [intercept EXCEPT ![t] = FALSE]
    BY <1>3, DetachedStep DEF Detach
  <2>2. \A u \in Tab : intercept'[u] => intercept[u]
    BY <2>1 DEF IInv, StateInv
  <2>3. CallsInv' /\ InterceptionIsCleanedUp'
    BY <2>1, <2>2 DEF IInv, CallsInv, InterceptionIsCleanedUp, Calls
  <2> QED BY <2>1, <2>3 DEF IInv
<1>4. CASE AnotherDebugger(t)
  <2>1. PICK to \in {"nobody", "another"} : debug' = [debug EXCEPT ![t] = to] /\ debug[t] # "ours"
    BY <1>4 DEF AnotherDebugger
  <2>2. debug' \in [Tab -> {"nobody", "ours", "another"}]
    BY <2>1 DEF IInv, StateInv
  <2>3. debuggerTabs' \in SUBSET {u \in Tab : debug'[u] = "ours" \/ leaving'[u] > 0}
    BY <1>4, <2>1 DEF AnotherDebugger, IInv, StateInv
  <2>4. StateInv' /\ RefsOfTheDocument'
    BY <1>4, <2>2, <2>3 DEF AnotherDebugger, IInv, StateInv, RefsOfTheDocument, native, bounds
  <2> QED BY <1>4, <2>4, CallsStay DEF IInv, AnotherDebugger
<1>5. CASE OnDetach(t)
  <2>1. /\ leaving[t] > 0 /\ leaving' = [leaving EXCEPT ![t] = leaving[t] - 1]
        /\ debuggerTabs' = debuggerTabs \ {t}
    BY <1>5 DEF OnDetach
  <2>2. leaving' \in [Tab -> Nat]
    BY <2>1 DEF IInv, StateInv
  <2>3. debuggerTabs' \in SUBSET {u \in Tab : debug[u] = "ours" \/ leaving'[u] > 0}
    BY <2>1 DEF IInv, StateInv
  <2>4. refs' \in Observation \cup {None} /\ RefsOfTheDocument'
    BY <1>5 DEF OnDetach, InvalidateTab, IInv, StateInv, RefsOfTheDocument
  <2>5. StateInv'
    BY <1>5, <2>2, <2>3, <2>4 DEF IInv, StateInv, OnDetach, native, bounds
  <2> QED BY <1>5, <2>4, <2>5, CallsStay DEF IInv, OnDetach
<1> QED BY <1>1, <1>2, <1>3, <1>4, <1>5

\* The native port: identity and refs.
LEMMA NativeStep ==
    ASSUME IInv, Native
    PROVE  IInv'
<1>1. UNCHANGED <<browser, debuggerTabs, calls, errors, detaches>>
  BY DEF Native, ReconnectTimer, Startup, ForceReconnect, Disconnect, BridgeReady, bounds
<1>2. ASSUME NEW afterwards \in BOOLEAN, ConnectBridge(afterwards)
      PROVE  /\ link' \in {"down", "open", "ready"} /\ timer' \in BOOLEAN /\ (link' = "down" => timer')
             /\ links' \in Nat
  <2>1. link' \in {"down", "open", "ready"} /\ links' \in Nat
    BY <1>2 DEF ConnectBridge, IInv, StateInv
  <2>2. timer' = afterwards \/ timer' = TRUE
    BY <1>2, Zenon DEF ConnectBridge
  <2>3. timer' \in BOOLEAN
    BY <2>2, Zenon
  <2>4. link' = "down" => timer' = TRUE
    BY <1>2 DEF ConnectBridge
  <2> QED BY <2>1, <2>3, <2>4
<1>3. /\ link' \in {"down", "open", "ready"} /\ timer' \in BOOLEAN /\ (link' = "down" => timer')
      /\ links' \in Nat
  <2>1. timer \in BOOLEAN /\ links \in Nat
    BY DEF IInv, StateInv
  <2>2. CASE ReconnectTimer
    <3>1. CASE link = "down"
      <4>1. ConnectBridge(FALSE)
        BY <2>2, <3>1 DEF ReconnectTimer
      <4> QED BY <1>2, <4>1
    <3>2. CASE link # "down"
      BY <2>2, <3>2 DEF ReconnectTimer, IInv, StateInv
    <3> QED BY <3>1, <3>2
  <2>3. CASE Startup
    BY <1>2, <2>1, <2>3 DEF Startup
  <2>4. CASE ForceReconnect
    <3>1. ConnectBridge(FALSE)
      BY <2>4 DEF ForceReconnect
    <3> QED BY <1>2, <3>1
  <2>5. CASE Disconnect
    BY <2>1, <2>5 DEF Disconnect, bounds
  <2>6. ASSUME NEW s \in Session \cup {None}, BridgeReady(s)
        PROVE  /\ link' = "ready" /\ UNCHANGED <<timer, links>>
    BY <2>6 DEF BridgeReady, bounds
  <2> QED BY <2>1, <2>2, <2>3, <2>4, <2>5, <2>6 DEF Native
<1>4. active' \in Session \cup {None} /\ (refs' = refs \/ refs' = None)
  BY DEF Native, ReconnectTimer, Startup, ForceReconnect, Disconnect, BridgeReady,
         AcknowledgeIdentity, IInv, StateInv
<1>5. StateInv' /\ RefsOfTheDocument'
  BY <1>1, <1>3, <1>4 DEF IInv, StateInv, RefsOfTheDocument, browser
<1>6. CallsInv' /\ InterceptionIsCleanedUp'
  BY <1>1, CallsStay DEF browser
<1> QED BY <1>5, <1>6 DEF IInv

-----------------------------------------------------------------------------
\* The invariant holds at first, and every step keeps it.
LEMMA Start ==
    ASSUME Init
    PROVE  IInv
<1>1. 1 \in 1..MaxDocs /\ 0 \in 0..MaxDocs
  BY PageAssumption
<1>2. doc \in [Tab -> 1..MaxDocs] /\ loading \in [Tab -> 0..MaxDocs]
  BY <1>1 DEF Init
<1>3. \A t \in Tab : loading[t] < doc[t]
  <2>1. \A t \in Tab : loading[t] = 0 /\ doc[t] = 1
    BY DEF Init
  <2> TAKE t \in Tab
  <2>2. loading[t] = 0 /\ doc[t] = 1
    BY <2>1
  <2>3. 0 < 1
    OBVIOUS
  <2> QED BY <2>2, <2>3
<1>4. StateInv /\ RefsOfTheDocument
  <2>1. leaving \in [Tab -> Nat]
    BY DEF Init
  <2> QED BY <1>2, <1>3, <2>1 DEF Init, StateInv, RefsOfTheDocument
<1>5. CallsInv
  BY DEF Init, CallsInv, Calls
<1>6. InterceptionIsCleanedUp
  BY DEF Init, InterceptionIsCleanedUp
<1> QED BY <1>4, <1>5, <1>6 DEF IInv

LEMMA Step ==
    ASSUME IInv, [Next]_vars
    PROVE  IInv'
<1>1. CASE Native
  BY <1>1, NativeStep
<1>2. CASE Browser
  BY <1>2, BrowserStep DEF Browser
<1>3. CASE \E t \in Tab : Request(t)
  BY <1>3, RequestStep
<1>4. ASSUME NEW i \in Calls, Reading(i)
      PROVE  IInv'
  BY <1>4, TargetsStep, AttachStep, TreeStep, LayoutStep DEF Reading
<1>5. ASSUME NEW i \in Calls, Clicking(i)
      PROVE  IInv'
  BY <1>5, LocateStep, ResolveStep, SimpleSteps, PressStep, PressLostStep DEF Clicking
<1>6. ASSUME NEW i \in Calls, Uploading(i)
      PROVE  IInv'
  BY <1>6, ArmStep, InstallStep, SimpleSteps, SetFilesStep, LateEffectStep, LateRejectedStep,
     UnprobeStep, UnarmStep DEF Uploading
<1>7. CASE UNCHANGED vars
  <2>1. UNCHANGED <<doc, loading, leaving, debug, intercept, debuggerTabs, refs, calls, link, timer, active,
                    errors, detaches, links>>
    BY <1>7 DEF vars, browser, native, bounds
  <2>2. CallsInv' /\ InterceptionIsCleanedUp'
    BY <2>1, CallsStay
  <2>3. StateInv' /\ RefsOfTheDocument'
    BY <2>1 DEF IInv, StateInv, RefsOfTheDocument
  <2> QED BY <2>2, <2>3 DEF IInv
<1> QED BY <1>1, <1>2, <1>3, <1>4, <1>5, <1>6, <1>7 DEF Next

LEMMA Invariant == Spec => []IInv
BY Start, Step, PTL DEF Spec

\* Every variable has its type; the service worker takes a tab for attached
\* only while it is or while the onDetach of the tab is on its way, and a service
\* worker without a port has a timer to get one (service-worker.ts,
\* browser-executor.ts).
THEOREM TypeCorrect == Spec => []TypeOK
<1>1. IInv => TypeOK
  <2>1. IInv => <<errors, detaches, links>> \in Nat \X Nat \X Nat
    BY DEF IInv, StateInv
  <2> QED BY <2>1 DEF IInv, StateInv, CallsInv, TypeOK
<1> QED BY <1>1, Invariant, PTL

\* The refs of the store are of the document the tab shows, unless the event
\* that drops them is on its way or a navigation overtook the snapshot that
\* stored them (browser-executor.ts, ref-store.ts).
THEOREM RefsCurrent == Spec => []RefsOfTheDocument
<1>1. IInv => RefsOfTheDocument
  BY DEF IInv
<1> QED BY <1>1, Invariant, PTL

\* A call that answers `none' has set no file and will set none, and has pressed
\* on nothing, except a click whose press lost its reply to a detach, and the click
\* of an upload, of which nothing is said.  File choosers are intercepted only on
\* behalf of an upload that is still to clean up, except after a cleanup that
\* failed and after an arming that timed out and took effect later
\* (cdp-input.ts, upload-transaction.ts).
THEOREM Accounted == Spec => []EffectsAccounted
<1>1. IInv => EffectsAccounted
  <2>1. IInv => NoneMeansNothing
    BY DEF IInv, CallsInv, GoodCall, NothingDone, NoneMeansNothing
  <2> QED BY <2>1 DEF IInv, EffectsAccounted
<1> QED BY <1>1, Invariant, PTL

=============================================================================
