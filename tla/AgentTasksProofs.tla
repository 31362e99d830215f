--------------------------- MODULE AgentTasksProofs ---------------------------
(***************************************************************************)
(* One agent and one task of a page for each session, for any number of    *)
(* tasks, pages, prompts and failures.  Why: an id that is in use          *)
(* anywhere, on a wire, in a handler or in a task, is the name of the live *)
(* session that was first given it (Known), so a session that is named now *)
(* gets an id nobody has; and while the event that tells a page so is on   *)
(* its way, no task of the page has the id (Fresh).  The last needs        *)
(* TranscriptsLate, and each theorem says so.                              *)
(***************************************************************************)
EXTENDS AgentTasks, SequenceTheorems, FiniteSetTheorems, TLAPS

\* An id is none, or the number of the session it was given to.
Known(ls, s) == s = 0 \/ (s \in 1..Len(ls) /\ ls[s].sid = s)

LiveRec == [sid : Nat, crid : Task \union {NoTask}, on : BOOLEAN,
            inbox : Nat, turn : BOOLEAN, interrupted : BOOLEAN]
LineRec == [type : {"send", "interrupt", "resume"}, sid : Nat, crid : Task \union {NoTask}, from : Task]
EventRec == [type : {"created", "over"}, sid : Nat, crid : Task \union {NoTask}]
TaskRec == [open : BOOLEAN, session : Nat, pending : BOOLEAN, running : BOOLEAN]

\* Lines, events and tasks that name known sessions.
Lines(ls) == {l \in LineRec : Known(ls, l.sid)}
Events(ls) == {e \in EventRec : Known(ls, e.sid)}
TasksOf(ls) == {r \in TaskRec : Known(ls, r.session) /\ (r.pending => r.session = 0)}

LivesInv ==
    /\ lives \in Seq(LiveRec)
    /\ \A i \in Lives : Known(lives, lives[i].sid)
    /\ \A i, j \in Lives :
          (lives[i].on /\ lives[j].on /\ lives[i].sid # 0 /\ lives[i].sid = lives[j].sid) => i = j

WiresInv ==
    /\ link \subseteq Client
    /\ up \in [Client -> Seq(Lines(lives))] /\ outbox \in [Client -> Seq(Lines(lives))]
    /\ handlers \in Seq(Lines(lives))
    /\ down \in [Client -> Seq(Events(lives))]

RestInv ==
    /\ TranscriptsLate
    /\ owner \in [Task -> Client] /\ owner \in Placements
    /\ broken \subseteq Task
    /\ sends \in 0..MaxSends /\ upsets \in 0..MaxUpsets

\* No task of page c has the id that an event on its way gives to one, and only
\* one event gives it.
Fresh(own, ts, c, events) ==
    \A k \in 1..Len(events) : events[k].type = "created" =>
        /\ events[k].sid # 0
        /\ \A t \in Task : own[t] = c => ts[t].session # events[k].sid
        /\ \A l \in 1..Len(events) :
              (events[l].type = "created" /\ events[l].sid = events[k].sid) => l = k

TasksInv ==
    /\ tasks \in [Task -> TasksOf(lives)]
    /\ OneTaskPerSession
    /\ \A c \in Client : Fresh(owner, tasks, c, down[c])

IInv == LivesInv /\ WiresInv /\ RestInv /\ TasksInv

-----------------------------------------------------------------------------
(* Sessions come, and get a name once                                      *)

Grows(ls, ks) ==
    /\ Len(ls) <= Len(ks)
    /\ \A i \in 1..Len(ls) : ls[i].sid # 0 => ks[i].sid = ls[i].sid

\* What was known stays known.
LEMMA StaysKnown ==
    ASSUME NEW ls \in Seq(LiveRec), NEW ks \in Seq(LiveRec), Grows(ls, ks)
    PROVE  /\ \A s \in Nat : Known(ls, s) => Known(ks, s)
           /\ Lines(ls) \subseteq Lines(ks)
           /\ Events(ls) \subseteq Events(ks)
           /\ TasksOf(ls) \subseteq TasksOf(ks)
<1>1. ASSUME NEW s \in Nat, Known(ls, s)
      PROVE  Known(ks, s)
  BY <1>1 DEF Known, Grows
<1>2. \A l \in LineRec : l.sid \in Nat
  BY DEF LineRec
<1>3. \A e \in EventRec : e.sid \in Nat
  BY DEF EventRec
<1>4. \A r \in TaskRec : r.session \in Nat
  BY DEF TaskRec
<1> QED BY <1>1, <1>2, <1>3, <1>4 DEF Lines, Events, TasksOf

LEMMA SeqOfMore ==
    ASSUME NEW S, NEW T, S \subseteq T
    PROVE  /\ Seq(S) \subseteq Seq(T)
           /\ \A f : f \in [Client -> Seq(S)] => f \in [Client -> Seq(T)]
<1>1. ASSUME NEW q \in Seq(S)
      PROVE  q \in Seq(T)
  <2>1. Len(q) \in Nat /\ \A k \in 1..Len(q) : q[k] \in T
    OBVIOUS
  <2>2. q \in [1..Len(q) -> T]
    BY <2>1
  <2> QED BY <2>1, <2>2
<1> QED BY <1>1

\* What a step that leaves them alone keeps of the wires and the tasks.
LEMMA CarriesOver ==
    ASSUME IInv, lives' \in Seq(LiveRec), Grows(lives, lives')
    PROVE  /\ Lines(lives) \subseteq Lines(lives') /\ Events(lives) \subseteq Events(lives')
           /\ up \in [Client -> Seq(Lines(lives'))] /\ outbox \in [Client -> Seq(Lines(lives'))]
           /\ handlers \in Seq(Lines(lives')) /\ down \in [Client -> Seq(Events(lives'))]
           /\ tasks \in [Task -> TasksOf(lives')]
           /\ \A c \in Client : up[c] \in Seq(Lines(lives'))
           /\ \A s \in Nat : Known(lives, s) => Known(lives', s)
<1>1. /\ Lines(lives) \subseteq Lines(lives') /\ Events(lives) \subseteq Events(lives')
      /\ TasksOf(lives) \subseteq TasksOf(lives')
      /\ \A s \in Nat : Known(lives, s) => Known(lives', s)
  BY StaysKnown DEF IInv, LivesInv
<1>2. up \in [Client -> Seq(Lines(lives'))] /\ outbox \in [Client -> Seq(Lines(lives'))]
      /\ handlers \in Seq(Lines(lives'))
  BY <1>1, SeqOfMore DEF IInv, WiresInv
<1>3. down \in [Client -> Seq(Events(lives'))]
  BY <1>1, SeqOfMore DEF IInv, WiresInv
<1>4. tasks \in [Task -> TasksOf(lives')]
  BY <1>1 DEF IInv, TasksInv
<1> QED BY <1>1, <1>2, <1>3, <1>4

LEMMA GrowsFacts ==
    ASSUME IInv
    PROVE  /\ lives \in Seq(LiveRec) /\ Len(lives) \in Nat /\ Grows(lives, lives)
           /\ \A i \in Lives : lives[i] \in LiveRec /\ lives[i].sid \in Nat
<1>1. lives \in Seq(LiveRec) /\ Len(lives) \in Nat /\ Grows(lives, lives)
  BY DEF IInv, LivesInv, Grows
<1>2. \A i \in Lives : lives[i] \in LiveRec
  BY <1>1 DEF Lives
<1>3. \A i \in Lives : lives[i].sid \in Nat
  BY <1>2 DEF LiveRec
<1> QED BY <1>1, <1>2, <1>3

\* Sessions that keep their names, and of which none comes back to life.
LEMMA SameNames ==
    ASSUME IInv, lives' \in Seq(LiveRec), Len(lives') = Len(lives),
           \A i \in Lives : lives'[i].sid = lives[i].sid /\ (lives'[i].on => lives[i].on)
    PROVE  LivesInv' /\ Grows(lives, lives')
<1>1. Len(lives) \in Nat /\ Lives' = Lives
  BY GrowsFacts DEF Lives
<1>2. Grows(lives, lives')
  BY <1>1 DEF Grows, Lives
<1>3. \A i \in Lives : Known(lives', lives'[i].sid)
  BY <1>1 DEF IInv, LivesInv, Known, Lives
<1>4. \A i, j \in Lives :
          (lives'[i].on /\ lives'[j].on /\ lives'[i].sid # 0 /\ lives'[i].sid = lives'[j].sid) => i = j
  BY DEF IInv, LivesInv
<1> QED BY <1>1, <1>2, <1>3, <1>4 DEF LivesInv

\* One session that changes so.
LEMMA OneChanges ==
    ASSUME IInv, NEW i \in Lives, NEW live \in LiveRec,
           live.sid = lives[i].sid, live.on => lives[i].on,
           lives' = [lives EXCEPT ![i] = live]
    PROVE  LivesInv' /\ Grows(lives, lives')
<1>1. lives \in Seq(LiveRec)
  BY GrowsFacts
<1>2. lives' \in Seq(LiveRec) /\ Len(lives') = Len(lives)
  BY <1>1, ExceptSeq DEF Lives
<1>3. \A j \in Lives : lives'[j] = IF j = i THEN live ELSE lives[j]
  BY <1>1 DEF Lives
<1> QED BY <1>2, <1>3, SameNames

\* A prompt is pushed to the agent of its session, or starts one.
LEMMA Asked ==
    ASSUME IInv, NEW line \in Lines(lives), lives' = Ask(line)
    PROVE  LivesInv' /\ Grows(lives, lives')
<1> DEFINE old == Named(line.sid)
<1>0. lives \in Seq(LiveRec) /\ Len(lives) \in Nat
  BY GrowsFacts
<1>1. CASE old = {}
  <2> DEFINE live == NewLive(line)
  <2>1. live \in LiveRec /\ live.sid = line.sid /\ line.sid \in Nat
    BY DEF Lines, LineRec, NewLive, LiveRec
  <2>2. lives' = Append(lives, live)
    BY <1>1 DEF Ask
  <2> HIDE DEF live
  <2>3. /\ lives' \in Seq(LiveRec) /\ Len(lives') = Len(lives) + 1
        /\ \A i \in Lives : lives'[i] = lives[i]
        /\ lives'[Len(lives) + 1] = live
        /\ Lives' = Lives \union {Len(lives) + 1}
    BY <1>0, <2>1, <2>2 DEF Lives
  <2>4. Grows(lives, lives')
    BY <1>0, <2>3 DEF Grows, Lives
  <2>5. \A s \in Nat : Known(lives, s) => Known(lives', s)
    BY <2>3, <2>4, <1>0, StaysKnown
  <2>6. Known(lives, line.sid)
    BY DEF Lines
  <2>7. \A i \in Lives : lives[i].sid \in Nat
    BY GrowsFacts
  <2>8. \A i \in Lives' : Known(lives', lives'[i].sid)
    BY <2>1, <2>3, <2>5, <2>6, <2>7 DEF IInv, LivesInv
  <2>9. \A i \in Lives : lives[i].on /\ line.sid # 0 => lives[i].sid # line.sid
    BY <1>1 DEF Named
  <2>10. \A i, j \in Lives' :
            (lives'[i].on /\ lives'[j].on /\ lives'[i].sid # 0 /\ lives'[i].sid = lives'[j].sid) => i = j
    BY <2>1, <2>3, <2>9 DEF IInv, LivesInv
  <2> QED BY <2>3, <2>4, <2>8, <2>10 DEF LivesInv
<1>2. CASE old # {}
  <2> DEFINE i == Latest(old)
  <2>1. lives' = [lives EXCEPT ![i].inbox = @ + 1]
    BY <1>2 DEF Ask
  <2> HIDE DEF i
  <2>2. CASE i \in Lives
    <3> DEFINE live == [lives[i] EXCEPT !.inbox = @ + 1]
    <3>1. lives[i] \in LiveRec
      BY <1>0, <2>2 DEF Lives
    <3>2. lives[i].inbox + 1 \in Nat
      BY <3>1 DEF LiveRec
    <3>3. live \in LiveRec /\ live.sid = lives[i].sid /\ live.on = lives[i].on
      BY <3>1, <3>2 DEF LiveRec
    <3>4. lives' = [lives EXCEPT ![i] = live]
      BY <2>1
    <3> HIDE DEF live
    <3> QED BY <2>2, <3>3, <3>4, OneChanges
  <2>3. CASE i \notin Lives
    <3>1. lives' = lives
      BY <1>0, <2>1, <2>3 DEF Lives
    <3> QED BY <1>0, <3>1, SameNames
  <2> QED BY <2>2, <2>3
<1> QED BY <1>1, <1>2

\* The first frame gives a session an id that is not in use anywhere.
LEMMA GetsNamed ==
    ASSUME IInv, NEW i \in Lives, lives[i].sid = 0, lives' = [lives EXCEPT ![i].sid = i]
    PROVE  /\ LivesInv' /\ Grows(lives, lives')
           /\ i # 0 /\ Known(lives', i) /\ ~Known(lives, i)
<1>1. lives \in Seq(LiveRec) /\ Len(lives) \in Nat /\ i \in 1..Len(lives)
  BY GrowsFacts DEF Lives
<1> DEFINE live == [lives[i] EXCEPT !.sid = i]
<1>2. lives[i] \in LiveRec /\ i \in Nat
  BY <1>1
<1>3. live \in LiveRec /\ live.sid = i /\ live.on = lives[i].on
  <2> DEFINE l == lives[i]
  <2>1. l \in LiveRec
    BY <1>2
  <2> HIDE DEF l
  <2>2. [l EXCEPT !.sid = i] \in LiveRec /\ [l EXCEPT !.sid = i].sid = i
        /\ [l EXCEPT !.sid = i].on = l.on
    BY <1>2, <2>1 DEF LiveRec
  <2> QED BY <2>2 DEF l
<1>4. lives' = [lives EXCEPT ![i] = live]
  OBVIOUS
<1> HIDE DEF live
<1>5. /\ lives' \in Seq(LiveRec) /\ Len(lives') = Len(lives) /\ Lives' = Lives
      /\ \A j \in Lives : lives'[j] = IF j = i THEN live ELSE lives[j]
  BY <1>1, <1>3, <1>4, ExceptSeq DEF Lives
<1>6. Grows(lives, lives')
  BY <1>1, <1>5 DEF Grows, Lives
<1>7. i # 0 /\ Known(lives', i) /\ ~Known(lives, i)
  BY <1>1, <1>3, <1>5 DEF Known, Lives
<1>8. \A s \in Nat : Known(lives, s) => Known(lives', s)
  BY <1>1, <1>5, <1>6, StaysKnown
<1>9. \A j \in Lives : lives[j].sid \in Nat /\ lives[j].sid # i
  BY <1>7, GrowsFacts DEF IInv, LivesInv
<1>10. \A j \in Lives' : Known(lives', lives'[j].sid)
  BY <1>3, <1>5, <1>7, <1>8, <1>9 DEF IInv, LivesInv
<1>11. \A j, k \in Lives' :
          (lives'[j].on /\ lives'[k].on /\ lives'[j].sid # 0 /\ lives'[j].sid = lives'[k].sid) => j = k
  BY <1>3, <1>5, <1>9 DEF IInv, LivesInv
<1> QED BY <1>5, <1>6, <1>7, <1>10, <1>11 DEF LivesInv

-----------------------------------------------------------------------------
(* Events and lines                                                        *)

\* Events that name nobody, the one that does, its delivery, and tasks that are
\* bound to less.
LEMMA FreshOver ==
    ASSUME NEW own, NEW ts, NEW c, NEW events \in Seq(EventRec), NEW more \in Seq(EventRec),
           \A k \in 1..Len(more) : more[k].type = "over", Fresh(own, ts, c, events)
    PROVE  Fresh(own, ts, c, events \o more)
<1> DEFINE all == events \o more
<1>1. /\ Len(all) = Len(events) + Len(more) /\ Len(events) \in Nat /\ Len(more) \in Nat
      /\ \A k \in 1..(Len(events) + Len(more)) :
            all[k] = IF k <= Len(events) THEN events[k] ELSE more[k - Len(events)]
  BY ConcatProperties, LenProperties
<1> HIDE DEF all
<1>2. ASSUME NEW k \in 1..Len(all), all[k].type = "created"
      PROVE  k \in 1..Len(events) /\ all[k] = events[k]
  <2>1. CASE k <= Len(events)
    BY <1>1, <2>1
  <2>2. CASE ~(k <= Len(events))
    <3>1. k - Len(events) \in 1..Len(more) /\ all[k] = more[k - Len(events)]
      BY <1>1, <2>2
    <3> QED BY <1>2, <3>1
  <2> QED BY <2>1, <2>2
<1>3. Fresh(own, ts, c, all)
  BY <1>2 DEF Fresh
<1> QED BY <1>3 DEF all

LEMMA FreshCreated ==
    ASSUME NEW own, NEW ts, NEW c, NEW events \in Seq(EventRec), NEW e \in EventRec,
           Fresh(own, ts, c, events), e.sid # 0,
           \A t \in Task : own[t] = c => ts[t].session # e.sid,
           \A k \in 1..Len(events) : events[k].sid # e.sid
    PROVE  Fresh(own, ts, c, events \o <<e>>)
<1> DEFINE all == events \o <<e>>
<1>1. /\ Len(all) = Len(events) + 1 /\ Len(events) \in Nat /\ all[Len(events) + 1] = e
      /\ \A k \in 1..Len(events) : all[k] = events[k]
  OBVIOUS
<1> HIDE DEF all
<1>2. \A k \in 1..Len(all) : k \in 1..Len(events) \/ (k = Len(events) + 1 /\ all[k] = e)
  BY <1>1
<1>3. Fresh(own, ts, c, all)
  BY <1>1, <1>2 DEF Fresh
<1> QED BY <1>3 DEF all

LEMMA FreshTail ==
    ASSUME NEW own, NEW ts, NEW c, NEW events \in Seq(EventRec), events # <<>>,
           Fresh(own, ts, c, events)
    PROVE  /\ Fresh(own, ts, c, Tail(events))
           /\ \A k \in 1..Len(Tail(events)) :
                 (Head(events).type = "created" /\ Tail(events)[k].type = "created")
                 => Tail(events)[k].sid # Head(events).sid
<1> DEFINE rest == Tail(events)
<1>1. /\ Len(events) \in Nat /\ Len(events) >= 1 /\ Len(rest) = Len(events) - 1
      /\ Head(events) = events[1]
      /\ \A k \in 1..Len(rest) : rest[k] = events[k + 1]
  OBVIOUS
<1> HIDE DEF rest
<1>2. \A k \in 1..Len(rest) : k + 1 \in 1..Len(events) /\ k + 1 # 1
  BY <1>1
<1>3. 1 \in 1..Len(events)
  BY <1>1
<1>4. Fresh(own, ts, c, rest)
  <2> SUFFICES ASSUME NEW k \in 1..Len(rest), rest[k].type = "created"
               PROVE  /\ rest[k].sid # 0
                      /\ \A t \in Task : own[t] = c => ts[t].session # rest[k].sid
                      /\ \A l \in 1..Len(rest) :
                            (rest[l].type = "created" /\ rest[l].sid = rest[k].sid) => l = k
    BY DEF Fresh
  <2>1. k + 1 \in 1..Len(events) /\ rest[k] = events[k + 1]
    BY <1>1, <1>2
  <2>2. ASSUME NEW l \in 1..Len(rest), rest[l].type = "created", rest[l].sid = rest[k].sid
        PROVE  l = k
    <3>1. l + 1 \in 1..Len(events) /\ rest[l] = events[l + 1]
      BY <1>1, <1>2
    <3>2. l + 1 = k + 1
      BY <2>1, <2>2, <3>1 DEF Fresh
    <3> QED BY <3>2
  <2> QED BY <2>1, <2>2 DEF Fresh
<1>5. ASSUME NEW k \in 1..Len(rest), Head(events).type = "created", rest[k].type = "created",
             rest[k].sid = Head(events).sid
      PROVE  FALSE
  BY <1>1, <1>2, <1>3, <1>5 DEF Fresh
<1> QED BY <1>4, <1>5 DEF rest

LEMMA FreshTasks ==
    ASSUME NEW own, NEW ts, NEW us, NEW c, NEW events, Fresh(own, ts, c, events),
           \A t \in Task : own[t] = c => us[t].session \in {0, ts[t].session}
    PROVE  Fresh(own, us, c, events)
BY DEF Fresh

\* What the invariant says of the events of a page.
LEMMA Page ==
    ASSUME IInv, NEW c \in Client
    PROVE  /\ down[c] \in Seq(Events(lives)) /\ down[c] \in Seq(EventRec)
           /\ up[c] \in Seq(Lines(lives)) /\ outbox[c] \in Seq(Lines(lives))
           /\ \A k \in 1..Len(down[c]) : down[c][k] \in EventRec /\ Known(lives, down[c][k].sid)
           /\ Fresh(owner, tasks, c, down[c])
<1>1. down[c] \in Seq(Events(lives)) /\ up[c] \in Seq(Lines(lives)) /\ outbox[c] \in Seq(Lines(lives))
  BY DEF IInv, WiresInv
<1>2. Events(lives) \subseteq EventRec
  BY DEF Events
<1>3. \A k \in 1..Len(down[c]) : down[c][k] \in Events(lives)
  BY <1>1
<1>4. down[c] \in Seq(EventRec)
  BY <1>1, <1>2, SeqOfMore
<1> QED BY <1>1, <1>3, <1>4 DEF Events, IInv, TasksInv

\* Events that say that a turn is over go to all pages.
LEMMA OverBroadcast ==
    ASSUME IInv, lives' \in Seq(LiveRec), Grows(lives, lives'),
           NEW events \in Seq(Events(lives')), \A k \in 1..Len(events) : events[k].type = "over",
           Broadcast(events)
    PROVE  /\ down' \in [Client -> Seq(Events(lives'))]
           /\ \A c \in Client : Fresh(owner, tasks, c, down'[c])
<1>1. down \in [Client -> Seq(Events(lives'))]
  BY CarriesOver
<1>2. ASSUME NEW c \in Client
      PROVE  down'[c] \in Seq(Events(lives')) /\ Fresh(owner, tasks, c, down'[c])
  <2>1. down[c] \in Seq(Events(lives')) /\ down[c] \in Seq(EventRec) /\ Fresh(owner, tasks, c, down[c])
    BY <1>1, Page
  <2>2. down'[c] = down[c] \/ down'[c] = down[c] \o events
    BY DEF Broadcast
  <2>3. Events(lives') \subseteq EventRec
    BY DEF Events
  <2>4. events \in Seq(EventRec)
    BY <2>3, SeqOfMore
  <2>5. down[c] \o events \in Seq(Events(lives'))
    BY <2>1
  <2> QED BY <2>1, <2>2, <2>4, <2>5, FreshOver
<1>3. down' = [c \in Client |-> down'[c]]
  BY DEF Broadcast
<1> QED BY <1>2, <1>3

\* What the server and the agents do to the wires.
LEMMA ServerSide ==
    ASSUME IInv, LivesInv', Grows(lives, lives'), WiresInv', RestInv', UNCHANGED <<owner, tasks>>,
           \A c \in Client : Fresh(owner, tasks, c, down'[c])
    PROVE  IInv'
<1>1. tasks' \in [Task -> TasksOf(lives')]
  BY CarriesOver DEF LivesInv
<1>2. OneTaskPerSession'
  BY DEF IInv, TasksInv, OneTaskPerSession
<1> QED BY <1>1, <1>2 DEF IInv, TasksInv

\* What the pages do to their tasks.
LEMMA PageSide ==
    ASSUME IInv, WiresInv', RestInv', UNCHANGED <<owner, lives>>,
           tasks' \in [Task -> TasksOf(lives)], OneTaskPerSession',
           \A c \in Client : Fresh(owner, tasks', c, down'[c])
    PROVE  IInv'
<1>1. LivesInv'
  BY DEF IInv, LivesInv, Lives
<1>2. TasksInv'
  BY DEF TasksInv
<1> QED BY <1>1, <1>2 DEF IInv

\* A page sends a line, or keeps it until it is connected.
LEMMA Posted ==
    ASSUME IInv, NEW c \in Client, NEW line \in Lines(lives), Post(c, line),
           UNCHANGED <<lives, handlers, down>>
    PROVE  WiresInv'
<1>1. Append(up[c], line) \in Seq(Lines(lives)) /\ Append(outbox[c], line) \in Seq(Lines(lives))
  BY Page
<1>2. up' \in [Client -> Seq(Lines(lives))] /\ outbox' \in [Client -> Seq(Lines(lives))]
      /\ link' \subseteq Client
  BY <1>1 DEF Post, IInv, WiresInv
<1> QED BY <1>2 DEF IInv, WiresInv

\* What the invariant says of a task.
LEMMA TaskFacts ==
    ASSUME IInv, NEW t \in Task
    PROVE  /\ tasks[t] \in TaskRec /\ tasks[t].session \in Nat /\ Known(lives, tasks[t].session)
           /\ tasks[t].pending => tasks[t].session = 0
           /\ owner[t] \in Client
BY DEF IInv, TasksInv, RestInv, TasksOf, TaskRec

LEMMA LineKnown ==
    ASSUME NEW s \in Nat, Known(lives, s), NEW crid \in Task \union {NoTask}, NEW t \in Task,
           NEW type \in {"send", "interrupt", "resume"}
    PROVE  Line(type, s, crid, t) \in Lines(lives)
BY DEF Line, Lines, LineRec

\* A task that changes, but for its session, and one that is closed.
LEMMA TaskChanges ==
    ASSUME IInv, NEW t \in Task, NEW r \in TasksOf(lives), r.session \in {0, tasks[t].session},
           tasks' = [tasks EXCEPT ![t] = r], UNCHANGED <<owner, down, lives>>
    PROVE  /\ tasks' \in [Task -> TasksOf(lives)] /\ OneTaskPerSession'
           /\ \A c \in Client : Fresh(owner, tasks', c, down'[c])
<1>1. \A u \in Task : tasks'[u] = IF u = t THEN r ELSE tasks[u]
  BY DEF IInv, TasksInv
<1>2. tasks' \in [Task -> TasksOf(lives)]
  BY DEF IInv, TasksInv
<1>3. \A u \in Task : tasks'[u].session \in {0, tasks[u].session}
  BY <1>1
<1>4. OneTaskPerSession'
  BY <1>3 DEF IInv, TasksInv, OneTaskPerSession
<1>5. \A c \in Client : Fresh(owner, tasks', c, down'[c])
  BY <1>3, FreshTasks DEF IInv, TasksInv
<1> QED BY <1>2, <1>4, <1>5

LEMMA SendStep ==
    ASSUME IInv, NEW t \in Task, Send(t)
    PROVE  IInv'
<1> DEFINE s == tasks[t].session
<1> DEFINE p == tasks[t].pending \/ s = 0
<1> DEFINE r == [tasks[t] EXCEPT !.running = TRUE, !.pending = p]
<1>1. Line("send", s, IF s = 0 THEN t ELSE NoTask, t) \in Lines(lives)
  BY TaskFacts, LineKnown
<1>2. r \in TasksOf(lives) /\ r.session = tasks[t].session
  <2>1. p \in BOOLEAN /\ (p => s = 0) /\ tasks[t] \in TaskRec
    BY TaskFacts
  <2> HIDE DEF p
  <2>2. r \in TaskRec /\ r.session = tasks[t].session /\ r.pending = p
    BY <2>1 DEF TaskRec
  <2> QED BY <2>1, <2>2, TaskFacts DEF TasksOf
<1>3. tasks' = [tasks EXCEPT ![t] = r]
  BY DEF Send
<1>4. /\ Post(owner[t], Line("send", s, IF s = 0 THEN t ELSE NoTask, t))
      /\ UNCHANGED <<owner, down, handlers, lives, upsets, broken>>
      /\ sends < MaxSends /\ sends' = sends + 1
  BY DEF Send
<1> HIDE DEF r
<1>5. WiresInv'
  BY <1>1, <1>4, TaskFacts, Posted
<1>6. sends' \in 0..MaxSends
  BY <1>4, AgentTasksAssumption DEF IInv, RestInv
<1>7. RestInv'
  BY <1>4, <1>6 DEF IInv, RestInv
<1> QED BY <1>2, <1>3, <1>4, <1>5, <1>7, TaskChanges, PageSide

LEMMA StopStep ==
    ASSUME IInv, NEW t \in Task, Stop(t)
    PROVE  IInv'
<1>1. Line("interrupt", tasks[t].session, NoTask, t) \in Lines(lives)
  BY TaskFacts, LineKnown
<1>2. /\ Post(owner[t], Line("interrupt", tasks[t].session, NoTask, t))
      /\ UNCHANGED <<owner, tasks, down, handlers, lives, sends, broken>>
      /\ upsets < MaxUpsets /\ upsets' = upsets + 1
  BY DEF Stop
<1>3. WiresInv'
  BY <1>1, <1>2, TaskFacts, Posted
<1>4. upsets' \in 0..MaxUpsets
  BY <1>2, AgentTasksAssumption DEF IInv, RestInv
<1>5. RestInv'
  BY <1>2, <1>4 DEF IInv, RestInv
<1>6. LivesInv' /\ Grows(lives, lives')
  BY <1>2, GrowsFacts DEF IInv, LivesInv, Lives
<1>7. \A c \in Client : Fresh(owner, tasks, c, down'[c])
  BY <1>2 DEF IInv, TasksInv
<1> QED BY <1>2, <1>3, <1>5, <1>6, <1>7, ServerSide

LEMMA DeleteStep ==
    ASSUME IInv, NEW t \in Task, Delete(t)
    PROVE  IInv'
<1>1. Deleted \in TasksOf(lives) /\ Deleted.session = 0
  BY DEF Deleted, TasksOf, TaskRec, Known
<1>2. /\ tasks' = [tasks EXCEPT ![t] = Deleted]
      /\ UNCHANGED <<owner, link, outbox, up, down, handlers, lives, sends, broken>>
      /\ upsets < MaxUpsets /\ upsets' = upsets + 1
  BY DEF Delete, wire
<1>3. WiresInv'
  BY <1>2 DEF IInv, WiresInv
<1>4. upsets' \in 0..MaxUpsets
  BY <1>2, AgentTasksAssumption DEF IInv, RestInv
<1>5. RestInv'
  BY <1>2, <1>4 DEF IInv, RestInv
<1> QED BY <1>1, <1>2, <1>3, <1>5, TaskChanges, PageSide

LEMMA ResumeStep ==
    ASSUME IInv, NEW t \in Task, NEW s \in Lives, Resume(t, s)
    PROVE  IInv'
<1> DEFINE r == [tasks[t] EXCEPT !.session = s, !.running = TRUE]
<1>1. s \in Nat /\ Known(lives, s) /\ s # 0 /\ tasks[t] = NewTask
  <2>1. PICK i \in Lives : lives[i].sid = s
    BY DEF IInv, RestInv, Resume, Listed
  <2>2. s \in Nat /\ s # 0
    BY GrowsFacts DEF Lives
  <2> QED BY <2>1, <2>2 DEF IInv, LivesInv, Resume
<1>2. /\ tasks' = [tasks EXCEPT ![t] = r]
      /\ Post(owner[t], Line("resume", s, NoTask, t))
      /\ UNCHANGED <<owner, down, handlers, lives, sends, upsets, broken>>
      /\ Listed(owner[t], s) /\ Unbound(owner[t], s)
  BY DEF Resume, bounds
<1>3. r \in TasksOf(lives) /\ r.session = s
  <2>1. r = [NewTask EXCEPT !.session = s, !.running = TRUE]
    BY <1>1
  <2> HIDE DEF r
  <2>2. r \in TaskRec /\ r.session = s /\ ~r.pending
    BY <1>1, <2>1 DEF TaskRec, NewTask
  <2> QED BY <1>1, <2>2 DEF TasksOf
<1> HIDE DEF r
<1>4. Line("resume", s, NoTask, t) \in Lines(lives)
  BY <1>1, LineKnown
<1>5. WiresInv'
  BY <1>2, <1>4, TaskFacts, Posted
<1>6. RestInv'
  BY <1>2 DEF IInv, RestInv
<1>7. \A u \in Task : tasks'[u] = IF u = t THEN r ELSE tasks[u]
  BY <1>2 DEF IInv, TasksInv
<1>8. tasks' \in [Task -> TasksOf(lives)]
  BY <1>2, <1>3 DEF IInv, TasksInv
<1>9. OneTaskPerSession'
  BY <1>2, <1>3, <1>7 DEF IInv, TasksInv, OneTaskPerSession, Unbound
<1>10. ASSUME NEW c \in Client
       PROVE  Fresh(owner, tasks', c, down'[c])
  <2>1. Fresh(owner, tasks, c, down[c]) /\ down' = down
    BY <1>2, Page
  <2>2. CASE c = owner[t]
    <3>1. \A k \in 1..Len(down[c]) : down[c][k].type = "created" => down[c][k].sid # s
      BY <1>2, <2>2 DEF Listed, IInv, RestInv
    <3> QED BY <1>3, <1>7, <2>1, <2>2, <3>1 DEF Fresh
  <2>3. CASE c # owner[t]
    BY <1>7, <2>1, <2>3, FreshTasks
  <2> QED BY <2>2, <2>3
<1> QED BY <1>2, <1>5, <1>6, <1>8, <1>9, <1>10, PageSide

\* An event comes to its page.
LEMMA DeliverStep ==
    ASSUME IInv, NEW c \in Client, Deliver(c)
    PROVE  IInv'
<1> DEFINE e == Head(down[c])
<1> DEFINE rest == Tail(down[c])
<1>1. /\ down[c] # <<>> /\ tasks' = AfterEvent(c, e)
      /\ down' = [down EXCEPT ![c] = rest]
      /\ UNCHANGED <<owner, link, outbox, up, handlers, lives, sends, upsets, broken>>
  BY DEF Deliver, wire, bounds
<1>2. /\ down[c] \in Seq(Events(lives)) /\ down[c] \in Seq(EventRec) /\ Fresh(owner, tasks, c, down[c])
      /\ down \in [Client -> Seq(Events(lives))]
  BY Page DEF IInv, WiresInv
<1>3. e \in EventRec /\ Known(lives, e.sid) /\ rest \in Seq(Events(lives))
  <2>1. e \in Events(lives) /\ rest \in Seq(Events(lives))
    BY <1>1, <1>2
  <2> QED BY <2>1 DEF Events
<1>4. e.type = "created" => \A t \in Task : owner[t] = c => tasks[t].session # e.sid
  <2>1. 1 \in 1..Len(down[c]) /\ e = down[c][1]
    BY <1>1, <1>2
  <2> QED BY <1>2, <2>1 DEF Fresh
<1>5. /\ Fresh(owner, tasks, c, rest)
      /\ \A k \in 1..Len(rest) : (e.type = "created" /\ rest[k].type = "created") => rest[k].sid # e.sid
  BY <1>1, <1>2, FreshTail
<1>6. WiresInv'
  <2>1. down' \in [Client -> Seq(Events(lives))]
    BY <1>1, <1>2, <1>3
  <2> QED BY <1>1, <2>1 DEF IInv, WiresInv
<1>7. RestInv'
  BY <1>1 DEF IInv, RestInv
<1>8. \A d \in Client : down'[d] = IF d = c THEN rest ELSE down[d]
  BY <1>1, <1>2
<1> HIDE DEF e, rest
<1>9. CASE e.type = "created"
  <2>1. \A t \in Task : tasks'[t] = IF t \in Requested(c, e) THEN Created(t, e.sid) ELSE tasks[t]
    BY <1>1, <1>9 DEF AfterEvent
  <2>2. \A t, u \in Requested(c, e) : t = u /\ owner[t] = c
    BY DEF Requested
  <2>3. \A t \in Task : Created(t, e.sid) \in TasksOf(lives) /\ Created(t, e.sid).session = e.sid
    BY <1>3, TaskFacts DEF Created, TasksOf, TaskRec, EventRec
  <2>4. tasks' \in [Task -> TasksOf(lives)]
    <3>1. \A t \in Task : tasks[t] \in TasksOf(lives)
      BY DEF IInv, TasksInv
    <3>2. tasks' = [t \in Task |-> IF t \in Requested(c, e) THEN Created(t, e.sid) ELSE tasks[t]]
      BY <1>1, <1>9 DEF AfterEvent
    <3> QED BY <2>3, <3>1, <3>2
  <2>5. OneTaskPerSession'
    <3>1. SUFFICES ASSUME NEW t \in Task, NEW u \in Task, t # u, owner[t] = owner[u],
                          tasks'[t].session # 0, tasks'[t].session = tasks'[u].session
                   PROVE  FALSE
      BY <1>1 DEF OneTaskPerSession
    <3>2. CASE t \in Requested(c, e)
      BY <1>4, <1>9, <2>1, <2>2, <2>3, <3>1, <3>2
    <3>3. CASE u \in Requested(c, e)
      BY <1>4, <1>9, <2>1, <2>2, <2>3, <3>1, <3>3
    <3>4. CASE t \notin Requested(c, e) /\ u \notin Requested(c, e)
      BY <2>1, <3>1, <3>4 DEF IInv, TasksInv, OneTaskPerSession
    <3> QED BY <3>2, <3>3, <3>4
  <2>6. ASSUME NEW d \in Client
        PROVE  Fresh(owner, tasks', d, down'[d])
    <3>1. CASE d = c
      BY <1>5, <1>8, <1>9, <2>1, <2>3, <3>1 DEF Fresh
    <3>2. CASE d # c
      <4>1. \A t \in Task : owner[t] = d => tasks'[t].session = tasks[t].session
        BY <2>1, <2>2, <3>2
      <4>2. Fresh(owner, tasks, d, down[d])
        BY Page
      <4> QED BY <1>8, <3>2, <4>1, <4>2, FreshTasks
    <3> QED BY <3>1, <3>2
  <2> QED BY <1>1, <1>6, <1>7, <2>4, <2>5, <2>6, PageSide
<1>10. CASE e.type # "created"
  <2>1. tasks' = [t \in Task |-> IF t \in Bound(c, e)
                                 THEN [tasks[t] EXCEPT !.running = FALSE] ELSE tasks[t]]
    BY <1>1, <1>10 DEF AfterEvent
  <2>2. ASSUME NEW t \in Task
        PROVE  /\ [tasks[t] EXCEPT !.running = FALSE] \in TasksOf(lives)
               /\ [tasks[t] EXCEPT !.running = FALSE].session = tasks[t].session
    BY TaskFacts DEF TasksOf, TaskRec
  <2>3. \A t \in Task : tasks[t] \in TasksOf(lives)
    BY DEF IInv, TasksInv
  <2>4. tasks' \in [Task -> TasksOf(lives)] /\ \A t \in Task : tasks'[t].session = tasks[t].session
    BY <2>1, <2>2, <2>3
  <2>5. OneTaskPerSession'
    BY <1>1, <2>4 DEF IInv, TasksInv, OneTaskPerSession
  <2>6. ASSUME NEW d \in Client
        PROVE  Fresh(owner, tasks', d, down'[d])
    <3>1. Fresh(owner, tasks, d, down'[d])
      BY <1>5, <1>8, Page
    <3> QED BY <2>4, <3>1, FreshTasks
  <2> QED BY <1>1, <1>6, <1>7, <2>4, <2>5, <2>6, PageSide
<1> QED BY <1>9, <1>10

LEMMA SocketSteps ==
    ASSUME IInv, NEW c \in Client, Drop(c) \/ Reopen(c)
    PROVE  IInv'
<1>1. UNCHANGED <<owner, tasks, lives, handlers, sends>>
  BY DEF Drop, Reopen, bounds
<1>2. CASE Drop(c)
  <2>1. <<>> \in Seq(Lines(lives)) /\ <<>> \in Seq(Events(lives))
    OBVIOUS
  <2>2. WiresInv'
    BY <1>1, <1>2, <2>1 DEF Drop, IInv, WiresInv
  <2>3. upsets' \in 0..MaxUpsets
    BY <1>2, AgentTasksAssumption DEF Drop, IInv, RestInv
  <2>4. RestInv'
    BY <1>1, <1>2, <2>3 DEF Drop, IInv, RestInv
  <2>5. ASSUME NEW d \in Client
        PROVE  Fresh(owner, tasks, d, down'[d])
    <3>1. down'[d] = IF d = c THEN <<>> ELSE down[d]
      BY <1>2 DEF Drop, IInv, WiresInv
    <3>2. Fresh(owner, tasks, d, <<>>)
      BY DEF Fresh
    <3> QED BY <3>1, <3>2, Page
  <2> QED BY <1>1, <2>2, <2>4, <2>5, GrowsFacts, ServerSide DEF IInv, LivesInv, Lives
<1>3. CASE Reopen(c)
  <2>1. outbox[c] \in Seq(Lines(lives)) /\ <<>> \in Seq(Lines(lives))
    BY Page
  <2>2. WiresInv'
    BY <1>1, <1>3, <2>1 DEF Reopen, IInv, WiresInv
  <2>3. RestInv' /\ down' = down
    BY <1>1, <1>3 DEF Reopen, IInv, RestInv, bounds
  <2>4. \A d \in Client : Fresh(owner, tasks, d, down'[d])
    BY <2>3, Page
  <2> QED BY <1>1, <2>2, <2>3, <2>4, GrowsFacts, ServerSide DEF IInv, LivesInv, Lives
<1> QED BY <1>2, <1>3

-----------------------------------------------------------------------------
(* The server                                                              *)

\* A line that the server takes from the wire of a page.
LEMMA Received ==
    ASSUME IInv, NEW c \in Client, up[c] # <<>>
    PROVE  /\ Head(up[c]) \in Lines(lives) /\ Head(up[c]) \in LineRec
           /\ Head(up[c]).sid \in Nat /\ Known(lives, Head(up[c]).sid)
<1>1. Head(up[c]) \in Lines(lives)
  BY Page
<1> QED BY <1>1 DEF Lines, LineRec

\* What the wires are after it.
LEMMA ReceivedWires ==
    ASSUME IInv, NEW c \in Client, up[c] # <<>>, lives' \in Seq(LiveRec), Grows(lives, lives'),
           up' = [up EXCEPT ![c] = Tail(@)], UNCHANGED <<link, outbox>>,
           handlers' \in Seq(Lines(lives')), down' \in [Client -> Seq(Events(lives'))]
    PROVE  WiresInv'
<1>1. up \in [Client -> Seq(Lines(lives'))] /\ outbox \in [Client -> Seq(Lines(lives'))]
      /\ up[c] \in Seq(Lines(lives'))
  BY CarriesOver
<1>2. Tail(up[c]) \in Seq(Lines(lives'))
  BY <1>1
<1>3. up' \in [Client -> Seq(Lines(lives'))]
  BY <1>1, <1>2
<1> QED BY <1>1, <1>3 DEF IInv, WiresInv

\* A handler that is done.
LEMMA HandlerDone ==
    ASSUME IInv, NEW k \in 1..Len(handlers), lives' \in Seq(LiveRec), Grows(lives, lives')
    PROVE  /\ handlers[k] \in Lines(lives) /\ handlers[k].sid \in Nat
           /\ Known(lives, handlers[k].sid) /\ handlers[k].from \in Task
           /\ Done(k) \in Seq(Lines(lives'))
<1>1. handlers \in Seq(Lines(lives)) /\ handlers \in Seq(Lines(lives'))
  BY CarriesOver DEF IInv, WiresInv
<1>2. handlers[k] \in Lines(lives)
  BY <1>1
<1>3. k \in Int /\ k >= 1 /\ k <= Len(handlers) /\ Len(handlers) \in Nat
  BY <1>1
<1>4. SubSeq(handlers, 1, k - 1) \in Seq(Lines(lives'))
  BY <1>1, <1>3, SubSeqProperties
<1>5. SubSeq(handlers, k + 1, Len(handlers)) \in Seq(Lines(lives'))
  BY <1>1, <1>3, SubSeqProperties
<1>6. Done(k) \in Seq(Lines(lives'))
  BY <1>4, <1>5, ConcatProperties DEF Done
<1> QED BY <1>2, <1>6 DEF Lines, LineRec

\* The wires that a step leaves alone.
LEMMA WiresCarryOver ==
    ASSUME IInv, lives' \in Seq(LiveRec), Grows(lives, lives'), UNCHANGED <<link, outbox, up>>,
           handlers' \in Seq(Lines(lives')), down' \in [Client -> Seq(Events(lives'))]
    PROVE  WiresInv'
<1>1. up \in [Client -> Seq(Lines(lives'))] /\ outbox \in [Client -> Seq(Lines(lives'))]
  BY CarriesOver
<1> QED BY <1>1 DEF IInv, WiresInv

LEMMA ReceiveSendStep ==
    ASSUME IInv, NEW c \in Client, NEW images \in BOOLEAN, ReceiveSend(c, images)
    PROVE  IInv'
<1> DEFINE line == Head(up[c])
<1>1. /\ up[c] # <<>> /\ up' = [up EXCEPT ![c] = Tail(@)]
      /\ UNCHANGED <<owner, tasks, link, outbox, down, sends, upsets, broken>>
  BY DEF ReceiveSend, bounds
<1>2. line \in Lines(lives)
  BY <1>1, Received
<1>3. \/ (handlers' = Append(handlers, line) /\ lives' = lives)
      \/ (lives' = Ask(line) /\ handlers' = handlers)
  BY DEF ReceiveSend
<1> HIDE DEF line
<1>4. LivesInv' /\ Grows(lives, lives')
  <2>1. CASE handlers' = Append(handlers, line) /\ lives' = lives
    BY <2>1, GrowsFacts DEF IInv, LivesInv, Lives
  <2>2. CASE lives' = Ask(line)
    BY <1>2, <2>2, Asked
  <2> QED BY <1>3, <2>1, <2>2
<1>5. lives' \in Seq(LiveRec)
  BY <1>4 DEF LivesInv
<1>6. handlers \in Seq(Lines(lives')) /\ down' \in [Client -> Seq(Events(lives'))]
      /\ line \in Lines(lives')
  BY <1>1, <1>2, <1>4, <1>5, CarriesOver
<1>7. handlers' \in Seq(Lines(lives'))
  BY <1>3, <1>6
<1>8. WiresInv'
  BY <1>1, <1>4, <1>5, <1>6, <1>7, ReceivedWires
<1>9. RestInv'
  BY <1>1 DEF IInv, RestInv
<1>10. \A d \in Client : Fresh(owner, tasks, d, down'[d])
  BY <1>1, Page
<1> QED BY <1>1, <1>4, <1>8, <1>9, <1>10, ServerSide

LEMMA ImagesStoredStep ==
    ASSUME IInv, NEW k \in 1..Len(handlers), ImagesStored(k)
    PROVE  IInv'
<1>1. /\ handlers' = Done(k) /\ lives' = Ask(handlers[k])
      /\ UNCHANGED <<owner, tasks, link, outbox, up, down, sends, upsets, broken>>
  BY DEF ImagesStored, wire, bounds
<1>2. handlers[k] \in Lines(lives)
  BY DEF IInv, WiresInv
<1>3. LivesInv' /\ Grows(lives, lives')
  BY <1>1, <1>2, Asked
<1>4. lives' \in Seq(LiveRec)
  BY <1>3 DEF LivesInv
<1>5. handlers' \in Seq(Lines(lives')) /\ down' \in [Client -> Seq(Events(lives'))]
  BY <1>1, <1>3, <1>4, HandlerDone, CarriesOver
<1>6. WiresInv'
  BY <1>1, <1>3, <1>4, <1>5, WiresCarryOver
<1>7. RestInv'
  BY <1>1 DEF IInv, RestInv
<1>8. \A d \in Client : Fresh(owner, tasks, d, down'[d])
  BY <1>1, Page
<1> QED BY <1>1, <1>3, <1>6, <1>7, <1>8, ServerSide

LEMMA ImagesFailStep ==
    ASSUME IInv, NEW k \in 1..Len(handlers), ImagesFail(k)
    PROVE  IInv'
<1>1. /\ handlers' = Done(k) /\ broken' = broken \union {handlers[k].from}
      /\ UNCHANGED <<owner, tasks, link, outbox, up, down, lives, sends, upsets>>
  BY DEF ImagesFail, wire, bounds
<1>2. LivesInv' /\ Grows(lives, lives') /\ lives' \in Seq(LiveRec)
  BY <1>1, GrowsFacts DEF IInv, LivesInv, Lives
<1>3. handlers' \in Seq(Lines(lives')) /\ down' \in [Client -> Seq(Events(lives'))]
      /\ handlers[k].from \in Task
  BY <1>1, <1>2, HandlerDone, CarriesOver
<1>4. WiresInv'
  BY <1>1, <1>2, <1>3, WiresCarryOver
<1>5. RestInv'
  BY <1>1, <1>3 DEF IInv, RestInv
<1>6. \A d \in Client : Fresh(owner, tasks, d, down'[d])
  BY <1>1, Page
<1> QED BY <1>1, <1>2, <1>4, <1>5, <1>6, ServerSide

LEMMA OverKnown ==
    ASSUME NEW s \in Nat, Known(lives', s), NEW crid \in Task \union {NoTask}
    PROVE  /\ Event("over", s, crid) \in Events(lives') /\ Event("over", s, crid).type = "over"
BY DEF Event, Events, EventRec

LEMMA ReceiveInterruptStep ==
    ASSUME IInv, NEW c \in Client, ReceiveInterrupt(c)
    PROVE  IInv'
<1> DEFINE s == Head(up[c]).sid
<1>1. /\ up[c] # <<>> /\ up' = [up EXCEPT ![c] = Tail(@)]
      /\ lives' = [i \in Lives |-> IF i \in Interrupted(s)
                                   THEN [lives[i] EXCEPT !.interrupted = TRUE] ELSE lives[i]]
      /\ Broadcast(<<Event("over", s, NoTask)>>) \/ down' = down
      /\ UNCHANGED <<owner, tasks, link, outbox, handlers, sends, upsets, broken>>
  BY DEF ReceiveInterrupt, bounds
<1>2. s \in Nat /\ Known(lives, s)
  BY <1>1, Received
<1> HIDE DEF s
<1>3. LivesInv' /\ Grows(lives, lives')
  <2>1. ASSUME NEW live \in LiveRec
        PROVE  /\ [live EXCEPT !.interrupted = TRUE] \in LiveRec
               /\ [live EXCEPT !.interrupted = TRUE].sid = live.sid
               /\ [live EXCEPT !.interrupted = TRUE].on = live.on
    BY DEF LiveRec
  <2>2. \A i \in Lives : lives[i] \in LiveRec
    BY GrowsFacts
  <2>3. \A i \in Lives : /\ lives'[i] \in LiveRec /\ lives'[i].sid = lives[i].sid
                         /\ lives'[i].on = lives[i].on
    BY <1>1, <2>1, <2>2
  <2>4. lives' \in [1..Len(lives) -> LiveRec] /\ Len(lives) \in Nat
    BY <1>1, <2>3, GrowsFacts DEF Lives
  <2>5. lives' \in Seq(LiveRec) /\ Len(lives') = Len(lives)
    BY <2>4
  <2> QED BY <2>3, <2>5, SameNames
<1>4. lives' \in Seq(LiveRec)
  BY <1>3 DEF LivesInv
<1>5. Known(lives', s)
  BY <1>2, <1>3, <1>4, CarriesOver
<1>6. down' \in [Client -> Seq(Events(lives'))] /\ \A d \in Client : Fresh(owner, tasks, d, down'[d])
  <2>1. CASE Broadcast(<<Event("over", s, NoTask)>>)
    <3> DEFINE e == Event("over", s, NoTask)
    <3>1. e \in Events(lives') /\ e.type = "over"
      BY <1>2, <1>5, OverKnown
    <3> HIDE DEF e
    <3>2. <<e>> \in Seq(Events(lives')) /\ \A k \in 1..Len(<<e>>) : <<e>>[k].type = "over"
      BY <3>1
    <3>3. Broadcast(<<e>>)
      BY <2>1 DEF e
    <3> QED BY <1>3, <1>4, <3>2, <3>3, OverBroadcast
  <2>2. CASE down' = down
    BY <1>3, <1>4, <2>2, CarriesOver, Page
  <2> QED BY <1>1, <2>1, <2>2
<1>7. handlers' \in Seq(Lines(lives'))
  BY <1>1, <1>3, <1>4, CarriesOver
<1>8. WiresInv'
  BY <1>1, <1>3, <1>4, <1>6, <1>7, ReceivedWires
<1>9. RestInv'
  BY <1>1 DEF IInv, RestInv
<1> QED BY <1>1, <1>3, <1>6, <1>8, <1>9, ServerSide

LEMMA ReceiveResumeStep ==
    ASSUME IInv, NEW c \in Client, ReceiveResume(c)
    PROVE  IInv'
<1>1. /\ up[c] # <<>> /\ up' = [up EXCEPT ![c] = Tail(@)]
      /\ handlers' = Append(handlers, Head(up[c]))
      /\ UNCHANGED <<owner, tasks, link, outbox, down, lives, sends, upsets, broken>>
  BY DEF ReceiveResume, bounds
<1>2. LivesInv' /\ Grows(lives, lives') /\ lives' \in Seq(LiveRec)
  BY <1>1, GrowsFacts DEF IInv, LivesInv, Lives
<1>3. handlers' \in Seq(Lines(lives'))
  BY <1>1, Received DEF IInv, WiresInv
<1>4. down' \in [Client -> Seq(Events(lives'))]
  BY <1>1, <1>2, CarriesOver
<1>5. WiresInv'
  BY <1>1, <1>2, <1>3, <1>4, ReceivedWires
<1>6. RestInv'
  BY <1>1 DEF IInv, RestInv
<1>7. \A d \in Client : Fresh(owner, tasks, d, down'[d])
  BY <1>1, Page
<1> QED BY <1>1, <1>2, <1>5, <1>6, <1>7, ServerSide

LEMMA HistoryReadStep ==
    ASSUME IInv, NEW k \in 1..Len(handlers), HistoryRead(k)
    PROVE  IInv'
<1> DEFINE s == handlers[k].sid
<1>1. /\ handlers' = Done(k) /\ Broadcast(<<Event("over", s, NoTask)>>)
      /\ UNCHANGED <<owner, tasks, link, outbox, up, lives, sends, upsets, broken>>
  BY DEF HistoryRead, wire, bounds
<1>2. LivesInv' /\ Grows(lives, lives') /\ lives' \in Seq(LiveRec)
  BY <1>1, GrowsFacts DEF IInv, LivesInv, Lives
<1>3. handlers' \in Seq(Lines(lives')) /\ s \in Nat /\ Known(lives', s)
  BY <1>1, <1>2, HandlerDone DEF Known
<1> HIDE DEF s
<1> DEFINE e == Event("over", s, NoTask)
<1>4. e \in Events(lives') /\ e.type = "over" /\ Broadcast(<<e>>)
  BY <1>1, <1>3, OverKnown
<1> HIDE DEF e
<1>5. <<e>> \in Seq(Events(lives')) /\ \A j \in 1..Len(<<e>>) : <<e>>[j].type = "over"
  BY <1>4
<1>6. down' \in [Client -> Seq(Events(lives'))] /\ \A d \in Client : Fresh(owner, tasks, d, down'[d])
  BY <1>2, <1>4, <1>5, OverBroadcast
<1>7. WiresInv'
  BY <1>1, <1>2, <1>3, <1>6, WiresCarryOver
<1>8. RestInv'
  BY <1>1 DEF IInv, RestInv
<1> QED BY <1>1, <1>2, <1>6, <1>7, <1>8, ServerSide

-----------------------------------------------------------------------------
(* The agents                                                              *)

LEMMA TakeStep ==
    ASSUME IInv, NEW i \in Lives, Take(i)
    PROVE  IInv'
<1> DEFINE live == [lives[i] EXCEPT !.turn = TRUE, !.inbox = @ - 1]
<1>1. /\ lives' = [lives EXCEPT ![i] = live] /\ lives[i].inbox > 0
      /\ UNCHANGED <<owner, tasks, link, outbox, up, down, handlers, sends, upsets, broken>>
  BY DEF Take, wire, bounds
<1>2. live \in LiveRec /\ live.sid = lives[i].sid /\ live.on = lives[i].on
  <2>1. lives[i] \in LiveRec
    BY GrowsFacts
  <2>2. lives[i].inbox - 1 \in Nat
    BY <1>1, <2>1 DEF LiveRec
  <2> DEFINE n == lives[i].inbox - 1
  <2>3. live = [lives[i] EXCEPT !.turn = TRUE, !.inbox = n] /\ n \in Nat
    BY <2>2
  <2> HIDE DEF n, live
  <2> QED BY <2>1, <2>3 DEF LiveRec
<1> HIDE DEF live
<1>3. LivesInv' /\ Grows(lives, lives')
  BY <1>1, <1>2, OneChanges
<1>4. lives' \in Seq(LiveRec)
  BY <1>3 DEF LivesInv
<1>5. handlers' \in Seq(Lines(lives')) /\ down' \in [Client -> Seq(Events(lives'))]
  BY <1>1, <1>3, <1>4, CarriesOver
<1>6. WiresInv'
  BY <1>1, <1>3, <1>4, <1>5, WiresCarryOver
<1>7. RestInv'
  BY <1>1 DEF IInv, RestInv
<1>8. \A d \in Client : Fresh(owner, tasks, d, down'[d])
  BY <1>1, Page
<1> QED BY <1>1, <1>3, <1>6, <1>7, <1>8, ServerSide

LEMMA FirstFrameStep ==
    ASSUME IInv, NEW i \in Lives, FirstFrame(i)
    PROVE  IInv'
<1> DEFINE e == Event("created", i, lives[i].crid)
<1>1. /\ lives[i].sid = 0 /\ lives' = [lives EXCEPT ![i].sid = i] /\ Broadcast(<<e>>)
      /\ UNCHANGED <<owner, tasks, link, outbox, up, handlers, sends, upsets, broken>>
  BY DEF FirstFrame, wire, bounds
<1>2. /\ LivesInv' /\ Grows(lives, lives')
      /\ i # 0 /\ Known(lives', i) /\ ~Known(lives, i)
  BY <1>1, GetsNamed
<1>3. lives' \in Seq(LiveRec)
  BY <1>2 DEF LivesInv
<1>4. i \in Nat /\ lives[i].crid \in Task \union {NoTask}
  <2>1. lives[i] \in LiveRec /\ Len(lives) \in Nat
    BY GrowsFacts
  <2> QED BY <2>1 DEF LiveRec, Lives
<1>5. e \in Events(lives') /\ e \in EventRec /\ e.sid = i
  BY <1>2, <1>4 DEF Event, Events, EventRec
<1> HIDE DEF e
<1>6. ASSUME NEW c \in Client
      PROVE  down'[c] \in Seq(Events(lives')) /\ Fresh(owner, tasks, c, down'[c])
  <2>1. /\ down[c] \in Seq(Events(lives')) /\ down[c] \in Seq(EventRec)
        /\ Fresh(owner, tasks, c, down[c])
    BY <1>2, <1>3, CarriesOver, Page
  <2>2. down'[c] = down[c] \/ down'[c] = down[c] \o <<e>>
    BY <1>1 DEF Broadcast
  <2>3. \A t \in Task : tasks[t].session # i
    BY <1>2, TaskFacts
  <2>4. \A k \in 1..Len(down[c]) : down[c][k].sid # i
    BY <1>2, Page
  <2>5. Fresh(owner, tasks, c, down[c] \o <<e>>)
    BY <1>2, <1>5, <2>1, <2>3, <2>4, FreshCreated
  <2>6. down[c] \o <<e>> \in Seq(Events(lives'))
    BY <1>5, <2>1
  <2> QED BY <2>1, <2>2, <2>5, <2>6
<1>7. down' \in [Client -> Seq(Events(lives'))]
  <2>1. down' = [c \in Client |-> down'[c]]
    BY <1>1 DEF Broadcast
  <2> QED BY <1>6, <2>1
<1>8. handlers' \in Seq(Lines(lives'))
  BY <1>1, <1>2, <1>3, CarriesOver
<1>9. WiresInv'
  BY <1>1, <1>2, <1>3, <1>7, <1>8, WiresCarryOver
<1>10. RestInv'
  BY <1>1 DEF IInv, RestInv
<1> QED BY <1>1, <1>2, <1>6, <1>9, <1>10, ServerSide

\* The two events that end a turn.
LEMMA TurnOver ==
    ASSUME IInv, NEW i \in Lives, LivesInv', Grows(lives, lives'), Broadcast(<<Over(i), Over(i)>>),
           UNCHANGED <<owner, tasks, link, outbox, up, handlers, sends, upsets, broken>>
    PROVE  IInv'
<1> DEFINE e == Over(i)
<1>1. lives' \in Seq(LiveRec)
  BY DEF LivesInv
<1>2. lives[i].sid \in Nat /\ Known(lives', lives[i].sid)
  BY <1>1, GrowsFacts, CarriesOver DEF IInv, LivesInv
<1>3. lives[i].crid \in Task \union {NoTask}
  BY GrowsFacts DEF LiveRec
<1>4. e \in Events(lives') /\ e.type = "over"
  BY <1>2, <1>3, OverKnown DEF Over
<1>5. Broadcast(<<e, e>>)
  OBVIOUS
<1> HIDE DEF e
<1>6. <<e, e>> \in Seq(Events(lives')) /\ \A k \in 1..Len(<<e, e>>) : <<e, e>>[k].type = "over"
  BY <1>4
<1>7. down' \in [Client -> Seq(Events(lives'))] /\ \A d \in Client : Fresh(owner, tasks, d, down'[d])
  BY <1>1, <1>5, <1>6, OverBroadcast
<1>8. handlers' \in Seq(Lines(lives'))
  BY <1>1, CarriesOver
<1>9. WiresInv'
  BY <1>1, <1>7, <1>8, WiresCarryOver
<1>10. RestInv'
  BY DEF IInv, RestInv
<1> QED BY <1>7, <1>9, <1>10, ServerSide

LEMMA ResultStep ==
    ASSUME IInv, NEW i \in Lives, NEW ok \in BOOLEAN, Result(i, ok)
    PROVE  IInv'
<1> DEFINE b == ok /\ lives[i].interrupted
<1> DEFINE live == [lives[i] EXCEPT !.turn = FALSE, !.interrupted = b]
<1>1. /\ lives' = [lives EXCEPT ![i] = live] /\ Broadcast(<<Over(i), Over(i)>>)
      /\ UNCHANGED <<owner, tasks, link, outbox, up, handlers, sends, upsets, broken>>
  BY DEF Result, wire, bounds
<1>2. live \in LiveRec /\ live.sid = lives[i].sid /\ live.on = lives[i].on
  <2>1. lives[i] \in LiveRec /\ b \in BOOLEAN
    BY GrowsFacts
  <2> HIDE DEF b
  <2> QED BY <2>1 DEF LiveRec
<1> HIDE DEF live
<1>3. LivesInv' /\ Grows(lives, lives')
  BY <1>1, <1>2, OneChanges
<1> QED BY <1>1, <1>3, TurnOver

LEMMA ThrowsStep ==
    ASSUME IInv, NEW i \in Lives, Throws(i)
    PROVE  IInv'
<1> DEFINE live == [lives[i] EXCEPT !.on = FALSE, !.turn = FALSE, !.inbox = 0,
                                    !.interrupted = FALSE]
<1>1. /\ lives' = [lives EXCEPT ![i] = live] /\ Broadcast(<<Over(i), Over(i)>>)
      /\ UNCHANGED <<owner, tasks, link, outbox, up, handlers, sends, upsets, broken>>
  BY DEF Throws, wire, bounds
<1>2. live \in LiveRec /\ live.sid = lives[i].sid /\ ~live.on
  BY GrowsFacts DEF LiveRec
<1> HIDE DEF live
<1>3. LivesInv' /\ Grows(lives, lives')
  BY <1>1, <1>2, OneChanges
<1> QED BY <1>1, <1>3, TurnOver

LEMMA EndsStep ==
    ASSUME IInv, NEW i \in Lives, Ends(i)
    PROVE  IInv'
<1> DEFINE live == [lives[i] EXCEPT !.on = FALSE, !.turn = FALSE, !.inbox = 0,
                                    !.interrupted = FALSE]
<1>1. /\ lives' = [lives EXCEPT ![i] = live]
      /\ UNCHANGED <<owner, tasks, link, outbox, up, down, handlers, sends, upsets>>
      /\ broken' \in {broken, broken \union Served(i)}
  BY DEF Ends, wire, bounds
<1>2. live \in LiveRec /\ live.sid = lives[i].sid /\ ~live.on
  BY GrowsFacts DEF LiveRec
<1> HIDE DEF live
<1>3. LivesInv' /\ Grows(lives, lives')
  BY <1>1, <1>2, OneChanges
<1>4. lives' \in Seq(LiveRec)
  BY <1>3 DEF LivesInv
<1>5. handlers' \in Seq(Lines(lives')) /\ down' \in [Client -> Seq(Events(lives'))]
  BY <1>1, <1>3, <1>4, CarriesOver
<1>6. WiresInv'
  BY <1>1, <1>3, <1>4, <1>5, WiresCarryOver
<1>7. RestInv'
  <2>1. broken' \subseteq Task
    BY <1>1 DEF IInv, RestInv, Served
  <2> QED BY <1>1, <2>1 DEF IInv, RestInv
<1>8. \A d \in Client : Fresh(owner, tasks, d, down'[d])
  BY <1>1, Page
<1> QED BY <1>1, <1>3, <1>6, <1>7, <1>8, ServerSide

-----------------------------------------------------------------------------
(* The theorems                                                            *)

LEMMA Start == TranscriptsLate /\ Init => IInv
<1> SUFFICES ASSUME TranscriptsLate, Init
             PROVE  IInv
  OBVIOUS
<1>1. owner \in [Task -> Client]
  BY AgentTasksAssumption DEF Init
<1>2. LivesInv
  BY DEF Init, LivesInv, Lives
<1>3. WiresInv
  <2>1. /\ <<>> \in Seq(Lines(lives)) /\ <<>> \in Seq(Events(lives))
    OBVIOUS
  <2>2. link \subseteq Client
    BY <1>1 DEF Init
  <2> QED BY <2>1, <2>2 DEF Init, WiresInv
<1>4. RestInv
  BY <1>1, AgentTasksAssumption DEF Init, RestInv
<1>5. NewTask \in TasksOf(lives) /\ NewTask.session = 0
  BY DEF NewTask, TasksOf, TaskRec, Known
<1>6. tasks \in [Task -> TasksOf(lives)] /\ \A t \in Task : tasks[t].session = 0
  BY <1>5 DEF Init
<1>7. \A c \in Client : Fresh(owner, tasks, c, down[c])
  BY DEF Init, Fresh
<1>8. OneTaskPerSession
  BY <1>6 DEF OneTaskPerSession
<1> QED BY <1>2, <1>3, <1>4, <1>6, <1>7, <1>8 DEF IInv, TasksInv

LEMMA Stutter == ASSUME IInv, UNCHANGED vars PROVE IInv'
<1>1. UNCHANGED <<owner, tasks, link, outbox, up, down, handlers, lives, sends, upsets, broken>>
  BY DEF vars, wire, bounds
<1>2. LivesInv' /\ Grows(lives, lives')
  BY <1>1, GrowsFacts DEF IInv, LivesInv, Lives
<1>3. WiresInv' /\ RestInv'
  BY <1>1 DEF IInv, WiresInv, RestInv
<1>4. \A c \in Client : Fresh(owner, tasks, c, down'[c])
  BY <1>1, Page
<1> QED BY <1>1, <1>2, <1>3, <1>4, ServerSide

LEMMA Step == IInv /\ [Next]_vars => IInv'
<1> SUFFICES ASSUME IInv, [Next]_vars
             PROVE  IInv'
  OBVIOUS
<1>1. ASSUME NEW t \in Task, Send(t) \/ Stop(t) \/ Delete(t) \/ \E s \in Lives : Resume(t, s)
      PROVE  IInv'
  BY <1>1, SendStep, StopStep, DeleteStep, ResumeStep
<1>2. ASSUME NEW c \in Client, Deliver(c) \/ Drop(c) \/ Reopen(c)
      PROVE  IInv'
  BY <1>2, DeliverStep, SocketSteps
<1>3. ASSUME NEW c \in Client, Receive(c)
      PROVE  IInv'
  BY <1>3, ReceiveSendStep, ReceiveInterruptStep, ReceiveResumeStep DEF Receive
<1>4. ASSUME NEW k \in 1..Len(handlers), Awaited(k)
      PROVE  IInv'
  BY <1>4, ImagesStoredStep, ImagesFailStep, HistoryReadStep DEF Awaited
<1>5. ASSUME NEW i \in Lives, Progress(i) \/ Throws(i) \/ Ends(i)
      PROVE  IInv'
  BY <1>5, TakeStep, FirstFrameStep, ResultStep, ThrowsStep, EndsStep DEF Progress
<1>6. CASE UNCHANGED vars
  BY <1>6, Stutter
<1> QED BY <1>1, <1>2, <1>3, <1>4, <1>5, <1>6 DEF Next, User

LEMMA Invariant == TranscriptsLate => (Spec => []IInv)
<1> SUFFICES ASSUME TranscriptsLate
             PROVE  Spec => []IInv
  OBVIOUS
<1>1. Init => IInv
  BY Start
<1> QED BY <1>1, Step, PTL DEF Spec

\* What is bound, alive or asked for has its type, and a task that waits for
\* its session has none.
THEOREM TypeCorrect == TranscriptsLate => (Spec => []TypeOK)
<1>1. IInv => TypeOK
  <2> SUFFICES ASSUME IInv
               PROVE  TypeOK
    OBVIOUS
  <2>1. \A s \in Nat : Known(lives, s) => s \in Sid
    BY GrowsFacts DEF Known, Sid
  <2>2. ASSUME NEW t \in Task
        PROVE  /\ tasks[t] \in [open : BOOLEAN, session : Sid, pending : BOOLEAN, running : BOOLEAN]
               /\ tasks[t].pending => tasks[t].session = 0
    BY <2>1, TaskFacts DEF TaskRec
  <2>3. tasks \in [Task -> [open : BOOLEAN, session : Sid, pending : BOOLEAN, running : BOOLEAN]]
    BY <2>2 DEF IInv, TasksInv
  <2> DEFINE R == [sid : Sid, crid : Task \union {NoTask}, on : BOOLEAN,
                   inbox : Nat, turn : BOOLEAN, interrupted : BOOLEAN]
  <2>4. ASSUME NEW i \in Lives
        PROVE  lives[i] \in R
    <3>1. lives[i] \in LiveRec /\ lives[i].sid \in Sid
      BY <2>1, GrowsFacts DEF IInv, LivesInv
    <3> QED BY <3>1 DEF LiveRec
  <2> HIDE DEF R
  <2>5. lives \in Seq(R)
    <3>1. lives \in [1..Len(lives) -> R] /\ Len(lives) \in Nat
      BY <2>4, GrowsFacts DEF Lives
    <3> QED BY <3>1
  <2>6. link \subseteq Client
    BY DEF IInv, WiresInv
  <2> QED BY <2>2, <2>3, <2>5, <2>6 DEF TypeOK, IInv, RestInv, R
<1> QED BY <1>1, Invariant, PTL

\* A session has one agent at a time, if no page lists a session before
\* session:created tells it of it.
THEOREM OneAgent == TranscriptsLate => (Spec => []OneAgentPerSession)
<1>1. IInv => OneAgentPerSession
  <2> SUFFICES ASSUME IInv, NEW s \in Sid
               PROVE  Cardinality(Named(s)) <= 1
    BY DEF OneAgentPerSession
  <2>1. \A i, j \in Named(s) : i = j
    BY DEF IInv, LivesInv, Named
  <2>2. CASE Named(s) = {}
    BY <2>2, FS_EmptySet
  <2>3. CASE Named(s) # {}
    <3>1. PICK i : i \in Named(s)
      BY <2>3
    <3>2. Named(s) = {i}
      BY <2>1, <3>1
    <3> QED BY <3>2, FS_Singleton
  <2> QED BY <2>2, <2>3
<1> QED BY <1>1, Invariant, PTL

\* No two tasks of a page are bound to one session, if no page lists a session
\* before session:created tells it of it.
THEOREM OneTask == TranscriptsLate => (Spec => []OneTaskPerSession)
<1>1. IInv => OneTaskPerSession
  BY DEF IInv, TasksInv
<1> QED BY <1>1, Invariant, PTL

=============================================================================
