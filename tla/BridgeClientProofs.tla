------------------------- MODULE BridgeClientProofs -------------------------
(***************************************************************************)
(* The client's promises about closing and about answers, for any number   *)
(* of attempts, requests and selections.  Why: the timer is set only while *)
(* the client is enabled; a write that is given up unanswered was either   *)
(* never written to a socket or is reported as unknown, whatever socket it *)
(* was written to; and a write is sent only when every one queued before   *)
(* it is answered, and answers do not go away.                             *)
(***************************************************************************)
EXTENDS BridgeClient, SequenceTheorems, TLAPS

TimerInv == timer => enabled

\* A request that was queued does not go back, and is in the queue once.
QueueInv ==
    /\ \A i, j \in DOMAIN writes : writes[i] = writes[j] => i = j
    /\ \A i \in DOMAIN writes : requests[writes[i]].stage # "connecting"

IInv == TypeOK /\ TimerInv /\ QueueInv /\ AmbiguousNeverRetryable /\ WritesInTurn

-----------------------------------------------------------------------------
(* Sequences that are updated at every index *)

\* A sequence whose elements have a type has the type of such sequences.
LEMMA PointwiseSeq ==
    ASSUME NEW S, NEW T, NEW s \in Seq(S), NEW f,
           f = [i \in 1..Len(s) |-> f[i]], \A i \in 1..Len(s) : f[i] \in T
    PROVE  f \in Seq(T) /\ Len(f) = Len(s)
<1>1. Len(s) \in Nat
  OBVIOUS
<1>2. f \in [1..Len(s) -> T]
  OBVIOUS
<1> QED BY <1>1, <1>2

\* What the three ways of ending a request make is a request.
LEMMA GivenUpType ==
    ASSUME NEW q \in RequestRecord
    PROVE  /\ GivenUp(q) \in RequestRecord
           /\ GivenUp(q).effect = q.effect /\ GivenUp(q).on = q.on
           /\ q.stage = "pending" => /\ GivenUp(q).stage = "answered"
                                     /\ GivenUp(q).answer = DisconnectOutcome(q.effect)
           /\ q.stage # "pending" => GivenUp(q) = q
<1>1. DisconnectOutcome(q.effect) \in {"unknown", "unavailable"}
  BY DEF DisconnectOutcome
<1>2. CASE q.stage = "pending"
  <2> DEFINE a == DisconnectOutcome(q.effect)
  <2>1. GivenUp(q) = [q EXCEPT !.stage = "answered", !.answer = a]
    BY <1>2 DEF GivenUp
  <2> HIDE DEF a
  <2>2. a \in {"unknown", "unavailable"}
    BY <1>1 DEF a
  <2>3. /\ GivenUp(q) \in RequestRecord
        /\ GivenUp(q).effect = q.effect /\ GivenUp(q).on = q.on
        /\ GivenUp(q).stage = "answered" /\ GivenUp(q).answer = a
    BY <2>1, <2>2 DEF RequestRecord
  <2> QED BY <1>2, <2>3 DEF a
<1>3. CASE q.stage # "pending"
  BY <1>3 DEF GivenUp
<1> QED BY <1>2, <1>3

LEMMA RejectedType ==
    ASSUME requests \in Seq(RequestRecord)
    PROVE  /\ Rejected \in Seq(RequestRecord)
           /\ Len(Rejected) = Len(requests)
           /\ \A r \in Requests : Rejected[r] = GivenUp(requests[r])
<1> DEFINE f == Rejected
<1>1. f = [i \in 1..Len(requests) |-> f[i]]
  BY DEF Rejected, Requests
<1>2. \A i \in 1..Len(requests) : f[i] \in RequestRecord
  BY GivenUpType DEF Rejected, Requests
<1>3. \A r \in Requests : Rejected[r] = GivenUp(requests[r])
  BY DEF Rejected
<1> HIDE DEF f
<1>4. f \in Seq(RequestRecord) /\ Len(f) = Len(requests)
  BY <1>1, <1>2, PointwiseSeq
<1> QED BY <1>3, <1>4 DEF f

LEMMA EndedType ==
    ASSUME attempts \in Seq(AttemptRecord), NEW h, NEW d
    PROVE  /\ Ended(h, d) \in Seq(AttemptRecord) /\ Len(Ended(h, d)) = Len(attempts)
           /\ EndedBy(h, d) \in Seq(AttemptRecord) /\ Len(EndedBy(h, d)) = Len(attempts)
<1> DEFINE f == Ended(h, d)
           g == EndedBy(h, d)
<1>1. f = [i \in 1..Len(attempts) |-> f[i]] /\ g = [i \in 1..Len(attempts) |-> g[i]]
  BY DEF Ended, EndedBy, Attempts
<1>2. \A i \in 1..Len(attempts) : f[i] \in AttemptRecord /\ g[i] \in AttemptRecord
  <2> TAKE i \in 1..Len(attempts)
  <2>1. attempts[i] \in AttemptRecord
    OBVIOUS
  <2>2. f[i] \in AttemptRecord
    BY <2>1 DEF Ended, AttemptRecord, Attempts
  <2>3. g[i] \in AttemptRecord
    BY <2>1 DEF EndedBy, AttemptRecord, Attempts
  <2> QED BY <2>2, <2>3
<1> HIDE DEF f, g
<1>4. f \in Seq(AttemptRecord) /\ Len(f) = Len(attempts)
  BY <1>1, <1>2, PointwiseSeq
<1>5. g \in Seq(AttemptRecord) /\ Len(g) = Len(attempts)
  BY <1>1, <1>2, PointwiseSeq
<1> QED BY <1>4, <1>5 DEF f, g

\* What the invariant says of one request.
LEMMA RequestFacts ==
    ASSUME TypeOK
    PROVE  \A r \in Requests :
               /\ requests[r] \in RequestRecord
               /\ requests[r].on \in Nat /\ requests[r].on <= Len(attempts)
<1> TAKE r \in Requests
<1>1. requests[r] \in RequestRecord /\ requests[r].on <= Len(attempts)
  BY DEF TypeOK, Requests
<1> QED BY <1>1 DEF RequestRecord

-----------------------------------------------------------------------------
(* What the steps do to the requests *)

\* Request r goes on from where it is to `to', nothing else changes.
Moves(r, to) ==
    /\ r \in Requests
    /\ requests' = [requests EXCEPT ![r] = to]
    /\ to \in RequestRecord
    /\ to.effect = requests[r].effect
    /\ to.on <= Len(attempts')

\* A record that keeps the promise about answers.
Honest(q) ==
    q.stage = "answered" /\ q.on # None /\ q.effect = "browser_mutation"
    => q.answer \in {"bridge", "unknown"}

LEMMA Moved ==
    ASSUME IInv, NEW r \in Requests, NEW to, Moves(r, to), UNCHANGED <<attempts, writes>>,
           Honest(to), to.stage # "connecting",
           to.stage = "answered" => requests[r].stage \in {"pending", "connecting"} \/ Dispatchable(r),
           to.stage = "pending" => requests[r].stage = "connecting" \/ Dispatchable(r),
           to.stage \in {"pending", "answered"}
    PROVE  /\ requests' \in Seq(RequestRecord) /\ Len(requests') = Len(requests)
           /\ \A q \in Requests' : requests'[q].on <= Len(attempts')
           /\ writes' \in Seq(Requests')
           /\ QueueInv' /\ AmbiguousNeverRetryable' /\ WritesInTurn'
<1>1. /\ requests' \in Seq(RequestRecord) /\ Len(requests') = Len(requests)
      /\ requests'[r] = to
      /\ \A q \in Requests : q # r => requests'[q] = requests[q]
  BY DEF Moves, IInv, TypeOK, Requests
<1>2. Requests' = Requests
  BY <1>1 DEF Requests
<1>3. \A q \in Requests' : requests'[q].on <= Len(attempts')
  BY <1>1, <1>2 DEF Moves, IInv, TypeOK
<1>4. writes' \in Seq(Requests') /\ \A i \in DOMAIN writes : writes[i] \in Requests
  BY <1>2 DEF IInv, TypeOK
<1>5. QueueInv'
  BY <1>1, <1>4 DEF IInv, QueueInv
<1>6. AmbiguousNeverRetryable'
  BY <1>1, <1>2 DEF IInv, AmbiguousNeverRetryable, Honest
<1>7. WritesInTurn'
  <2> SUFFICES ASSUME NEW i \in DOMAIN writes, NEW j \in DOMAIN writes, i < j,
                      requests'[writes[i]].stage # "answered"
               PROVE  requests'[writes[j]].stage = "queued"
    BY DEF WritesInTurn
  <2>1. writes[i] # writes[j] /\ i \in Nat /\ j \in Nat
    BY DEF IInv, TypeOK, QueueInv
  <2>2. writes[i] \in Requests /\ writes[j] \in Requests
    BY <1>4
  <2>3. requests[writes[i]].stage # "answered" => requests[writes[j]].stage = "queued"
    BY DEF IInv, WritesInTurn
  <2>4. requests[writes[i]].stage # "connecting" /\ requests[writes[j]].stage # "connecting"
    BY DEF IInv, QueueInv
  <2>5. requests[writes[i]].stage # "answered"
    BY <1>1, <2>2, <2>4 DEF Dispatchable
  <2>6. writes[j] # r
    BY <2>3, <2>4, <2>5 DEF Dispatchable
  <2> QED BY <1>1, <2>2, <2>3, <2>5, <2>6
<1> QED BY <1>1, <1>3, <1>4, <1>5, <1>6, <1>7

\* What the requests and the queue owe: the part of the invariant on them.
RequestsOK ==
    /\ requests \in Seq(RequestRecord)
    /\ writes \in Seq(Requests)
    /\ \A r \in Requests : requests[r].on <= Len(attempts)
    /\ QueueInv /\ AmbiguousNeverRetryable /\ WritesInTurn

\* Requests that stay as they are stay in order.
LEMMA Kept ==
    ASSUME IInv, UNCHANGED <<requests, writes>>, Len(attempts') >= Len(attempts),
           Len(attempts') \in Nat, Len(attempts) \in Nat
    PROVE  RequestsOK'
<1>1. \A r \in Requests : requests[r].on \in Nat /\ requests[r].on <= Len(attempts)
  BY RequestFacts DEF IInv
<1>2. \A r \in Requests : requests[r].on <= Len(attempts')
  BY <1>1
<1> QED BY <1>2 DEF IInv, TypeOK, RequestsOK, Requests, QueueInv, AmbiguousNeverRetryable, WritesInTurn

\* Rejecting what is pending keeps every request honest.
LEMMA RejectedKeeps ==
    ASSUME IInv, requests' = Rejected, UNCHANGED writes, Len(attempts') = Len(attempts)
    PROVE  RequestsOK'
<1>1. /\ requests' \in Seq(RequestRecord) /\ Len(requests') = Len(requests)
      /\ \A r \in Requests : requests'[r] = GivenUp(requests[r])
      /\ \A r \in Requests : requests[r] \in RequestRecord
  BY RejectedType DEF IInv, TypeOK, Requests
<1>2. Requests' = Requests
  BY <1>1 DEF Requests
<1>3. \A r \in Requests :
        /\ requests'[r].effect = requests[r].effect /\ requests'[r].on = requests[r].on
        /\ requests[r].stage = "pending" =>
             requests'[r].stage = "answered" /\ requests'[r].answer = DisconnectOutcome(requests[r].effect)
        /\ requests[r].stage # "pending" => requests'[r] = requests[r]
  BY <1>1, GivenUpType
<1>4. writes' \in Seq(Requests') /\ \A i \in DOMAIN writes : writes[i] \in Requests
  BY <1>2 DEF IInv, TypeOK
<1>5. \A r \in Requests' : requests'[r].on <= Len(attempts')
  BY <1>2, <1>3 DEF IInv, TypeOK
<1>6. QueueInv'
  BY <1>3, <1>4 DEF IInv, QueueInv
<1>7. AmbiguousNeverRetryable'
  BY <1>2, <1>3 DEF IInv, AmbiguousNeverRetryable, DisconnectOutcome
<1>8. WritesInTurn'
  BY <1>3, <1>4 DEF IInv, WritesInTurn
<1> QED BY <1>1, <1>4, <1>5, <1>6, <1>7, <1>8 DEF RequestsOK

\* A new request keeps the queue and the order of the writes.
LEMMA RequestKeeps ==
    ASSUME IInv, NEW effect \in Effects, NEW queued \in BOOLEAN, Request(effect, queued)
    PROVE  IInv'
<1>1. PICK a \in 0..(Len(attempts) + 1) :
        /\ requests' = Append(requests, NewRequest(effect, queued, a))
        /\ \/ Usable /\ a = None /\ UNCHANGED <<attempts, connection>>
           \/ /\ ~Usable /\ connection # None /\ a = connection
              /\ UNCHANGED <<attempts, connection>>
           \/ /\ ~Usable /\ connection = None
              /\ Len(attempts) < MaxAttempts
              /\ a = Len(attempts) + 1
              /\ attempts' = Connect
              /\ connection' = a
  BY DEF Request
<1> DEFINE q == NewRequest(effect, queued, a)
<1>2. /\ Len(attempts) \in Nat /\ connection \in Nat /\ connection <= Len(attempts)
      /\ socket \in Nat /\ socket <= Len(attempts) /\ route \in Nat /\ enabled' = TRUE
      /\ UNCHANGED <<route, socket, authenticated, suppress, timer, writes, selections>>
  BY DEF IInv, TypeOK, Request
<1>3. /\ attempts' \in Seq(AttemptRecord) /\ Len(attempts') >= Len(attempts) /\ Len(attempts') \in Nat
      /\ connection' \in Nat /\ connection' <= Len(attempts')
      /\ a \in Nat /\ a <= Len(attempts')
  <2>1. CASE UNCHANGED <<attempts, connection>> /\ a <= Len(attempts)
    BY <1>2, <2>1 DEF IInv, TypeOK
  <2>2. CASE attempts' = Connect /\ connection' = a /\ a = Len(attempts) + 1
    <3>1. NewAttempt(route) \in AttemptRecord
      BY <1>2 DEF AttemptRecord, NewAttempt
    <3> QED BY <1>2, <2>2, <3>1 DEF IInv, TypeOK, Connect
  <2> QED BY <1>1, <1>2, <2>1, <2>2 DEF None
<1>4. q \in RequestRecord
  BY <1>3 DEF RequestRecord, NewRequest
<1> HIDE DEF q
<1>5. /\ requests' = Append(requests, q) /\ requests' \in Seq(RequestRecord)
      /\ Len(requests') = Len(requests) + 1 /\ Len(requests) \in Nat
      /\ \A r \in Requests : requests'[r] = requests[r]
      /\ requests'[Len(requests) + 1] = q
  BY <1>1, <1>4 DEF q, IInv, TypeOK, Requests
<1>6. Requests' = Requests \union {Len(requests) + 1}
  BY <1>5 DEF Requests
<1>7. writes' \in Seq(Requests') /\ \A i \in DOMAIN writes : writes[i] \in Requests
  BY <1>2, <1>6 DEF IInv, TypeOK
<1>8. q.on = a /\ q.stage = "connecting"
  BY DEF q, NewRequest
<1>9. \A r \in Requests : requests[r].on \in Nat /\ requests[r].on <= Len(attempts)
  BY RequestFacts DEF IInv
<1>10. \A r \in Requests' : requests'[r].on <= Len(attempts')
  <2> TAKE r \in Requests'
  <2>1. CASE r \in Requests
    <3>1. requests'[r].on = requests[r].on
      BY <1>5, <2>1
    <3>2. requests[r].on \in Nat /\ requests[r].on <= Len(attempts)
      BY <1>9, <2>1
    <3>3. Len(attempts) \in Nat /\ Len(attempts') \in Nat /\ Len(attempts) <= Len(attempts')
      BY <1>2, <1>3
    <3> QED BY <3>1, <3>2, <3>3
  <2>2. CASE r = Len(requests) + 1
    BY <1>3, <1>5, <1>8, <2>2
  <2> QED BY <1>6, <2>1, <2>2
<1>11. /\ writes' = writes /\ DOMAIN writes' = DOMAIN writes
       /\ \A i \in DOMAIN writes : requests'[writes'[i]] = requests[writes[i]]
  BY <1>2, <1>5, <1>7
<1>14. QueueInv'
  <2>1. QueueInv
    BY DEF IInv
  <2> QED BY <1>11, <2>1 DEF QueueInv
<1>15. WritesInTurn'
  <2>1. WritesInTurn
    BY DEF IInv
  <2> QED BY <1>11, <2>1 DEF WritesInTurn
<1>12. AmbiguousNeverRetryable'
  BY <1>5, <1>6, <1>8 DEF IInv, AmbiguousNeverRetryable
<1>13. TypeOK'
  <2>1. {route, socket, connection}' \subseteq Nat /\ socket' <= Len(attempts')
    BY <1>2, <1>3
  <2>2. {authenticated, suppress, enabled, timer}' \subseteq BOOLEAN
    BY <1>2, Zenon DEF IInv, TypeOK
  <2>3. selections' \in Seq(SelectionRecord)
    BY <1>2 DEF IInv, TypeOK
  <2> QED BY <1>3, <1>5, <1>7, <1>10, <2>1, <2>2, <2>3 DEF TypeOK
<1> QED BY <1>2, <1>12, <1>13, <1>14, <1>15 DEF IInv, TimerInv

LEMMA InitInv == Init => IInv
<1> SUFFICES ASSUME Init PROVE IInv
  OBVIOUS
<1>1. Requests = {} /\ Len(attempts) = 0 /\ DOMAIN writes = {} /\ selections \in Seq(SelectionRecord)
  BY DEF Init, Requests
<1>2. TypeOK
  <2>1. attempts = <<>> /\ requests = <<>> /\ writes = <<>>
    BY DEF Init
  <2>2. {route, socket, connection} \subseteq Nat /\ socket = 0 /\ connection = 0
    BY DEF Init, None
  <2>3. {authenticated, suppress, enabled, timer} \subseteq BOOLEAN
    BY Zenon DEF Init
  <2> QED BY <1>1, <2>1, <2>2, <2>3 DEF TypeOK
<1> QED BY <1>1, <1>2 DEF Init, IInv, TimerInv, QueueInv, AmbiguousNeverRetryable, WritesInTurn

-----------------------------------------------------------------------------
(* Promise reactions, timers and answers *)

LEMMA LinkKept ==
    ASSUME IInv, UNCHANGED <<link, selections>>, RequestsOK'
    PROVE  IInv'
BY Zenon DEF IInv, link, TypeOK, TimerInv, RequestsOK

\* Writing a request keeps it honest: one that reaches no socket says so.
LEMMA WrittenMoves ==
    ASSUME IInv, NEW r \in Requests, requests[r].stage = "connecting" \/ Dispatchable(r),
           requests' = Written(r), UNCHANGED <<attempts, writes>>
    PROVE  RequestsOK'
<1> DEFINE q == requests[r]
           sent == [q EXCEPT !.stage = "pending", !.on = socket]
           lost == [q EXCEPT !.stage = "answered", !.answer = "unavailable", !.on = None]
<1>1. q \in RequestRecord /\ socket \in Nat /\ socket <= Len(attempts) /\ Len(attempts) \in Nat
  BY RequestFacts DEF IInv, TypeOK
<1>2. requests' = [requests EXCEPT ![r] = sent] \/ requests' = [requests EXCEPT ![r] = lost]
  BY DEF Written
<1> HIDE DEF q
<1>3. /\ sent \in RequestRecord /\ sent.stage = "pending" /\ sent.on = socket
      /\ sent.effect = q.effect
  BY <1>1 DEF RequestRecord
<1>4. /\ lost \in RequestRecord /\ lost.stage = "answered" /\ lost.on = 0
      /\ lost.effect = q.effect
  BY <1>1 DEF RequestRecord, None
<1> HIDE DEF sent, lost
<1>5. CASE requests' = [requests EXCEPT ![r] = sent]
  BY <1>1, <1>3, <1>5, Moved DEF Moves, Honest, q, RequestsOK
<1>6. CASE requests' = [requests EXCEPT ![r] = lost]
  <2>1. Moves(r, lost)
    BY <1>1, <1>4, <1>6 DEF Moves, q, IInv, TypeOK
  <2>2. Honest(lost)
    BY <1>4 DEF Honest, None
  <2> QED BY <1>4, <2>1, <2>2, Moved DEF RequestsOK
<1> QED BY <1>2, <1>5, <1>6

\* An answer from the bridge, or the answer of the timer.
LEMMA AnsweredMoves ==
    ASSUME IInv, NEW r \in Requests, requests[r].stage = "pending",
           NEW how \in {"bridge", "timeout", "unknown"},
           how = "timeout" => requests[r].effect # "browser_mutation",
           requests' = Answered(r, how), UNCHANGED <<attempts, writes>>
    PROVE  RequestsOK'
<1> DEFINE q == requests[r]
           to == [q EXCEPT !.stage = "answered", !.answer = how]
<1>1. q \in RequestRecord /\ q.on \in Nat /\ q.on <= Len(attempts)
  BY RequestFacts DEF IInv
<1>2. requests' = [requests EXCEPT ![r] = to]
  BY DEF Answered
<1> HIDE DEF q
<1>3. /\ to \in RequestRecord /\ to.stage = "answered" /\ to.on = q.on
      /\ to.effect = q.effect /\ to.answer = how
  BY <1>1 DEF RequestRecord
<1> HIDE DEF to
<1>4. Honest(to)
  BY <1>3 DEF Honest, q
<1>5. Moves(r, to)
  BY <1>1, <1>2, <1>3 DEF Moves, q
<1> QED BY <1>3, <1>4, <1>5, Moved DEF RequestsOK

\* One lemma for each action: the invariant is kept.
LEMMA ResumeKeeps == ASSUME IInv, NEW r \in Requests, Resume(r) PROVE IInv'
<1> DEFINE q == requests[r]
           refused == [q EXCEPT !.stage = "answered", !.answer = "unavailable", !.on = None]
           waiting == [q EXCEPT !.stage = "queued", !.on = None]
<1>1. q \in RequestRecord /\ q.stage = "connecting" /\ UNCHANGED <<attempts, link, selections>>
  BY RequestFacts DEF IInv, Resume, Resumable, link
<1>2. \/ requests' = [requests EXCEPT ![r] = refused] /\ UNCHANGED writes
      \/ requests' = [requests EXCEPT ![r] = waiting] /\ writes' = Append(writes, r)
      \/ requests' = Written(r) /\ UNCHANGED writes
  BY DEF Resume, Answered
<1> HIDE DEF q
<1>3. /\ refused \in RequestRecord /\ refused.stage = "answered" /\ refused.on = 0
      /\ refused.effect = q.effect
      /\ waiting \in RequestRecord /\ waiting.stage = "queued" /\ waiting.on = 0
  BY <1>1 DEF RequestRecord, None
<1> HIDE DEF refused, waiting
<1>4. CASE requests' = [requests EXCEPT ![r] = refused] /\ UNCHANGED writes
  <2>1. Honest(refused) /\ Moves(r, refused)
    BY <1>1, <1>3, <1>4 DEF Honest, Moves, q, None, IInv, TypeOK
  <2>2. RequestsOK'
    BY <1>1, <1>3, <1>4, <2>1, Moved DEF q, RequestsOK
  <2> QED BY <1>1, <2>2, LinkKept
<1>5. CASE requests' = Written(r) /\ UNCHANGED writes
  BY <1>1, <1>5, WrittenMoves, LinkKept DEF q
<1>6. CASE requests' = [requests EXCEPT ![r] = waiting] /\ writes' = Append(writes, r)
  <2>1. /\ requests' \in Seq(RequestRecord) /\ Len(requests') = Len(requests)
        /\ requests'[r] = waiting
        /\ \A p \in Requests : p # r => requests'[p] = requests[p]
    BY <1>3, <1>6 DEF IInv, TypeOK, Requests
  <2>2. Requests' = Requests
    BY <2>1 DEF Requests
  <2>3. writes' \in Seq(Requests') /\ \A i \in DOMAIN writes : writes[i] \in Requests
    BY <1>6, <2>2 DEF IInv, TypeOK
  <2>4. \A p \in Requests' : requests'[p].on <= Len(attempts')
    BY <1>1, <1>3, <2>1, <2>2, RequestFacts DEF IInv, TypeOK
  <2>5. AmbiguousNeverRetryable'
    BY <1>3, <2>1, <2>2 DEF IInv, AmbiguousNeverRetryable
  <2>6. \A i \in DOMAIN writes : writes[i] # r /\ requests'[writes[i]] = requests[writes[i]]
    BY <1>1, <2>1, <2>3 DEF IInv, QueueInv, q
  <2>7. /\ DOMAIN writes = 1..Len(writes) /\ DOMAIN writes' = 1..(Len(writes) + 1)
        /\ \A i \in DOMAIN writes : writes'[i] = writes[i]
        /\ writes'[Len(writes) + 1] = r /\ Len(writes) \in Nat
    BY <1>6 DEF IInv, TypeOK
  <2>8. QueueInv'
    BY <1>3, <2>1, <2>6, <2>7 DEF IInv, QueueInv
  <2>9. WritesInTurn'
    BY <1>3, <2>1, <2>6, <2>7 DEF IInv, WritesInTurn
  <2>10. RequestsOK'
    BY <2>1, <2>3, <2>4, <2>5, <2>8, <2>9 DEF RequestsOK
  <2> QED BY <1>1, <2>10, LinkKept
<1> QED BY <1>2, <1>4, <1>5, <1>6

-----------------------------------------------------------------------------
(* Calls and events on the connection *)

\* What is left to show of a step on the connection.
LinkOK ==
    /\ attempts \in Seq(AttemptRecord)
    /\ selections \in Seq(SelectionRecord)
    /\ {route, socket, connection} \subseteq Nat
    /\ {authenticated, suppress, enabled, timer} \subseteq BOOLEAN
    /\ socket <= Len(attempts)
    /\ connection <= Len(attempts)
    /\ TimerInv

\* The two halves make the invariant.
LEMMA Together == LinkOK' /\ RequestsOK' => IInv'
BY Zenon DEF LinkOK, RequestsOK, IInv, TypeOK

\* What the invariant says of the link.
LEMMA LinkFacts ==
    ASSUME IInv
    PROVE  /\ attempts \in Seq(AttemptRecord) /\ Len(attempts) \in Nat
           /\ route \in Nat /\ socket \in Nat /\ connection \in Nat
           /\ socket <= Len(attempts) /\ connection <= Len(attempts)
           /\ authenticated \in BOOLEAN /\ suppress \in BOOLEAN
           /\ enabled \in BOOLEAN /\ timer \in BOOLEAN
           /\ timer => enabled
           /\ selections \in Seq(SelectionRecord)
BY DEF IInv, TypeOK, TimerInv

LEMMA ResetKeeps ==
    ASSUME IInv, NEW on \in BOOLEAN, Reset(on), on => enabled', route' \in Nat,
           enabled' \in BOOLEAN, UNCHANGED writes, selections' \in Seq(SelectionRecord)
    PROVE  IInv'
<1>1. attempts' \in Seq(AttemptRecord) /\ Len(attempts') = Len(attempts)
  BY LinkFacts, EndedType DEF Reset
<1>2. RequestsOK'
  BY <1>1, RejectedKeeps DEF Reset
<1>3. {route, socket, connection}' \subseteq Nat /\ socket' <= Len(attempts') /\ connection' <= Len(attempts')
  BY <1>1, LinkFacts DEF Reset, Unlink, None
<1>4. authenticated' \in BOOLEAN /\ suppress' \in BOOLEAN /\ timer' \in BOOLEAN /\ (timer' => enabled')
  BY Zenon DEF Reset, Unlink
<1> QED BY <1>1, <1>2, <1>3, <1>4, Together DEF LinkOK, TimerInv

\* The events of a socket.
LEMMA EventKeeps ==
    ASSUME IInv, UNCHANGED <<route, enabled, requests, writes, selections>>,
           attempts' \in Seq(AttemptRecord), Len(attempts') >= Len(attempts),
           socket' \in Nat, socket' <= Len(attempts'),
           connection' \in Nat, connection' <= Len(attempts'),
           authenticated' \in BOOLEAN, suppress' \in BOOLEAN, timer' \in BOOLEAN,
           timer' => enabled
    PROVE  IInv'
<1>1. Len(attempts') \in Nat /\ Len(attempts) \in Nat
  BY LinkFacts
<1>2. RequestsOK'
  BY <1>1, Kept
<1>3. {route, socket, connection}' \subseteq Nat
  BY LinkFacts
<1>4. {authenticated, suppress, enabled, timer}' \subseteq BOOLEAN /\ TimerInv'
  BY LinkFacts, Zenon DEF TimerInv
<1>5. selections' \in Seq(SelectionRecord)
  BY LinkFacts
<1> QED BY <1>2, <1>3, <1>4, <1>5, Together DEF LinkOK

LEMMA AttemptKeeps ==
    ASSUME IInv, NEW a \in Attempts,
           Opened(a) \/ NotOpened(a) \/ Welcomed(a) \/ HelloFails(a) \/ Drop(a) \/ Closed(a)
    PROVE  IInv'
<1>1. a \in Nat /\ a <= Len(attempts) /\ Len(attempts) \in Nat
  BY LinkFacts DEF Attempts
<1>2. Reconnecting(enabled) \in BOOLEAN /\ (Reconnecting(enabled) => enabled)
  BY LinkFacts DEF Reconnecting
<1>3. CASE Opened(a)
  <2>1. attempts' \in Seq(AttemptRecord) /\ Len(attempts') = Len(attempts)
    <3>1. attempts[a] \in AttemptRecord
      BY LinkFacts DEF Attempts
    <3>2. [attempts[a] EXCEPT !.stage = "hello", !.life = "open"] \in AttemptRecord
      BY <3>1 DEF AttemptRecord
    <3>3. attempts' = [attempts EXCEPT ![a] = [attempts[a] EXCEPT !.stage = "hello", !.life = "open"]]
      BY <1>3 DEF Opened
    <3> QED BY <3>2, <3>3, LinkFacts DEF Attempts
  <2> QED BY <1>1, <1>3, <2>1, LinkFacts, EventKeeps DEF Opened
<1>4. CASE NotOpened(a) \/ Welcomed(a)
  <2>1. attempts' \in Seq(AttemptRecord) /\ Len(attempts') = Len(attempts)
    <3>1. attempts[a] \in AttemptRecord
      BY LinkFacts DEF Attempts
    <3>2. \A st \in {"failed", "done"} : [attempts[a] EXCEPT !.stage = st] \in AttemptRecord
      BY <3>1 DEF AttemptRecord
    <3>3. PICK st \in {"failed", "done"} : attempts' = [attempts EXCEPT ![a] = [attempts[a] EXCEPT !.stage = st]]
      BY <1>4 DEF NotOpened, Welcomed
    <3> QED BY <3>2, <3>3, LinkFacts DEF Attempts
  <2>2. socket' = socket /\ connection' = 0 /\ suppress' = suppress /\ UNCHANGED <<route, enabled, requests, writes, selections>>
    BY <1>4 DEF NotOpened, Welcomed, None
  <2>3. authenticated' \in BOOLEAN /\ timer' \in BOOLEAN /\ (timer' => enabled)
    <3>1. authenticated' = authenticated \/ authenticated' = TRUE
      BY <1>4 DEF NotOpened, Welcomed
    <3>2. timer' = timer \/ timer' = Reconnecting(enabled)
      BY <1>4 DEF NotOpened, Welcomed
    <3>3. authenticated' \in BOOLEAN
      BY <3>1, LinkFacts, Zenon
    <3>4. CASE timer' = timer
      BY <3>3, <3>4, LinkFacts, Zenon
    <3>5. CASE timer' = Reconnecting(enabled)
      BY <1>2, <3>3, <3>5, Zenon
    <3> QED BY <3>2, <3>4, <3>5, Zenon
  <2> QED BY <1>1, <2>1, <2>2, <2>3, LinkFacts, EventKeeps
<1>5. CASE HelloFails(a)
  <2>1. attempts' \in Seq(AttemptRecord) /\ Len(attempts') = Len(attempts)
    BY <1>5, LinkFacts, EndedType DEF HelloFails
  <2>2. /\ socket' = 0 /\ connection' = 0 /\ authenticated' = FALSE /\ suppress' = TRUE
        /\ timer' = Reconnecting(enabled) /\ UNCHANGED <<route, enabled, requests, writes, selections>>
    BY <1>5 DEF HelloFails, None
  <2>3. /\ authenticated' \in BOOLEAN /\ suppress' \in BOOLEAN
        /\ timer' \in BOOLEAN /\ (timer' => enabled)
    BY <1>2, <2>2, Zenon
  <2>4. /\ socket' \in Nat /\ socket' <= Len(attempts') /\ Len(attempts') >= Len(attempts)
        /\ connection' \in Nat /\ connection' <= Len(attempts')
    BY <1>1, <2>1, <2>2
  <2> QED BY <2>1, <2>2, <2>3, <2>4, EventKeeps, Zenon
<1>6. CASE Drop(a)
  <2>1. attempts' \in Seq(AttemptRecord) /\ Len(attempts') = Len(attempts)
    BY <1>6, LinkFacts, EndedType DEF Drop
  <2> QED BY <1>1, <1>6, <2>1, LinkFacts, EventKeeps DEF Drop
<1>7. CASE Closed(a)
  <2>1. attempts' \in Seq(AttemptRecord) /\ Len(attempts') = Len(attempts)
    BY <1>7, LinkFacts, EndedType DEF Closed
  <2>2. CASE suppress
    <3>1. suppress' = FALSE /\ UNCHANGED <<socket, connection, authenticated, timer>>
          /\ UNCHANGED <<route, enabled, requests, writes, selections>>
      BY <1>7, <2>2 DEF Closed
    <3>2. /\ authenticated' \in BOOLEAN /\ suppress' \in BOOLEAN
          /\ timer' \in BOOLEAN /\ (timer' => enabled)
      BY <3>1, LinkFacts, Zenon
    <3>3. /\ socket' \in Nat /\ socket' <= Len(attempts') /\ Len(attempts') >= Len(attempts)
          /\ connection' \in Nat /\ connection' <= Len(attempts')
      BY <1>1, <2>1, <3>1, LinkFacts
    <3> QED BY <2>1, <3>1, <3>2, <3>3, EventKeeps, Zenon
  <2>3. CASE ~suppress
    <3>1. /\ socket' = 0 /\ connection' \in {connection, 0} /\ requests' = Rejected
          /\ UNCHANGED <<route, enabled, writes, selections>>
      BY <1>7, <2>3 DEF Closed, None
    <3>2. /\ authenticated' \in BOOLEAN /\ suppress' \in BOOLEAN
          /\ timer' \in BOOLEAN /\ (timer' => enabled)
      BY <1>2, <1>7, <2>3 DEF Closed
    <3>3. RequestsOK'
      BY <2>1, <3>1, RejectedKeeps
    <3>4. LinkOK'
      BY <2>1, <3>1, <3>2, LinkFacts DEF LinkOK, TimerInv
    <3> QED BY <3>3, <3>4, Together
  <2> QED BY <2>2, <2>3, LinkFacts
<1> QED BY <1>3, <1>4, <1>5, <1>6, <1>7

LEMMA TimerKeeps == ASSUME IInv, ReconnectTimer PROVE IInv'
<1>0. /\ timer' = FALSE
      /\ UNCHANGED <<route, enabled, requests, writes, selections, socket, authenticated, suppress>>
  BY DEF ReconnectTimer
<1>a. /\ authenticated' \in BOOLEAN /\ suppress' \in BOOLEAN
      /\ timer' \in BOOLEAN /\ (timer' => enabled)
  BY <1>0, LinkFacts, Zenon
<1>1. CASE UNCHANGED <<attempts, connection>>
  <2>1. /\ attempts' \in Seq(AttemptRecord) /\ Len(attempts') >= Len(attempts)
        /\ socket' \in Nat /\ socket' <= Len(attempts')
        /\ connection' \in Nat /\ connection' <= Len(attempts')
    BY <1>0, <1>1, LinkFacts
  <2> QED BY <1>0, <1>a, <2>1, EventKeeps, Zenon
<1>2. CASE attempts' = Connect /\ connection' = Len(attempts) + 1
  <2>1. NewAttempt(route) \in AttemptRecord
    BY LinkFacts DEF AttemptRecord, NewAttempt
  <2>2. attempts' \in Seq(AttemptRecord) /\ Len(attempts') = Len(attempts) + 1
    BY <1>2, <2>1, LinkFacts DEF Connect
  <2>3. /\ Len(attempts') >= Len(attempts)
        /\ socket' \in Nat /\ socket' <= Len(attempts')
        /\ connection' \in Nat /\ connection' <= Len(attempts')
    BY <1>0, <1>2, <2>2, LinkFacts
  <2> QED BY <1>0, <1>a, <2>2, <2>3, EventKeeps, Zenon
<1> QED BY <1>1, <1>2 DEF ReconnectTimer

\* A selection goes on.
LEMMA SelectionKept ==
    ASSUME IInv, NEW s \in Selections, NEW n \in Nat,
           NEW stage \in {"resolving", "checking", "selected", "over"}
    PROVE  /\ [selections EXCEPT ![s].stage = stage] \in Seq(SelectionRecord)
           /\ [selections EXCEPT ![s].stage = stage, ![s].request = n] \in Seq(SelectionRecord)
           /\ selections[s].from \in Nat
<1> DEFINE q == selections[s]
<1>1. q \in SelectionRecord /\ selections \in Seq(SelectionRecord) /\ s \in 1..Len(selections)
  BY LinkFacts DEF Selections
<1> HIDE DEF q
<1>2. /\ [q EXCEPT !.stage = stage] \in SelectionRecord
      /\ [q EXCEPT !.stage = stage, !.request = n] \in SelectionRecord
      /\ q.from \in Nat
  BY <1>1 DEF SelectionRecord
<1>3. /\ [selections EXCEPT ![s].stage = stage] = [selections EXCEPT ![s] = [q EXCEPT !.stage = stage]]
      /\ [selections EXCEPT ![s].stage = stage, ![s].request = n]
           = [selections EXCEPT ![s] = [q EXCEPT !.stage = stage, !.request = n]]
  BY <1>1 DEF q
<1> QED BY <1>1, <1>2, <1>3 DEF q

\* The configuration is remembered,
LEMMA SelectKeeps == ASSUME IInv, Select PROVE IInv'
<1> DEFINE q == [from |-> route, request |-> 0, stage |-> "resolving"]
<1>1. q \in SelectionRecord
  BY LinkFacts DEF SelectionRecord
<1>2. selections' \in Seq(SelectionRecord)
  BY <1>1, LinkFacts DEF Select
<1>3. RequestsOK' /\ UNCHANGED link
  BY LinkFacts, Kept DEF Select, link
<1>4. LinkOK'
  BY <1>2, <1>3, LinkFacts DEF link, LinkOK, TimerInv
<1> QED BY <1>3, <1>4, Together

\* put back or confirmed,
LEMMA VerdictKeeps ==
    ASSUME IInv, NEW s \in Selections, NotSelected(s) \/ Selected(s)
    PROVE  IInv'
<1>1. CASE NotSelected(s)
  <2>1. selections' \in Seq(SelectionRecord) /\ route' \in Nat
    BY <1>1, SelectionKept DEF NotSelected
  <2>2. Reset(enabled) /\ enabled' = enabled /\ UNCHANGED writes
    BY <1>1 DEF NotSelected
  <2> QED BY <2>1, <2>2, LinkFacts, ResetKeeps
<1>2. CASE Selected(s)
  <2>1. selections' \in Seq(SelectionRecord) /\ UNCHANGED <<link, requests, writes>>
    BY <1>2, SelectionKept DEF Selected
  <2>2. RequestsOK'
    BY <2>1, LinkFacts, Kept DEF link
  <2>3. LinkOK'
    BY <2>1, LinkFacts DEF link, LinkOK, TimerInv
  <2> QED BY <2>2, <2>3, Together
<1> QED BY <1>1, <1>2

\* and replaced, which rejects what is pending and asks the new bridge.
LEMMA ResolvedKeeps ==
    ASSUME IInv, NEW s \in Selections, Resolved(s)
    PROVE  IInv'
<1> DEFINE e == Ended(Greeting, {socket})
<1> DEFINE n == Len(attempts) + 1
<1> DEFINE q == NewRequest("passive_read", FALSE, n)
<1>1. e \in Seq(AttemptRecord) /\ Len(e) = Len(attempts) /\ Len(attempts) \in Nat
  BY LinkFacts, EndedType
<1>2. NewAttempt(s) \in AttemptRecord /\ s \in Nat
  <2>1. s \in Nat
    BY DEF Selections
  <2> QED BY <2>1 DEF NewAttempt, AttemptRecord
<1>3. attempts' = Append(e, NewAttempt(s)) /\ requests' = Append(Rejected, q)
  BY DEF Resolved
<1> HIDE DEF e
<1>4. attempts' \in Seq(AttemptRecord) /\ Len(attempts') = n
  BY <1>1, <1>2, <1>3
<1>5. /\ Rejected \in Seq(RequestRecord) /\ Len(Rejected) = Len(requests)
      /\ \A r \in Requests : Rejected[r] = GivenUp(requests[r]) /\ requests[r] \in RequestRecord
  BY RejectedType DEF IInv, TypeOK, Requests
<1>6. q \in RequestRecord /\ q.on = n /\ q.stage = "connecting"
  BY <1>1 DEF q, NewRequest, RequestRecord, Effects
<1> HIDE DEF q
<1>7. /\ requests' \in Seq(RequestRecord) /\ Len(requests') = Len(requests) + 1 /\ Len(requests) \in Nat
      /\ \A r \in Requests : requests'[r] = GivenUp(requests[r])
      /\ requests'[Len(requests) + 1] = q
  BY <1>3, <1>5, <1>6 DEF IInv, TypeOK, Requests
<1>8. Requests' = Requests \union {Len(requests) + 1}
  BY <1>7 DEF Requests
<1>9. \A r \in Requests :
        /\ requests'[r].effect = requests[r].effect /\ requests'[r].on = requests[r].on
        /\ requests[r].stage = "pending" =>
             requests'[r].stage = "answered" /\ requests'[r].answer = DisconnectOutcome(requests[r].effect)
        /\ requests[r].stage # "pending" => requests'[r] = requests[r]
  BY <1>5, <1>7, GivenUpType
<1>10. writes' = writes /\ writes' \in Seq(Requests') /\ \A i \in DOMAIN writes : writes[i] \in Requests
  BY <1>8 DEF IInv, TypeOK, Resolved
<1>11. \A r \in Requests' : requests'[r].on <= Len(attempts')
  <2>1. \A r \in Requests : requests[r].on \in Nat /\ requests[r].on <= Len(attempts)
    BY RequestFacts DEF IInv
  <2>2. \A r \in Requests : requests'[r].on <= n
    BY <1>1, <1>9, <2>1
  <2> QED BY <1>1, <1>4, <1>6, <1>7, <1>8, <2>2
<1>12. QueueInv'
  BY <1>9, <1>10 DEF IInv, QueueInv
<1>13. AmbiguousNeverRetryable'
  BY <1>6, <1>7, <1>8, <1>9 DEF IInv, AmbiguousNeverRetryable, DisconnectOutcome
<1>14. WritesInTurn'
  BY <1>9, <1>10 DEF IInv, WritesInTurn
<1>15. RequestsOK'
  BY <1>7, <1>10, <1>11, <1>12, <1>13, <1>14 DEF RequestsOK
<1>16. selections' \in Seq(SelectionRecord)
  <2> DEFINE m == Len(requests) + 1
  <2>1. m \in Nat
    BY <1>7
  <2>2. selections' = [selections EXCEPT ![s].stage = "checking", ![s].request = m]
    BY DEF Resolved
  <2> HIDE DEF m
  <2> QED BY <2>1, <2>2, SelectionKept
<1>17. /\ route' = s /\ socket' = 0 /\ connection' \in {n, 0} /\ enabled' = TRUE
       /\ authenticated' = FALSE
  BY DEF Resolved, Unlink, None
<1>18. suppress' \in BOOLEAN /\ timer' \in BOOLEAN
  BY Zenon DEF Resolved, Unlink
<1>19. LinkOK'
  <2>1. {route, socket, connection}' \subseteq Nat /\ socket' <= Len(attempts') /\ connection' <= Len(attempts')
    BY <1>1, <1>2, <1>4, <1>17
  <2>2. {authenticated, suppress, enabled, timer}' \subseteq BOOLEAN /\ TimerInv'
    BY <1>17, <1>18, Zenon DEF TimerInv
  <2> QED BY <1>4, <1>16, <2>1, <2>2 DEF LinkOK
<1> QED BY <1>15, <1>19, Together

\* Every step keeps the invariant.
LEMMA NextInv == IInv /\ [Next]_vars => IInv'
<1> SUFFICES ASSUME IInv, [Next]_vars PROVE IInv'
  OBVIOUS
<1>1. ASSUME NEW effect \in Effects, NEW queued \in BOOLEAN, Request(effect, queued) PROVE IInv'
  BY <1>1, RequestKeeps
<1>2. CASE Select
  BY <1>2, SelectKeeps
<1>3. CASE Clear \/ Close
  <2>1. PICK on \in BOOLEAN :
          /\ Reset(on) /\ (on => enabled') /\ enabled' \in BOOLEAN
          /\ route' \in {0, route} /\ UNCHANGED <<writes, selections>>
    <3>1. CASE Clear
      BY <3>1, LinkFacts DEF Clear
    <3>2. CASE Close
      BY <3>2 DEF Close
    <3> QED BY <1>3, <3>1, <3>2
  <2> QED BY <2>1, LinkFacts, ResetKeeps
<1>11. ASSUME NEW s \in Selections, Resolved(s) PROVE IInv'
  BY <1>11, ResolvedKeeps
<1>12. ASSUME NEW s \in Selections, NotSelected(s) \/ Selected(s) PROVE IInv'
  BY <1>12, VerdictKeeps
<1>4. CASE ReconnectTimer
  BY <1>4, TimerKeeps
<1>5. ASSUME NEW r \in Requests, Resume(r) PROVE IInv'
  BY <1>5, ResumeKeeps
<1>6. ASSUME NEW r \in Requests, Dispatch(r) PROVE IInv'
  BY <1>6, WrittenMoves, LinkKept DEF Dispatch, link
<1>7. ASSUME NEW r \in Requests, RequestTimer(r) PROVE IInv'
  <2>1. /\ TimeoutOutcome(requests[r].effect) \in {"bridge", "timeout", "unknown"}
        /\ TimeoutOutcome(requests[r].effect) = "timeout" => requests[r].effect # "browser_mutation"
    BY DEF TimeoutOutcome
  <2> QED BY <1>7, <2>1, AnsweredMoves, LinkKept DEF RequestTimer, link
<1>8. ASSUME NEW r \in Requests, Response(r) PROVE IInv'
  BY <1>8, AnsweredMoves, LinkKept DEF Response, link
<1>9. ASSUME NEW a \in Attempts,
             Opened(a) \/ NotOpened(a) \/ Welcomed(a) \/ HelloFails(a) \/ Drop(a) \/ Closed(a)
      PROVE  IInv'
  BY <1>9, AttemptKeeps
<1>10. CASE UNCHANGED vars
  <2>1. UNCHANGED <<link, selections>> /\ UNCHANGED <<requests, writes, attempts>>
    BY <1>10 DEF vars, link
  <2>2. RequestsOK'
    BY <2>1, LinkFacts, Kept
  <2> QED BY <2>1, <2>2, LinkKept
<1> QED BY <1>1, <1>2, <1>3, <1>4, <1>5, <1>6, <1>7, <1>8, <1>9, <1>10, <1>11, <1>12 DEF Next

LEMMA Invariant == Spec => []IInv
<1> QED BY InitInv, NextInv, PTL DEF Spec

-----------------------------------------------------------------------------
(* The theorems *)

\* The client's variables keep their types, and no request or pointer refers to
\* an attempt that was not made.
THEOREM TypeCorrect == Spec => []TypeOK
<1>1. IInv => TypeOK
  BY DEF IInv
<1> QED BY <1>1, Invariant, PTL

\* A write to the page that was written to a socket is answered by the bridge or
\* reported as unknown, never as retryable (rejectPending, requestOnce).
THEOREM Ambiguity == Spec => []AmbiguousNeverRetryable
<1>1. IInv => AmbiguousNeverRetryable
  BY DEF IInv
<1> QED BY <1>1, Invariant, PTL

\* The writes of the tab wait for their answers one at a time, in the order in
\* which they were queued (PerTabWriteQueue).
THEOREM Turns == Spec => []WritesInTurn
<1>1. IInv => WritesInTurn
  BY DEF IInv
<1> QED BY <1>1, Invariant, PTL

\* A closed client connects to nothing until its next request (close,
\* scheduleReconnect).
THEOREM StaysClosed == Spec => ClosedStaysClosed
<1>1. IInv /\ [Next]_vars => [~enabled /\ ~enabled' => Len(attempts') = Len(attempts)]_vars
  <2> SUFFICES ASSUME IInv, Next, ~enabled, ~enabled' PROVE Len(attempts') = Len(attempts)
    BY Zenon
  <2>1. ~timer /\ attempts \in Seq(AttemptRecord) /\ Len(attempts) \in Nat
    BY LinkFacts
  <2>2. ASSUME NEW effect \in Effects, NEW queued \in BOOLEAN, Request(effect, queued) PROVE FALSE
    BY <2>2, Zenon DEF Request
  <2>3. CASE Select \/ Clear \/ Close \/ \E s \in Selections : NotSelected(s) \/ Selected(s)
    BY <2>1, <2>3, EndedType DEF Select, Clear, Close, NotSelected, Selected, Reset, link
  <2>7. ASSUME NEW s \in Selections, Resolved(s) PROVE FALSE
    BY <2>7, Zenon DEF Resolved
  <2>4. CASE ReconnectTimer
    BY <2>1, <2>4 DEF ReconnectTimer
  <2>5. ASSUME NEW r \in Requests,
               Resume(r) \/ Dispatch(r) \/ RequestTimer(r) \/ Response(r)
        PROVE  attempts' = attempts
    BY <2>5 DEF Resume, Dispatch, RequestTimer, Response, link
  <2>6. ASSUME NEW a \in Attempts,
               Opened(a) \/ NotOpened(a) \/ Welcomed(a) \/ HelloFails(a) \/ Drop(a) \/ Closed(a)
        PROVE  Len(attempts') = Len(attempts)
    <3>1. CASE Opened(a) \/ NotOpened(a) \/ Welcomed(a)
      BY <2>1, <3>1 DEF Opened, NotOpened, Welcomed
    <3>2. CASE HelloFails(a) \/ Drop(a) \/ Closed(a)
      BY <2>1, <3>2, EndedType DEF HelloFails, Drop, Closed
    <3> QED BY <2>6, <3>1, <3>2
  <2> QED BY <2>2, <2>3, <2>4, <2>5, <2>6, <2>7 DEF Next
<1> QED BY <1>1, Invariant, PTL DEF Spec, ClosedStaysClosed
=============================================================================
