------------------------ MODULE IdentitySessionProofs ------------------------
(***************************************************************************)
(* When two browsers of an identity run at once, for any number of         *)
(* starters and stoppers.                                                  *)
(* Why: a browser that counts is Held: the lock names its session, and as  *)
(* long as the lock has the pid of the starter, the starter is at a step   *)
(* before promote.  The lock of a held browser can only be taken away by   *)
(* somebody who has read another file: who archives has seen the lock of   *)
(* the dead, who stops has seen the browser die, who aborts has only its   *)
(* own browser to answer for.                                              *)
(***************************************************************************)
EXTENDS IdentitySession, TLAPS

\* Steps before the browser is spawned, and all steps of IdentityRuntime.start.
Before == {"open", "read", "check", "archive", "write", "spawn"}
StartSteps ==
    Before \union Unrecorded \union {"record", "wait", "release", "unlink", "fail"}

\* Only starters start, and the sessions whose pid is in a receipt or a lock had
\* a browser.
StepsInv ==
    /\ \A p \in Proc : pc[p] \in StartSteps => p \in Starter
    /\ \A p \in Starter : pc[p] \in Before \union {"idle"} => browser[p] = "none"
    /\ \A p \in Proc : pc[p] \in Unrecorded \union {"record", "wait"} => browser[p] # "none"
    /\ receipt # NoFile /\ receipt.state # "failed" => browser[receipt.of] # "none"

TInv == TypeOK /\ StepsInv

\* A lock that may be archived: its process is dead.
Stale(file) ==
    \/ file.phase = "running" /\ browser[file.of] = "dead"
    \/ file.phase = "starting" /\ (file.of \in Starter => pc[file.of] \in Ended)

\* What is known of the file at the step that acts on it.
SeenInv ==
    \A p \in Proc :
        /\ pc[p] = "check" =>
              /\ seen[p].phase # "blank"
              /\ seen[p].phase = "running" => browser[seen[p].of] # "none"
        /\ pc[p] = "archive" => Stale(seen[p])
        /\ pc[p] \in {"replace", "unlink"} => seen[p].of = p
        /\ pc[p] = "stopunlink" => seen[p].of = target[p]
        /\ pc[p] \in {"release", "unlink"} => browser[p] # "live" \/ p \in loose
        /\ pc[p] \in {"matchdead", "stoprelease", "stopunlink"} => browser[target[p]] = "dead"

\* A promoted lock has the pid of a browser.
LockInv == lock # NoFile /\ lock.phase = "running" => browser[lock.of] # "none"

Held(s) ==
    /\ lock # NoFile /\ lock.of = s /\ lock.phase # "blank"
    /\ lock.phase = "starting" => s \in Starter /\ pc[s] \in Unrecorded

HeldInv ==
    ~lost =>
        /\ \A s \in Session : browser[s] = "live" => s \in loose \/ Held(s)
        /\ \A p \in Proc : pc[p] = "write" => lock = Lock(p, "blank")
        /\ \A p \in Proc : pc[p] = "spawn" => lock = Lock(p, "starting")

IInv == TInv /\ SeenInv /\ LockInv /\ HeldInv

-----------------------------------------------------------------------------
LEMMA LockFields ==
    ASSUME NEW s \in Session, NEW phase \in {"blank", "starting", "running"}
    PROVE  /\ Lock(s, phase) \in Locks /\ Lock(s, phase) # NoFile
           /\ Lock(s, phase).of = s /\ Lock(s, phase).phase = phase
BY IdentityAssumption DEF Lock, Locks

\* A lock names its process, and is not the absence of one.
LEMMA LocksAre ==
    ASSUME NEW f \in Locks
    PROVE  f.of \in Session /\ f.phase \in {"blank", "starting", "running"} /\ f # NoFile
BY IdentityAssumption DEF Lock, Locks

(* Types                                                                   *)

\* Every step of a process keeps the types.
LEMMA TypeStep ==
    ASSUME TInv, NEW p \in Proc, Starting(p) \/ Stopping(p) \/ Crash(p)
    PROVE  TInv'
<1> USE DEF TInv, TypeOK, StepsInv, StartSteps, Before, Unrecorded, Steps, StopSteps,
           Ended,
           Goto, Acting, Acted, ghosts, disk, Session, Proc
<1>1. CASE Start(p)
  BY <1>1 DEF Start
<1>2. CASE OpenLock(p)
  BY <1>2, LockFields DEF OpenLock
<1>3. CASE WriteLock(p)
  BY <1>3, LockFields DEF WriteLock
<1>4. CASE ReadLock(p)
  BY <1>4 DEF ReadLock
<1>5. CASE ArchiveStale(p)
  <2>1. lost' \in BOOLEAN
    BY <1>5, Zenon DEF ArchiveStale, Unseen
  <2> QED BY <1>5, <2>1 DEF ArchiveStale, Unseen
<1>6. CASE SpawnBrowser(p)
  BY <1>6 DEF SpawnBrowser
<1>7. CASE CheckPromote(p)
  BY <1>7 DEF CheckPromote, Mine
<1>8. CASE Promote(p)
  BY <1>8, LockFields DEF Promote, Unseen
<1>9. CASE Record(p)
  BY <1>9 DEF Record
<1>10. CASE AbortTerminate(p)
  BY <1>10 DEF AbortTerminate
<1>11. CASE AbortRead(p)
  BY <1>11 DEF AbortRead, Mine
<1>12. CASE AbortUnlink(p)
  BY <1>12 DEF AbortUnlink
<1>13. CASE RecordFailure(p)
  BY <1>13 DEF RecordFailure
<1>14. CASE Supervise(p)
  BY <1>14 DEF Supervise
<1>15. CASE Stop(p)
  BY <1>15 DEF Stop
<1>16. CASE LoadReceipt(p)
  BY <1>16 DEF LoadReceipt
<1>17. CASE ProbeBrowser(p)
  BY <1>17 DEF ProbeBrowser
<1>18. CASE MatchLive(p)
  BY <1>18 DEF MatchLive
<1>19. CASE MatchDead(p)
  BY <1>19 DEF MatchDead, Mine
<1>20. CASE StopTerminate(p)
  BY <1>20 DEF StopTerminate
<1>21. CASE StopRead(p)
  BY <1>21 DEF StopRead, Mine
<1>22. CASE StopUnlink(p)
  <2>1. lost' \in BOOLEAN
    BY <1>22, Zenon DEF StopUnlink, Unseen
  <2> QED BY <1>22, <2>1 DEF StopUnlink, Unseen
<1>23. CASE StopRecord(p)
  BY <1>23 DEF StopRecord
<1>24. CASE Crash(p)
  BY <1>24 DEF Crash
<1>25. CASE CheckLock(p)
  BY <1>25, LocksAre DEF CheckLock, Alive
<1>26. CASE CheckBrowser(p)
  BY <1>26 DEF CheckBrowser
<1> QED BY <1>1, <1>2, <1>3, <1>4, <1>5, <1>6, <1>7, <1>8, <1>9, <1>10, <1>11, <1>12,
          <1>13, <1>14, <1>15, <1>16, <1>17, <1>18, <1>19, <1>20, <1>21, <1>22,
          <1>23, <1>24, <1>25, <1>26
         DEF Starting, Stopping, Acquire

(* What a step has seen                                                    *)

\* The dead stay dead, so a file that was stale when it was read stays stale.
LEMMA SeenStep ==
    ASSUME IInv, TInv', NEW p \in Proc, Starting(p) \/ Stopping(p) \/ Crash(p)
    PROVE  (SeenInv /\ LockInv)'
<1> USE DEF IInv, TInv, TypeOK, StepsInv, SeenInv, LockInv, Stale, StartSteps, Before,
           Unrecorded, Steps, StopSteps, Ended,
           Goto, Acting, Acted, ghosts, disk, Session, Proc
<1>1. CASE Start(p)
  BY <1>1 DEF Start
<1>2. CASE OpenLock(p)
  BY <1>2, LockFields DEF OpenLock
<1>3. CASE WriteLock(p)
  BY <1>3, LockFields DEF WriteLock
<1>4. CASE ReadLock(p)
  BY <1>4 DEF ReadLock
<1>5. CASE ArchiveStale(p)
  BY <1>5 DEF ArchiveStale, Unseen
<1>6. CASE SpawnBrowser(p)
  BY <1>6, LocksAre DEF SpawnBrowser
<1>7. CASE CheckPromote(p)
  BY <1>7 DEF CheckPromote, Mine
<1>8. CASE Promote(p)
  BY <1>8, LockFields DEF Promote, Unseen
<1>9. CASE Record(p)
  BY <1>9 DEF Record
<1>10. CASE AbortTerminate(p)
  BY <1>10, LocksAre DEF AbortTerminate
<1>11. CASE AbortRead(p)
  BY <1>11 DEF AbortRead, Mine
<1>12. CASE AbortUnlink(p)
  BY <1>12 DEF AbortUnlink
<1>13. CASE RecordFailure(p)
  BY <1>13 DEF RecordFailure
<1>14. CASE Supervise(p)
  BY <1>14 DEF Supervise
<1>15. CASE Stop(p)
  BY <1>15 DEF Stop
<1>16. CASE LoadReceipt(p)
  BY <1>16 DEF LoadReceipt
<1>17. CASE ProbeBrowser(p)
  BY <1>17 DEF ProbeBrowser
<1>18. CASE MatchLive(p)
  BY <1>18 DEF MatchLive
<1>19. CASE MatchDead(p)
  BY <1>19 DEF MatchDead, Mine
<1>20. CASE StopTerminate(p)
  BY <1>20, LocksAre DEF StopTerminate
<1>21. CASE StopRead(p)
  BY <1>21 DEF StopRead, Mine
<1>22. CASE StopUnlink(p)
  BY <1>22 DEF StopUnlink, Unseen
<1>23. CASE StopRecord(p)
  BY <1>23 DEF StopRecord
<1>24. CASE Crash(p)
  BY <1>24 DEF Crash
<1>25. CASE CheckLock(p)
  BY <1>25, LocksAre DEF CheckLock, Alive
<1>26. CASE CheckBrowser(p)
  BY <1>26 DEF CheckBrowser
<1> QED BY <1>1, <1>2, <1>3, <1>4, <1>5, <1>6, <1>7, <1>8, <1>9, <1>10, <1>11, <1>12,
          <1>13, <1>14, <1>15, <1>16, <1>17, <1>18, <1>19, <1>20, <1>21, <1>22,
          <1>23, <1>24, <1>25, <1>26
         DEF Starting, Stopping, Acquire

(* The lock of a browser that counts                                       *)

\* Promote, AbortUnlink, ArchiveStale and StopUnlink change the lock after they
\* have read it: SeenInv says whose browser they put an end to.
LEMMA HeldStep ==
    ASSUME IInv, TInv', SeenInv', LockInv', NEW p \in Proc,
           Starting(p) \/ Stopping(p) \/ Crash(p)
    PROVE  HeldInv'
<1> USE DEF IInv, TInv, TypeOK, StepsInv, SeenInv, LockInv, HeldInv, Held, Stale,
           StartSteps, Before, Unrecorded, Steps, StopSteps, Ended,
           Goto, Acting, Acted, ghosts, disk, Session, Proc
<1>1. CASE Start(p)
  BY <1>1 DEF Start
<1>2. CASE OpenLock(p)
  BY <1>2, LockFields DEF OpenLock
<1>3. CASE WriteLock(p)
  BY <1>3, LockFields DEF WriteLock
<1>4. CASE ReadLock(p)
  BY <1>4 DEF ReadLock
<1>5. CASE ArchiveStale(p)
  BY <1>5, LockFields DEF ArchiveStale, Unseen
<1>6. CASE SpawnBrowser(p)
  BY <1>6, LockFields DEF SpawnBrowser
<1>7. CASE CheckPromote(p)
  BY <1>7 DEF CheckPromote, Mine
<1>8. CASE Promote(p)
  <2> SUFFICES ASSUME ~lost' PROVE HeldInv'
    BY DEF HeldInv
  <2>0. ~lost /\ lock = seen[p]
    BY <1>8, Zenon DEF Promote, Unseen
  <2>1. ~lost /\ lock = seen[p] /\ lock.of = p
    BY <1>8, <2>0 DEF Promote
  <2>2. p \in Starter /\ pc'[p] = "record"
    BY <1>8 DEF Promote
  <2>3. lock' = Lock(p, "running") /\ UNCHANGED <<browser, loose>>
    BY <1>8 DEF Promote
  <2>4. \A s \in Session : browser'[s] = "live" => s \in loose' \/ Held(s)'
    BY <2>1, <2>2, <2>3, LockFields
  <2>5. \A q \in Proc : pc'[q] \notin {"write", "spawn"}
    BY <1>8, <2>1, LockFields DEF Promote
  <2> QED BY <2>4, <2>5
<1>9. CASE Record(p)
  BY <1>9 DEF Record
<1>10. CASE AbortTerminate(p)
  BY <1>10 DEF AbortTerminate
<1>11. CASE AbortRead(p)
  BY <1>11 DEF AbortRead, Mine
<1>12. CASE AbortUnlink(p)
  <2> SUFFICES ASSUME ~lost' PROVE HeldInv'
    BY DEF HeldInv
  <2>1. ~lost /\ lock \in {seen[p], NoFile} /\ seen[p].of = p
    BY <1>12 DEF AbortUnlink
  <2>2. UNCHANGED <<browser, loose>>
    BY <1>12 DEF AbortUnlink
  <2>3. \A s \in Session : browser[s] = "live" => s \in loose
    BY <1>12, <2>1 DEF AbortUnlink
  <2>4. \A q \in Proc : pc'[q] \notin {"write", "spawn"}
    BY <1>12, <2>1, LockFields DEF AbortUnlink
  <2> QED BY <2>2, <2>3, <2>4
<1>13. CASE RecordFailure(p)
  BY <1>13 DEF RecordFailure
<1>14. CASE Supervise(p)
  BY <1>14 DEF Supervise
<1>15. CASE Stop(p)
  BY <1>15 DEF Stop
<1>16. CASE LoadReceipt(p)
  BY <1>16 DEF LoadReceipt
<1>17. CASE ProbeBrowser(p)
  BY <1>17 DEF ProbeBrowser
<1>18. CASE MatchLive(p)
  BY <1>18 DEF MatchLive
<1>19. CASE MatchDead(p)
  BY <1>19 DEF MatchDead, Mine
<1>20. CASE StopTerminate(p)
  BY <1>20 DEF StopTerminate
<1>21. CASE StopRead(p)
  BY <1>21 DEF StopRead, Mine
<1>22. CASE StopUnlink(p)
  BY <1>22, LockFields DEF StopUnlink, Unseen
<1>23. CASE StopRecord(p)
  BY <1>23 DEF StopRecord
<1>24. CASE Crash(p)
  BY <1>24 DEF Crash
<1>25. CASE CheckLock(p)
  BY <1>25, LocksAre DEF CheckLock, Alive
<1>26. CASE CheckBrowser(p)
  BY <1>26 DEF CheckBrowser
<1> QED BY <1>1, <1>2, <1>3, <1>4, <1>5, <1>6, <1>7, <1>8, <1>9, <1>10, <1>11, <1>12,
          <1>13, <1>14, <1>15, <1>16, <1>17, <1>18, <1>19, <1>20, <1>21, <1>22,
          <1>23, <1>24, <1>25, <1>26
         DEF Starting, Stopping, Acquire

\* A browser that dies, and a step that changes nothing.
LEMMA DiesStep ==
    ASSUME IInv, NEW s \in Session, BrowserDies(s)
    PROVE  IInv'
BY DEF BrowserDies, IInv, TInv, TypeOK, StepsInv, SeenInv, LockInv, HeldInv, Held, Stale,
       StartSteps, Before, Unrecorded, Steps, StopSteps, Ended, ghosts, disk, Session, Proc

LEMMA StutterStep ==
    ASSUME IInv, UNCHANGED vars
    PROVE  IInv'
BY DEF vars, IInv, TInv, TypeOK, StepsInv, SeenInv, LockInv, HeldInv, Held, Stale, ghosts, disk

\* The invariant holds at first, and every step keeps it.
LEMMA Initially == Init => IInv
<1> SUFFICES ASSUME Init PROVE IInv
  OBVIOUS
<1> USE LockFields, IdentityAssumption DEF Init, Session, Proc
<1>1. PICK was \in {"none", "live", "dead"} :
          /\ browser = [s \in Session |-> IF s = Old THEN was ELSE "none"]
          /\ lock = IF was = "none" THEN NoFile ELSE Lock(Old, "running")
          /\ receipt = IF was = "none" THEN NoFile ELSE [of |-> Old, state |-> "running"]
  OBVIOUS
<1>2. TypeOK
  BY <1>1 DEF TypeOK, Steps, StopSteps
<1>3. receipt # NoFile => was # "none" /\ receipt.of = Old
  BY <1>1
<1>4. StepsInv
  BY <1>1, <1>3 DEF StepsInv, StartSteps, Before, Unrecorded
<1>5. SeenInv /\ LockInv
  BY <1>1 DEF SeenInv, LockInv
<1>6. HeldInv
  BY <1>1 DEF HeldInv, Held
<1> QED BY <1>2, <1>4, <1>5, <1>6 DEF IInv, TInv

LEMMA Step == IInv /\ [Next]_vars => IInv'
<1> SUFFICES ASSUME IInv, [Next]_vars PROVE IInv'
  OBVIOUS
<1>1. CASE UNCHANGED vars
  BY <1>1, StutterStep
<1>2. ASSUME NEW p \in Proc, Starting(p) \/ Stopping(p) \/ Crash(p) PROVE IInv'
  <2>1. TInv'
    BY <1>2, TypeStep DEF IInv
  <2>2. SeenInv' /\ LockInv'
    BY <1>2, <2>1, SeenStep
  <2>3. HeldInv'
    BY <1>2, <2>1, <2>2, HeldStep
  <2> QED BY <2>1, <2>2, <2>3 DEF IInv
<1>3. ASSUME NEW s \in Session, BrowserDies(s) PROVE IInv'
  BY <1>3, DiesStep
<1> QED BY <1>1, <1>2, <1>3 DEF Next

LEMMA Inductive == Spec => []IInv
BY Initially, Step, PTL DEF Spec

-----------------------------------------------------------------------------
(* The results.                                                            *)

\* The files, the processes and what they remember keep their types.
THEOREM TypeCorrect == Spec => []TypeOK
<1>1. IInv => TypeOK
  BY DEF IInv, TInv
<1> QED BY <1>1, Inductive, PTL

\* Whenever two browsers of the identity run at once, a lock file was removed or
\* replaced other than the one that had been read, or one of the two was left
\* behind by a crash or a failed termination: there is no third way.
THEOREM SharedOnlyThroughGaps == Spec => []OneBrowserWhileChecksHold
<1>1. IInv => OneBrowserWhileChecksHold
  BY DEF IInv, HeldInv, Held, OneBrowserWhileChecksHold
<1> QED BY <1>1, Inductive, PTL

=============================================================================
