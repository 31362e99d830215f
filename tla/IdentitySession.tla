--------------------------- MODULE IdentitySession ---------------------------
(***************************************************************************)
(* One managed identity: its lock file (identity/lock.ts), its receipt and *)
(* its browser (identity/session.ts, session-supervisor.ts), as the        *)
(* processes that start and stop it (identity-cli, the desktop console)    *)
(* see them.  A step is one access to the disk or one call on a process:   *)
(* two processes interleave between any two of them.                       *)
(*                                                                         *)
(* Names: the lock, the receipt and the browser of a session are named by  *)
(* the process that started it.  Left out: DevToolsActivePort, the bridge  *)
(* artifacts, and a write of a receipt or of a promoted lock that fails.   *)
(***************************************************************************)
EXTENDS Naturals

CONSTANTS
    Starter,    \* processes that run SessionSupervisor.start
    Stopper,    \* processes that run stop
    Old,        \* the starter of the session that is found on the disk
    NoFile

Session == Starter \union {Old}
Proc == Starter \union Stopper

\* A lock is blank between openSync and writeFileSync; its pid is that of the
\* starter until promote writes that of the browser.
Lock(s, phase) == [of |-> s, phase |-> phase]
Locks == {Lock(s, phase) : s \in Session, phase \in {"blank", "starting", "running"}}

ASSUME IdentityAssumption ==
    /\ Old \notin Proc /\ Starter \cap Stopper = {}
    /\ NoFile \notin Session /\ NoFile \notin Locks

VARIABLES
    pc,         \* what each process is about to do
    seen,       \* the lock file it last read
    target,     \* stop: the session whose receipt it loaded
    lock,       \* session.lock.json
    receipt,    \* session-receipt.json
    browser,    \* the browser of each session
    loose,      \* browsers that nobody answers for any more
    lost        \* a lock file was removed or replaced other than the one read

disk == <<lock, receipt>>
ghosts == <<loose, lost>>
vars == <<pc, seen, target, disk, browser, ghosts>>

-----------------------------------------------------------------------------
Ended == {"refused", "failed", "started", "stopped", "crashed"}

\* Mutant of Alive: the process that is still starting does not count.
AliveRunningOnly(file) == file.phase = "running" /\ browser[file.of] = "live"

\* isAlive(lock.pid).
Alive(file) ==
    IF file.phase = "running" THEN browser[file.of] = "live"
    ELSE file.of \in Starter /\ pc[file.of] \notin Ended

Goto(p, step) == pc' = [pc EXCEPT ![p] = step]

\* What p has read is kept for the step that acts on it.
Acting(p, step, sound) ==
    /\ Goto(p, step)
    /\ seen' = [seen EXCEPT ![p] = IF sound THEN lock ELSE NoFile]
Acted(p) == seen' = [seen EXCEPT ![p] = NoFile]

\* release asks for the lock id.
Mine(file, s) == file # NoFile /\ file.phase # "blank" /\ file.of = s

\* Ghost: the file at the path is not the one that was read.
Unseen(p) == lost' = (lost \/ lock # seen[p])

-----------------------------------------------------------------------------
(* IdentityLockManager.acquire.                                            *)

\* openSync 'wx'.
OpenLock(p) ==
    /\ pc[p] = "open"
    /\ IF lock = NoFile THEN lock' = Lock(p, "blank") /\ Goto(p, "write")
       ELSE UNCHANGED lock /\ Goto(p, "read")
    /\ UNCHANGED <<seen, target, receipt, browser, ghosts>>

\* writeFileSync to the descriptor: the file may be elsewhere by now.
WriteLock(p) ==
    /\ pc[p] = "write"
    /\ lock' = IF lock = Lock(p, "blank") THEN Lock(p, "starting") ELSE lock
    /\ Goto(p, "spawn")
    /\ UNCHANGED <<seen, target, receipt, browser, ghosts>>

\* A file that vanishes between existsSync and the read is corrupt, too.
ReadLock(p) ==
    /\ pc[p] = "read"
    /\ IF lock = NoFile
       THEN (Goto(p, "open") \/ Goto(p, "refused")) /\ UNCHANGED seen
       ELSE IF lock.phase = "blank" THEN Acting(p, "refused", FALSE)
       ELSE Acting(p, "check", TRUE)
    /\ UNCHANGED <<target, disk, browser, ghosts>>

\* isAlive of the pid that was read.
CheckLock(p) ==
    /\ pc[p] = "check"
    /\ IF Alive(seen[p]) THEN Acting(p, "refused", FALSE)
       ELSE Goto(p, "archive") /\ UNCHANGED seen
    /\ UNCHANGED <<target, disk, browser, ghosts>>

\* Mutant of ArchiveStale: the stale lock is copied, not renamed.
ArchiveCopies(p) ==
    /\ pc[p] = "archive"
    /\ Goto(p, "open") /\ Acted(p)
    /\ UNCHANGED <<target, disk, browser, ghosts>>

\* archiveStale renames what is at the path now.
ArchiveStale(p) ==
    /\ pc[p] = "archive"
    /\ IF lock = NoFile THEN Goto(p, "refused") /\ UNCHANGED <<lock, lost>>
       ELSE Goto(p, "open") /\ lock' = NoFile /\ Unseen(p)
    /\ Acted(p)
    /\ UNCHANGED <<target, receipt, browser, loose>>

-----------------------------------------------------------------------------
(* IdentityRuntime.start.                                                  *)

Start(p) ==
    /\ pc[p] = "idle" /\ p \in Starter
    /\ Goto(p, "open")
    /\ UNCHANGED <<seen, target, disk, browser, ghosts>>

SpawnBrowser(p) ==
    /\ pc[p] = "spawn"
    /\ \/ browser' = [browser EXCEPT ![p] = "live"] /\ Goto(p, "promote")
       \/ UNCHANGED browser /\ Goto(p, "release")
    /\ UNCHANGED <<seen, target, disk, ghosts>>

\* isAlive(pid) of what was spawned.
CheckBrowser(p) ==
    /\ pc[p] = "promote"
    /\ Goto(p, IF browser[p] = "live" THEN "verify" ELSE "terminate")
    /\ UNCHANGED <<seen, target, disk, browser, ghosts>>

\* promote reads the lock.
CheckPromote(p) ==
    /\ pc[p] = "verify"
    /\ IF Mine(lock, p) THEN Acting(p, "replace", TRUE)
       ELSE Acting(p, "terminate", FALSE)
    /\ UNCHANGED <<target, disk, browser, ghosts>>

\* promote writes the path, whatever is there.
Promote(p) ==
    /\ pc[p] = "replace"
    /\ lock' = Lock(p, "running") /\ Unseen(p)
    /\ Goto(p, "record") /\ Acted(p)
    /\ UNCHANGED <<target, receipt, browser, loose>>

Record(p) ==
    /\ pc[p] = "record"
    /\ receipt' = [of |-> p, state |-> "running"]
    /\ Goto(p, "wait")
    /\ UNCHANGED <<seen, target, lock, browser, ghosts>>

\* The catch of start: terminate the browser (a failure is swallowed), release
\* the lock (so is its refusal) and record the failure over any receipt.
AbortTerminate(p) ==
    /\ pc[p] = "terminate"
    /\ \/ /\ browser' = [browser EXCEPT ![p] = "dead"]
          /\ UNCHANGED loose
       \/ /\ UNCHANGED browser
          /\ loose' = loose \union {p}
    /\ Goto(p, "release")
    /\ UNCHANGED <<seen, target, disk, lost>>

AbortRead(p) ==
    /\ pc[p] = "release"
    /\ IF Mine(lock, p) THEN Acting(p, "unlink", TRUE) ELSE Acting(p, "fail", FALSE)
    /\ UNCHANGED <<target, disk, browser, ghosts>>

AbortUnlink(p) ==
    /\ pc[p] = "unlink"
    /\ lock' = NoFile
    /\ lost' = (lost \/ lock \notin {seen[p], NoFile})
    /\ Goto(p, "fail") /\ Acted(p)
    /\ UNCHANGED <<target, receipt, browser, loose>>

RecordFailure(p) ==
    /\ pc[p] = "fail"
    /\ receipt' = [of |-> p, state |-> "failed"]
    /\ Goto(p, "failed")
    /\ UNCHANGED <<seen, target, lock, browser, ghosts>>

\* SessionSupervisor.start: the endpoint, the extension and the bridge come up
\* in time, or failAndStop stops the identity.
Supervise(p) ==
    /\ pc[p] = "wait"
    /\ Goto(p, "started") \/ Goto(p, "load")
    /\ UNCHANGED <<seen, target, disk, browser, ghosts>>

-----------------------------------------------------------------------------
(* IdentityRuntime.stop.                                                   *)

Stop(p) ==
    /\ pc[p] = "idle" /\ p \in Stopper
    /\ Goto(p, "load")
    /\ UNCHANGED <<seen, target, disk, browser, ghosts>>

\* Mutant of LoadReceipt: a failed start is stopped like a running one.
LoadAnyReceipt(p) ==
    /\ pc[p] = "load"
    /\ IF receipt = NoFile THEN Goto(p, "stopped") /\ UNCHANGED target
       ELSE Goto(p, "probe") /\ target' = [target EXCEPT ![p] = receipt.of]
    /\ UNCHANGED <<seen, disk, browser, ghosts>>

\* A failed receipt has no pid and no lock id.
LoadReceipt(p) ==
    /\ pc[p] = "load"
    /\ IF receipt = NoFile \/ receipt.state = "failed"
       THEN Goto(p, "stopped") /\ UNCHANGED target
       ELSE Goto(p, "probe") /\ target' = [target EXCEPT ![p] = receipt.of]
    /\ UNCHANGED <<seen, disk, browser, ghosts>>

ProbeBrowser(p) ==
    /\ pc[p] = "probe"
    /\ Goto(p, IF browser[target[p]] = "live" THEN "matchlive" ELSE "matchdead")
    /\ UNCHANGED <<seen, target, disk, browser, ghosts>>

\* The browser must have died, or the lock must be that of the receipt.  A file
\* that vanishes while it is read is an error, here and in release.
MatchLive(p) ==
    /\ pc[p] = "matchlive"
    /\ Goto(p, IF lock = Lock(target[p], "running") THEN "stopbrowser" ELSE "stopped")
    /\ UNCHANGED <<seen, target, disk, browser, ghosts>>

MatchDead(p) ==
    /\ pc[p] = "matchdead"
    /\ \/ Goto(p, IF Mine(lock, target[p]) THEN "stoprelease"
                  ELSE IF lock # NoFile /\ lock.phase = "blank" THEN "stopped"
                  ELSE "stopreceipt")
       \/ lock = NoFile /\ Goto(p, "stopped")
    /\ UNCHANGED <<seen, target, disk, browser, ghosts>>

StopTerminate(p) ==
    /\ pc[p] = "stopbrowser"
    /\ \/ /\ browser' = [browser EXCEPT ![target[p]] = "dead"]
          /\ Goto(p, "stoprelease")
       \/ Goto(p, "stopped") /\ UNCHANGED browser
    /\ UNCHANGED <<seen, target, disk, ghosts>>

\* release reads the lock again; another's lock is an error.
StopRead(p) ==
    /\ pc[p] = "stoprelease"
    /\ IF lock = NoFile
       THEN Acting(p, "stopreceipt", FALSE) \/ Acting(p, "stopped", FALSE)
       ELSE IF Mine(lock, target[p]) THEN Acting(p, "stopunlink", TRUE)
       ELSE Acting(p, "stopped", FALSE)
    /\ UNCHANGED <<target, disk, browser, ghosts>>

\* unlinkSync throws when the file is gone.
StopUnlink(p) ==
    /\ pc[p] = "stopunlink"
    /\ IF lock = NoFile THEN Goto(p, "stopped") /\ UNCHANGED <<lock, lost>>
       ELSE Goto(p, "stopreceipt") /\ lock' = NoFile /\ Unseen(p)
    /\ Acted(p)
    /\ UNCHANGED <<target, receipt, browser, loose>>

StopRecord(p) ==
    /\ pc[p] = "stopreceipt"
    /\ receipt' = [of |-> target[p], state |-> "stopped"]
    /\ Goto(p, "stopped")
    /\ UNCHANGED <<seen, target, lock, browser, ghosts>>

-----------------------------------------------------------------------------
\* A browser ends by itself, and a process is killed.  What a starter had
\* spawned and not yet promoted is nobody's then.
BrowserDies(s) ==
    /\ browser[s] = "live"
    /\ browser' = [browser EXCEPT ![s] = "dead"]
    /\ UNCHANGED <<pc, seen, target, disk, ghosts>>

Unrecorded == {"promote", "verify", "replace", "terminate"}
Crash(p) ==
    /\ pc[p] \notin Ended \union {"idle"}
    /\ Goto(p, "crashed")
    /\ loose' = IF pc[p] \in Unrecorded THEN loose \union {p} ELSE loose
    /\ Acted(p)
    /\ UNCHANGED <<target, disk, browser, lost>>

\* A session of before: none, running, over, or one whose browser died.
Init ==
    /\ pc = [p \in Proc |-> "idle"]
    /\ seen = [p \in Proc |-> NoFile] /\ target = [p \in Proc |-> Old]
    /\ \E was \in {"none", "live", "dead"} :
          /\ browser = [s \in Session |-> IF s = Old THEN was ELSE "none"]
          /\ lock = IF was = "none" THEN NoFile ELSE Lock(Old, "running")
          /\ receipt = IF was = "none" THEN NoFile ELSE [of |-> Old, state |-> "running"]
    /\ loose = {} /\ lost = FALSE

Acquire(p) == OpenLock(p) \/ WriteLock(p) \/ ReadLock(p) \/ CheckLock(p) \/ ArchiveStale(p)
Starting(p) ==
    \/ Start(p) \/ Acquire(p) \/ SpawnBrowser(p) \/ CheckBrowser(p) \/ CheckPromote(p)
    \/ Promote(p) \/ Record(p) \/ AbortTerminate(p) \/ AbortRead(p) \/ AbortUnlink(p)
    \/ RecordFailure(p) \/ Supervise(p)
Stopping(p) ==
    \/ Stop(p) \/ LoadReceipt(p) \/ ProbeBrowser(p) \/ MatchLive(p) \/ MatchDead(p)
    \/ StopTerminate(p) \/ StopRead(p) \/ StopUnlink(p) \/ StopRecord(p)

Next ==
    \/ \E p \in Proc : Starting(p) \/ Stopping(p) \/ Crash(p)
    \/ \E s \in Session : BrowserDies(s)

Spec == Init /\ [][Next]_vars

\* A process that runs goes on to its next step.
Fairness == \A p \in Proc : WF_vars(pc[p] # "idle" /\ (Starting(p) \/ Stopping(p)))
FairSpec == Spec /\ Fairness

-----------------------------------------------------------------------------
(* Properties.                                                             *)

StopSteps ==
    {"probe", "matchlive", "matchdead", "stopbrowser", "stoprelease", "stopunlink",
     "stopreceipt"}
Steps ==
    {"idle", "open", "write", "read", "check", "archive", "spawn", "promote", "verify",
     "replace", "record", "wait", "terminate", "release", "unlink", "fail", "load"}
    \union StopSteps \union Ended

\* Types.  What a stop is about had a browser once, and what a step acts on was
\* read.
TypeOK ==
    /\ pc \in [Proc -> Steps]
    /\ seen \in [Proc -> Locks \union {NoFile}]
    /\ target \in [Proc -> Session]
    /\ lock \in Locks \union {NoFile}
    /\ receipt \in [of : Session, state : {"running", "stopped", "failed"}] \union {NoFile}
    /\ browser \in [Session -> {"none", "live", "dead"}]
    /\ loose \subseteq Session /\ lost \in BOOLEAN
    /\ \A p \in Proc :
          /\ pc[p] \in StopSteps => browser[target[p]] # "none"
          /\ pc[p] \in {"check", "archive", "replace", "unlink", "stopunlink"} <=> seen[p] # NoFile

\* Where the sharing comes from.  Two browsers of the identity run at once only
\* after one of two things: a lock file was removed or replaced other than the
\* one its remover had read (lost: archive, promote and release read first and
\* act on the path later), or one of the two was left behind by a starter that
\* crashed before promote or could not terminate it (loose).  Everything else,
\* blank locks, refusals, stops, receipts of others and retries, is sound.
\* Both excuses happen: NeverShared is violated.
OneBrowserWhileChecksHold ==
    \A s, t \in Session :
        browser[s] = "live" /\ browser[t] = "live" /\ s # t
        => lost \/ s \in loose \/ t \in loose

\* Every start and stop returns, or its process is killed: no acquire goes round
\* for ever.
EveryCallReturns == \A p \in Proc : pc[p] \notin Ended \union {"idle"} ~> pc[p] \in Ended

-----------------------------------------------------------------------------
\* What the documents say and the code does not do.

\* KV_IDENTITY_MANIFEST_V1.md: "directories are never shared concurrently",
\* "Concurrent sessions are blocked by default", "The lock is the concurrency
\* authority" - at most one browser of the identity runs.  Said here of the
\* behaviours in which no process is killed; the others do not keep it either.
NeverShared ==
    (\A p \in Proc : pc[p] # "crashed")
        => \A s, t \in Session : browser[s] = "live" /\ browser[t] = "live" => s = t
=============================================================================
