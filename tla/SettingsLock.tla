---------------------------- MODULE SettingsLock ----------------------------
(***************************************************************************)
(* The lock-file protocol around every edit of settings.yaml               *)
(* (adapters/settings-lock.ts): <file>.lock is created exclusively, read   *)
(* back by identity, signed with the PID, and taken away at the end only   *)
(* if it is still the file that was created.  The handle it was created    *)
(* through stays open all along, so that its inode is not used again.      *)
(*                                                                         *)
(* Any file-system call may fail, a process may die between two steps, an  *)
(* operator takes orphans away, and somebody outside the protocol may      *)
(* remove, replace or overwrite a live lock file.                          *)
(***************************************************************************)
EXTENDS SettingsEdit, Naturals

CONSTANTS
    Pid,            \* Pid[p]: writers in two containers may have the same
    Timeout,        \* LOCK_TIMEOUT_MS, in ticks
    InitialDelay,   \* LOCK_RETRY_INITIAL_MS
    MaxDelay,       \* LOCK_RETRY_MAX_MS
    Inodes,         \* the inodes lock files can get
    MaxFaults,      \* bound: failing or refused calls
    MaxCrashes,     \* bound: processes that die
    MaxIntrusions   \* bound: changes of the lock file from outside the protocol

ASSUME LockAssumption ==
    /\ Timeout \in Nat /\ InitialDelay \in Nat /\ MaxDelay \in Nat
    /\ InitialDelay \in 1 .. MaxDelay
    /\ MaxFaults \in Nat /\ MaxCrashes \in Nat /\ MaxIntrusions \in Nat
    /\ Inodes \subseteq Nat \ {0}
    /\ "nobody" \notin Writers /\ "outsider" \notin Writers

VARIABLES
    settings,    \* settings.yaml
    lock,        \* settings.yaml.lock: its inode, its text, who created it (history)
    pc,          \* pc[p]: the call p is about to make
    planned,     \* planned[p]: the document p planned on
    read,        \* read[p]: the document p read under the lock
    answer,      \* answer[p]: the result on its way to the caller
    identity,    \* identity[p]: the inode of the lock file p created
    guards,      \* the writers whose handle on their lock file is open
    left,        \* left[p]: ticks to the deadline
    wait,        \* wait[p]: ticks of sleep left
    delay,       \* delay[p]: the next sleep
    fate,        \* history: what became of the edit of p
    faults,      \* failing calls so far
    crashes,     \* dead processes so far
    intrusions   \* changes from outside so far

clockVars == <<left, wait, delay>>
holdVars == <<identity, guards>>
envVars == <<faults, crashes, intrusions>>
docVars == <<settings, planned, read, fate>>
vars == <<settings, lock, pc, planned, read, answer, identity, guards, left, wait, delay,
          fate, faults, crashes, intrusions>>

Owners == {"nobody", "empty"} \cup {Pid[p] : p \in Writers}
LockFile == [ino: Inodes \cup {0}, owner: Owners, maker: Writers \cup {"nobody", "outsider"}]
NoLock == [ino |-> 0, owner |-> "nobody", maker |-> "nobody"]

Answers == {"none", "changed", "declined", "refused", "timeout", "io"}
Acquiring == {"ready", "contended", "sleep"}
Creating == {"identify", "reopen", "sign"}
Holding == {"read", "write"}
Releasing == {"verify", "payload", "recheck", "remove"}
Ended == {"done", "crashed"}
PCs == {"idle", "close"} \cup Acquiring \cup Creating \cup Holding \cup Releasing \cup Ended

TypeOK ==
    /\ settings \in Document
    /\ lock \in LockFile
    /\ pc \in [Writers -> PCs]
    /\ planned \in [Writers -> Document] /\ read \in [Writers -> Document]
    /\ answer \in [Writers -> Answers]
    /\ identity \in [Writers -> Inodes \cup {0}]
    /\ guards \in SUBSET Writers
    /\ left \in [Writers -> 0 .. Timeout]
    /\ wait \in [Writers -> 0 .. MaxDelay] /\ delay \in [Writers -> 0 .. MaxDelay]
    /\ fate \in [Writers -> {"idle", "open", "changed", "declined"}]
    /\ faults \in 0 .. MaxFaults
    /\ crashes \in 0 .. MaxCrashes
    /\ intrusions \in 0 .. MaxIntrusions

Init ==
    /\ settings = Initial
    /\ lock = NoLock
    /\ pc = [p \in Writers |-> "idle"]
    /\ planned = [p \in Writers |-> Missing] /\ read = [p \in Writers |-> Missing]
    /\ answer = [p \in Writers |-> "none"]
    /\ identity = [p \in Writers |-> 0]
    /\ guards = {}
    /\ left = [p \in Writers |-> 0]
    /\ wait = [p \in Writers |-> 0] /\ delay = [p \in Writers |-> 0]
    /\ fate = [p \in Writers |-> "idle"]
    /\ faults = 0 /\ crashes = 0 /\ intrusions = 0

-----------------------------------------------------------------------------
(* Helpers *)

\* The lock file at the path is the one p created, as far as p can tell.
SameIdentity(p) == lock # NoLock /\ lock.ino = identity[p]

\* An inode is given out again once no name and no open handle refers to it.
FreeInodes == Inodes \ ({lock.ino} \cup {identity[p] : p \in guards})

At(p, here) == pc[p] = here
Goto(p, there) == pc' = [pc EXCEPT ![p] = there]
Reply(p, a) == answer' = [answer EXCEPT ![p] = a]

\* p goes on to `there`, its answer an I/O failure whatever it was.
Fails(p, there) ==
    /\ faults < MaxFaults
    /\ faults' = faults + 1
    /\ Goto(p, there)
    /\ Reply(p, "io")
    /\ UNCHANGED <<crashes, intrusions>>

-----------------------------------------------------------------------------
(* Planning and waiting *)

\* The caller reads settings.yaml without the lock; then the call begins.
Plan(p) ==
    /\ At(p, "idle") /\ Goto(p, "ready")
    /\ SomethingToMove(p, settings)
    /\ planned' = [planned EXCEPT ![p] = settings]
    /\ fate' = [fate EXCEPT ![p] = "open"]
    /\ left' = [left EXCEPT ![p] = Timeout]
    /\ delay' = [delay EXCEPT ![p] = InitialDelay]
    /\ UNCHANGED <<settings, lock, read, answer, holdVars, wait, envVars>>

\* Mutant of Create: open without the exclusive flag.
CreateOver(p) ==
    /\ At(p, "ready") /\ Goto(p, "identify")
    /\ \E i \in FreeInodes :
          /\ lock' = [ino |-> i, owner |-> "empty", maker |-> p]
          /\ identity' = [identity EXCEPT ![p] = i]
    /\ guards' = guards \cup {p}
    /\ left' = [left EXCEPT ![p] = 0]
    /\ UNCHANGED <<docVars, answer, wait, delay, envVars>>

\* open(wx) creates the file, empty.
Create(p) ==
    /\ At(p, "ready") /\ Goto(p, "identify")
    /\ lock = NoLock
    /\ \E i \in FreeInodes :
          /\ lock' = [ino |-> i, owner |-> "empty", maker |-> p]
          /\ identity' = [identity EXCEPT ![p] = i]
    /\ guards' = guards \cup {p}
    /\ left' = [left EXCEPT ![p] = 0]
    /\ UNCHANGED <<docVars, answer, wait, delay, envVars>>

\* EEXIST.
FindTaken(p) ==
    /\ At(p, "ready") /\ Goto(p, "contended")
    /\ lock # NoLock
    /\ UNCHANGED <<docVars, lock, answer, holdVars, clockVars, envVars>>

\* beforeLockAcquire refuses or throws, or open fails with something else than EEXIST.
Refuse(p) ==
    /\ At(p, "ready") /\ Goto(p, "done")
    /\ faults < MaxFaults /\ faults' = faults + 1
    /\ \E a \in {"refused", "io"} : Reply(p, a)
    /\ UNCHANGED <<docVars, lock, holdVars, clockVars, crashes, intrusions>>

TimeOut(p) ==
    /\ At(p, "contended") /\ Goto(p, "done")
    /\ left[p] = 0
    /\ Reply(p, "timeout")
    /\ UNCHANGED <<docVars, lock, holdVars, clockVars, envVars>>

\* Mutant of Sleep: the deadline is set anew at every attempt.
SleepAnew(p) ==
    /\ At(p, "contended") /\ Goto(p, "sleep")
    /\ left[p] > 0
    /\ left' = [left EXCEPT ![p] = Timeout]
    /\ wait' = [wait EXCEPT ![p] = delay[p]]
    /\ delay' = [delay EXCEPT ![p] = IF 2 * @ < MaxDelay THEN 2 * @ ELSE MaxDelay]
    /\ UNCHANGED <<docVars, lock, answer, holdVars, envVars>>

\* Mutant of Sleep: the delay doubles without limit.
SleepLonger(p) ==
    /\ At(p, "contended") /\ Goto(p, "sleep")
    /\ left[p] > 0
    /\ wait' = [wait EXCEPT ![p] = delay[p]]
    /\ delay' = [delay EXCEPT ![p] = 2 * @]
    /\ UNCHANGED <<docVars, lock, answer, holdVars, left, envVars>>

Sleep(p) ==
    /\ At(p, "contended") /\ Goto(p, "sleep")
    /\ left[p] > 0
    /\ wait' = [wait EXCEPT ![p] = delay[p]]
    /\ delay' = [delay EXCEPT ![p] = IF 2 * @ < MaxDelay THEN 2 * @ ELSE MaxDelay]
    /\ UNCHANGED <<docVars, lock, answer, holdVars, left, envVars>>

Wake(p) ==
    /\ At(p, "sleep") /\ Goto(p, "ready")
    /\ wait[p] = 0
    /\ UNCHANGED <<docVars, lock, answer, holdVars, clockVars, envVars>>

\* Time passes for all; it matters to the writers that wait for the lock.
Tick ==
    /\ \E p \in Writers : left[p] > 0 \/ wait[p] > 0
    /\ left' = [p \in Writers |-> IF left[p] > 0 THEN left[p] - 1 ELSE 0]
    /\ wait' = [p \in Writers |-> IF wait[p] > 0 THEN wait[p] - 1 ELSE 0]
    /\ UNCHANGED <<docVars, lock, pc, answer, holdVars, delay, envVars>>

-----------------------------------------------------------------------------
(* The lock file has been created: identify it, open it again, sign it *)

\* Mutant of Identify: the handle is closed once the identity is known.
IdentifyAndClose(p) ==
    /\ At(p, "identify") /\ Goto(p, "reopen")
    /\ guards' = guards \ {p}
    /\ UNCHANGED <<docVars, lock, answer, identity, clockVars, envVars>>

\* Until guard.stat() has told the identity, a failure leaves the file where it is.
Identify(p) ==
    /\ At(p, "identify")
    /\ \/ Goto(p, "reopen") /\ UNCHANGED <<answer, envVars>>
       \/ Fails(p, "close")
    /\ UNCHANGED <<docVars, lock, holdVars, clockVars>>

\* The path must still lead to the created file.
Reopen(p) ==
    /\ At(p, "reopen")
    /\ \/ SameIdentity(p) /\ Goto(p, "sign") /\ UNCHANGED <<answer, envVars>>
       \/ ~SameIdentity(p) /\ Goto(p, "recheck") /\ Reply(p, "io") /\ UNCHANGED envVars
       \/ Fails(p, "recheck")
    /\ UNCHANGED <<docVars, lock, holdVars, clockVars>>

\* The PID goes through the handle: a file that took the path meanwhile is not touched.
SignedLock(p) == IF SameIdentity(p) THEN [lock EXCEPT !.owner = Pid[p]] ELSE lock

Sign(p) ==
    /\ At(p, "sign")
    /\ \/ Goto(p, "read") /\ lock' = SignedLock(p) /\ UNCHANGED <<answer, envVars>>
       \/ Fails(p, "recheck") /\ lock' \in {lock, SignedLock(p)}
    /\ UNCHANGED <<docVars, holdVars, clockVars>>

-----------------------------------------------------------------------------
(* The operation under the lock *)

\* Mutant of Read: the operation works on the document of the planning.
ReadPlanned(p) ==
    /\ At(p, "read")
    /\ ~Declines(p, planned[p], settings)
    /\ Goto(p, "write")
    /\ read' = [read EXCEPT ![p] = planned[p]]
    /\ UNCHANGED <<settings, planned, fate, lock, answer, holdVars, clockVars, envVars>>

\* Mutant of Read: the document is not compared with the expected one.
ReadUncompared(p) ==
    /\ At(p, "read") /\ Goto(p, "write")
    /\ read' = [read EXCEPT ![p] = settings]
    /\ UNCHANGED <<settings, planned, fate, lock, answer, holdVars, clockVars, envVars>>

Read(p) ==
    /\ At(p, "read")
    /\ ~Declines(p, planned[p], settings)
    /\ Goto(p, "write")
    /\ read' = [read EXCEPT ![p] = settings]
    /\ UNCHANGED <<settings, planned, fate, lock, answer, holdVars, clockVars, envVars>>

FindDifferent(p) ==
    /\ At(p, "read") /\ Goto(p, "verify")
    /\ Declines(p, planned[p], settings)
    /\ Reply(p, "declined")
    /\ fate' = [fate EXCEPT ![p] = "declined"]
    /\ UNCHANGED <<settings, planned, read, lock, holdVars, clockVars, envVars>>

\* The document cannot be read, is refused (no YAML map, an alias, a secret), or, for the
\* edits of agent-presets, so is the edited one.
CannotEdit(p) ==
    /\ pc[p] \in Holding /\ Goto(p, "verify")
    /\ faults < MaxFaults /\ faults' = faults + 1
    /\ \E a \in {"refused", "io"} :
          /\ a = "refused" => Kind[p] \in {"select", "merge"}
          /\ Reply(p, a)
    /\ UNCHANGED <<docVars, lock, holdVars, clockVars, crashes, intrusions>>

\* writeFileAtomic or the move into the backup: one rename.
Replace(p) ==
    /\ SomethingToMove(p, settings)
    /\ settings' = Edited(p, planned[p], read[p])
    /\ fate' = [fate EXCEPT ![p] = "changed"]

Write(p) ==
    /\ At(p, "write") /\ Goto(p, "verify")
    /\ Replace(p)
    /\ Reply(p, "changed")
    /\ UNCHANGED <<planned, read, lock, holdVars, clockVars, envVars>>

\* The file went away between the read and the move.
NothingToMove(p) ==
    /\ At(p, "write") /\ Goto(p, "verify")
    /\ ~SomethingToMove(p, settings)
    /\ Reply(p, "io")
    /\ UNCHANGED <<docVars, lock, holdVars, clockVars, envVars>>

\* The rename is done, the directory could not be synced.
WriteUnacknowledged(p) ==
    /\ At(p, "write")
    /\ Replace(p)
    /\ Fails(p, "verify")
    /\ UNCHANGED <<planned, read, lock, holdVars, clockVars>>

-----------------------------------------------------------------------------
(* releaseOwnedLock and removeMatchingLock *)

\* lstat: a lock file that is gone or another one is left alone.
Verify(p) ==
    /\ At(p, "verify")
    /\ \/ SameIdentity(p) /\ Goto(p, "payload") /\ UNCHANGED <<answer, envVars>>
       \/ ~SameIdentity(p) /\ Goto(p, "close") /\ UNCHANGED <<answer, envVars>>
       \/ Fails(p, "close")
    /\ UNCHANGED <<docVars, lock, holdVars, clockVars>>

\* Mutant of Payload: the text is compared with the PID without its line end.
PayloadNeverOwn(p) ==
    /\ At(p, "payload") /\ Goto(p, "close")
    /\ UNCHANGED <<docVars, lock, answer, holdVars, clockVars, envVars>>

\* readFile: whatever file is at the path now.
Payload(p) ==
    /\ At(p, "payload")
    /\ \/ lock.owner = Pid[p] /\ Goto(p, "recheck") /\ UNCHANGED <<answer, envVars>>
       \/ lock.owner # Pid[p] /\ Goto(p, "close") /\ UNCHANGED <<answer, envVars>>
       \/ Fails(p, "close")
    /\ UNCHANGED <<docVars, lock, holdVars, clockVars>>

Recheck(p) ==
    /\ At(p, "recheck")
    /\ \/ SameIdentity(p) /\ Goto(p, "remove") /\ UNCHANGED <<answer, envVars>>
       \/ ~SameIdentity(p) /\ Goto(p, "close") /\ UNCHANGED <<answer, envVars>>
       \/ Fails(p, "close")
    /\ UNCHANGED <<docVars, lock, holdVars, clockVars>>

\* rm --force by path: whatever file is there.
Remove(p) ==
    /\ At(p, "remove")
    /\ \/ Goto(p, "close") /\ lock' = NoLock /\ UNCHANGED <<answer, envVars>>
       \/ Fails(p, "close") /\ UNCHANGED lock
    /\ UNCHANGED <<docVars, holdVars, clockVars>>

Close(p) ==
    /\ At(p, "close")
    /\ \/ Goto(p, "done") /\ UNCHANGED <<answer, envVars>>
       \/ Fails(p, "done")
    /\ guards' = guards \ {p} /\ identity' = [identity EXCEPT ![p] = 0]
    /\ UNCHANGED <<docVars, lock, clockVars>>

-----------------------------------------------------------------------------
(* The environment *)

\* The process dies: its handles are closed, its lock file stays.
Crash(p) ==
    /\ crashes < MaxCrashes /\ crashes' = crashes + 1
    /\ pc[p] \notin {"idle"} \cup Ended /\ Goto(p, "crashed")
    /\ guards' = guards \ {p} /\ identity' = [identity EXCEPT ![p] = 0]
    /\ left' = [left EXCEPT ![p] = 0] /\ wait' = [wait EXCEPT ![p] = 0]
    /\ UNCHANGED <<docVars, lock, answer, delay, faults, intrusions>>

\* The operator takes away a lock file whose creator is no longer there.
RemoveOrphan ==
    /\ lock # NoLock
    /\ lock.maker # "outsider" => pc[lock.maker] \in Ended
    /\ lock' = NoLock
    /\ UNCHANGED <<docVars, pc, answer, holdVars, clockVars, envVars>>

\* Somebody removes, replaces or overwrites the lock file of a live writer.
Intrude ==
    /\ intrusions < MaxIntrusions /\ intrusions' = intrusions + 1
    /\ \/ lock # NoLock /\ lock' = NoLock
       \/ \E i \in FreeInodes, t \in Owners \ {"nobody"} :
             lock' = [ino |-> i, owner |-> t, maker |-> "outsider"]
       \/ \E t \in Owners \ {"nobody"} : lock # NoLock /\ lock' = [lock EXCEPT !.owner = t]
    /\ UNCHANGED <<docVars, pc, answer, holdVars, clockVars, faults, crashes>>

-----------------------------------------------------------------------------
(* The protocol *)

Acquire(p) ==
    \/ Create(p) \/ FindTaken(p) \/ Refuse(p) \/ TimeOut(p) \/ Sleep(p) \/ Wake(p)
    \/ Identify(p) \/ Reopen(p) \/ Sign(p)
Edit(p) ==
    \/ Read(p) \/ FindDifferent(p) \/ CannotEdit(p)
    \/ Write(p) \/ NothingToMove(p) \/ WriteUnacknowledged(p)
Release(p) == Verify(p) \/ Payload(p) \/ Recheck(p) \/ Remove(p) \/ Close(p)

\* What p does on its own once it has been called.
Step(p) == Acquire(p) \/ Edit(p) \/ Release(p)

Next ==
    \/ \E p \in Writers : Plan(p) \/ Step(p) \/ Crash(p)
    \/ Tick \/ RemoveOrphan \/ Intrude

Spec == Init /\ [][Next]_vars

\* An awaited call comes back and time goes on; nobody need come for an orphan.
FairSpec == Spec /\ (\A p \in Writers : WF_vars(Step(p))) /\ WF_vars(Tick)

-----------------------------------------------------------------------------
(* Properties *)

\* Two writers are never at their operation at once, unless somebody tampered with a live
\* lock file: the exclusive open and the release by identity serialise them
\* (withSettingsFileLock).
MutualExclusion ==
    intrusions = 0 =>
        \A p, q \in Writers : pc[p] \in Holding /\ pc[q] \in Holding => p = q

\* When the write starts, the document is still the one that was read under the lock, though
\* reads, comparisons and the rename are separate calls of several processes
\* (compareAndSwapText, updateUnderLock, updateAgentPresetsUnderLock).
ReadIsFresh ==
    intrusions = 0 => \A p \in Writers : At(p, "write") => read[p] = settings

\* A call that reports anything but an I/O failure has taken its lock file away, on every
\* path out of it; only what it reports as a failure can block the writers to come
\* (releaseOwnedLock, tryAcquireLock).
LeavesNothingBehind ==
    intrusions = 0 =>
        \A p \in Writers : At(p, "done") /\ answer[p] # "io" => lock.maker # p

\* A writer decides to remove the file at the lock path only if it is the very file it
\* created, whatever was removed, replaced or overwritten meanwhile and however inodes and
\* PIDs repeat (removeMatchingLock, and the guard that stays open).
DecidesOnItsOwnFile ==
    [][\A p \in Writers : At(p, "recheck") /\ pc'[p] = "remove" => lock.maker = p]_vars

\* Whoever holds the lock, dies holding it or fails to release it, every call returns or
\* its process dies: waiting is bounded by the deadline (withSettingsFileLock).
EveryCallEnds == \A p \in Writers : At(p, "ready") ~> pc[p] \in Ended

\* An answer counts once the call has returned.
Returned == [p \in Writers |-> IF At(p, "done") THEN answer[p] ELSE "none"]

\* Every call takes effect at one moment on the document of that moment, and its answer is
\* true.
Serial == INSTANCE SerialSettings WITH answer <- Returned

\* As long as nobody tampers with live lock files, the protocol makes the edits serial:
\* nothing is lost to a stale read, nothing refused or timed out is written
\* (withSettingsFileLock around every operation).
ImplementsSerial == Serial!Spec
=============================================================================
