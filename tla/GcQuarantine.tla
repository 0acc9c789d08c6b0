---------------------------- MODULE GcQuarantine ----------------------------
(***************************************************************************)
(* What gc and uninstall --purge do with the files they remove             *)
(* (packages/cli/src/gc/engine.ts, uninstall/engine.ts and the purge of    *)
(* transaction-node-adapter.ts).  A transaction first moves them to        *)
(* backups/<txid>/old, so that it can be rolled back; once it is committed *)
(* and its lock is released, the purge takes the lock again and, file by   *)
(* file, compares, renames to <action>.purging-<uuid>, compares again and  *)
(* unlinks.  What a run leaves there a later gc finishes.                  *)
(***************************************************************************)
EXTENDS TransactionSetup

Artifact == {"generation", "store-block", "profile"}
Payload == Run \X Artifact
Leaf == {"slot", "purging"}
None == <<>>

VARIABLES
    verb,     \* [Run -> Verb]; a sweep is a gc with nothing to collect
    payload,  \* [Payload -> where the file is, and whether its bytes are the journal's]
    found,    \* [Run -> the files the scan under the lock listed, with the leaf they had]
    hand,     \* [Run -> the one of them being purged]
    removed,  \* [Run -> the run has unlinked a file]
    alone     \* [Run -> no other run was alive at the same time]

purgeVars == <<found, hand, removed>>
ownerVars == <<verb, alone>>
vars == <<setupVars, verb, payload, found, hand, removed, alone>>

TypeOK ==
    /\ SetupTypeOK
    /\ verb \in [Run -> Verb] /\ alone \in [Run -> BOOLEAN] /\ removed \in [Run -> BOOLEAN]
    /\ payload \in [Payload -> [at: {"home", "gone"} \cup Leaf, bytes: {"own", "other", "late"}]]
    /\ found \in [Run -> SUBSET (Payload \X Leaf)]
    /\ hand \in [Run -> (Payload \X Leaf) \cup {None}]

Init ==
    /\ SetupInit
    /\ verb \in [Run -> Verb] /\ alone = [r \in Run |-> FALSE]
    /\ payload = [x \in Payload |-> [at |-> "home", bytes |-> "own"]]
    /\ found = [r \in Run |-> {}] /\ hand = [r \in Run |-> None]
    /\ removed = [r \in Run |-> FALSE]

Live == {r \in Run : stage[r] \notin Ended \cup {"idle"}}

\* What the transaction of a run moves out of the home.
Batch(r) == {r} \X (CASE verb[r] = "gc" -> {"generation", "store-block"}
                      [] verb[r] = "uninstall" -> {"store-block", "profile"}
                      [] OTHER -> {})

\* An uninstall does not look at what others left.
Start(r) ==
    /\ At(r, "idle")
    /\ Goto(r, IF verb[r] = "uninstall" THEN "lock" ELSE "scan")
    /\ alone' = [p \in Run |-> IF p = r THEN Live = {} ELSE alone[p] /\ p \notin Live]
    /\ UNCHANGED <<lock, dirVars, ownVars, error, answer, mishaps, verb, payload, purgeVars>>

-----------------------------------------------------------------------------
(* scanGcQuarantine *)

Quarantined(x) == payload[x].at \in Leaf

\* parseGcQuarantineJournal: what a user wrote stays in the backup for good.
Eligible(x) == x[2] # "profile"

\* An entry of backups that is no transaction of this program is refused, a journal that is
\* neither committed nor rolled back wants a human, and a changed file is never purged.
Verdict(d) ==
    CASE backup[d] = "foreign" -> "contract"
      [] backup[d] \in {"active", "rollback-failed"} -> "manual"
      [] \E x \in {d} \X Artifact : Quarantined(x) /\ backup[d] = "rolled-back" -> "contract"
      [] \E x \in {d} \X Artifact : Quarantined(x) /\ Eligible(x) /\ payload[x].bytes # "own" -> "contract"
      [] OTHER -> "none"

\* purgeCommittedStateQuarantine: gc asks for every transaction, uninstall for its own.
Scope(r) == IF verb[r] = "uninstall" THEN {r} ELSE Run
Refusals(r) == {Verdict(d) : d \in Scope(r)} \ {"none"}

\* Mutant of Waiting: files whose purge was interrupted are not seen.
WaitingInSlots(r) ==
    {x \in Payload : /\ x[1] \in Scope(r) /\ backup[x[1]] = "committed"
                     /\ payload[x].at = "slot" /\ Eligible(x)}

\* Both leaves are recognised: action-NNNN and action-NNNN.purging-<uuid>.
Waiting(r) ==
    {x \in Payload : /\ x[1] \in Scope(r) /\ backup[x[1]] = "committed"
                     /\ Quarantined(x) /\ Eligible(x)}

\* Without the lock a file that another run has in its hands may be missed.
Handled(x) == \E p \in Run : hand[p] # None /\ hand[p][1] = x

Validate(r) ==
    /\ At(r, "scan")
    /\ \/ Refusals(r) = {} /\ UNCHANGED answer
          /\ Goto(r, IF verb[r] = "gc" THEN "lock" ELSE "observe")
       \/ \E word \in Refusals(r) : End(r, word)
    /\ UNCHANGED <<lock, dirVars, ownVars, error, mishaps, payload, purgeVars, ownerVars>>

-----------------------------------------------------------------------------
(* The transaction; module Transaction has its steps, these are its outcomes. *)

Move(r) ==
    /\ At(r, "mutate")
    /\ \E x \in Batch(r) :
         /\ payload[x].at = "home"
         /\ payload' = [payload EXCEPT ![x].at = "slot"]
    /\ UNCHANGED <<setupVars, purgeVars, ownerVars>>

Commit(r) ==
    /\ At(r, "mutate") /\ \A x \in Batch(r) : payload[x].at # "home"
    /\ backup' = [backup EXCEPT ![r] = "committed"]
    /\ Goto(r, "unlock")
    /\ UNCHANGED <<lock, setup, ownVars, error, answer, mishaps, payload, purgeVars, ownerVars>>

\* The plan is stale, or a call failed; everything comes back.
RollBack(r) ==
    /\ At(r, "mutate")
    /\ backup' = [backup EXCEPT ![r] = "rolled-back"]
    /\ payload' = [x \in Payload |-> IF x \in Batch(r) THEN [at |-> "home", bytes |-> payload[x].bytes]
                                     ELSE payload[x]]
    /\ \E what \in {"contract", "internal"} : error' = [error EXCEPT ![r] = what]
    /\ Goto(r, "unlock")
    /\ UNCHANGED <<lock, setup, ownVars, answer, mishaps, purgeVars, ownerVars>>

\* Something cannot be brought back.
RollBackFails(r) ==
    /\ At(r, "mutate") /\ MayFail /\ Failed
    /\ backup' = [backup EXCEPT ![r] = "rollback-failed"]
    /\ error' = [error EXCEPT ![r] = "manual"]
    /\ Goto(r, "unlock")
    /\ UNCHANGED <<lock, setup, ownVars, answer, payload, purgeVars, ownerVars>>

\* A transaction that did not commit has its answer; a lock that stays needs a human.
Unlock(r) ==
    /\ At(r, "unlock")
    /\ \/ /\ lock' = Nobody /\ UNCHANGED mishaps
          /\ IF backup[r] = "committed" THEN Goto(r, "observe") /\ UNCHANGED answer ELSE End(r, error[r])
       \/ MayFail /\ Failed /\ End(r, "manual") /\ UNCHANGED lock
    /\ UNCHANGED <<dirVars, ownVars, error, payload, purgeVars, ownerVars>>

-----------------------------------------------------------------------------
(* purgeCommittedStateQuarantine *)

\* runGc and runUninstall, their own transaction being committed: the rest is pending.
CommittedWord(what) == IF what = "manual" THEN "manual" ELSE "pending"

\* A sweep that failed is refused, unless it removed something and the failure has a name.
SweepWord(r, what) ==
    IF what = "progress" \/ (removed[r] /\ what \notin {"manual", "internal"})
    THEN "pending" ELSE what

Word(r, what) ==
    CASE what = "none" -> "success"
      [] what # "none" /\ verb[r] = "sweep" -> SweepWord(r, what)
      [] OTHER -> CommittedWord(what)

Observe(r) ==
    /\ At(r, "observe")
    /\ \/ \E what \in Refusals(r) : End(r, Word(r, what))
       \/ Refusals(r) = {} /\ Waiting(r) # {} /\ Goto(r, "relock") /\ UNCHANGED answer
       \/ Refusals(r) = {} /\ (\A x \in Waiting(r) : Handled(x)) /\ End(r, Word(r, "none"))
    /\ UNCHANGED <<lock, dirVars, ownVars, error, mishaps, payload, purgeVars, ownerVars>>

NoRelock(r) ==
    /\ At(r, "relock")
    /\ \/ lock # Nobody /\ End(r, Word(r, "conflict")) /\ UNCHANGED <<lock, mishaps>>
       \/ LockFails(r) /\ \E what \in {"internal", "security"} : End(r, Word(r, what))
    /\ UNCHANGED <<dirVars, ownVars, error, payload, purgeVars, ownerVars>>

Drop(r, what) == error' = [error EXCEPT ![r] = what] /\ Goto(r, "leave")

Rescan(r) ==
    /\ At(r, "rescan")
    /\ \/ /\ \E what \in Refusals(r) : Drop(r, what)
          /\ UNCHANGED found
       \/ /\ Refusals(r) = {}
          /\ found' = [found EXCEPT ![r] = {<<x, payload[x].at>> : x \in Waiting(r)}]
          /\ Goto(r, "verify") /\ UNCHANGED error
    /\ UNCHANGED <<lock, dirVars, ownVars, answer, mishaps, payload, hand, removed, ownerVars>>

Verify(r) ==
    /\ At(r, "verify")
    /\ \/ found[r] = {} /\ Goto(r, "leave") /\ UNCHANGED <<error, hand>>
       \/ \E f \in found[r] :
            IF payload[f[1]].bytes = "own"
            THEN hand' = [hand EXCEPT ![r] = f] /\ Goto(r, "rename") /\ UNCHANGED error
            ELSE Drop(r, "contract") /\ UNCHANGED hand
    /\ UNCHANGED <<lock, dirVars, ownVars, answer, mishaps, payload, found, removed, ownerVars>>

InHand(r) == hand[r][1]

Rename(r) ==
    /\ At(r, "rename")
    /\ payload' = [payload EXCEPT ![InHand(r)].at = "purging"]
    /\ Goto(r, "recheck")
    /\ UNCHANGED <<lock, dirVars, ownVars, error, answer, mishaps, purgeVars, ownerVars>>

\* Before the name changed nothing has happened; afterwards the old name is given back.
RenameFails(r) ==
    /\ At(r, "rename") /\ MayFail /\ Failed
    /\ \/ /\ Drop(r, "internal") /\ hand' = [hand EXCEPT ![r] = None]
          /\ UNCHANGED payload
       \/ /\ payload' = [payload EXCEPT ![InHand(r)].at = "purging"]
          /\ error' = [error EXCEPT ![r] = "progress"] /\ Goto(r, "restore")
          /\ UNCHANGED hand
    /\ UNCHANGED <<lock, dirVars, ownVars, answer, found, removed, ownerVars>>

\* Mutant of Same: the renamed file is not compared again.
SameAnyway(x) == TRUE

Same(x) == payload[x].bytes = "own"

Recheck(r) ==
    /\ At(r, "recheck")
    /\ IF Same(InHand(r))
       THEN Goto(r, "unlink") /\ UNCHANGED error
       ELSE error' = [error EXCEPT ![r] = "contract"] /\ Goto(r, "restore")
    /\ UNCHANGED <<lock, dirVars, ownVars, answer, mishaps, payload, purgeVars, ownerVars>>

Unlink(r) ==
    /\ At(r, "unlink")
    /\ payload' = [payload EXCEPT ![InHand(r)].at = "gone"]
    /\ removed' = [removed EXCEPT ![r] = TRUE]
    /\ found' = [found EXCEPT ![r] = @ \ {hand[r]}] /\ hand' = [hand EXCEPT ![r] = None]
    /\ Goto(r, "verify")
    /\ UNCHANGED <<lock, dirVars, ownVars, error, answer, mishaps, ownerVars>>

\* Nothing is left to restore when the file went before the failure.
UnlinkFails(r) ==
    /\ At(r, "unlink") /\ MayFail /\ Failed
    /\ \/ /\ error' = [error EXCEPT ![r] = "internal"] /\ Goto(r, "restore")
          /\ UNCHANGED <<payload, hand>>
       \/ /\ payload' = [payload EXCEPT ![InHand(r)].at = "gone"]
          /\ hand' = [hand EXCEPT ![r] = None]
          /\ Drop(r, "progress")
    /\ UNCHANGED <<lock, dirVars, ownVars, answer, found, removed, ownerVars>>

\* restorePurgingPayload: the leaf the scan saw gets its file back.
Restore(r) ==
    /\ At(r, "restore")
    /\ \/ payload' = [payload EXCEPT ![InHand(r)].at = hand[r][2]] /\ UNCHANGED <<error, mishaps>>
       \/ MayFail /\ Failed /\ error' = [error EXCEPT ![r] = "progress"] /\ UNCHANGED payload
    /\ hand' = [hand EXCEPT ![r] = None]
    /\ Goto(r, "leave")
    /\ UNCHANGED <<lock, dirVars, ownVars, answer, found, removed, ownerVars>>

Leave(r) ==
    /\ At(r, "leave")
    /\ \/ lock' = Nobody /\ End(r, Word(r, error[r])) /\ UNCHANGED mishaps
       \/ MayFail /\ Failed /\ End(r, "manual") /\ UNCHANGED lock
    /\ UNCHANGED <<dirVars, ownVars, error, payload, purgeVars, ownerVars>>

-----------------------------------------------------------------------------

\* Somebody writes into the quarantine; after the second comparison nothing can notice.
Overwrite ==
    /\ mishaps.outside < MaxOutside
    /\ \E x \in Payload :
         /\ Quarantined(x) /\ payload[x].bytes = "own"
         /\ payload' = [payload EXCEPT ![x].bytes =
                          IF \E r \in Run : At(r, "unlink") /\ InHand(r) = x THEN "late" ELSE "other"]
    /\ mishaps' = [mishaps EXCEPT !.outside = @ + 1]
    /\ UNCHANGED <<stage, lock, dirVars, ownVars, error, answer, purgeVars, ownerVars>>

\* A dead run has nothing in its hands.
Die(r) ==
    /\ Crash(r)
    /\ hand' = [hand EXCEPT ![r] = None]
    /\ UNCHANGED <<payload, found, removed, ownerVars>>

Next ==
    \/ \E r \in Run :
         \/ Start(r) \/ Validate(r) \/ Die(r)
         \/ SetupNext(r) /\ UNCHANGED <<payload, purgeVars, ownerVars>>
         \/ Move(r) \/ Commit(r) \/ RollBack(r) \/ RollBackFails(r) \/ Unlock(r)
         \/ Observe(r) \/ NoRelock(r) \/ Rescan(r)
         \/ Acquire(r, "relock", "rescan") /\ UNCHANGED <<payload, purgeVars, ownerVars>>
         \/ Verify(r) \/ Rename(r) \/ RenameFails(r) \/ Recheck(r)
         \/ Unlink(r) \/ UnlinkFails(r) \/ Restore(r) \/ Leave(r)
    \/ (Meddle \/ TakeLockAway) /\ UNCHANGED <<payload, purgeVars, ownerVars>>
    \/ Overwrite

Spec == Init /\ [][Next]_vars

-----------------------------------------------------------------------------
(* Properties *)

\* The purge unlinks nothing but files a committed transaction collected, never what a user
\* wrote, never bytes that are not the journal's, and only while it has the lock; a write
\* between the second comparison and the unlink is the one case it cannot see.
OnlyCollectedStateGoes ==
    [][ \A x \in Payload :
          payload[x].at # "gone" /\ payload'[x].at = "gone" =>
             /\ backup[x[1]] = "committed" /\ x[2] # "profile" /\ payload[x].bytes # "other"
             /\ \E r \in Run : lock = r /\ hand[r] # None /\ InHand(r) = x ]_vars

\* A gc that was alone and answers success, without a word about pending files, has
\* reclaimed everything: its own files and those that earlier runs, dead or refused in the
\* middle of a purge, had committed and left behind.
SuccessMeansReclaimed ==
    [][ \A r \in Run :
          answer[r] = "none" /\ answer'[r] = "success" /\ alone[r] =>
             \A x \in Payload :
                x[1] \in Scope(r) /\ backup[x[1]] = "committed" /\ Quarantined(x) => x[2] = "profile" ]_vars
=============================================================================
