------------------------- MODULE GcQuarantineProofs -------------------------
(***************************************************************************)
(* Proofs about GcQuarantine and TransactionSetup, for any number of runs  *)
(* of any verbs, and of failing calls, crashes and deeds of outsiders.     *)
(***************************************************************************)
EXTENDS GcQuarantine, TLAPS

\* Nothing of the run is on disk yet.
Early == {"idle", "scan", "lock", "recover", "check", "create"}
Making == {"fill", "name", "publish"}
Purging == {"observe", "relock", "rescan", "verify", "rename", "recheck", "unlink", "restore", "leave"}
\* The run has a file in its hands.
Holding == {"rename", "recheck", "unlink", "restore"}
\* The run has the lock.
Locked == (SetupStage \ {"lock"}) \cup {"mutate", "unlock", "rescan", "verify", "leave"} \cup Holding

Untouched == {"absent", "foreign"}
\* The run has no provisional directory, but an outsider may have put something at its name.
Bare(r) == setup[r] \in {"absent", "strange"}

-----------------------------------------------------------------------------
(* The invariant *)

\* A run at work under the lock is the one the lock file names.
LockInv == \A r \in Run : stage[r] \in Locked => lock = r

\* A run that was alone still is, as long as it lives.
AloneInv == \A r, p \in Run : alone[r] /\ r \in Live /\ p \in Live => p = r

\* What a run made so far, and what it knows of it.
Directories(r) ==
    /\ Bare(r) \/ stage[r] \in Making \cup {"cleanup", "release"} \cup Ended
    /\ owns[r] \in {{}, {"maybe"}, {"setup"}, {"backup"}}
    /\ stage[r] \in Early => owns[r] = {}
    /\ stage[r] \in Making => owns[r] = {"setup"}
    /\ stage[r] \in Early \cup Making => backup[r] \in Untouched /\ error[r] = "none"
    /\ stage[r] = "cleanup" =>
         /\ owns[r] = {} => Bare(r)
         /\ owns[r] = {"backup"} \/ backup[r] \in Untouched
    /\ stage[r] = "release" /\ ~unsure[r] => Bare(r) /\ backup[r] \in Untouched

\* What became of the transaction of a run.
Outcome(r) ==
    /\ stage[r] = "mutate" => backup[r] = "active" /\ error[r] = "none"
    /\ stage[r] = "unlock" =>
         \/ backup[r] = "committed" /\ error[r] = "none"
         \/ backup[r] = "rolled-back"
         \/ backup[r] = "rollback-failed" /\ error[r] = "manual"
    /\ stage[r] \in Purging =>
         IF verb[r] = "sweep" THEN backup[r] \in Untouched ELSE backup[r] = "committed"
    /\ stage[r] \in {"observe", "relock"} => error[r] = "none"
    /\ verb[r] = "sweep" => stage[r] \in {"idle", "scan"} \cup Purging \cup Ended
    /\ stage[r] = "scan" => verb[r] # "uninstall"
    /\ stage[r] # "over" => answer[r] = "none"

\* A file that a committed transaction collected.
Collected(x) == x \in Payload /\ backup[x[1]] = "committed" /\ Eligible(x)

\* What a run has found and is purging.
Quarantine(r) ==
    /\ (hand[r] # None) <=> (stage[r] \in Holding)
    /\ stage[r] = "verify" \/ stage[r] \in Holding => \A f \in found[r] : Collected(f[1])
    /\ stage[r] \in Holding => hand[r] \in found[r]
    /\ stage[r] = "unlink" => payload[InHand(r)].bytes # "other"
    /\ stage[r] = "restore" => error[r] # "none"

\* No file is forgotten.
Remainder(r) ==
    /\ stage[r] = "verify" \/ stage[r] \in Holding \ {"restore"} => Waiting(r) \subseteq {f[1] : f \in found[r]}
    /\ stage[r] = "leave" /\ error[r] = "none" => Waiting(r) = {}

DirectoriesInv == \A r \in Run : Directories(r)
OutcomeInv == \A r \in Run : Outcome(r)
QuarantineInv == \A r \in Run : Quarantine(r)
RemainderInv == \A r \in Run : Remainder(r)

IInv ==
    /\ TypeOK /\ LockInv /\ AloneInv /\ CleanRefusal
    /\ DirectoriesInv /\ OutcomeInv /\ QuarantineInv /\ RemainderInv

-----------------------------------------------------------------------------
(* Types *)

\* What a run knows of its directories is one of four things.
LEMMA Labels ==
    /\ {"setup"} # {} /\ {"backup"} # {} /\ {"maybe"} # {}
    /\ {"setup"} # {"backup"} /\ {"setup"} # {"maybe"} /\ {"backup"} # {"maybe"}
OBVIOUS


\* What stays as it is while a directory is set up.
SetupFrame == UNCHANGED <<payload, purgeVars, ownerVars>>

RunTypes ==
    /\ stage \in [Run -> Stage]
    /\ lock \in Run \cup {Nobody}
    /\ setup \in [Run -> {"absent", "empty", "temp", "journal", "strange"}]
    /\ backup \in [Run -> {"absent", "foreign", "active", "committed", "rolled-back",
        "rollback-failed"}]
    /\ owns \in [Run -> SUBSET {"setup", "backup", "maybe"}]
    /\ unsure \in [Run -> BOOLEAN]
    /\ error \in [Run -> Error] /\ answer \in [Run -> Answer]

BudgetType == mishaps \in [failures: 0 .. MaxFailures, crashes: 0 .. MaxCrashes,
    outside: 0 .. MaxOutside]

FileTypes ==
    /\ verb \in [Run -> Verb] /\ alone \in [Run -> BOOLEAN] /\ removed \in [Run -> BOOLEAN]
    /\ payload \in [Payload -> [at: {"home", "gone"} \cup Leaf, bytes: {"own", "other",
        "late"}]]
    /\ found \in [Run -> SUBSET (Payload \X Leaf)]
    /\ hand \in [Run -> (Payload \X Leaf) \cup {None}]

LEMMA TypeParts == TypeOK <=> RunTypes /\ BudgetType /\ FileTypes
BY DEF TypeOK, SetupTypeOK, RunTypes, BudgetType, FileTypes

\* The verdicts of a scan.
LEMMA RefusalWords == \A r \in Run : Refusals(r) \subseteq {"contract", "manual"}
BY DEF Refusals, Verdict

\* Every step keeps the types of what a run knows.
LEMMA RunTypesStep ==
    ASSUME RunTypes, Nobody \notin Run, [Next]_vars
    PROVE  RunTypes'
<1> USE RefusalWords DEF vars, setupVars, dirVars, ownVars, purgeVars, ownerVars, At, Goto,
    MayFail, Failed, End, Throw, Drop, RunTypes, Stage, SetupStage, LaterStage, Ended, Error,
    Answer
<1>1. ASSUME NEW p \in Run, Acquire(p, "lock", "recover"), SetupFrame
       PROVE  RunTypes'
  BY <1>1 DEF Acquire, SetupFrame
<1>2. ASSUME NEW p \in Run, NoLock(p), SetupFrame
       PROVE  RunTypes'
  BY <1>2 DEF NoLock, SetupFrame, LockFails
<1>3. ASSUME NEW p \in Run, RemoveLeftover(p), SetupFrame
       PROVE  RunTypes'
  BY <1>3 DEF RemoveLeftover, SetupFrame
<1>4. ASSUME NEW p \in Run, RecoveryFails(p), SetupFrame
       PROVE  RunTypes'
  BY <1>4 DEF RecoveryFails, SetupFrame
<1>5. ASSUME NEW p \in Run, Recovered(p), SetupFrame
       PROVE  RunTypes'
  BY <1>5 DEF Recovered, SetupFrame
<1>6. ASSUME NEW p \in Run, CheckBackup(p), SetupFrame
       PROVE  RunTypes'
  BY <1>6 DEF CheckBackup, SetupFrame
<1>7. ASSUME NEW p \in Run, CreateSetup(p), SetupFrame
       PROVE  RunTypes'
  BY <1>7 DEF CreateSetup, SetupFrame
<1>8. ASSUME NEW p \in Run, CreateSetupFails(p), SetupFrame
       PROVE  RunTypes'
  BY <1>8 DEF CreateSetupFails, SetupFrame
<1>9. ASSUME NEW p \in Run, WriteJournal(p), SetupFrame
       PROVE  RunTypes'
  BY <1>9 DEF WriteJournal, SetupFrame
<1>10. ASSUME NEW p \in Run, WriteJournalFails(p), SetupFrame
       PROVE  RunTypes'
  BY <1>10 DEF WriteJournalFails, SetupFrame
<1>11. ASSUME NEW p \in Run, Publish(p), SetupFrame
       PROVE  RunTypes'
  BY <1>11 DEF Publish, SetupFrame
<1>12. ASSUME NEW p \in Run, PublishFails(p), SetupFrame
       PROVE  RunTypes'
  BY <1>12 DEF PublishFails, SetupFrame
<1>13. ASSUME NEW p \in Run, CleanUp(p), SetupFrame
       PROVE  RunTypes'
  BY <1>13 DEF CleanUp, SetupFrame, NotRemoved
<1>14. ASSUME NEW p \in Run, Release(p), SetupFrame
       PROVE  RunTypes'
  BY <1>14 DEF Release, SetupFrame
<1>15. ASSUME NEW p \in Run, Start(p)
       PROVE  RunTypes'
  BY <1>15 DEF Start
<1>16. ASSUME NEW p \in Run, Validate(p)
       PROVE  RunTypes'
  BY <1>16 DEF Validate
<1>17. ASSUME NEW p \in Run, Die(p)
       PROVE  RunTypes'
  BY <1>17 DEF Die, Crash
<1>18. ASSUME NEW p \in Run, Move(p)
       PROVE  RunTypes'
  BY <1>18 DEF Move
<1>19. ASSUME NEW p \in Run, Commit(p)
       PROVE  RunTypes'
  BY <1>19 DEF Commit
<1>20. ASSUME NEW p \in Run, RollBack(p)
       PROVE  RunTypes'
  BY <1>20 DEF RollBack
<1>21. ASSUME NEW p \in Run, RollBackFails(p)
       PROVE  RunTypes'
  BY <1>21 DEF RollBackFails
<1>22. ASSUME NEW p \in Run, Unlock(p)
       PROVE  RunTypes'
  BY <1>22 DEF Unlock
<1>23. ASSUME NEW p \in Run, Observe(p)
       PROVE  RunTypes'
  BY <1>23 DEF Observe, Word, SweepWord, CommittedWord
<1>24. ASSUME NEW p \in Run, NoRelock(p)
       PROVE  RunTypes'
  BY <1>24 DEF NoRelock, LockFails, Word, SweepWord, CommittedWord
<1>25. ASSUME NEW p \in Run, Rescan(p)
       PROVE  RunTypes'
  BY <1>25 DEF Rescan
<1>26. ASSUME NEW p \in Run, Acquire(p, "relock", "rescan"), SetupFrame
       PROVE  RunTypes'
  BY <1>26 DEF Acquire, SetupFrame
<1>27. ASSUME NEW p \in Run, Verify(p)
       PROVE  RunTypes'
  BY <1>27 DEF Verify
<1>28. ASSUME NEW p \in Run, Rename(p)
       PROVE  RunTypes'
  BY <1>28 DEF Rename
<1>29. ASSUME NEW p \in Run, RenameFails(p)
       PROVE  RunTypes'
  BY <1>29 DEF RenameFails
<1>30. ASSUME NEW p \in Run, Recheck(p)
       PROVE  RunTypes'
  BY <1>30 DEF Recheck
<1>31. ASSUME NEW p \in Run, Unlink(p)
       PROVE  RunTypes'
  BY <1>31 DEF Unlink
<1>32. ASSUME NEW p \in Run, UnlinkFails(p)
       PROVE  RunTypes'
  BY <1>32 DEF UnlinkFails
<1>33. ASSUME NEW p \in Run, Restore(p)
       PROVE  RunTypes'
  BY <1>33 DEF Restore
<1>34. ASSUME NEW p \in Run, Leave(p)
       PROVE  RunTypes'
  BY <1>34 DEF Leave, Word, SweepWord, CommittedWord
<1>35. CASE Meddle /\ SetupFrame
  BY <1>35 DEF Meddle, SetupFrame
<1>36. CASE TakeLockAway /\ SetupFrame
  BY <1>36 DEF TakeLockAway, SetupFrame
<1>37. CASE Overwrite
  BY <1>37 DEF Overwrite
<1>38. CASE UNCHANGED vars
  BY <1>38 DEF vars
<1>39. QED
  BY <1>1, <1>2, <1>3, <1>4, <1>5, <1>6, <1>7, <1>8, <1>9, <1>10, <1>11, <1>12, <1>13, <1>14,
      <1>15, <1>16, <1>17, <1>18, <1>19, <1>20, <1>21, <1>22, <1>23, <1>24, <1>25, <1>26,
          <1>27, <1>28, <1>29, <1>30, <1>31, <1>32, <1>33, <1>34, <1>35, <1>36, <1>37,
              <1>38 DEF Next, SetupNext, SetupFrame

\* Every step keeps the budgets.
LEMMA BudgetStep ==
    ASSUME BudgetType, [Next]_vars
    PROVE  BudgetType'
<1> USE BudgetAssumption DEF vars, setupVars, dirVars, ownVars, purgeVars, ownerVars, At,
    Goto, MayFail, Failed, End, Throw, Drop, BudgetType
<1>1. ASSUME NEW p \in Run, Acquire(p, "lock", "recover"), SetupFrame
       PROVE  BudgetType'
  BY <1>1 DEF Acquire, SetupFrame
<1>2. ASSUME NEW p \in Run, NoLock(p), SetupFrame
       PROVE  BudgetType'
  BY <1>2 DEF NoLock, SetupFrame, LockFails
<1>3. ASSUME NEW p \in Run, RemoveLeftover(p), SetupFrame
       PROVE  BudgetType'
  BY <1>3 DEF RemoveLeftover, SetupFrame
<1>4. ASSUME NEW p \in Run, RecoveryFails(p), SetupFrame
       PROVE  BudgetType'
  BY <1>4 DEF RecoveryFails, SetupFrame
<1>5. ASSUME NEW p \in Run, Recovered(p), SetupFrame
       PROVE  BudgetType'
  BY <1>5 DEF Recovered, SetupFrame
<1>6. ASSUME NEW p \in Run, CheckBackup(p), SetupFrame
       PROVE  BudgetType'
  BY <1>6 DEF CheckBackup, SetupFrame
<1>7. ASSUME NEW p \in Run, CreateSetup(p), SetupFrame
       PROVE  BudgetType'
  BY <1>7 DEF CreateSetup, SetupFrame
<1>8. ASSUME NEW p \in Run, CreateSetupFails(p), SetupFrame
       PROVE  BudgetType'
  BY <1>8 DEF CreateSetupFails, SetupFrame
<1>9. ASSUME NEW p \in Run, WriteJournal(p), SetupFrame
       PROVE  BudgetType'
  BY <1>9 DEF WriteJournal, SetupFrame
<1>10. ASSUME NEW p \in Run, WriteJournalFails(p), SetupFrame
       PROVE  BudgetType'
  BY <1>10 DEF WriteJournalFails, SetupFrame
<1>11. ASSUME NEW p \in Run, Publish(p), SetupFrame
       PROVE  BudgetType'
  BY <1>11 DEF Publish, SetupFrame
<1>12. ASSUME NEW p \in Run, PublishFails(p), SetupFrame
       PROVE  BudgetType'
  BY <1>12 DEF PublishFails, SetupFrame
<1>13. ASSUME NEW p \in Run, CleanUp(p), SetupFrame
       PROVE  BudgetType'
  BY <1>13 DEF CleanUp, SetupFrame
<1>14. ASSUME NEW p \in Run, Release(p), SetupFrame
       PROVE  BudgetType'
  BY <1>14 DEF Release, SetupFrame
<1>15. ASSUME NEW p \in Run, Start(p)
       PROVE  BudgetType'
  BY <1>15 DEF Start
<1>16. ASSUME NEW p \in Run, Validate(p)
       PROVE  BudgetType'
  BY <1>16 DEF Validate
<1>17. ASSUME NEW p \in Run, Die(p)
       PROVE  BudgetType'
  BY <1>17 DEF Die, Crash
<1>18. ASSUME NEW p \in Run, Move(p)
       PROVE  BudgetType'
  BY <1>18 DEF Move
<1>19. ASSUME NEW p \in Run, Commit(p)
       PROVE  BudgetType'
  BY <1>19 DEF Commit
<1>20. ASSUME NEW p \in Run, RollBack(p)
       PROVE  BudgetType'
  BY <1>20 DEF RollBack
<1>21. ASSUME NEW p \in Run, RollBackFails(p)
       PROVE  BudgetType'
  BY <1>21 DEF RollBackFails
<1>22. ASSUME NEW p \in Run, Unlock(p)
       PROVE  BudgetType'
  BY <1>22 DEF Unlock
<1>23. ASSUME NEW p \in Run, Observe(p)
       PROVE  BudgetType'
  BY <1>23 DEF Observe
<1>24. ASSUME NEW p \in Run, NoRelock(p)
       PROVE  BudgetType'
  BY <1>24 DEF NoRelock, LockFails
<1>25. ASSUME NEW p \in Run, Rescan(p)
       PROVE  BudgetType'
  BY <1>25 DEF Rescan
<1>26. ASSUME NEW p \in Run, Acquire(p, "relock", "rescan"), SetupFrame
       PROVE  BudgetType'
  BY <1>26 DEF Acquire, SetupFrame
<1>27. ASSUME NEW p \in Run, Verify(p)
       PROVE  BudgetType'
  BY <1>27 DEF Verify
<1>28. ASSUME NEW p \in Run, Rename(p)
       PROVE  BudgetType'
  BY <1>28 DEF Rename
<1>29. ASSUME NEW p \in Run, RenameFails(p)
       PROVE  BudgetType'
  BY <1>29 DEF RenameFails
<1>30. ASSUME NEW p \in Run, Recheck(p)
       PROVE  BudgetType'
  BY <1>30 DEF Recheck
<1>31. ASSUME NEW p \in Run, Unlink(p)
       PROVE  BudgetType'
  BY <1>31 DEF Unlink
<1>32. ASSUME NEW p \in Run, UnlinkFails(p)
       PROVE  BudgetType'
  BY <1>32 DEF UnlinkFails
<1>33. ASSUME NEW p \in Run, Restore(p)
       PROVE  BudgetType'
  BY <1>33 DEF Restore
<1>34. ASSUME NEW p \in Run, Leave(p)
       PROVE  BudgetType'
  BY <1>34 DEF Leave
<1>35. CASE Meddle /\ SetupFrame
  BY <1>35 DEF Meddle, SetupFrame
<1>36. CASE TakeLockAway /\ SetupFrame
  BY <1>36 DEF TakeLockAway, SetupFrame
<1>37. CASE Overwrite
  BY <1>37 DEF Overwrite
<1>38. CASE UNCHANGED vars
  BY <1>38 DEF vars
<1>39. QED
  BY <1>1, <1>2, <1>3, <1>4, <1>5, <1>6, <1>7, <1>8, <1>9, <1>10, <1>11, <1>12, <1>13, <1>14,
      <1>15, <1>16, <1>17, <1>18, <1>19, <1>20, <1>21, <1>22, <1>23, <1>24, <1>25, <1>26,
          <1>27, <1>28, <1>29, <1>30, <1>31, <1>32, <1>33, <1>34, <1>35, <1>36, <1>37,
              <1>38 DEF Next, SetupNext, SetupFrame

\* Every step keeps the types of the quarantine.
LEMMA FileTypesStep ==
    ASSUME RunTypes, FileTypes, QuarantineInv, [Next]_vars
    PROVE  FileTypes'
<1> USE DEF vars, setupVars, dirVars, ownVars, purgeVars, ownerVars, At, Goto, MayFail,
    Failed, End, Throw, Drop, FileTypes
<1>1. CASE SetupFrame
  BY <1>1 DEF SetupFrame
<1>2. ASSUME NEW p \in Run, Start(p)
       PROVE  FileTypes'
  BY <1>2 DEF Start
<1>3. ASSUME NEW p \in Run, Validate(p)
       PROVE  FileTypes'
  BY <1>3 DEF Validate
<1>4. ASSUME NEW p \in Run, Die(p)
       PROVE  FileTypes'
  BY <1>4 DEF Die, Crash
<1>5. ASSUME NEW p \in Run, Move(p)
       PROVE  FileTypes'
  BY <1>5 DEF Move, Leaf
<1>6. ASSUME NEW p \in Run, Commit(p)
       PROVE  FileTypes'
  BY <1>6 DEF Commit
<1>7. ASSUME NEW p \in Run, RollBack(p)
       PROVE  FileTypes'
  BY <1>7 DEF RollBack
<1>8. ASSUME NEW p \in Run, RollBackFails(p)
       PROVE  FileTypes'
  BY <1>8 DEF RollBackFails
<1>9. ASSUME NEW p \in Run, Unlock(p)
       PROVE  FileTypes'
  BY <1>9 DEF Unlock
<1>10. ASSUME NEW p \in Run, Observe(p)
       PROVE  FileTypes'
  BY <1>10 DEF Observe
<1>11. ASSUME NEW p \in Run, NoRelock(p)
       PROVE  FileTypes'
  BY <1>11 DEF NoRelock
<1>12. ASSUME NEW p \in Run, Rescan(p)
       PROVE  FileTypes'
  BY <1>12 DEF Rescan, Waiting, Quarantined
<1>13. ASSUME NEW p \in Run, Verify(p)
       PROVE  FileTypes'
  BY <1>13 DEF Verify
<1>14. ASSUME NEW p \in Run, Rename(p)
       PROVE  FileTypes'
  BY <1>14 DEF Rename, Leaf, QuarantineInv, Quarantine, Holding
<1>15. ASSUME NEW p \in Run, RenameFails(p)
       PROVE  FileTypes'
  BY <1>15 DEF RenameFails, Leaf, QuarantineInv, Quarantine, Holding
<1>16. ASSUME NEW p \in Run, Recheck(p)
       PROVE  FileTypes'
  BY <1>16 DEF Recheck
<1>17. ASSUME NEW p \in Run, Unlink(p)
       PROVE  FileTypes'
  BY <1>17 DEF Unlink
<1>18. ASSUME NEW p \in Run, UnlinkFails(p)
       PROVE  FileTypes'
  <2>1. payload' \in [Payload -> [at: {"home", "gone"} \cup Leaf, bytes: {"own", "other",
      "late"}]]
    BY <1>18 DEF UnlinkFails
  <2>2. hand' \in [Run -> (Payload \X Leaf) \cup {None}]
    BY <1>18 DEF UnlinkFails
  <2>3. QED
    BY <1>18, <2>1, <2>2 DEF UnlinkFails
<1>19. ASSUME NEW p \in Run, Restore(p)
       PROVE  FileTypes'
  <2>1. hand[p] \in Payload \X Leaf
    BY <1>19 DEF Restore, QuarantineInv, Quarantine, Holding
  <2>2. hand[p][1] \in Payload /\ hand[p][2] \in Leaf
    BY <2>1
  <2>3. payload' \in [Payload -> [at: {"home", "gone"} \cup Leaf, bytes: {"own", "other",
      "late"}]]
    BY <1>19, <2>2 DEF Restore, InHand
  <2>4. hand' \in [Run -> (Payload \X Leaf) \cup {None}]
    BY <1>19 DEF Restore
  <2>5. QED
    BY <1>19, <2>3, <2>4 DEF Restore
<1>20. ASSUME NEW p \in Run, Leave(p)
       PROVE  FileTypes'
  BY <1>20 DEF Leave
<1>21. CASE Overwrite
  BY <1>21 DEF Overwrite
<1>22. CASE UNCHANGED vars
  BY <1>22 DEF vars
<1>23. QED
  BY <1>1, <1>2, <1>3, <1>4, <1>5, <1>6, <1>7, <1>8, <1>9, <1>10, <1>11, <1>12, <1>13, <1>14,
      <1>15, <1>16, <1>17, <1>18, <1>19, <1>20, <1>21, <1>22 DEF Next, SetupNext, SetupFrame

\* Only the run that the lock file names works under the lock.
LEMMA LockStep ==
    ASSUME RunTypes, LockInv, [Next]_vars
    PROVE  LockInv'
<1> USE RunAssumption DEF vars, setupVars, dirVars, ownVars, purgeVars, ownerVars, At, Goto,
    MayFail, Failed, End, Throw, Drop, RunTypes, LockInv, Nobody, Locked, SetupStage, Holding,
    Ended
<1>1. ASSUME NEW p \in Run, Acquire(p, "lock", "recover"), SetupFrame
       PROVE  LockInv'
  BY <1>1 DEF Acquire, SetupFrame
<1>2. ASSUME NEW p \in Run, NoLock(p), SetupFrame
       PROVE  LockInv'
  BY <1>2 DEF NoLock, SetupFrame, LockFails
<1>3. ASSUME NEW p \in Run, RemoveLeftover(p), SetupFrame
       PROVE  LockInv'
  BY <1>3 DEF RemoveLeftover, SetupFrame
<1>4. ASSUME NEW p \in Run, RecoveryFails(p), SetupFrame
       PROVE  LockInv'
  BY <1>4 DEF RecoveryFails, SetupFrame
<1>5. ASSUME NEW p \in Run, Recovered(p), SetupFrame
       PROVE  LockInv'
  BY <1>5 DEF Recovered, SetupFrame
<1>6. ASSUME NEW p \in Run, CheckBackup(p), SetupFrame
       PROVE  LockInv'
  BY <1>6 DEF CheckBackup, SetupFrame
<1>7. ASSUME NEW p \in Run, CreateSetup(p), SetupFrame
       PROVE  LockInv'
  BY <1>7 DEF CreateSetup, SetupFrame
<1>8. ASSUME NEW p \in Run, CreateSetupFails(p), SetupFrame
       PROVE  LockInv'
  BY <1>8 DEF CreateSetupFails, SetupFrame
<1>9. ASSUME NEW p \in Run, WriteJournal(p), SetupFrame
       PROVE  LockInv'
  BY <1>9 DEF WriteJournal, SetupFrame
<1>10. ASSUME NEW p \in Run, WriteJournalFails(p), SetupFrame
       PROVE  LockInv'
  BY <1>10 DEF WriteJournalFails, SetupFrame
<1>11. ASSUME NEW p \in Run, Publish(p), SetupFrame
       PROVE  LockInv'
  BY <1>11 DEF Publish, SetupFrame
<1>12. ASSUME NEW p \in Run, PublishFails(p), SetupFrame
       PROVE  LockInv'
  BY <1>12 DEF PublishFails, SetupFrame
<1>13. ASSUME NEW p \in Run, CleanUp(p), SetupFrame
       PROVE  LockInv'
  BY <1>13 DEF CleanUp, SetupFrame
<1>14. ASSUME NEW p \in Run, Release(p), SetupFrame
       PROVE  LockInv'
  BY <1>14 DEF Release, SetupFrame
<1>15. ASSUME NEW p \in Run, Start(p)
       PROVE  LockInv'
  BY <1>15 DEF Start
<1>16. ASSUME NEW p \in Run, Validate(p)
       PROVE  LockInv'
  BY <1>16 DEF Validate
<1>17. ASSUME NEW p \in Run, Die(p)
       PROVE  LockInv'
  BY <1>17 DEF Die, Crash
<1>18. ASSUME NEW p \in Run, Move(p)
       PROVE  LockInv'
  BY <1>18 DEF Move
<1>19. ASSUME NEW p \in Run, Commit(p)
       PROVE  LockInv'
  BY <1>19 DEF Commit
<1>20. ASSUME NEW p \in Run, RollBack(p)
       PROVE  LockInv'
  BY <1>20 DEF RollBack
<1>21. ASSUME NEW p \in Run, RollBackFails(p)
       PROVE  LockInv'
  BY <1>21 DEF RollBackFails
<1>22. ASSUME NEW p \in Run, Unlock(p)
       PROVE  LockInv'
  BY <1>22 DEF Unlock
<1>23. ASSUME NEW p \in Run, Observe(p)
       PROVE  LockInv'
  BY <1>23 DEF Observe
<1>24. ASSUME NEW p \in Run, NoRelock(p)
       PROVE  LockInv'
  BY <1>24 DEF NoRelock, LockFails
<1>25. ASSUME NEW p \in Run, Rescan(p)
       PROVE  LockInv'
  BY <1>25 DEF Rescan
<1>26. ASSUME NEW p \in Run, Acquire(p, "relock", "rescan"), SetupFrame
       PROVE  LockInv'
  BY <1>26 DEF Acquire, SetupFrame
<1>27. ASSUME NEW p \in Run, Verify(p)
       PROVE  LockInv'
  BY <1>27 DEF Verify
<1>28. ASSUME NEW p \in Run, Rename(p)
       PROVE  LockInv'
  BY <1>28 DEF Rename
<1>29. ASSUME NEW p \in Run, RenameFails(p)
       PROVE  LockInv'
  BY <1>29 DEF RenameFails
<1>30. ASSUME NEW p \in Run, Recheck(p)
       PROVE  LockInv'
  BY <1>30 DEF Recheck
<1>31. ASSUME NEW p \in Run, Unlink(p)
       PROVE  LockInv'
  BY <1>31 DEF Unlink
<1>32. ASSUME NEW p \in Run, UnlinkFails(p)
       PROVE  LockInv'
  BY <1>32 DEF UnlinkFails
<1>33. ASSUME NEW p \in Run, Restore(p)
       PROVE  LockInv'
  BY <1>33 DEF Restore
<1>34. ASSUME NEW p \in Run, Leave(p)
       PROVE  LockInv'
  BY <1>34 DEF Leave
<1>35. CASE Meddle /\ SetupFrame
  BY <1>35 DEF Meddle, SetupFrame
<1>36. CASE TakeLockAway /\ SetupFrame
  BY <1>36 DEF TakeLockAway, SetupFrame
<1>37. CASE Overwrite
  BY <1>37 DEF Overwrite
<1>38. CASE UNCHANGED vars
  BY <1>38 DEF vars
<1>39. QED
  BY <1>1, <1>2, <1>3, <1>4, <1>5, <1>6, <1>7, <1>8, <1>9, <1>10, <1>11, <1>12, <1>13, <1>14,
      <1>15, <1>16, <1>17, <1>18, <1>19, <1>20, <1>21, <1>22, <1>23, <1>24, <1>25, <1>26,
          <1>27, <1>28, <1>29, <1>30, <1>31, <1>32, <1>33, <1>34, <1>35, <1>36, <1>37,
              <1>38 DEF Next, SetupNext, SetupFrame

\* A run that was alone sees no other start.
LEMMA AloneStep ==
    ASSUME RunTypes, AloneInv, [Next]_vars
    PROVE  AloneInv'
<1> USE DEF vars, setupVars, dirVars, ownVars, purgeVars, ownerVars, At, Goto, MayFail,
    Failed, End, Throw, Drop, RunTypes, AloneInv, Live, Ended
<1>1. ASSUME NEW p \in Run, Acquire(p, "lock", "recover"), SetupFrame
       PROVE  AloneInv'
  BY <1>1 DEF Acquire, SetupFrame
<1>2. ASSUME NEW p \in Run, NoLock(p), SetupFrame
       PROVE  AloneInv'
  BY <1>2 DEF NoLock, SetupFrame
<1>3. ASSUME NEW p \in Run, RemoveLeftover(p), SetupFrame
       PROVE  AloneInv'
  BY <1>3 DEF RemoveLeftover, SetupFrame
<1>4. ASSUME NEW p \in Run, RecoveryFails(p), SetupFrame
       PROVE  AloneInv'
  BY <1>4 DEF RecoveryFails, SetupFrame
<1>5. ASSUME NEW p \in Run, Recovered(p), SetupFrame
       PROVE  AloneInv'
  BY <1>5 DEF Recovered, SetupFrame
<1>6. ASSUME NEW p \in Run, CheckBackup(p), SetupFrame
       PROVE  AloneInv'
  BY <1>6 DEF CheckBackup, SetupFrame
<1>7. ASSUME NEW p \in Run, CreateSetup(p), SetupFrame
       PROVE  AloneInv'
  BY <1>7 DEF CreateSetup, SetupFrame
<1>8. ASSUME NEW p \in Run, CreateSetupFails(p), SetupFrame
       PROVE  AloneInv'
  BY <1>8 DEF CreateSetupFails, SetupFrame
<1>9. ASSUME NEW p \in Run, WriteJournal(p), SetupFrame
       PROVE  AloneInv'
  BY <1>9 DEF WriteJournal, SetupFrame
<1>10. ASSUME NEW p \in Run, WriteJournalFails(p), SetupFrame
       PROVE  AloneInv'
  BY <1>10 DEF WriteJournalFails, SetupFrame
<1>11. ASSUME NEW p \in Run, Publish(p), SetupFrame
       PROVE  AloneInv'
  BY <1>11 DEF Publish, SetupFrame
<1>12. ASSUME NEW p \in Run, PublishFails(p), SetupFrame
       PROVE  AloneInv'
  BY <1>12 DEF PublishFails, SetupFrame
<1>13. ASSUME NEW p \in Run, CleanUp(p), SetupFrame
       PROVE  AloneInv'
  BY <1>13 DEF CleanUp, SetupFrame
<1>14. ASSUME NEW p \in Run, Release(p), SetupFrame
       PROVE  AloneInv'
  BY <1>14 DEF Release, SetupFrame
<1>15. ASSUME NEW p \in Run, Start(p)
       PROVE  AloneInv'
  BY <1>15 DEF Start
<1>16. ASSUME NEW p \in Run, Validate(p)
       PROVE  AloneInv'
  BY <1>16 DEF Validate
<1>17. ASSUME NEW p \in Run, Die(p)
       PROVE  AloneInv'
  BY <1>17 DEF Die, Crash
<1>18. ASSUME NEW p \in Run, Move(p)
       PROVE  AloneInv'
  BY <1>18 DEF Move
<1>19. ASSUME NEW p \in Run, Commit(p)
       PROVE  AloneInv'
  BY <1>19 DEF Commit
<1>20. ASSUME NEW p \in Run, RollBack(p)
       PROVE  AloneInv'
  BY <1>20 DEF RollBack
<1>21. ASSUME NEW p \in Run, RollBackFails(p)
       PROVE  AloneInv'
  BY <1>21 DEF RollBackFails
<1>22. ASSUME NEW p \in Run, Unlock(p)
       PROVE  AloneInv'
  BY <1>22 DEF Unlock
<1>23. ASSUME NEW p \in Run, Observe(p)
       PROVE  AloneInv'
  BY <1>23 DEF Observe
<1>24. ASSUME NEW p \in Run, NoRelock(p)
       PROVE  AloneInv'
  BY <1>24 DEF NoRelock
<1>25. ASSUME NEW p \in Run, Rescan(p)
       PROVE  AloneInv'
  BY <1>25 DEF Rescan
<1>26. ASSUME NEW p \in Run, Acquire(p, "relock", "rescan"), SetupFrame
       PROVE  AloneInv'
  BY <1>26 DEF Acquire, SetupFrame
<1>27. ASSUME NEW p \in Run, Verify(p)
       PROVE  AloneInv'
  BY <1>27 DEF Verify
<1>28. ASSUME NEW p \in Run, Rename(p)
       PROVE  AloneInv'
  BY <1>28 DEF Rename
<1>29. ASSUME NEW p \in Run, RenameFails(p)
       PROVE  AloneInv'
  BY <1>29 DEF RenameFails
<1>30. ASSUME NEW p \in Run, Recheck(p)
       PROVE  AloneInv'
  BY <1>30 DEF Recheck
<1>31. ASSUME NEW p \in Run, Unlink(p)
       PROVE  AloneInv'
  BY <1>31 DEF Unlink
<1>32. ASSUME NEW p \in Run, UnlinkFails(p)
       PROVE  AloneInv'
  BY <1>32 DEF UnlinkFails
<1>33. ASSUME NEW p \in Run, Restore(p)
       PROVE  AloneInv'
  BY <1>33 DEF Restore
<1>34. ASSUME NEW p \in Run, Leave(p)
       PROVE  AloneInv'
  BY <1>34 DEF Leave
<1>35. CASE Meddle /\ SetupFrame
  BY <1>35 DEF Meddle, SetupFrame
<1>36. CASE TakeLockAway /\ SetupFrame
  BY <1>36 DEF TakeLockAway, SetupFrame
<1>37. CASE Overwrite
  BY <1>37 DEF Overwrite
<1>38. CASE UNCHANGED vars
  BY <1>38 DEF vars
<1>39. QED
  BY <1>1, <1>2, <1>3, <1>4, <1>5, <1>6, <1>7, <1>8, <1>9, <1>10, <1>11, <1>12, <1>13, <1>14,
      <1>15, <1>16, <1>17, <1>18, <1>19, <1>20, <1>21, <1>22, <1>23, <1>24, <1>25, <1>26,
          <1>27, <1>28, <1>29, <1>30, <1>31, <1>32, <1>33, <1>34, <1>35, <1>36, <1>37,
              <1>38 DEF Next, SetupNext, SetupFrame

\* What a run made is where the invariant says.
LEMMA DirectoriesStep ==
    ASSUME RunTypes, LockInv, DirectoriesInv, OutcomeInv, [Next]_vars
    PROVE  DirectoriesInv'
<1> USE Labels DEF vars, setupVars, dirVars, ownVars, purgeVars, ownerVars, At, Goto, MayFail,
    Failed, End, Throw, Drop, RunTypes, DirectoriesInv, Directories, Bare, Early, Making,
    Ended, Untouched
<1>1. ASSUME NEW p \in Run, Acquire(p, "lock", "recover"), SetupFrame
       PROVE  DirectoriesInv'
  BY <1>1 DEF Acquire, SetupFrame
<1>2. ASSUME NEW p \in Run, NoLock(p), SetupFrame
       PROVE  DirectoriesInv'
  BY <1>2 DEF NoLock, SetupFrame, LockFails
<1>3. ASSUME NEW p \in Run, RemoveLeftover(p), SetupFrame
       PROVE  DirectoriesInv'
  BY <1>3 DEF RemoveLeftover, SetupFrame, Leftovers, Recovering, Recognised
<1>4. ASSUME NEW p \in Run, RecoveryFails(p), SetupFrame
       PROVE  DirectoriesInv'
  BY <1>4 DEF RecoveryFails, SetupFrame, Leftovers, Recognised
<1>5. ASSUME NEW p \in Run, Recovered(p), SetupFrame
       PROVE  DirectoriesInv'
  BY <1>5 DEF Recovered, SetupFrame
<1>6. ASSUME NEW p \in Run, CheckBackup(p), SetupFrame
       PROVE  DirectoriesInv'
  BY <1>6 DEF CheckBackup, SetupFrame
<1>7. ASSUME NEW p \in Run, CreateSetup(p), SetupFrame
       PROVE  DirectoriesInv'
  BY <1>7 DEF CreateSetup, SetupFrame
<1>8. ASSUME NEW p \in Run, CreateSetupFails(p), SetupFrame
       PROVE  DirectoriesInv'
  <2> SUFFICES ASSUME NEW r \in Run PROVE Directories(r)'
    OBVIOUS
  <2>1. CASE r = p
    BY <1>8, <2>1 DEF CreateSetupFails
  <2>2. CASE r # p
    BY <1>8, <2>2 DEF CreateSetupFails
  <2>3. QED
    BY <2>1, <2>2
<1>9. ASSUME NEW p \in Run, WriteJournal(p), SetupFrame
       PROVE  DirectoriesInv'
  BY <1>9 DEF WriteJournal, SetupFrame
<1>10. ASSUME NEW p \in Run, WriteJournalFails(p), SetupFrame
       PROVE  DirectoriesInv'
  <2> SUFFICES ASSUME NEW r \in Run PROVE Directories(r)'
    OBVIOUS
  <2>1. CASE r = p
    BY <1>10, <2>1 DEF WriteJournalFails
  <2>2. CASE r # p
    BY <1>10, <2>2 DEF WriteJournalFails
  <2>3. QED
    BY <2>1, <2>2
<1>11. ASSUME NEW p \in Run, Publish(p), SetupFrame
       PROVE  DirectoriesInv'
  <2> SUFFICES ASSUME NEW r \in Run PROVE Directories(r)'
    OBVIOUS
  <2>1. CASE r = p
    <3>1. CASE backup[p] = "absent"
      BY <1>11, <2>1, <3>1 DEF Publish
    <3>2. CASE backup[p] # "absent"
      BY <1>11, <2>1, <3>2 DEF Publish
    <3>3. QED
      BY <3>1, <3>2
  <2>2. CASE r # p
    BY <1>11, <2>2 DEF Publish
  <2>3. QED
    BY <2>1, <2>2
<1>12. ASSUME NEW p \in Run, PublishFails(p), SetupFrame
       PROVE  DirectoriesInv'
  <2> SUFFICES ASSUME NEW r \in Run PROVE Directories(r)'
    OBVIOUS
  <2>1. CASE r = p
    BY <1>12, <2>1 DEF PublishFails
  <2>2. CASE r # p
    BY <1>12, <2>2 DEF PublishFails
  <2>3. QED
    BY <2>1, <2>2
<1>13. ASSUME NEW p \in Run, CleanUp(p), SetupFrame
       PROVE  DirectoriesInv'
  BY <1>13 DEF CleanUp, SetupFrame, NotRemoved
<1>14. ASSUME NEW p \in Run, Release(p), SetupFrame
       PROVE  DirectoriesInv'
  BY <1>14 DEF Release, SetupFrame
<1>15. ASSUME NEW p \in Run, Start(p)
       PROVE  DirectoriesInv'
  BY <1>15 DEF Start
<1>16. ASSUME NEW p \in Run, Validate(p)
       PROVE  DirectoriesInv'
  BY <1>16 DEF Validate
<1>17. ASSUME NEW p \in Run, Die(p)
       PROVE  DirectoriesInv'
  BY <1>17 DEF Die, Crash
<1>18. ASSUME NEW p \in Run, Move(p)
       PROVE  DirectoriesInv'
  BY <1>18 DEF Move
<1>19. ASSUME NEW p \in Run, Commit(p)
       PROVE  DirectoriesInv'
  BY <1>19 DEF Commit, OutcomeInv, Outcome
<1>20. ASSUME NEW p \in Run, RollBack(p)
       PROVE  DirectoriesInv'
  BY <1>20 DEF RollBack, OutcomeInv, Outcome
<1>21. ASSUME NEW p \in Run, RollBackFails(p)
       PROVE  DirectoriesInv'
  BY <1>21 DEF RollBackFails, OutcomeInv, Outcome
<1>22. ASSUME NEW p \in Run, Unlock(p)
       PROVE  DirectoriesInv'
  BY <1>22 DEF Unlock
<1>23. ASSUME NEW p \in Run, Observe(p)
       PROVE  DirectoriesInv'
  BY <1>23 DEF Observe
<1>24. ASSUME NEW p \in Run, NoRelock(p)
       PROVE  DirectoriesInv'
  BY <1>24 DEF NoRelock, LockFails
<1>25. ASSUME NEW p \in Run, Rescan(p)
       PROVE  DirectoriesInv'
  BY <1>25 DEF Rescan
<1>26. ASSUME NEW p \in Run, Acquire(p, "relock", "rescan"), SetupFrame
       PROVE  DirectoriesInv'
  BY <1>26 DEF Acquire, SetupFrame
<1>27. ASSUME NEW p \in Run, Verify(p)
       PROVE  DirectoriesInv'
  BY <1>27 DEF Verify
<1>28. ASSUME NEW p \in Run, Rename(p)
       PROVE  DirectoriesInv'
  BY <1>28 DEF Rename
<1>29. ASSUME NEW p \in Run, RenameFails(p)
       PROVE  DirectoriesInv'
  BY <1>29 DEF RenameFails
<1>30. ASSUME NEW p \in Run, Recheck(p)
       PROVE  DirectoriesInv'
  BY <1>30 DEF Recheck
<1>31. ASSUME NEW p \in Run, Unlink(p)
       PROVE  DirectoriesInv'
  BY <1>31 DEF Unlink
<1>32. ASSUME NEW p \in Run, UnlinkFails(p)
       PROVE  DirectoriesInv'
  BY <1>32 DEF UnlinkFails
<1>33. ASSUME NEW p \in Run, Restore(p)
       PROVE  DirectoriesInv'
  BY <1>33 DEF Restore
<1>34. ASSUME NEW p \in Run, Leave(p)
       PROVE  DirectoriesInv'
  BY <1>34 DEF Leave
<1>35. CASE Meddle /\ SetupFrame
  BY <1>35 DEF Meddle, SetupFrame
<1>36. CASE TakeLockAway /\ SetupFrame
  BY <1>36 DEF TakeLockAway, SetupFrame
<1>37. CASE Overwrite
  BY <1>37 DEF Overwrite
<1>38. CASE UNCHANGED vars
  BY <1>38 DEF vars
<1>39. QED
  BY <1>1, <1>2, <1>3, <1>4, <1>5, <1>6, <1>7, <1>8, <1>9, <1>10, <1>11, <1>12, <1>13, <1>14,
      <1>15, <1>16, <1>17, <1>18, <1>19, <1>20, <1>21, <1>22, <1>23, <1>24, <1>25, <1>26,
          <1>27, <1>28, <1>29, <1>30, <1>31, <1>32, <1>33, <1>34, <1>35, <1>36, <1>37,
              <1>38 DEF Next, SetupNext, SetupFrame

\* A transaction ends as the invariant says.
LEMMA OutcomeStep ==
    ASSUME RunTypes, FileTypes, DirectoriesInv, OutcomeInv, [Next]_vars
    PROVE  OutcomeInv'
<1> USE DEF DirectoriesInv, Directories, Early, Making, Untouched, vars, setupVars, dirVars,
    ownVars, purgeVars, ownerVars, At, Goto, MayFail, Failed, End, Throw, Drop, RunTypes,
    OutcomeInv, Outcome, Purging, Ended
<1>1. ASSUME NEW p \in Run, Acquire(p, "lock", "recover"), SetupFrame
       PROVE  OutcomeInv'
  BY <1>1 DEF Acquire, SetupFrame
<1>2. ASSUME NEW p \in Run, NoLock(p), SetupFrame
       PROVE  OutcomeInv'
  BY <1>2 DEF NoLock, SetupFrame, LockFails
<1>3. ASSUME NEW p \in Run, RemoveLeftover(p), SetupFrame
       PROVE  OutcomeInv'
  BY <1>3 DEF RemoveLeftover, SetupFrame
<1>4. ASSUME NEW p \in Run, RecoveryFails(p), SetupFrame
       PROVE  OutcomeInv'
  BY <1>4 DEF RecoveryFails, SetupFrame
<1>5. ASSUME NEW p \in Run, Recovered(p), SetupFrame
       PROVE  OutcomeInv'
  BY <1>5 DEF Recovered, SetupFrame
<1>6. ASSUME NEW p \in Run, CheckBackup(p), SetupFrame
       PROVE  OutcomeInv'
  BY <1>6 DEF CheckBackup, SetupFrame
<1>7. ASSUME NEW p \in Run, CreateSetup(p), SetupFrame
       PROVE  OutcomeInv'
  BY <1>7 DEF CreateSetup, SetupFrame
<1>8. ASSUME NEW p \in Run, CreateSetupFails(p), SetupFrame
       PROVE  OutcomeInv'
  BY <1>8 DEF CreateSetupFails, SetupFrame
<1>9. ASSUME NEW p \in Run, WriteJournal(p), SetupFrame
       PROVE  OutcomeInv'
  BY <1>9 DEF WriteJournal, SetupFrame
<1>10. ASSUME NEW p \in Run, WriteJournalFails(p), SetupFrame
       PROVE  OutcomeInv'
  BY <1>10 DEF WriteJournalFails, SetupFrame
<1>11. ASSUME NEW p \in Run, Publish(p), SetupFrame
       PROVE  OutcomeInv'
  BY <1>11 DEF Publish, SetupFrame
<1>12. ASSUME NEW p \in Run, PublishFails(p), SetupFrame
       PROVE  OutcomeInv'
  BY <1>12 DEF PublishFails, SetupFrame
<1>13. ASSUME NEW p \in Run, CleanUp(p), SetupFrame
       PROVE  OutcomeInv'
  BY <1>13 DEF CleanUp, SetupFrame
<1>14. ASSUME NEW p \in Run, Release(p), SetupFrame
       PROVE  OutcomeInv'
  BY <1>14 DEF Release, SetupFrame
<1>15. ASSUME NEW p \in Run, Start(p)
       PROVE  OutcomeInv'
  BY <1>15 DEF Start, FileTypes, Verb
<1>16. ASSUME NEW p \in Run, Validate(p)
       PROVE  OutcomeInv'
  BY <1>16 DEF Validate, FileTypes, Verb
<1>17. ASSUME NEW p \in Run, Die(p)
       PROVE  OutcomeInv'
  BY <1>17 DEF Die, Crash
<1>18. ASSUME NEW p \in Run, Move(p)
       PROVE  OutcomeInv'
  BY <1>18 DEF Move
<1>19. ASSUME NEW p \in Run, Commit(p)
       PROVE  OutcomeInv'
  BY <1>19 DEF Commit
<1>20. ASSUME NEW p \in Run, RollBack(p)
       PROVE  OutcomeInv'
  BY <1>20 DEF RollBack
<1>21. ASSUME NEW p \in Run, RollBackFails(p)
       PROVE  OutcomeInv'
  BY <1>21 DEF RollBackFails
<1>22. ASSUME NEW p \in Run, Unlock(p)
       PROVE  OutcomeInv'
  BY <1>22 DEF Unlock
<1>23. ASSUME NEW p \in Run, Observe(p)
       PROVE  OutcomeInv'
  BY <1>23 DEF Observe
<1>24. ASSUME NEW p \in Run, NoRelock(p)
       PROVE  OutcomeInv'
  BY <1>24 DEF NoRelock, LockFails
<1>25. ASSUME NEW p \in Run, Rescan(p)
       PROVE  OutcomeInv'
  BY <1>25 DEF Rescan
<1>26. ASSUME NEW p \in Run, Acquire(p, "relock", "rescan"), SetupFrame
       PROVE  OutcomeInv'
  BY <1>26 DEF Acquire, SetupFrame
<1>27. ASSUME NEW p \in Run, Verify(p)
       PROVE  OutcomeInv'
  BY <1>27 DEF Verify
<1>28. ASSUME NEW p \in Run, Rename(p)
       PROVE  OutcomeInv'
  BY <1>28 DEF Rename
<1>29. ASSUME NEW p \in Run, RenameFails(p)
       PROVE  OutcomeInv'
  BY <1>29 DEF RenameFails
<1>30. ASSUME NEW p \in Run, Recheck(p)
       PROVE  OutcomeInv'
  BY <1>30 DEF Recheck
<1>31. ASSUME NEW p \in Run, Unlink(p)
       PROVE  OutcomeInv'
  BY <1>31 DEF Unlink
<1>32. ASSUME NEW p \in Run, UnlinkFails(p)
       PROVE  OutcomeInv'
  BY <1>32 DEF UnlinkFails
<1>33. ASSUME NEW p \in Run, Restore(p)
       PROVE  OutcomeInv'
  BY <1>33 DEF Restore
<1>34. ASSUME NEW p \in Run, Leave(p)
       PROVE  OutcomeInv'
  BY <1>34 DEF Leave
<1>35. CASE Meddle /\ SetupFrame
  BY <1>35 DEF Meddle, SetupFrame
<1>36. CASE TakeLockAway /\ SetupFrame
  BY <1>36 DEF TakeLockAway, SetupFrame
<1>37. CASE Overwrite
  BY <1>37 DEF Overwrite
<1>38. CASE UNCHANGED vars
  BY <1>38 DEF vars
<1>39. QED
  BY <1>1, <1>2, <1>3, <1>4, <1>5, <1>6, <1>7, <1>8, <1>9, <1>10, <1>11, <1>12, <1>13, <1>14,
      <1>15, <1>16, <1>17, <1>18, <1>19, <1>20, <1>21, <1>22, <1>23, <1>24, <1>25, <1>26,
          <1>27, <1>28, <1>29, <1>30, <1>31, <1>32, <1>33, <1>34, <1>35, <1>36, <1>37,
              <1>38 DEF Next, SetupNext, SetupFrame

\* A refusal stays clean.
LEMMA CleanStep ==
    ASSUME RunTypes, FileTypes, LockInv, DirectoriesInv, OutcomeInv, CleanRefusal, [Next]_vars
    PROVE  CleanRefusal'
<1> USE RefusalWords, Labels, RunAssumption DEF vars, setupVars, dirVars, ownVars, purgeVars,
    ownerVars, At, Goto, MayFail, Failed, End, Throw, Drop, RunTypes, CleanRefusal,
    DirectoriesInv, Directories, OutcomeInv, Outcome, Bare, Early, Making, Ended, Untouched,
    Nobody
<1>1. ASSUME NEW p \in Run, Acquire(p, "lock", "recover"), SetupFrame
       PROVE  CleanRefusal'
  BY <1>1 DEF Acquire, SetupFrame
<1>2. ASSUME NEW p \in Run, NoLock(p), SetupFrame
       PROVE  CleanRefusal'
  BY <1>2 DEF NoLock, SetupFrame, LockFails
<1>3. ASSUME NEW p \in Run, RemoveLeftover(p), SetupFrame
       PROVE  CleanRefusal'
  BY <1>3 DEF RemoveLeftover, SetupFrame, Leftovers, Recovering, Recognised
<1>4. ASSUME NEW p \in Run, RecoveryFails(p), SetupFrame
       PROVE  CleanRefusal'
  BY <1>4 DEF RecoveryFails, SetupFrame, Leftovers, Recognised
<1>5. ASSUME NEW p \in Run, Recovered(p), SetupFrame
       PROVE  CleanRefusal'
  BY <1>5 DEF Recovered, SetupFrame
<1>6. ASSUME NEW p \in Run, CheckBackup(p), SetupFrame
       PROVE  CleanRefusal'
  BY <1>6 DEF CheckBackup, SetupFrame
<1>7. ASSUME NEW p \in Run, CreateSetup(p), SetupFrame
       PROVE  CleanRefusal'
  BY <1>7 DEF CreateSetup, SetupFrame
<1>8. ASSUME NEW p \in Run, CreateSetupFails(p), SetupFrame
       PROVE  CleanRefusal'
  BY <1>8 DEF CreateSetupFails, SetupFrame
<1>9. ASSUME NEW p \in Run, WriteJournal(p), SetupFrame
       PROVE  CleanRefusal'
  BY <1>9 DEF WriteJournal, SetupFrame
<1>10. ASSUME NEW p \in Run, WriteJournalFails(p), SetupFrame
       PROVE  CleanRefusal'
  BY <1>10 DEF WriteJournalFails, SetupFrame
<1>11. ASSUME NEW p \in Run, Publish(p), SetupFrame
       PROVE  CleanRefusal'
  BY <1>11 DEF Publish, SetupFrame
<1>12. ASSUME NEW p \in Run, PublishFails(p), SetupFrame
       PROVE  CleanRefusal'
  BY <1>12 DEF PublishFails, SetupFrame
<1>13. ASSUME NEW p \in Run, CleanUp(p), SetupFrame
       PROVE  CleanRefusal'
  BY <1>13 DEF CleanUp, SetupFrame, NotRemoved
<1>14. ASSUME NEW p \in Run, Release(p), SetupFrame
       PROVE  CleanRefusal'
  BY <1>14 DEF Release, SetupFrame
<1>15. ASSUME NEW p \in Run, Start(p)
       PROVE  CleanRefusal'
  BY <1>15 DEF Start
<1>16. ASSUME NEW p \in Run, Validate(p)
       PROVE  CleanRefusal'
  BY <1>16 DEF Validate
<1>17. ASSUME NEW p \in Run, Die(p)
       PROVE  CleanRefusal'
  BY <1>17 DEF Die, Crash
<1>18. ASSUME NEW p \in Run, Move(p)
       PROVE  CleanRefusal'
  BY <1>18 DEF Move
<1>19. ASSUME NEW p \in Run, Commit(p)
       PROVE  CleanRefusal'
  BY <1>19 DEF Commit
<1>20. ASSUME NEW p \in Run, RollBack(p)
       PROVE  CleanRefusal'
  BY <1>20 DEF RollBack
<1>21. ASSUME NEW p \in Run, RollBackFails(p)
       PROVE  CleanRefusal'
  BY <1>21 DEF RollBackFails
<1>22. ASSUME NEW p \in Run, Unlock(p)
       PROVE  CleanRefusal'
  BY <1>22 DEF Unlock
<1>23. ASSUME NEW p \in Run, Observe(p)
       PROVE  CleanRefusal'
  BY <1>23 DEF Observe, Word, SweepWord, CommittedWord, Purging
<1>24. ASSUME NEW p \in Run, NoRelock(p)
       PROVE  CleanRefusal'
  BY <1>24 DEF NoRelock, LockFails, Word, SweepWord, CommittedWord, Purging
<1>25. ASSUME NEW p \in Run, Rescan(p)
       PROVE  CleanRefusal'
  BY <1>25 DEF Rescan
<1>26. ASSUME NEW p \in Run, Acquire(p, "relock", "rescan"), SetupFrame
       PROVE  CleanRefusal'
  BY <1>26 DEF Acquire, SetupFrame
<1>27. ASSUME NEW p \in Run, Verify(p)
       PROVE  CleanRefusal'
  BY <1>27 DEF Verify
<1>28. ASSUME NEW p \in Run, Rename(p)
       PROVE  CleanRefusal'
  BY <1>28 DEF Rename
<1>29. ASSUME NEW p \in Run, RenameFails(p)
       PROVE  CleanRefusal'
  BY <1>29 DEF RenameFails
<1>30. ASSUME NEW p \in Run, Recheck(p)
       PROVE  CleanRefusal'
  BY <1>30 DEF Recheck
<1>31. ASSUME NEW p \in Run, Unlink(p)
       PROVE  CleanRefusal'
  BY <1>31 DEF Unlink
<1>32. ASSUME NEW p \in Run, UnlinkFails(p)
       PROVE  CleanRefusal'
  BY <1>32 DEF UnlinkFails
<1>33. ASSUME NEW p \in Run, Restore(p)
       PROVE  CleanRefusal'
  BY <1>33 DEF Restore
<1>34. ASSUME NEW p \in Run, Leave(p)
       PROVE  CleanRefusal'
  BY <1>34 DEF Leave, Word, SweepWord, CommittedWord, Purging
<1>35. CASE Meddle /\ SetupFrame
  BY <1>35 DEF Meddle, SetupFrame
<1>36. CASE TakeLockAway /\ SetupFrame
  BY <1>36 DEF TakeLockAway, SetupFrame
<1>37. CASE Overwrite
  BY <1>37 DEF Overwrite
<1>38. CASE UNCHANGED vars
  BY <1>38 DEF vars
<1>39. QED
  BY <1>1, <1>2, <1>3, <1>4, <1>5, <1>6, <1>7, <1>8, <1>9, <1>10, <1>11, <1>12, <1>13, <1>14,
      <1>15, <1>16, <1>17, <1>18, <1>19, <1>20, <1>21, <1>22, <1>23, <1>24, <1>25, <1>26,
          <1>27, <1>28, <1>29, <1>30, <1>31, <1>32, <1>33, <1>34, <1>35, <1>36, <1>37,
              <1>38 DEF Next, SetupNext, SetupFrame

-----------------------------------------------------------------------------
(* The purge *)

Watching == {"verify", "leave"} \cup Holding

\* A run does a step of its purge, or dies.
Own(r) ==
    \/ Rescan(r) \/ Verify(r) \/ Rename(r) \/ RenameFails(r) \/ Recheck(r)
    \/ Unlink(r) \/ UnlinkFails(r) \/ Restore(r) \/ Leave(r) \/ Die(r)

\* What the other steps leave as it is: a run at its purge sees no file move and no
\* transaction commit.
Elsewhere(r) ==
    /\ hand'[r] = hand[r] /\ found'[r] = found[r]
    /\ stage[r] \in Watching <=> stage'[r] \in Watching
    /\ stage[r] \in Watching =>
         /\ stage'[r] = stage[r] /\ error'[r] = error[r] /\ verb'[r] = verb[r]
         /\ \A x \in Payload : payload'[x].at = payload[x].at
         /\ \A d \in Run : backup'[d] = "committed" <=> backup[d] = "committed"
    /\ stage[r] = "unlink" => payload'[InHand(r)].bytes \in {payload[InHand(r)].bytes, "late"}

\* A step is one of the purge of a run, or leaves the purge of that run alone.
LEMMA Turn ==
    ASSUME RunTypes, FileTypes, LockInv, DirectoriesInv, OutcomeInv, QuarantineInv,
           NEW r \in Run, [Next]_vars
    PROVE  Own(r) \/ Elsewhere(r)
<1> USE DEF vars, setupVars, dirVars, ownVars, purgeVars, ownerVars, At, Goto, MayFail,
    Failed, End, Throw, Drop, RunTypes, FileTypes, LockInv, Locked, SetupStage, Elsewhere,
    Watching, Holding
<1>1. ASSUME NEW p \in Run, Acquire(p, "lock", "recover"), SetupFrame
       PROVE  Own(r) \/ Elsewhere(r)
  BY <1>1 DEF Acquire, SetupFrame
<1>2. ASSUME NEW p \in Run, NoLock(p), SetupFrame
       PROVE  Own(r) \/ Elsewhere(r)
  BY <1>2 DEF NoLock, SetupFrame, LockFails
<1>3. ASSUME NEW p \in Run, RemoveLeftover(p), SetupFrame
       PROVE  Own(r) \/ Elsewhere(r)
  BY <1>3 DEF RemoveLeftover, SetupFrame
<1>4. ASSUME NEW p \in Run, RecoveryFails(p), SetupFrame
       PROVE  Own(r) \/ Elsewhere(r)
  BY <1>4 DEF RecoveryFails, SetupFrame
<1>5. ASSUME NEW p \in Run, Recovered(p), SetupFrame
       PROVE  Own(r) \/ Elsewhere(r)
  BY <1>5 DEF Recovered, SetupFrame
<1>6. ASSUME NEW p \in Run, CheckBackup(p), SetupFrame
       PROVE  Own(r) \/ Elsewhere(r)
  BY <1>6 DEF CheckBackup, SetupFrame
<1>7. ASSUME NEW p \in Run, CreateSetup(p), SetupFrame
       PROVE  Own(r) \/ Elsewhere(r)
  BY <1>7 DEF CreateSetup, SetupFrame
<1>8. ASSUME NEW p \in Run, CreateSetupFails(p), SetupFrame
       PROVE  Own(r) \/ Elsewhere(r)
  BY <1>8 DEF CreateSetupFails, SetupFrame
<1>9. ASSUME NEW p \in Run, WriteJournal(p), SetupFrame
       PROVE  Own(r) \/ Elsewhere(r)
  BY <1>9 DEF WriteJournal, SetupFrame
<1>10. ASSUME NEW p \in Run, WriteJournalFails(p), SetupFrame
       PROVE  Own(r) \/ Elsewhere(r)
  BY <1>10 DEF WriteJournalFails, SetupFrame
<1>11. ASSUME NEW p \in Run, Publish(p), SetupFrame
       PROVE  Own(r) \/ Elsewhere(r)
  BY <1>11 DEF Publish, SetupFrame, DirectoriesInv, Directories, Early, Making, Untouched
<1>12. ASSUME NEW p \in Run, PublishFails(p), SetupFrame
       PROVE  Own(r) \/ Elsewhere(r)
  BY <1>12 DEF PublishFails, SetupFrame, DirectoriesInv, Directories, Early, Making, Untouched
<1>13. ASSUME NEW p \in Run, CleanUp(p), SetupFrame
       PROVE  Own(r) \/ Elsewhere(r)
  BY <1>13 DEF CleanUp, SetupFrame
<1>14. ASSUME NEW p \in Run, Release(p), SetupFrame
       PROVE  Own(r) \/ Elsewhere(r)
  BY <1>14 DEF Release, SetupFrame
<1>15. ASSUME NEW p \in Run, Start(p)
       PROVE  Own(r) \/ Elsewhere(r)
  BY <1>15 DEF Start, Ended
<1>16. ASSUME NEW p \in Run, Validate(p)
       PROVE  Own(r) \/ Elsewhere(r)
  BY <1>16 DEF Validate
<1>17. ASSUME NEW p \in Run, Die(p)
       PROVE  Own(r) \/ Elsewhere(r)
  <2>1. CASE r = p
    BY <1>17, <2>1 DEF Own
  <2>2. CASE r # p
    BY <1>17, <2>2 DEF Die, Crash
  <2>3. QED
    BY <2>1, <2>2
<1>18. ASSUME NEW p \in Run, Move(p)
       PROVE  Own(r) \/ Elsewhere(r)
  BY <1>18 DEF Move
<1>19. ASSUME NEW p \in Run, Commit(p)
       PROVE  Own(r) \/ Elsewhere(r)
  BY <1>19 DEF Commit, OutcomeInv, Outcome
<1>20. ASSUME NEW p \in Run, RollBack(p)
       PROVE  Own(r) \/ Elsewhere(r)
  BY <1>20 DEF RollBack, OutcomeInv, Outcome
<1>21. ASSUME NEW p \in Run, RollBackFails(p)
       PROVE  Own(r) \/ Elsewhere(r)
  BY <1>21 DEF RollBackFails, OutcomeInv, Outcome
<1>22. ASSUME NEW p \in Run, Unlock(p)
       PROVE  Own(r) \/ Elsewhere(r)
  BY <1>22 DEF Unlock
<1>23. ASSUME NEW p \in Run, Observe(p)
       PROVE  Own(r) \/ Elsewhere(r)
  BY <1>23 DEF Observe
<1>24. ASSUME NEW p \in Run, NoRelock(p)
       PROVE  Own(r) \/ Elsewhere(r)
  BY <1>24 DEF NoRelock, LockFails
<1>25. ASSUME NEW p \in Run, Rescan(p)
       PROVE  Own(r) \/ Elsewhere(r)
  <2>1. CASE r = p
    BY <1>25, <2>1 DEF Own
  <2>2. CASE r # p
    BY <1>25, <2>2 DEF Rescan
  <2>3. QED
    BY <2>1, <2>2
<1>26. ASSUME NEW p \in Run, Acquire(p, "relock", "rescan"), SetupFrame
       PROVE  Own(r) \/ Elsewhere(r)
  BY <1>26 DEF Acquire, SetupFrame
<1>27. ASSUME NEW p \in Run, Verify(p)
       PROVE  Own(r) \/ Elsewhere(r)
  <2>1. CASE r = p
    BY <1>27, <2>1 DEF Own
  <2>2. CASE r # p
    BY <1>27, <2>2 DEF Verify
  <2>3. QED
    BY <2>1, <2>2
<1>28. ASSUME NEW p \in Run, Rename(p)
       PROVE  Own(r) \/ Elsewhere(r)
  <2>1. CASE r = p
    BY <1>28, <2>1 DEF Own
  <2>2. CASE r # p
    BY <1>28, <2>2 DEF Rename
  <2>3. QED
    BY <2>1, <2>2
<1>29. ASSUME NEW p \in Run, RenameFails(p)
       PROVE  Own(r) \/ Elsewhere(r)
  <2>1. CASE r = p
    BY <1>29, <2>1 DEF Own
  <2>2. CASE r # p
    BY <1>29, <2>2 DEF RenameFails
  <2>3. QED
    BY <2>1, <2>2
<1>30. ASSUME NEW p \in Run, Recheck(p)
       PROVE  Own(r) \/ Elsewhere(r)
  <2>1. CASE r = p
    BY <1>30, <2>1 DEF Own
  <2>2. CASE r # p
    BY <1>30, <2>2 DEF Recheck
  <2>3. QED
    BY <2>1, <2>2
<1>31. ASSUME NEW p \in Run, Unlink(p)
       PROVE  Own(r) \/ Elsewhere(r)
  <2>1. CASE r = p
    BY <1>31, <2>1 DEF Own
  <2>2. CASE r # p
    BY <1>31, <2>2 DEF Unlink
  <2>3. QED
    BY <2>1, <2>2
<1>32. ASSUME NEW p \in Run, UnlinkFails(p)
       PROVE  Own(r) \/ Elsewhere(r)
  <2>1. CASE r = p
    BY <1>32, <2>1 DEF Own
  <2>2. CASE r # p
    BY <1>32, <2>2 DEF UnlinkFails
  <2>3. QED
    BY <2>1, <2>2
<1>33. ASSUME NEW p \in Run, Restore(p)
       PROVE  Own(r) \/ Elsewhere(r)
  <2>1. CASE r = p
    BY <1>33, <2>1 DEF Own
  <2>2. CASE r # p
    BY <1>33, <2>2 DEF Restore
  <2>3. QED
    BY <2>1, <2>2
<1>34. ASSUME NEW p \in Run, Leave(p)
       PROVE  Own(r) \/ Elsewhere(r)
  <2>1. CASE r = p
    BY <1>34, <2>1 DEF Own
  <2>2. CASE r # p
    BY <1>34, <2>2 DEF Leave
  <2>3. QED
    BY <2>1, <2>2
<1>35. CASE Meddle /\ SetupFrame
  BY <1>35 DEF Meddle, SetupFrame
<1>36. CASE TakeLockAway /\ SetupFrame
  BY <1>36 DEF TakeLockAway, SetupFrame
<1>37. CASE Overwrite
  BY <1>37 DEF Overwrite, QuarantineInv, Quarantine, InHand
<1>38. CASE UNCHANGED vars
  BY <1>38 DEF vars
<1>39. QED
  BY <1>1, <1>2, <1>3, <1>4, <1>5, <1>6, <1>7, <1>8, <1>9, <1>10, <1>11, <1>12, <1>13, <1>14,
      <1>15, <1>16, <1>17, <1>18, <1>19, <1>20, <1>21, <1>22, <1>23, <1>24, <1>25, <1>26,
          <1>27, <1>28, <1>29, <1>30, <1>31, <1>32, <1>33, <1>34, <1>35, <1>36, <1>37,
              <1>38 DEF Next, SetupNext, SetupFrame

\* A committed transaction stays committed.
LEMMA CommitStays ==
    ASSUME RunTypes, DirectoriesInv, OutcomeInv, NEW d \in Run, backup[d] = "committed",
           [Next]_vars
    PROVE  backup'[d] = "committed"
<1> USE DEF vars, setupVars, dirVars, ownVars, purgeVars, ownerVars, At, Goto, MayFail,
    Failed, End, Throw, Drop, RunTypes, DirectoriesInv, Directories, OutcomeInv, Outcome,
    Early, Making, Untouched
<1>1. ASSUME NEW p \in Run, Acquire(p, "lock", "recover"), SetupFrame
       PROVE  backup'[d] = "committed"
  BY <1>1 DEF Acquire, SetupFrame
<1>2. ASSUME NEW p \in Run, NoLock(p), SetupFrame
       PROVE  backup'[d] = "committed"
  BY <1>2 DEF NoLock, SetupFrame
<1>3. ASSUME NEW p \in Run, RemoveLeftover(p), SetupFrame
       PROVE  backup'[d] = "committed"
  BY <1>3 DEF RemoveLeftover, SetupFrame
<1>4. ASSUME NEW p \in Run, RecoveryFails(p), SetupFrame
       PROVE  backup'[d] = "committed"
  BY <1>4 DEF RecoveryFails, SetupFrame
<1>5. ASSUME NEW p \in Run, Recovered(p), SetupFrame
       PROVE  backup'[d] = "committed"
  BY <1>5 DEF Recovered, SetupFrame
<1>6. ASSUME NEW p \in Run, CheckBackup(p), SetupFrame
       PROVE  backup'[d] = "committed"
  BY <1>6 DEF CheckBackup, SetupFrame
<1>7. ASSUME NEW p \in Run, CreateSetup(p), SetupFrame
       PROVE  backup'[d] = "committed"
  BY <1>7 DEF CreateSetup, SetupFrame
<1>8. ASSUME NEW p \in Run, CreateSetupFails(p), SetupFrame
       PROVE  backup'[d] = "committed"
  BY <1>8 DEF CreateSetupFails, SetupFrame
<1>9. ASSUME NEW p \in Run, WriteJournal(p), SetupFrame
       PROVE  backup'[d] = "committed"
  BY <1>9 DEF WriteJournal, SetupFrame
<1>10. ASSUME NEW p \in Run, WriteJournalFails(p), SetupFrame
       PROVE  backup'[d] = "committed"
  BY <1>10 DEF WriteJournalFails, SetupFrame
<1>11. ASSUME NEW p \in Run, Publish(p), SetupFrame
       PROVE  backup'[d] = "committed"
  BY <1>11 DEF Publish, SetupFrame
<1>12. ASSUME NEW p \in Run, PublishFails(p), SetupFrame
       PROVE  backup'[d] = "committed"
  BY <1>12 DEF PublishFails, SetupFrame
<1>13. ASSUME NEW p \in Run, CleanUp(p), SetupFrame
       PROVE  backup'[d] = "committed"
  BY <1>13 DEF CleanUp, SetupFrame
<1>14. ASSUME NEW p \in Run, Release(p), SetupFrame
       PROVE  backup'[d] = "committed"
  BY <1>14 DEF Release, SetupFrame
<1>15. ASSUME NEW p \in Run, Start(p)
       PROVE  backup'[d] = "committed"
  BY <1>15 DEF Start
<1>16. ASSUME NEW p \in Run, Validate(p)
       PROVE  backup'[d] = "committed"
  BY <1>16 DEF Validate
<1>17. ASSUME NEW p \in Run, Die(p)
       PROVE  backup'[d] = "committed"
  BY <1>17 DEF Die, Crash
<1>18. ASSUME NEW p \in Run, Move(p)
       PROVE  backup'[d] = "committed"
  BY <1>18 DEF Move
<1>19. ASSUME NEW p \in Run, Commit(p)
       PROVE  backup'[d] = "committed"
  BY <1>19 DEF Commit
<1>20. ASSUME NEW p \in Run, RollBack(p)
       PROVE  backup'[d] = "committed"
  BY <1>20 DEF RollBack
<1>21. ASSUME NEW p \in Run, RollBackFails(p)
       PROVE  backup'[d] = "committed"
  BY <1>21 DEF RollBackFails
<1>22. ASSUME NEW p \in Run, Unlock(p)
       PROVE  backup'[d] = "committed"
  BY <1>22 DEF Unlock
<1>23. ASSUME NEW p \in Run, Observe(p)
       PROVE  backup'[d] = "committed"
  BY <1>23 DEF Observe
<1>24. ASSUME NEW p \in Run, NoRelock(p)
       PROVE  backup'[d] = "committed"
  BY <1>24 DEF NoRelock
<1>25. ASSUME NEW p \in Run, Rescan(p)
       PROVE  backup'[d] = "committed"
  BY <1>25 DEF Rescan
<1>26. ASSUME NEW p \in Run, Acquire(p, "relock", "rescan"), SetupFrame
       PROVE  backup'[d] = "committed"
  BY <1>26 DEF Acquire, SetupFrame
<1>27. ASSUME NEW p \in Run, Verify(p)
       PROVE  backup'[d] = "committed"
  BY <1>27 DEF Verify
<1>28. ASSUME NEW p \in Run, Rename(p)
       PROVE  backup'[d] = "committed"
  BY <1>28 DEF Rename
<1>29. ASSUME NEW p \in Run, RenameFails(p)
       PROVE  backup'[d] = "committed"
  BY <1>29 DEF RenameFails
<1>30. ASSUME NEW p \in Run, Recheck(p)
       PROVE  backup'[d] = "committed"
  BY <1>30 DEF Recheck
<1>31. ASSUME NEW p \in Run, Unlink(p)
       PROVE  backup'[d] = "committed"
  BY <1>31 DEF Unlink
<1>32. ASSUME NEW p \in Run, UnlinkFails(p)
       PROVE  backup'[d] = "committed"
  BY <1>32 DEF UnlinkFails
<1>33. ASSUME NEW p \in Run, Restore(p)
       PROVE  backup'[d] = "committed"
  BY <1>33 DEF Restore
<1>34. ASSUME NEW p \in Run, Leave(p)
       PROVE  backup'[d] = "committed"
  BY <1>34 DEF Leave
<1>35. CASE Meddle /\ SetupFrame
  BY <1>35 DEF Meddle, SetupFrame
<1>36. CASE TakeLockAway /\ SetupFrame
  BY <1>36 DEF TakeLockAway, SetupFrame
<1>37. CASE Overwrite
  BY <1>37 DEF Overwrite
<1>38. CASE UNCHANGED vars
  BY <1>38 DEF vars
<1>39. QED
  BY <1>1, <1>2, <1>3, <1>4, <1>5, <1>6, <1>7, <1>8, <1>9, <1>10, <1>11, <1>12, <1>13, <1>14,
      <1>15, <1>16, <1>17, <1>18, <1>19, <1>20, <1>21, <1>22, <1>23, <1>24, <1>25, <1>26,
          <1>27, <1>28, <1>29, <1>30, <1>31, <1>32, <1>33, <1>34, <1>35, <1>36, <1>37,
              <1>38 DEF Next, SetupNext, SetupFrame

\* A file in hand is not nothing.
LEMMA FileIsNotNone ==
    ASSUME NEW f \in Payload \X Leaf
    PROVE  f # None
BY DEF None

\* What a run purges was collected by a committed transaction.
LEMMA QuarantineStep ==
    ASSUME RunTypes, FileTypes, LockInv, DirectoriesInv, OutcomeInv, QuarantineInv, [Next]_vars
    PROVE  QuarantineInv'
<1> SUFFICES ASSUME NEW r \in Run
             PROVE  Quarantine(r)'
  BY DEF QuarantineInv
<1> USE DEF RunTypes, FileTypes, QuarantineInv, Quarantine, Holding, At, Goto, MayFail,
    Failed, End, Drop, purgeVars, dirVars, ownVars, ownerVars
<1>1. \A x : Collected(x) => Collected(x)'
  BY CommitStays DEF Collected, Payload
<1>2. CASE Rescan(r)
  BY <1>2, <1>1 DEF Rescan, Waiting, Collected, Scope
<1>3. CASE Verify(r)
  <2>1. \A f \in found[r] : f # None
    BY FileIsNotNone
  <2>2. QED
    BY <1>3, <1>1, <2>1 DEF Verify
<1>4. CASE Rename(r)
  BY <1>4, <1>1 DEF Rename
<1>5. CASE RenameFails(r)
  BY <1>5, <1>1 DEF RenameFails
<1>6. CASE Recheck(r)
  BY <1>6, <1>1 DEF Recheck, Same, InHand
<1>7. CASE Unlink(r)
  BY <1>7, <1>1 DEF Unlink
<1>8. CASE UnlinkFails(r)
  BY <1>8, <1>1 DEF UnlinkFails
<1>9. CASE Restore(r)
  BY <1>9, <1>1 DEF Restore
<1>10. CASE Leave(r)
  BY <1>10, <1>1 DEF Leave
<1>11. CASE Die(r)
  BY <1>11, <1>1 DEF Die, Crash
<1>12. CASE Elsewhere(r)
  <2> USE DEF Elsewhere, Watching
  <2>1. (hand'[r] # None) <=> (stage'[r] \in Holding)
    BY <1>12
  <2>2. (stage[r] = "verify" \/ stage[r] \in Holding)' => \A f \in found'[r] : Collected(f[1])'
    BY <1>12, <1>1
  <2>3. stage'[r] \in Holding => hand'[r] \in found'[r]
    BY <1>12
  <2>4. stage'[r] = "unlink" => payload'[InHand(r)'].bytes # "other"
    <3>1. InHand(r)' = InHand(r)
      BY <1>12 DEF InHand
    <3>2. QED
      BY <1>12, <3>1
  <2>5. stage'[r] = "restore" => error'[r] # "none"
    BY <1>12
  <2>6. QED
    BY <2>1, <2>2, <2>3, <2>4, <2>5
<1>13. QED
  BY <1>2, <1>3, <1>4, <1>5, <1>6, <1>7, <1>8, <1>9, <1>10, <1>11, <1>12, Turn DEF Own

\* A purge forgets no file.
LEMMA RemainderStep ==
    ASSUME RunTypes, FileTypes, LockInv, DirectoriesInv, OutcomeInv, QuarantineInv,
           RemainderInv, [Next]_vars
    PROVE  RemainderInv'
<1> SUFFICES ASSUME NEW r \in Run
             PROVE  Remainder(r)'
  BY DEF RemainderInv
<1> USE DEF RunTypes, FileTypes, RemainderInv, Remainder, Holding, At, Goto, MayFail, Failed,
    End, Drop, purgeVars, dirVars, ownVars, ownerVars
<1>1. CASE Rescan(r)
  <2>1. Waiting(r)' = Waiting(r)
    BY <1>1 DEF Rescan, Waiting, Scope, Quarantined
  <2>2. ASSUME stage'[r] = "verify"
        PROVE  Waiting(r) \subseteq {f[1] : f \in found'[r]}
    <3>1. found'[r] = {<<x, payload[x].at>> : x \in Waiting(r)}
      BY <1>1, <2>2 DEF Rescan
    <3>2. \A x \in Waiting(r) : <<x, payload[x].at>> \in found'[r] /\ <<x,
        payload[x].at>>[1] = x
      BY <3>1
    <3>3. QED
      BY <3>2
  <2>3. stage'[r] = "verify" \/ (stage'[r] = "leave" /\ error'[r] # "none")
    BY <1>1, RefusalWords DEF Rescan
  <2>4. QED
    BY <2>1, <2>2, <2>3
<1>2. CASE Verify(r)
  <2>1. Waiting(r)' = Waiting(r)
    BY <1>2 DEF Verify, Waiting, Scope, Quarantined
  <2>2. CASE found[r] = {} /\ stage'[r] = "leave"
    <3>1. Waiting(r) = {}
      BY <1>2, <2>2 DEF Verify
    <3>2. QED
      BY <2>1, <2>2, <3>1
  <2>3. CASE stage'[r] = "rename" \/ (stage'[r] = "leave" /\ error'[r] # "none")
    BY <1>2, <2>1, <2>3 DEF Verify
  <2>4. QED
    BY <1>2, <2>2, <2>3 DEF Verify
<1>3. CASE Rename(r)
  <2>1. InHand(r) \in Waiting(r)' => InHand(r) \in {f[1] : f \in found[r]}
    BY <1>3 DEF Rename, QuarantineInv, Quarantine, InHand
  <2>2. \A x \in Waiting(r)' : x = InHand(r) \/ x \in Waiting(r)
    BY <1>3 DEF Rename, Waiting, Scope, Quarantined
  <2>3. QED
    BY <1>3, <2>1, <2>2 DEF Rename
<1>4. CASE RenameFails(r)
  BY <1>4 DEF RenameFails
<1>5. CASE Recheck(r)
  BY <1>5 DEF Recheck, Waiting, Scope, Quarantined
<1>6. CASE Unlink(r)
  <2>1. \A x \in Waiting(r)' : x # InHand(r) /\ x \in Waiting(r)
    BY <1>6 DEF Unlink, Waiting, Scope, Quarantined, Leaf
  <2>2. ASSUME NEW x \in Waiting(r)'
        PROVE  x \in {f[1] : f \in found'[r]}
    <3>1. PICK f \in found[r] : f[1] = x
      BY <1>6, <2>1, <2>2 DEF Unlink
    <3>2. f # hand[r]
      BY <2>1, <2>2, <3>1 DEF InHand
    <3>3. f \in found'[r]
      BY <1>6, <3>2 DEF Unlink
    <3>4. QED
      BY <3>1, <3>3
  <2>3. QED
    BY <1>6, <2>2 DEF Unlink
<1>7. CASE UnlinkFails(r)
  BY <1>7 DEF UnlinkFails
<1>8. CASE Restore(r)
  BY <1>8 DEF Restore, QuarantineInv, Quarantine
<1>9. CASE Leave(r)
  BY <1>9 DEF Leave
<1>10. CASE Die(r)
  BY <1>10 DEF Die, Crash
<1>11. CASE Elsewhere(r)
  <2>1. stage[r] \in Watching => Waiting(r)' = Waiting(r)
    BY <1>11 DEF Elsewhere, Waiting, Scope, Quarantined, Payload
  <2>2. QED
    BY <1>11, <2>1 DEF Elsewhere, Watching
<1>12. QED
  BY <1>1, <1>2, <1>3, <1>4, <1>5, <1>6, <1>7, <1>8, <1>9, <1>10, <1>11, Turn DEF Own

-----------------------------------------------------------------------------
(* The invariant is one *)

\* It holds at first.
LEMMA InitInv == Init => IInv
<1> SUFFICES ASSUME Init
             PROVE  IInv
  OBVIOUS
<1> USE DEF Init, SetupInit
<1>1. RunTypes
  BY DEF RunTypes, Stage, Error, Answer
<1>2. BudgetType
  BY BudgetAssumption DEF BudgetType
<1>3. FileTypes
  BY DEF FileTypes, Leaf
<1>4. LockInv /\ AloneInv /\ CleanRefusal
  BY DEF LockInv, AloneInv, CleanRefusal, Locked, SetupStage, Holding
<1>5. DirectoriesInv
  BY Labels DEF DirectoriesInv, Directories, Bare, Early, Making, Ended, Untouched
<1>6. OutcomeInv
  BY DEF OutcomeInv, Outcome, Purging
<1>7. QuarantineInv
  BY DEF QuarantineInv, Quarantine, Holding
<1>8. RemainderInv
  BY DEF RemainderInv, Remainder, Holding
<1>9. QED
  BY <1>1, <1>2, <1>3, <1>4, <1>5, <1>6, <1>7, <1>8, TypeParts DEF IInv

\* Every step keeps it.
LEMMA StepInv == IInv /\ [Next]_vars => IInv'
<1> SUFFICES ASSUME IInv, [Next]_vars
             PROVE  IInv'
  OBVIOUS
<1>1. /\ RunTypes /\ BudgetType /\ FileTypes /\ LockInv /\ AloneInv /\ CleanRefusal
      /\ DirectoriesInv /\ OutcomeInv /\ QuarantineInv /\ RemainderInv
  BY TypeParts DEF IInv
<1>2. RunTypes' /\ BudgetType' /\ FileTypes'
  BY <1>1, RunAssumption, RunTypesStep, BudgetStep, FileTypesStep DEF Nobody
<1>3. TypeOK'
  BY <1>2 DEF TypeOK, SetupTypeOK, RunTypes, BudgetType, FileTypes
<1>4. LockInv' /\ AloneInv' /\ CleanRefusal'
  BY <1>1, LockStep, AloneStep, CleanStep
<1>5. DirectoriesInv' /\ OutcomeInv'
  BY <1>1, DirectoriesStep, OutcomeStep
<1>6. QuarantineInv' /\ RemainderInv'
  BY <1>1, QuarantineStep, RemainderStep
<1>7. QED
  BY <1>3, <1>4, <1>5, <1>6 DEF IInv

\* The invariant holds in every state.
THEOREM Invariance == Spec => []IInv
BY InitInv, StepInv, PTL DEF Spec

\* Every variable keeps its type, whatever fails or dies.
THEOREM GcTypes == Spec => []TypeOK
<1>1. IInv => TypeOK
  BY DEF IInv
<1>2. QED
  BY <1>1, Invariance, PTL

\* A run that is refused and does not say that a human has to look leaves no lock, no
\* provisional directory and no unsettled transaction: the recovery, the set-up and the
\* exits of runTransaction, runGc and runUninstall.
THEOREM RefusesCleanly == Spec => []CleanRefusal
<1>1. IInv => CleanRefusal
  BY DEF IInv
<1>2. QED
  BY <1>1, Invariance, PTL

-----------------------------------------------------------------------------
(* Recovery *)

\* What a step does to the provisional directory of r and to what r has to say of others'.
Clears(r) ==
    /\ setup[r] # "absent" /\ setup'[r] = "absent" /\ backup'[r] = backup[r] =>
          stage[r] \in Ended \cup {"cleanup"}
    /\ error[r] = "none" /\ error'[r] = "security" => \E d \in Run : setup[d] = "strange"

\* A provisional directory goes when its run is dead or cleans up; only a strange one is suspect.
LEMMA ClearsStep ==
    ASSUME RunTypes, LockInv, DirectoriesInv, NEW r \in Run, [Next]_vars
    PROVE  Clears(r)
<1> USE RefusalWords DEF vars, setupVars, dirVars, ownVars, purgeVars, ownerVars, At, Goto,
    MayFail, Failed, End, Throw, Drop, RunTypes, LockInv, Locked, SetupStage, Holding,
    DirectoriesInv, Directories, Bare, Making, Ended, Clears
<1>1. ASSUME NEW p \in Run, Acquire(p, "lock", "recover"), SetupFrame
       PROVE  Clears(r)
  BY <1>1 DEF Acquire, SetupFrame
<1>2. ASSUME NEW p \in Run, NoLock(p), SetupFrame
       PROVE  Clears(r)
  BY <1>2 DEF NoLock, SetupFrame, LockFails
<1>3. ASSUME NEW p \in Run, RemoveLeftover(p), SetupFrame
       PROVE  Clears(r)
  BY <1>3 DEF RemoveLeftover, SetupFrame, Leftovers, Recovering, Recognised
<1>4. ASSUME NEW p \in Run, RecoveryFails(p), SetupFrame
       PROVE  Clears(r)
  BY <1>4 DEF RecoveryFails, SetupFrame, Leftovers, Recognised
<1>5. ASSUME NEW p \in Run, Recovered(p), SetupFrame
       PROVE  Clears(r)
  BY <1>5 DEF Recovered, SetupFrame
<1>6. ASSUME NEW p \in Run, CheckBackup(p), SetupFrame
       PROVE  Clears(r)
  BY <1>6 DEF CheckBackup, SetupFrame
<1>7. ASSUME NEW p \in Run, CreateSetup(p), SetupFrame
       PROVE  Clears(r)
  BY <1>7 DEF CreateSetup, SetupFrame
<1>8. ASSUME NEW p \in Run, CreateSetupFails(p), SetupFrame
       PROVE  Clears(r)
  BY <1>8 DEF CreateSetupFails, SetupFrame
<1>9. ASSUME NEW p \in Run, WriteJournal(p), SetupFrame
       PROVE  Clears(r)
  BY <1>9 DEF WriteJournal, SetupFrame
<1>10. ASSUME NEW p \in Run, WriteJournalFails(p), SetupFrame
       PROVE  Clears(r)
  BY <1>10 DEF WriteJournalFails, SetupFrame
<1>11. ASSUME NEW p \in Run, Publish(p), SetupFrame
       PROVE  Clears(r)
  BY <1>11 DEF Publish, SetupFrame
<1>12. ASSUME NEW p \in Run, PublishFails(p), SetupFrame
       PROVE  Clears(r)
  BY <1>12 DEF PublishFails, SetupFrame
<1>13. ASSUME NEW p \in Run, CleanUp(p), SetupFrame
       PROVE  Clears(r)
  BY <1>13 DEF CleanUp, SetupFrame
<1>14. ASSUME NEW p \in Run, Release(p), SetupFrame
       PROVE  Clears(r)
  BY <1>14 DEF Release, SetupFrame
<1>15. ASSUME NEW p \in Run, Start(p)
       PROVE  Clears(r)
  BY <1>15 DEF Start
<1>16. ASSUME NEW p \in Run, Validate(p)
       PROVE  Clears(r)
  BY <1>16 DEF Validate
<1>17. ASSUME NEW p \in Run, Die(p)
       PROVE  Clears(r)
  BY <1>17 DEF Die, Crash
<1>18. ASSUME NEW p \in Run, Move(p)
       PROVE  Clears(r)
  BY <1>18 DEF Move
<1>19. ASSUME NEW p \in Run, Commit(p)
       PROVE  Clears(r)
  BY <1>19 DEF Commit
<1>20. ASSUME NEW p \in Run, RollBack(p)
       PROVE  Clears(r)
  BY <1>20 DEF RollBack
<1>21. ASSUME NEW p \in Run, RollBackFails(p)
       PROVE  Clears(r)
  BY <1>21 DEF RollBackFails
<1>22. ASSUME NEW p \in Run, Unlock(p)
       PROVE  Clears(r)
  BY <1>22 DEF Unlock
<1>23. ASSUME NEW p \in Run, Observe(p)
       PROVE  Clears(r)
  BY <1>23 DEF Observe
<1>24. ASSUME NEW p \in Run, NoRelock(p)
       PROVE  Clears(r)
  BY <1>24 DEF NoRelock, LockFails
<1>25. ASSUME NEW p \in Run, Rescan(p)
       PROVE  Clears(r)
  BY <1>25 DEF Rescan
<1>26. ASSUME NEW p \in Run, Acquire(p, "relock", "rescan"), SetupFrame
       PROVE  Clears(r)
  BY <1>26 DEF Acquire, SetupFrame
<1>27. ASSUME NEW p \in Run, Verify(p)
       PROVE  Clears(r)
  BY <1>27 DEF Verify
<1>28. ASSUME NEW p \in Run, Rename(p)
       PROVE  Clears(r)
  BY <1>28 DEF Rename
<1>29. ASSUME NEW p \in Run, RenameFails(p)
       PROVE  Clears(r)
  BY <1>29 DEF RenameFails
<1>30. ASSUME NEW p \in Run, Recheck(p)
       PROVE  Clears(r)
  BY <1>30 DEF Recheck
<1>31. ASSUME NEW p \in Run, Unlink(p)
       PROVE  Clears(r)
  BY <1>31 DEF Unlink
<1>32. ASSUME NEW p \in Run, UnlinkFails(p)
       PROVE  Clears(r)
  BY <1>32 DEF UnlinkFails
<1>33. ASSUME NEW p \in Run, Restore(p)
       PROVE  Clears(r)
  BY <1>33 DEF Restore
<1>34. ASSUME NEW p \in Run, Leave(p)
       PROVE  Clears(r)
  BY <1>34 DEF Leave
<1>35. CASE Meddle /\ SetupFrame
  BY <1>35 DEF Meddle, SetupFrame
<1>36. CASE TakeLockAway /\ SetupFrame
  BY <1>36 DEF TakeLockAway, SetupFrame
<1>37. CASE Overwrite
  BY <1>37 DEF Overwrite
<1>38. CASE UNCHANGED vars
  BY <1>38 DEF vars
<1>39. QED
  BY <1>1, <1>2, <1>3, <1>4, <1>5, <1>6, <1>7, <1>8, <1>9, <1>10, <1>11, <1>12, <1>13, <1>14,
      <1>15, <1>16, <1>17, <1>18, <1>19, <1>20, <1>21, <1>22, <1>23, <1>24, <1>25, <1>26,
          <1>27, <1>28, <1>29, <1>30, <1>31, <1>32, <1>33, <1>34, <1>35, <1>36, <1>37,
              <1>38 DEF Next, SetupNext, SetupFrame

\* recoverTransactionSetupDirectories removes what dead runs left and nothing else, and it
\* refuses only what an outsider put there, for any number of runs at once.
THEOREM RecoversTheDead == Spec => RecoveryClearsTheDead
<1>1. IInv /\ [Next]_vars => \A r \in Run : Clears(r)
  BY ClearsStep, TypeParts DEF IInv
<1>2. IInv /\ [Next]_vars =>
        [ \A r \in Run :
            /\ setup[r] # "absent" /\ setup'[r] = "absent" /\ backup'[r] = backup[r] =>
                  stage[r] \in Ended \cup {"cleanup"}
            /\ error[r] = "none" /\ error'[r] = "security" => \E d \in Run : setup[d] = "strange" ]_setupVars
  BY <1>1 DEF Clears
<1>3. QED
  BY <1>2, Invariance, PTL DEF Spec, RecoveryClearsTheDead

-----------------------------------------------------------------------------
(* Unlinking *)

\* A file goes in the hands of a run.
LEMMA UnlinksInHand ==
    ASSUME FileTypes, QuarantineInv, NEW x \in Payload, payload[x].at # "gone",
           payload'[x].at = "gone", [Next]_vars
    PROVE  \E q \in Run : (Unlink(q) \/ UnlinkFails(q)) /\ InHand(q) = x
<1> USE DEF vars, setupVars, dirVars, ownVars, purgeVars, ownerVars, At, Goto, MayFail,
    Failed, End, Throw, Drop, FileTypes
<1>1. CASE SetupFrame
  BY <1>1 DEF SetupFrame
<1>2. ASSUME NEW p \in Run, Start(p)
       PROVE  \E q \in Run : (Unlink(q) \/ UnlinkFails(q)) /\ InHand(q) = x
  BY <1>2 DEF Start
<1>3. ASSUME NEW p \in Run, Validate(p)
       PROVE  \E q \in Run : (Unlink(q) \/ UnlinkFails(q)) /\ InHand(q) = x
  BY <1>3 DEF Validate
<1>4. ASSUME NEW p \in Run, Die(p)
       PROVE  \E q \in Run : (Unlink(q) \/ UnlinkFails(q)) /\ InHand(q) = x
  BY <1>4 DEF Die
<1>5. ASSUME NEW p \in Run, Move(p)
       PROVE  \E q \in Run : (Unlink(q) \/ UnlinkFails(q)) /\ InHand(q) = x
  BY <1>5 DEF Move
<1>6. ASSUME NEW p \in Run, Commit(p)
       PROVE  \E q \in Run : (Unlink(q) \/ UnlinkFails(q)) /\ InHand(q) = x
  BY <1>6 DEF Commit
<1>7. ASSUME NEW p \in Run, RollBack(p)
       PROVE  \E q \in Run : (Unlink(q) \/ UnlinkFails(q)) /\ InHand(q) = x
  BY <1>7 DEF RollBack
<1>8. ASSUME NEW p \in Run, RollBackFails(p)
       PROVE  \E q \in Run : (Unlink(q) \/ UnlinkFails(q)) /\ InHand(q) = x
  BY <1>8 DEF RollBackFails
<1>9. ASSUME NEW p \in Run, Unlock(p)
       PROVE  \E q \in Run : (Unlink(q) \/ UnlinkFails(q)) /\ InHand(q) = x
  BY <1>9 DEF Unlock
<1>10. ASSUME NEW p \in Run, Observe(p)
       PROVE  \E q \in Run : (Unlink(q) \/ UnlinkFails(q)) /\ InHand(q) = x
  BY <1>10 DEF Observe
<1>11. ASSUME NEW p \in Run, NoRelock(p)
       PROVE  \E q \in Run : (Unlink(q) \/ UnlinkFails(q)) /\ InHand(q) = x
  BY <1>11 DEF NoRelock
<1>12. ASSUME NEW p \in Run, Rescan(p)
       PROVE  \E q \in Run : (Unlink(q) \/ UnlinkFails(q)) /\ InHand(q) = x
  BY <1>12 DEF Rescan
<1>13. ASSUME NEW p \in Run, Verify(p)
       PROVE  \E q \in Run : (Unlink(q) \/ UnlinkFails(q)) /\ InHand(q) = x
  BY <1>13 DEF Verify
<1>14. ASSUME NEW p \in Run, Rename(p)
       PROVE  \E q \in Run : (Unlink(q) \/ UnlinkFails(q)) /\ InHand(q) = x
  BY <1>14 DEF Rename
<1>15. ASSUME NEW p \in Run, RenameFails(p)
       PROVE  \E q \in Run : (Unlink(q) \/ UnlinkFails(q)) /\ InHand(q) = x
  BY <1>15 DEF RenameFails
<1>16. ASSUME NEW p \in Run, Recheck(p)
       PROVE  \E q \in Run : (Unlink(q) \/ UnlinkFails(q)) /\ InHand(q) = x
  BY <1>16 DEF Recheck
<1>17. ASSUME NEW p \in Run, Unlink(p)
       PROVE  \E q \in Run : (Unlink(q) \/ UnlinkFails(q)) /\ InHand(q) = x
  BY <1>17 DEF Unlink
<1>18. ASSUME NEW p \in Run, UnlinkFails(p)
       PROVE  \E q \in Run : (Unlink(q) \/ UnlinkFails(q)) /\ InHand(q) = x
  BY <1>18 DEF UnlinkFails
<1>19. ASSUME NEW p \in Run, Restore(p)
       PROVE  \E q \in Run : (Unlink(q) \/ UnlinkFails(q)) /\ InHand(q) = x
  <2>1. hand[p] \in Payload \X Leaf
    BY <1>19 DEF Restore, QuarantineInv, Quarantine, Holding
  <2>2. hand[p][2] # "gone"
    BY <2>1 DEF Leaf
  <2>3. QED
    BY <1>19, <2>2 DEF Restore, InHand
<1>20. ASSUME NEW p \in Run, Leave(p)
       PROVE  \E q \in Run : (Unlink(q) \/ UnlinkFails(q)) /\ InHand(q) = x
  BY <1>20 DEF Leave
<1>21. CASE Overwrite
  BY <1>21 DEF Overwrite
<1>22. CASE UNCHANGED vars
  BY <1>22 DEF vars
<1>23. QED
  BY <1>1, <1>2, <1>3, <1>4, <1>5, <1>6, <1>7, <1>8, <1>9, <1>10, <1>11, <1>12, <1>13, <1>14,
      <1>15, <1>16, <1>17, <1>18, <1>19, <1>20, <1>21, <1>22 DEF Next, SetupNext, SetupFrame

\* The purge of committed transactions unlinks what one of them collected, unchanged as
\* far as it can see, and under the lock, whatever other runs and outsiders do meanwhile.
THEOREM CollectsOnly == Spec => OnlyCollectedStateGoes
<1>1. ASSUME IInv, [Next]_vars, NEW x \in Payload, payload[x].at # "gone",
    payload'[x].at = "gone"
      PROVE  /\ backup[x[1]] = "committed" /\ x[2] # "profile" /\ payload[x].bytes # "other"
             /\ \E r \in Run : lock = r /\ hand[r] # None /\ InHand(r) = x
  <2>1. PICK p \in Run : (Unlink(p) \/ UnlinkFails(p)) /\ InHand(p) = x
    BY <1>1, UnlinksInHand, TypeParts DEF IInv
  <2>2. stage[p] = "unlink"
    BY <2>1 DEF Unlink, UnlinkFails, At
  <2>3. lock = p
    BY <1>1, <2>2 DEF IInv, LockInv, Locked, Holding
  <2>4. Quarantine(p) /\ stage[p] \in Holding
    BY <1>1, <2>2 DEF IInv, QuarantineInv, Holding
  <2>5. hand[p] # None /\ payload[x].bytes # "other" /\ Collected(hand[p][1])
    BY <2>1, <2>2, <2>4 DEF Quarantine
  <2>6. QED
    BY <2>1, <2>3, <2>5 DEF Collected, Eligible, InHand
<1>2. IInv /\ [Next]_vars =>
        [ \A x \in Payload :
            payload[x].at # "gone" /\ payload'[x].at = "gone" =>
               /\ backup[x[1]] = "committed" /\ x[2] # "profile" /\ payload[x].bytes # "other"
               /\ \E r \in Run : lock = r /\ hand[r] # None /\ InHand(r) = x ]_vars
  BY <1>1
<1>3. QED
  BY <1>2, Invariance, PTL DEF Spec, OnlyCollectedStateGoes

-----------------------------------------------------------------------------
(* Success *)

\* The two steps that answer success.
Succeeds(r) ==
    \/ At(r, "observe") /\ \A x \in Waiting(r) : Handled(x)
    \/ At(r, "leave") /\ error[r] = "none"

\* Success is the answer when nothing was found or all was purged.
LEMMA SuccessSteps ==
    ASSUME RunTypes, NEW r \in Run, answer[r] = "none", answer'[r] = "success", [Next]_vars
    PROVE  Succeeds(r)
<1> USE RefusalWords DEF vars, setupVars, dirVars, ownVars, purgeVars, ownerVars, At, Goto,
    MayFail, Failed, End, Throw, Drop, RunTypes, Succeeds, Error
<1>1. ASSUME NEW p \in Run, Acquire(p, "lock", "recover"), SetupFrame
       PROVE  Succeeds(r)
  BY <1>1 DEF Acquire, SetupFrame
<1>2. ASSUME NEW p \in Run, NoLock(p), SetupFrame
       PROVE  Succeeds(r)
  BY <1>2 DEF NoLock, SetupFrame, LockFails
<1>3. ASSUME NEW p \in Run, RemoveLeftover(p), SetupFrame
       PROVE  Succeeds(r)
  BY <1>3 DEF RemoveLeftover, SetupFrame
<1>4. ASSUME NEW p \in Run, RecoveryFails(p), SetupFrame
       PROVE  Succeeds(r)
  BY <1>4 DEF RecoveryFails, SetupFrame
<1>5. ASSUME NEW p \in Run, Recovered(p), SetupFrame
       PROVE  Succeeds(r)
  BY <1>5 DEF Recovered, SetupFrame
<1>6. ASSUME NEW p \in Run, CheckBackup(p), SetupFrame
       PROVE  Succeeds(r)
  BY <1>6 DEF CheckBackup, SetupFrame
<1>7. ASSUME NEW p \in Run, CreateSetup(p), SetupFrame
       PROVE  Succeeds(r)
  BY <1>7 DEF CreateSetup, SetupFrame
<1>8. ASSUME NEW p \in Run, CreateSetupFails(p), SetupFrame
       PROVE  Succeeds(r)
  BY <1>8 DEF CreateSetupFails, SetupFrame
<1>9. ASSUME NEW p \in Run, WriteJournal(p), SetupFrame
       PROVE  Succeeds(r)
  BY <1>9 DEF WriteJournal, SetupFrame
<1>10. ASSUME NEW p \in Run, WriteJournalFails(p), SetupFrame
       PROVE  Succeeds(r)
  BY <1>10 DEF WriteJournalFails, SetupFrame
<1>11. ASSUME NEW p \in Run, Publish(p), SetupFrame
       PROVE  Succeeds(r)
  BY <1>11 DEF Publish, SetupFrame
<1>12. ASSUME NEW p \in Run, PublishFails(p), SetupFrame
       PROVE  Succeeds(r)
  BY <1>12 DEF PublishFails, SetupFrame
<1>13. ASSUME NEW p \in Run, CleanUp(p), SetupFrame
       PROVE  Succeeds(r)
  BY <1>13 DEF CleanUp, SetupFrame
<1>14. ASSUME NEW p \in Run, Release(p), SetupFrame
       PROVE  Succeeds(r)
  BY <1>14 DEF Release, SetupFrame
<1>15. ASSUME NEW p \in Run, Start(p)
       PROVE  Succeeds(r)
  BY <1>15 DEF Start
<1>16. ASSUME NEW p \in Run, Validate(p)
       PROVE  Succeeds(r)
  BY <1>16 DEF Validate
<1>17. ASSUME NEW p \in Run, Die(p)
       PROVE  Succeeds(r)
  BY <1>17 DEF Die, Crash
<1>18. ASSUME NEW p \in Run, Move(p)
       PROVE  Succeeds(r)
  BY <1>18 DEF Move
<1>19. ASSUME NEW p \in Run, Commit(p)
       PROVE  Succeeds(r)
  BY <1>19 DEF Commit
<1>20. ASSUME NEW p \in Run, RollBack(p)
       PROVE  Succeeds(r)
  BY <1>20 DEF RollBack
<1>21. ASSUME NEW p \in Run, RollBackFails(p)
       PROVE  Succeeds(r)
  BY <1>21 DEF RollBackFails
<1>22. ASSUME NEW p \in Run, Unlock(p)
       PROVE  Succeeds(r)
  BY <1>22 DEF Unlock
<1>23. ASSUME NEW p \in Run, Observe(p)
       PROVE  Succeeds(r)
  BY <1>23 DEF Observe, Word, SweepWord, CommittedWord
<1>24. ASSUME NEW p \in Run, NoRelock(p)
       PROVE  Succeeds(r)
  BY <1>24 DEF NoRelock, LockFails, Word, SweepWord, CommittedWord
<1>25. ASSUME NEW p \in Run, Rescan(p)
       PROVE  Succeeds(r)
  BY <1>25 DEF Rescan
<1>26. ASSUME NEW p \in Run, Acquire(p, "relock", "rescan"), SetupFrame
       PROVE  Succeeds(r)
  BY <1>26 DEF Acquire, SetupFrame
<1>27. ASSUME NEW p \in Run, Verify(p)
       PROVE  Succeeds(r)
  BY <1>27 DEF Verify
<1>28. ASSUME NEW p \in Run, Rename(p)
       PROVE  Succeeds(r)
  BY <1>28 DEF Rename
<1>29. ASSUME NEW p \in Run, RenameFails(p)
       PROVE  Succeeds(r)
  BY <1>29 DEF RenameFails
<1>30. ASSUME NEW p \in Run, Recheck(p)
       PROVE  Succeeds(r)
  BY <1>30 DEF Recheck
<1>31. ASSUME NEW p \in Run, Unlink(p)
       PROVE  Succeeds(r)
  BY <1>31 DEF Unlink
<1>32. ASSUME NEW p \in Run, UnlinkFails(p)
       PROVE  Succeeds(r)
  BY <1>32 DEF UnlinkFails
<1>33. ASSUME NEW p \in Run, Restore(p)
       PROVE  Succeeds(r)
  BY <1>33 DEF Restore
<1>34. ASSUME NEW p \in Run, Leave(p)
       PROVE  Succeeds(r)
  BY <1>34 DEF Leave, Word, SweepWord, CommittedWord
<1>35. CASE Meddle /\ SetupFrame
  BY <1>35 DEF Meddle, SetupFrame
<1>36. CASE TakeLockAway /\ SetupFrame
  BY <1>36 DEF TakeLockAway, SetupFrame
<1>37. CASE Overwrite
  BY <1>37 DEF Overwrite
<1>38. CASE UNCHANGED vars
  BY <1>38 DEF vars
<1>39. QED
  BY <1>1, <1>2, <1>3, <1>4, <1>5, <1>6, <1>7, <1>8, <1>9, <1>10, <1>11, <1>12, <1>13, <1>14,
      <1>15, <1>16, <1>17, <1>18, <1>19, <1>20, <1>21, <1>22, <1>23, <1>24, <1>25, <1>26,
          <1>27, <1>28, <1>29, <1>30, <1>31, <1>32, <1>33, <1>34, <1>35, <1>36, <1>37,
              <1>38 DEF Next, SetupNext, SetupFrame

\* After a success of a run that was alone no collected file waits in the quarantine, also
\* none of a run that died or was refused in the middle of its purge.
THEOREM Reclaims == Spec => SuccessMeansReclaimed
<1>1. ASSUME IInv, [Next]_vars, NEW r \in Run, answer[r] = "none", answer'[r] = "success",
    alone[r]
      PROVE  Waiting(r) = {}
  <2>1. Succeeds(r)
    BY <1>1, SuccessSteps, TypeParts DEF IInv
  <2>2. CASE stage[r] = "observe"
    <3>1. \A x \in Waiting(r) : Handled(x)
      BY <2>1, <2>2 DEF Succeeds, At
    <3>2. ASSUME NEW p \in Run, hand[p] # None
          PROVE  FALSE
      <4>1. stage[p] \in Holding
        BY <1>1, <3>2 DEF IInv, QuarantineInv, Quarantine
      <4>2. p \in Live /\ r \in Live
        BY <2>2, <4>1 DEF Live, Holding, Ended
      <4>3. p = r
        BY <1>1, <4>2 DEF IInv, AloneInv
      <4>4. QED
        BY <2>2, <4>1, <4>3 DEF Holding
    <3>3. QED
      BY <3>1, <3>2 DEF Handled
  <2>3. CASE stage[r] = "leave" /\ error[r] = "none"
    BY <1>1, <2>3 DEF IInv, RemainderInv, Remainder
  <2>4. QED
    BY <2>1, <2>2, <2>3 DEF Succeeds, At
<1>2. \A r \in Run : Waiting(r) = {} =>
         \A x \in Payload :
            x[1] \in Scope(r) /\ backup[x[1]] = "committed" /\ Quarantined(x) => x[2] = "profile"
  BY DEF Waiting, Eligible
<1>3. IInv /\ [Next]_vars =>
        [ \A r \in Run :
            answer[r] = "none" /\ answer'[r] = "success" /\ alone[r] =>
               \A x \in Payload :
                  x[1] \in Scope(r) /\ backup[x[1]] = "committed" /\ Quarantined(x) => x[2] = "profile" ]_vars
  BY <1>1, <1>2
<1>4. QED
  BY <1>3, Invariance, PTL DEF Spec, SuccessMeansReclaimed

=============================================================================
