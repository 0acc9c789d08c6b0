-------------------------- MODULE TransactionSetup --------------------------
(***************************************************************************)
(* How runTransaction (packages/cli/src/transaction.ts) gets a directory   *)
(* for its journal: under the artifact lock of the home it clears what     *)
(* dead runs left (.setup-<uuid> below .dshpack/backups), makes a          *)
(* directory of that kind, writes the journal in it and renames it to      *)
(* backups/<txid>.  Module GcQuarantine has what follows.                  *)
(*                                                                         *)
(* A run is a process.  Any call may fail, before or after it took effect, *)
(* and a run may die at any point; its lock file stays until somebody      *)
(* takes it away.  Outsiders may put things below backups.                 *)
(***************************************************************************)
EXTENDS Naturals, FiniteSets

CONSTANTS
    Run,         \* processes, each with a transaction id and a uuid of its own
    MaxFailures, \* bound: calls that fail
    MaxCrashes,  \* bound: runs that die
    MaxOutside   \* bound: things outsiders do

ASSUME RunAssumption == IsFiniteSet(Run) /\ "nobody" \notin Run
ASSUME BudgetAssumption == {MaxFailures, MaxCrashes, MaxOutside} \subseteq Nat

Nobody == "nobody"
Verb == {"gc", "sweep", "uninstall"}
SetupStage == {"lock", "recover", "check", "create", "fill", "name", "publish", "cleanup", "release"}
LaterStage == {"scan", "mutate", "unlock", "observe", "relock", "rescan", "verify", "rename",
               "recheck", "unlink", "restore", "leave"}
Ended == {"over", "dead"}
Stage == {"idle"} \cup SetupStage \cup LaterStage \cup Ended
Error == {"none", "conflict", "security", "contract", "internal", "progress", "manual"}
\* "manual" is exit 25; "pending" is exit 0 with a warning that files are left to reclaim.
Answer == {"none", "success", "pending", "manual"} \cup Error

VARIABLES
    stage,
    lock,    \* the run the lock file names, alive or not
    setup,   \* [Run -> what .setup-<uuid> holds]
    backup,  \* [Run -> the state the journal in backups/<txid> says]
    owns,    \* [Run -> the directories the run knows it made, "maybe" if it cannot tell]
    unsure,  \* [Run -> the run failed to undo something, or does not know]
    error,   \* [Run -> what went wrong]
    answer,
    mishaps  \* failures, crashes and deeds of outsiders so far

dirVars == <<setup, backup>>
ownVars == <<owns, unsure>>
setupVars == <<stage, lock, setup, backup, owns, unsure, error, answer, mishaps>>

SetupTypeOK ==
    /\ stage \in [Run -> Stage]
    /\ lock \in Run \cup {Nobody}
    /\ setup \in [Run -> {"absent", "empty", "temp", "journal", "strange"}]
    /\ backup \in [Run -> {"absent", "foreign", "active", "committed", "rolled-back", "rollback-failed"}]
    /\ owns \in [Run -> SUBSET {"setup", "backup", "maybe"}]
    /\ unsure \in [Run -> BOOLEAN]
    /\ error \in [Run -> Error] /\ answer \in [Run -> Answer]
    /\ mishaps \in [failures: 0 .. MaxFailures, crashes: 0 .. MaxCrashes, outside: 0 .. MaxOutside]

SetupInit ==
    /\ stage = [r \in Run |-> "idle"]
    /\ lock = Nobody
    /\ setup = [r \in Run |-> "absent"] /\ backup = [r \in Run |-> "absent"]
    /\ owns = [r \in Run |-> {}] /\ unsure = [r \in Run |-> FALSE]
    /\ error = [r \in Run |-> "none"] /\ answer = [r \in Run |-> "none"]
    /\ mishaps = [failures |-> 0, crashes |-> 0, outside |-> 0]

At(r, s) == stage[r] = s
Goto(r, s) == stage' = [stage EXCEPT ![r] = s]
MayFail == mishaps.failures < MaxFailures
Failed == mishaps' = [mishaps EXCEPT !.failures = @ + 1]
End(r, word) == stage' = [stage EXCEPT ![r] = "over"] /\ answer' = [answer EXCEPT ![r] = word]
Throw(r, what) == error' = [error EXCEPT ![r] = what] /\ Goto(r, "cleanup")

-----------------------------------------------------------------------------
(* The lock; module SettingsLock has how it is kept. *)

Acquire(r, from, to) ==
    /\ At(r, from) /\ lock = Nobody
    /\ lock' = r
    /\ Goto(r, to)
    /\ UNCHANGED <<dirVars, ownVars, error, answer, mishaps>>

\* The file cannot be created, or it can be neither signed nor removed again.
LockFails(r) ==
    \/ MayFail /\ Failed /\ UNCHANGED lock
    \/ /\ lock = Nobody /\ mishaps.failures + 2 <= MaxFailures
       /\ lock' = r /\ mishaps' = [mishaps EXCEPT !.failures = @ + 2]

\* The lock cannot be had in time, or the metadata directories cannot be made; exit 25 if
\* one of them was made and the run cannot be sure that it stays.
NoLock(r) ==
    /\ At(r, "lock")
    /\ \/ lock # Nobody /\ End(r, "conflict") /\ UNCHANGED <<lock, mishaps>>
       \/ LockFails(r) /\ \E word \in {"internal", "security", "manual"} : End(r, word)
    /\ UNCHANGED <<dirVars, ownVars, error>>

-----------------------------------------------------------------------------
(* recoverTransactionSetupDirectories *)

Leftovers(r) == {d \in Run : setup[d] # "absent"}

Recovering(r) == At(r, "recover")

\* Mutant of Recognised: a directory with the temporary of a journal is not known.
RecognisedJournal(d) == setup[d] \in {"empty", "journal"}

\* Empty, or with nothing in it but a journal without actions or its temporary.
Recognised(d) == setup[d] \in {"empty", "temp", "journal"}

\* Its one file goes first; once something is gone a failure is progress.
RemoveLeftover(r) ==
    /\ Recovering(r)
    /\ \E d \in Leftovers(r) :
         /\ Recognised(d)
         /\ setup' = [setup EXCEPT ![d] = IF @ = "empty" THEN "absent" ELSE "empty"]
    /\ unsure' = [unsure EXCEPT ![r] = TRUE]
    /\ UNCHANGED <<stage, lock, backup, owns, error, answer, mishaps>>

RecoveryFails(r) ==
    /\ At(r, "recover")
    /\ \/ /\ \E d \in Leftovers(r) : ~Recognised(d)
          /\ Throw(r, IF unsure[r] THEN "progress" ELSE "security")
          /\ UNCHANGED <<setup, mishaps>>
       \/ /\ MayFail /\ Failed
          /\ \/ Throw(r, IF unsure[r] THEN "progress" ELSE "internal") /\ UNCHANGED setup
             \/ /\ \E d \in Leftovers(r) :
                     /\ Recognised(d)
                     /\ setup' = [setup EXCEPT ![d] = IF @ = "empty" THEN "absent" ELSE "empty"]
                /\ Throw(r, "progress")
    /\ unsure' = [unsure EXCEPT ![r] = FALSE]
    /\ UNCHANGED <<lock, backup, owns, answer>>

Recovered(r) ==
    /\ At(r, "recover") /\ Leftovers(r) = {}
    /\ unsure' = [unsure EXCEPT ![r] = FALSE]
    /\ Goto(r, "check")
    /\ UNCHANGED <<lock, dirVars, owns, error, answer, mishaps>>

-----------------------------------------------------------------------------
(* runTransaction up to the operation *)

\* backups/<txid> must not be there.
CheckBackup(r) ==
    /\ At(r, "check")
    /\ IF backup[r] = "absent"
       THEN Goto(r, "create") /\ UNCHANGED error
       ELSE error' = [error EXCEPT ![r] = "conflict"] /\ Goto(r, "release")
    /\ UNCHANGED <<lock, dirVars, ownVars, answer, mishaps>>

CreateSetup(r) ==
    /\ At(r, "create")
    /\ \/ /\ setup[r] = "absent"
          /\ setup' = [setup EXCEPT ![r] = "empty"]
          /\ owns' = [owns EXCEPT ![r] = {"setup"}]
          /\ Goto(r, "fill") /\ UNCHANGED <<error, mishaps>>
       \/ /\ setup[r] # "absent"
          /\ Throw(r, "conflict") /\ UNCHANGED <<setup, owns, mishaps>>
    /\ UNCHANGED <<lock, backup, unsure, answer>>

\* It fails before it made the directory, which the run cannot know, or after.
CreateSetupFails(r) ==
    /\ At(r, "create") /\ MayFail /\ Failed
    /\ \/ owns' = [owns EXCEPT ![r] = {"maybe"}] /\ UNCHANGED setup
       \/ /\ setup[r] = "absent"
          /\ setup' = [setup EXCEPT ![r] = "empty"]
          /\ owns' = [owns EXCEPT ![r] = {"setup"}]
    /\ Throw(r, "internal")
    /\ UNCHANGED <<lock, backup, unsure, answer>>

\* writeFileAtomic: the temporary is written, then it gets the name of the journal.
WriteJournal(r) ==
    /\ \/ At(r, "fill") /\ setup' = [setup EXCEPT ![r] = "temp"] /\ Goto(r, "name")
       \/ At(r, "name") /\ setup' = [setup EXCEPT ![r] = "journal"] /\ Goto(r, "publish")
    /\ setup[r] # "strange"
    /\ UNCHANGED <<lock, backup, ownVars, error, answer, mishaps>>

\* The temporary is removed, if that can be done.
WriteJournalFails(r) ==
    /\ stage[r] \in {"fill", "name"} /\ MayFail /\ Failed
    /\ setup' \in {[setup EXCEPT ![r] = left] :
                     left \in IF setup[r] = "strange" THEN {"strange"}
                              ELSE IF At(r, "fill") THEN {"empty"} ELSE {"empty", "temp", "journal"}}
    /\ Throw(r, "internal")
    /\ UNCHANGED <<lock, backup, ownVars, answer>>

\* The rename of the directory; a name that is taken by then is an error.
Publish(r) ==
    /\ At(r, "publish")
    /\ \/ /\ backup[r] = "absent"
          /\ setup' = [setup EXCEPT ![r] = "absent"]
          /\ backup' = [backup EXCEPT ![r] = "active"]
          /\ owns' = [owns EXCEPT ![r] = {}]
          /\ Goto(r, "mutate") /\ UNCHANGED error
       \/ backup[r] # "absent" /\ Throw(r, "internal") /\ UNCHANGED <<setup, backup, owns>>
    /\ UNCHANGED <<lock, unsure, answer, mishaps>>

PublishFails(r) ==
    /\ At(r, "publish") /\ MayFail /\ Failed
    /\ \/ UNCHANGED <<setup, backup, owns>>
       \/ /\ backup[r] = "absent"
          /\ setup' = [setup EXCEPT ![r] = "absent"]
          /\ backup' = [backup EXCEPT ![r] = "active"]
          /\ owns' = [owns EXCEPT ![r] = {"backup"}]
    /\ Throw(r, "internal")
    /\ UNCHANGED <<lock, unsure, answer>>

\* Mutant of NotRemoved: a directory that is not empty counts as removed.
NotRemovedUnnoticed(r) == owns[r] = {"maybe"} \/ error[r] = "progress"

\* What the run made is still there, or may be: it only removes an empty directory.
NotRemoved(r) ==
    \/ owns[r] = {"maybe"} \/ error[r] = "progress"
    \/ owns[r] = {"setup"} /\ setup[r] # "empty"
    \/ owns[r] = {"backup"}

CleanUp(r) ==
    /\ At(r, "cleanup")
    /\ \/ /\ unsure' = [unsure EXCEPT ![r] = NotRemoved(r)]
          /\ setup' = IF owns[r] = {"setup"} /\ setup[r] = "empty"
                      THEN [setup EXCEPT ![r] = "absent"] ELSE setup
          /\ UNCHANGED mishaps
       \/ /\ owns[r] \cap {"setup", "backup"} # {} /\ MayFail /\ Failed
          /\ unsure' = [unsure EXCEPT ![r] = TRUE]
          /\ UNCHANGED setup
    /\ Goto(r, "release")
    /\ UNCHANGED <<lock, backup, owns, error, answer>>

\* A run that failed to set up lets the lock go and answers.
Release(r) ==
    /\ At(r, "release")
    /\ \/ lock' = Nobody /\ End(r, IF unsure[r] THEN "manual" ELSE error[r]) /\ UNCHANGED mishaps
       \/ MayFail /\ Failed /\ End(r, "manual") /\ UNCHANGED lock
    /\ UNCHANGED <<dirVars, ownVars, error>>

-----------------------------------------------------------------------------
(* Others *)

\* A file nobody knows in a directory that was left, or the names of a run taken.
Meddle ==
    /\ mishaps.outside < MaxOutside
    /\ \E r \in Run :
         \/ /\ setup' = [setup EXCEPT ![r] = "strange"]
            /\ setup[r] # "strange" /\ ~At(r, "over") /\ UNCHANGED backup
         \/ /\ backup[r] = "absent" /\ stage[r] \in SetupStage
            /\ backup' = [backup EXCEPT ![r] = "foreign"] /\ UNCHANGED setup
    /\ mishaps' = [mishaps EXCEPT !.outside = @ + 1]
    /\ UNCHANGED <<stage, lock, ownVars, error, answer>>

\* Somebody takes the lock file of a run that is not alive any more away.
TakeLockAway ==
    /\ lock \in Run /\ stage[lock] \in Ended
    /\ lock' = Nobody
    /\ UNCHANGED <<stage, dirVars, ownVars, error, answer, mishaps>>

Crash(r) ==
    /\ stage[r] \notin Ended \cup {"idle"} /\ mishaps.crashes < MaxCrashes
    /\ Goto(r, "dead")
    /\ mishaps' = [mishaps EXCEPT !.crashes = @ + 1]
    /\ UNCHANGED <<lock, dirVars, ownVars, error, answer>>

SetupNext(r) ==
    \/ Acquire(r, "lock", "recover") \/ NoLock(r)
    \/ RemoveLeftover(r) \/ RecoveryFails(r) \/ Recovered(r)
    \/ CheckBackup(r) \/ CreateSetup(r) \/ CreateSetupFails(r)
    \/ WriteJournal(r) \/ WriteJournalFails(r) \/ Publish(r) \/ PublishFails(r)
    \/ CleanUp(r) \/ Release(r)

-----------------------------------------------------------------------------
(* Properties *)

\* A run that is refused, in its setup or after a rollback, and does not answer with exit 25
\* leaves no lock, no provisional directory and no transaction that is not settled: nothing
\* has to be inspected before the next attempt, unless it could not even sign its lock file.
CleanRefusal ==
    \A r \in Run :
      answer[r] \in {"conflict", "security", "internal"} =>
         /\ setup[r] \in {"absent", "strange"} /\ backup[r] \in {"absent", "foreign", "rolled-back"}
         /\ lock = r => error[r] = "none"

\* Recovery clears the directories of dead runs only, and it knows every directory a run
\* may leave when it dies or fails: it refuses only what an outsider put there.
RecoveryClearsTheDead ==
    [][ \A r \in Run :
          /\ setup[r] # "absent" /\ setup'[r] = "absent" /\ backup'[r] = backup[r] =>
                stage[r] \in Ended \cup {"cleanup"}
          /\ error[r] = "none" /\ error'[r] = "security" => \E d \in Run : setup[d] = "strange" ]_setupVars
=============================================================================
