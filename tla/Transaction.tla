---------------------------- MODULE Transaction ----------------------------
(***************************************************************************)
(* The journaled transaction engine of dshpack (packages/cli/src/          *)
(* transaction*.ts): one run of runTransaction from the published journal  *)
(* to its result.  Every mutation of DSH_HOME is announced in a durable    *)
(* journal first, then performed, then recorded; a failure undoes the      *)
(* recorded actions in reverse order.                                      *)
(*                                                                         *)
(* The environment may fail any file-system call (before or after the call *)
(* took effect), write below DSH_HOME without the protocol, hold the       *)
(* settings lock too long, or kill the process between any two steps.      *)
(*                                                                         *)
(* A file or directory is an object [id, data]: `id` stands for its        *)
(* device, inode and birth time, `data` for its bytes or its tree.  Both   *)
(* are stamps: Before (there before the transaction), n > 0 (made by the   *)
(* n-th journaled action), Foreign (made by somebody else), Partial (half  *)
(* written).                                                               *)
(***************************************************************************)
EXTENDS Integers, Sequences

CONSTANTS
    Artifacts,   \* profile, skill and preset directories
    StateDirs,   \* .dshpack/store, .dshpack/generations, .dshpack/installed and shards
    StateFiles,  \* store blocks and generation documents, immutable
    Settings,    \* settings.yaml: every writer takes settings.yaml.lock
    Managed,     \* installed markers
    Current,     \* generation current pointers
    Parents,     \* path -> the state directories above it, outermost first
    MaxActions,  \* bound: journaled actions of one transaction
    MaxFaults,   \* bound: failing file-system calls
    MaxForeign   \* bound: writes by somebody who does not take the artifact lock

Docs == Settings \cup Managed \cup Current
Path == Artifacts \cup StateDirs \cup StateFiles \cup Docs

ASSUME BoundsAssumption ==
    /\ MaxActions \in Nat /\ MaxFaults \in Nat /\ MaxForeign \in Nat

ASSUME ParentsAssumption == Parents \in [Path -> Seq(StateDirs)]

\* A path is of one kind only.
ASSUME KindsAssumption ==
    /\ Artifacts \cap (StateDirs \cup StateFiles \cup Docs) = {}
    /\ StateDirs \cap (StateFiles \cup Docs) = {}
    /\ StateFiles \cap Docs = {}
    /\ Settings \cap (Managed \cup Current) = {}
    /\ Managed \cap Current = {}

Before == 0
Gone == -1
Foreign == -2
Partial == -3

Stamp == {Before, Gone, Foreign, Partial} \cup 1 .. MaxActions
Object == [id: Stamp, data: Stamp]
Absent == [id |-> Gone, data |-> Gone]
Original == [id |-> Before, data |-> Before]
Made(n) == [id |-> n, data |-> n]
Alien == [id |-> Foreign, data |-> Foreign]

\* Exit codes (exit-codes.ts); NoExit stands for "no failure yet".
NoExit == 0
Conflict == 22
VerifyFailure == 24
ManualRecovery == 25
Contract == 30
Security == 31
Internal == 70
Exits == {NoExit, Conflict, VerifyFailure, ManualRecovery, Contract, Security, Internal}

Marks == {"pending", "owned", "not-owned", "written", "not-written", "none"}
Phases == {"planned", "applied", "rolled-back", "rollback-failed"}
States == {"active", "committed", "rolling-back", "rolled-back", "rollback-failed"}

\* A journal entry.  id and data are what rollback compares with: the recorded
\* identity and the content digest; had tells whether the path existed before.
Action == [kind: {"create", "replace", "write"}, path: Path, mark: Marks,
           phase: Phases, id: Stamp, data: Stamp, had: BOOLEAN]

Journal == [state: States, actions: Seq(Action)]

\* One step of a context call: the path it is about and what its caller expects there.
Task == [op: {"create", "ensure", "store", "remove", "document"},
         path: Path, expect: Object]

VARIABLES
    home,      \* DSH_HOME: path -> object
    backup,    \* backups/<txid>: action -> what old/, new/ and documents/ hold
    state,     \* the journal in memory: its state
    actions,   \* the journal in memory: its actions
    disk,      \* journal.json as it is on disk
    lock,      \* the artifact lock: "held", "free", "stranded"
    pc,        \* where the engine is
    todo,      \* tasks left of the context call under way
    failure,   \* the sticky action failure, NoExit when there is none
    physical,  \* the failure is a TransactionPhysicalProgressError
    cause,     \* exit code of the failure that started the rollback
    manual,    \* rollbackDiagnostics is not empty
    cursor,    \* the action rollback is at
    result,    \* what runTransaction returned
    faults,    \* failing calls so far
    foreign,   \* foreign writes so far
    pre,       \* history: DSH_HOME when the transaction began
    touched,   \* history: paths somebody else wrote
    live       \* history: paths whose last foreign bytes nobody outside took back

journalVars == <<state, actions, disk>>
failVars == <<failure, physical, cause, manual>>
envVars == <<foreign, pre, touched, live>>
vars == <<home, backup, state, actions, disk, lock, pc, todo, failure, physical, cause,
          manual, cursor, result, faults, foreign, pre, touched, live>>

Slots == [old: Object, new: Object, orig: Object]
EmptySlots == [old |-> Absent, new |-> Absent, orig |-> Absent]
NoResult == [status |-> "none", exit |-> NoExit]

PCs == {"operate", "plan", "mutate", "move", "record", "apply", "seal", "begin-rollback",
        "undo", "undo-move", "undo-persist", "end-rollback", "release", "done", "crashed"}

\* Between the announcement of an action and its last journal write; inside rollback.
InAction == {"mutate", "move", "record", "apply", "seal"}
InUndo == {"undo", "undo-move", "undo-persist"}

TypeOK ==
    /\ home \in [Path -> Object]
    /\ backup \in [1 .. MaxActions -> Slots]
    /\ state \in States
    /\ actions \in Seq(Action) /\ Len(actions) <= MaxActions
    /\ disk \in Journal
    /\ lock \in {"held", "free", "stranded"}
    /\ pc \in PCs
    /\ todo \in Seq(Task)
    /\ failure \in Exits /\ cause \in Exits
    /\ physical \in BOOLEAN /\ manual \in BOOLEAN
    /\ cursor \in 0 .. MaxActions
    /\ result \in [status: {"none", "committed", "rolled-back", "rollback-failed"},
                   exit: Exits]
    /\ faults \in 0 .. MaxFaults /\ foreign \in 0 .. MaxForeign
    /\ pre \in [Path -> {Absent, Original}]
    /\ touched \in SUBSET Path /\ live \in SUBSET Path
    /\ pc \in {"plan"} \cup InAction => todo # <<>>
    /\ pc \in InAction => Len(actions) > 0
    /\ pc \in InUndo => cursor \in 1 .. Len(actions)

-----------------------------------------------------------------------------
(* Helpers *)

N == Len(actions)
Here == Head(todo).path
Undone == actions[cursor]

\* Paths directly below a state directory.
Inside(d) == {p \in Path : Parents[p] # <<>> /\ Parents[p][Len(Parents[p])] = d}

\* A state directory is empty: nothing is left directly below it.
IsEmpty(d) == \A p \in Inside(d) : home[p] = Absent

\* stateConditionMatches: immutable state is bound to its digest, an owned state
\* directory must be empty, other directories move whatever they hold.
ConditionHolds(a, object) ==
    CASE a.path \in StateFiles \cup Managed -> object.data = a.data
      [] a.path \in StateDirs -> IsEmpty(a.path)
      [] OTHER -> TRUE

Matches(a, object) ==
    /\ object # Absent
    /\ object.id = a.id
    /\ ConditionHolds(a, object)

\* What is at a path, up to what rollback promises to bring back: a document is
\* rewritten under a new inode, everything else is moved back as it was.
Same(p, a, b) == IF p \in Docs THEN a.data = b.data ELSE a = b

Entry(kind, p, mark, object, had) ==
    [kind |-> kind, path |-> p, mark |-> mark, phase |-> "planned",
     id |-> object.id, data |-> object.data, had |-> had]

\* atomicWriteText of the journal succeeds ...
Persist(s, as) ==
    /\ disk' = [state |-> s, actions |-> as]
    /\ faults' = faults

\* Mutant: the journal is truncated and written in place.
PersistFailsTorn(s, as) ==
    /\ faults < MaxFaults
    /\ faults' = faults + 1
    /\ disk' = [state |-> s, actions |-> <<>>]

\* ... or throws: the rename to journal.json has happened or it has not.
PersistFails(s, as) ==
    /\ faults < MaxFaults
    /\ faults' = faults + 1
    /\ disk' \in {disk, [state |-> s, actions |-> as]}

Fault ==
    /\ faults < MaxFaults
    /\ faults' = faults + 1

\* The context call throws; serializeAction keeps the failure (actionFailed).
Throw(exit, phys) ==
    /\ pc' = "operate"
    /\ todo' = <<>>
    /\ failure' = exit
    /\ physical' = phys
    /\ UNCHANGED <<cause, manual>>

Goto(label) == pc' = label /\ UNCHANGED <<todo, failVars>>

-----------------------------------------------------------------------------
(* The operation: calls on the transaction context *)

\* Mutant: serializeAction forgets the failure of an earlier call.
MayCallAfterFailure(n) ==
    /\ pc = "operate"
    /\ N + n <= MaxActions

MayCall(n) ==
    /\ pc = "operate"
    /\ failure = NoExit
    /\ N + n <= MaxActions

Start(tasks) ==
    /\ pc' = "plan"
    /\ todo' = tasks
    /\ UNCHANGED <<home, backup, journalVars, lock, failVars, cursor, result, faults, envVars>>

Ensures(p) == [k \in 1 .. Len(Parents[p]) |->
                  [op |-> "ensure", path |-> Parents[p][k], expect |-> Absent]]

\* What a caller may hold as the expected object: a snapshot taken before the
\* transaction, the object of now, or nothing.
Snapshots(p) == {pre[p], home[p], Absent}

CallCreate(p) ==
    /\ MayCall(1)
    /\ p \in Artifacts
    /\ Start(<<[op |-> "create", path |-> p, expect |-> Absent]>>)

CallWriteState(p) ==
    /\ MayCall(1 + Len(Parents[p]))
    /\ p \in StateFiles
    /\ Start(Append(Ensures(p), [op |-> "store", path |-> p, expect |-> Absent]))

\* replaceArtifact (the expected identity is optional), deleteStateFile,
\* deleteManagedDocument.
CallRemove(p, expect) ==
    /\ MayCall(1)
    /\ p \in Artifacts \cup StateFiles \cup Managed
    /\ expect # Absent \/ p \in Artifacts
    /\ Start(<<[op |-> "remove", path |-> p, expect |-> expect]>>)

\* writeDocument: a stale current pointer is refused before anything is created.
CallDocument(p, expect) ==
    /\ MayCall(1 + Len(Parents[p]))
    /\ p \in Docs
    /\ p \in Current => home[p].data = expect.data
    /\ Start(Append(Ensures(p), [op |-> "document", path |-> p, expect |-> expect]))

CallStaleCurrent(p, expect) ==
    /\ MayCall(1)
    /\ p \in Current
    /\ home[p].data # expect.data
    /\ Throw(Contract, FALSE)
    /\ UNCHANGED <<home, backup, journalVars, lock, cursor, result, faults, envVars>>

-----------------------------------------------------------------------------
(* An action is planned: checks, the journal entry, its durable announcement *)

\* Mutant: the mutation comes first and the journal entry is written with it.
AnnounceLate(entry) ==
    /\ actions' = Append(actions, entry)
    /\ Goto("mutate")
    /\ UNCHANGED <<state, disk, faults>>

Announce(entry) ==
    /\ actions' = Append(actions, entry)
    /\ UNCHANGED state
    /\ \/ Persist(state, Append(actions, entry)) /\ Goto("mutate")
       \/ PersistFails(state, Append(actions, entry)) /\ Throw(Internal, FALSE)

\* A check or a read before the entry throws: nothing is journaled.
PlanRefused ==
    /\ pc = "plan"
    /\ Fault
    /\ \E exit \in {Security, Internal} : Throw(exit, FALSE)
    /\ UNCHANGED <<home, backup, journalVars, lock, cursor, result, envVars>>

PlanCreate ==
    /\ pc = "plan"
    /\ Head(todo).op \in {"create", "ensure", "store"}
    /\ Announce(Entry("create", Here, "pending", [id |-> Gone, data |-> N + 1], FALSE))
    /\ UNCHANGED <<home, backup, lock, cursor, result, envVars>>

RemovalRefused(p, expect) ==
    IF p \in Artifacts THEN home[p] = Absent \/ (expect # Absent /\ expect.id # home[p].id)
                       ELSE home[p] # expect

PlanRemove ==
    /\ pc = "plan"
    /\ Head(todo).op = "remove"
    /\ ~RemovalRefused(Here, Head(todo).expect)
    /\ Announce(Entry("replace", Here, "none", home[Here], TRUE))
    /\ UNCHANGED <<home, backup, lock, cursor, result, envVars>>

PlanRemoveRefused ==
    /\ pc = "plan"
    /\ Head(todo).op = "remove"
    /\ RemovalRefused(Here, Head(todo).expect)
    /\ Throw(IF Here \in Artifacts /\ home[Here] = Absent THEN Conflict ELSE Contract, FALSE)
    /\ UNCHANGED <<home, backup, journalVars, lock, cursor, result, faults, envVars>>

DocumentChanged(p, expect) ==
    p \notin Current /\ expect # Absent /\ home[p].data # expect.data

\* The text rollback restores.
OriginalDocument(p, expect) ==
    IF p \in Current \/ (p \in Managed /\ expect # Absent) THEN expect ELSE home[p]

\* Mutant: the original text is not saved before the write.
PlanDocumentUnsaved ==
    LET original == OriginalDocument(Here, Head(todo).expect)
    IN  /\ pc = "plan"
        /\ Head(todo).op = "document"
        /\ ~DocumentChanged(Here, Head(todo).expect)
        /\ Announce(Entry("write", Here, "pending", Made(N + 1), original # Absent))
        /\ UNCHANGED <<home, backup, lock, cursor, result, envVars>>

\* The old and the new text reach documents/ before the entry is announced.
PlanDocument ==
    LET original == OriginalDocument(Here, Head(todo).expect)
    IN  /\ pc = "plan"
        /\ Head(todo).op = "document"
        /\ ~DocumentChanged(Here, Head(todo).expect)
        /\ backup' = [backup EXCEPT ![N + 1].orig = original]
        /\ Announce(Entry("write", Here, "pending", Made(N + 1), original # Absent))
        /\ UNCHANGED <<home, lock, cursor, result, envVars>>

PlanDocumentRefused ==
    /\ pc = "plan"
    /\ Head(todo).op = "document"
    /\ DocumentChanged(Here, Head(todo).expect)
    /\ Throw(Contract, FALSE)
    /\ UNCHANGED <<home, backup, journalVars, lock, cursor, result, faults, envVars>>

-----------------------------------------------------------------------------
(* The mutation *)

NextTask ==
    /\ todo' = Tail(todo)
    /\ pc' = IF Tail(todo) = <<>> THEN "operate" ELSE "plan"
    /\ UNCHANGED failVars

\* The last journal entry is amended and the journal persisted; then `next`, or the
\* failure of the journal write.
Amend(entry, next) ==
    /\ actions' = [actions EXCEPT ![N] = entry]
    /\ UNCHANGED state
    /\ \/ Persist(state, actions') /\ next
       \/ PersistFails(state, actions') /\ Throw(Internal, FALSE)

Creating == pc = "mutate" /\ Head(todo).op \in {"create", "ensure", "store"}

\* mkdir or open(wx) succeeds; an artifact directory is still to be filled.
CreateHappens ==
    /\ Creating
    /\ home[Here] = Absent
    /\ home' = [home EXCEPT ![Here] =
                    [id |-> N, data |-> IF Head(todo).op = "create" THEN Partial ELSE N]]
    /\ Goto("record")
    /\ UNCHANGED <<backup, journalVars, lock, cursor, result, faults, envVars>>

\* EEXIST: a state directory or an immutable file may be there already, an artifact not.
CreateTaken ==
    LET taken == [actions[N] EXCEPT !.mark = "not-owned"]
    IN  /\ Creating
        /\ home[Here] # Absent
        /\ IF Head(todo).op = "create"
             THEN Amend(taken, Throw(Conflict, FALSE))
             ELSE Amend([taken EXCEPT !.phase = "applied"], NextTask)
        /\ UNCHANGED <<home, backup, lock, cursor, result, envVars>>

\* The call throws: nothing is there, a partial file, or a directory or file whose
\* parent could not be synced.
CreateFails ==
    /\ Creating
    /\ home[Here] = Absent
    /\ Fault
    /\ home' \in {home, [home EXCEPT ![Here] = [id |-> N, data |-> Partial]]}
    /\ Throw(Internal, FALSE)
    /\ UNCHANGED <<backup, journalVars, lock, cursor, result, envVars>>

Removing == pc = "mutate" /\ Head(todo).op = "remove"

\* moveArtifactPath, first half: the object is compared before the rename.
RemoveChecked ==
    /\ Removing
    /\ Matches(actions[N], home[Here])
    /\ Goto("move")
    /\ UNCHANGED <<home, backup, journalVars, lock, cursor, result, faults, envVars>>

RemoveStale ==
    /\ Removing
    /\ ~Matches(actions[N], home[Here])
    /\ Throw(Contract, FALSE)
    /\ UNCHANGED <<home, backup, journalVars, lock, cursor, result, faults, envVars>>

RenameAside ==
    /\ backup' = [backup EXCEPT ![N].old = home[Here]]
    /\ home' = [home EXCEPT ![Here] = Absent]

\* Second half: the rename, and the comparison again.  What is no longer the
\* announced object stays in the backup.
MoveAside ==
    /\ pc = "move"
    /\ home[Here] # Absent
    /\ RenameAside
    /\ IF Matches(actions[N], home[Here]) THEN Goto("seal") ELSE Throw(Contract, FALSE)
    /\ UNCHANGED <<journalVars, lock, cursor, result, faults, envVars>>

MoveAsideGone ==
    /\ pc = "move"
    /\ home[Here] = Absent
    /\ Throw(Internal, FALSE)
    /\ UNCHANGED <<home, backup, journalVars, lock, cursor, result, faults, envVars>>

\* The rename throws.  When it did happen and its object is proven, a compensating
\* rename puts it back; that one may fail, or be without acknowledgement itself.
MoveAsideFails ==
    /\ pc = "move"
    /\ home[Here] # Absent
    /\ Fault
    /\ \/ UNCHANGED <<home, backup>> /\ Throw(Internal, FALSE)
       \/ Matches(actions[N], home[Here]) /\ UNCHANGED <<home, backup>> /\ Throw(Internal, TRUE)
       \/ RenameAside /\ Throw(Internal, FALSE)
    /\ UNCHANGED <<journalVars, lock, cursor, result, envVars>>

Writing == pc = "mutate" /\ Head(todo).op = "document"

\* The document the compare-and-swap expects.
SwapExpects == IF Here \in Managed THEN backup[N].orig ELSE Head(todo).expect

Swapped == [home EXCEPT ![Here] = Made(N)]

DocumentSwapped ==
    /\ Writing
    /\ home[Here].data = SwapExpects.data
    /\ home' = Swapped
    /\ Goto("record")
    /\ UNCHANGED <<backup, journalVars, lock, cursor, result, faults, envVars>>

\* Mutant: a lost compare-and-swap does not throw.
DocumentStaleIgnored ==
    /\ Writing
    /\ home[Here].data # SwapExpects.data
    /\ Amend([actions[N] EXCEPT !.mark = "written", !.phase = "applied"], NextTask)
    /\ UNCHANGED <<home, backup, lock, cursor, result, envVars>>

DocumentStale ==
    /\ Writing
    /\ home[Here].data # SwapExpects.data
    /\ Amend([actions[N] EXCEPT !.mark = "not-written"], Throw(Contract, FALSE))
    /\ UNCHANGED <<home, backup, lock, cursor, result, envVars>>

\* The write throws before or after its rename; the entry stays "pending".
DocumentFails ==
    /\ Writing
    /\ Fault
    /\ \/ home' = home
       \/ home[Here].data = SwapExpects.data /\ home' = Swapped
    /\ Throw(Internal, FALSE)
    /\ UNCHANGED <<backup, journalVars, lock, cursor, result, envVars>>

\* settings.yaml.lock stays taken for LOCK_TIMEOUT_MS; the entry stays "pending".
SettingsLockTimeout ==
    /\ Writing
    /\ Here \in Settings
    /\ Throw(Conflict, FALSE)
    /\ UNCHANGED <<home, backup, journalVars, lock, cursor, result, faults, envVars>>

-----------------------------------------------------------------------------
(* Ownership is recorded, the artifact filled, the action sealed *)

\* The identity recorded as owned is read after the mutation, not returned by it.
RecordCreated ==
    LET made == home[Here]
        readBack == Head(todo).op # "store" \/ made.data = N
    IN  /\ pc = "record"
        /\ Head(todo).op \in {"create", "ensure", "store"}
        /\ made # Absent /\ readBack
        /\ Amend([actions[N] EXCEPT !.mark = "owned", !.id = made.id],
                 Goto(IF Head(todo).op = "create" THEN "apply" ELSE "seal"))
        /\ UNCHANGED <<home, backup, lock, cursor, result, envVars>>

\* The new object vanished, or a state file does not read back as written.
RecordLost ==
    /\ pc = "record"
    /\ \/ Head(todo).op \in {"create", "ensure", "store"} /\ home[Here] = Absent
       \/ Head(todo).op = "store" /\ home[Here].data # N
    /\ Throw(Internal, FALSE)
    /\ UNCHANGED <<home, backup, journalVars, lock, cursor, result, faults, envVars>>

RecordWritten ==
    /\ pc = "record"
    /\ Head(todo).op = "document"
    /\ Amend([actions[N] EXCEPT !.mark = "written"], Goto("seal"))
    /\ UNCHANGED <<home, backup, lock, cursor, result, envVars>>

\* apply() of create fills the directory; foreign files in it stay.
Filled == [home EXCEPT ![Here].data = IF @ = Partial THEN N ELSE @]

Apply ==
    /\ pc = "apply"
    /\ home' = IF home[Here] = Absent THEN home ELSE Filled
    /\ Goto("seal")
    /\ UNCHANGED <<backup, journalVars, lock, cursor, result, faults, envVars>>

ApplyFails ==
    /\ pc = "apply"
    /\ Fault
    /\ home' \in {home, IF home[Here] = Absent THEN home ELSE Filled}
    /\ \E exit \in {VerifyFailure, Internal} : Throw(exit, FALSE)
    /\ UNCHANGED <<backup, journalVars, lock, cursor, result, envVars>>

Seal ==
    /\ pc = "seal"
    /\ Amend([actions[N] EXCEPT !.phase = "applied"], NextTask)
    /\ UNCHANGED <<home, backup, lock, cursor, result, envVars>>

-----------------------------------------------------------------------------
(* The operation ends *)

BeginRollback(exit) ==
    /\ pc' = "begin-rollback"
    /\ cause' = exit
    /\ manual' = physical
    /\ UNCHANGED <<todo, failure, physical>>

\* The operation returned and no action failed: commit.
Commit ==
    /\ pc = "operate"
    /\ failure = NoExit
    /\ state' = "committed"
    /\ UNCHANGED actions
    /\ \/ Persist("committed", actions) /\ Goto("release")
       \/ PersistFails("committed", actions) /\ BeginRollback(Internal)
    /\ UNCHANGED <<home, backup, lock, cursor, result, envVars>>

\* The operation throws by itself: a conflict it found, a failed verification.
Abort ==
    /\ pc = "operate"
    /\ failure = NoExit
    /\ \E exit \in {VerifyFailure, Contract} : BeginRollback(exit)
    /\ UNCHANGED <<home, backup, journalVars, lock, cursor, result, faults, envVars>>

\* An action failed: whether the operation rethrows it, swallows it and returns, or
\* throws something else, there is no commit.
AbortAfterFailure ==
    /\ pc = "operate"
    /\ failure # NoExit
    /\ \E exit \in {failure, Contract} : BeginRollback(exit)
    /\ UNCHANGED <<home, backup, journalVars, lock, cursor, result, faults, envVars>>

-----------------------------------------------------------------------------
(* Rollback *)

StartRollback ==
    /\ pc = "begin-rollback"
    /\ state' = "rolling-back"
    /\ UNCHANGED actions
    /\ pc' = IF N = 0 THEN "end-rollback" ELSE "undo"
    /\ cursor' = N
    /\ \/ Persist("rolling-back", actions) /\ UNCHANGED manual
       \/ PersistFails("rolling-back", actions) /\ manual' = TRUE
    /\ UNCHANGED <<home, backup, lock, todo, failure, physical, cause, result, envVars>>

\* The action at the cursor is undone; its phase is persisted next.
UndoDone ==
    /\ actions' = [actions EXCEPT ![cursor].phase = "rolled-back"]
    /\ pc' = "undo-persist"
    /\ UNCHANGED <<state, disk, cursor, todo, failVars>>

\* Mutant: the loop runs once too often.
NextUndoOffByOne ==
    /\ cursor' = cursor - 1
    /\ pc' = IF cursor = 0 THEN "end-rollback" ELSE "undo"

NextUndo ==
    /\ cursor' = cursor - 1
    /\ pc' = IF cursor = 1 THEN "end-rollback" ELSE "undo"

\* Mutant: a failed undo is tried again.
UndoImpossibleRetried ==
    /\ actions' = [actions EXCEPT ![cursor].phase = "rollback-failed"]
    /\ manual' = TRUE
    /\ pc' = "undo"
    /\ UNCHANGED <<cursor, state, disk, todo, failure, physical, cause>>

\* It cannot be undone: a manual recovery step, and rollback goes on with the others.
UndoImpossible ==
    /\ actions' = [actions EXCEPT ![cursor].phase = "rollback-failed"]
    /\ manual' = TRUE
    /\ NextUndo
    /\ UNCHANGED <<state, disk, todo, failure, physical, cause>>

Undoing(kind) == pc = "undo" /\ Undone.kind = kind

\* Mutant: an unresolved reservation counts as absent.
UndoNothingUnchecked ==
    /\ pc = "undo"
    /\ \/ Undone.mark \in {"not-owned", "not-written"}
       \/ Undone.kind = "create" /\ Undone.mark = "pending"
       \/ /\ Undone.kind = "replace"
          /\ backup[cursor].old = Absent /\ home[Undone.path] # Absent
    /\ UndoDone
    /\ UNCHANGED <<home, backup, lock, result, faults, envVars>>

UndoNothing ==
    /\ pc = "undo"
    /\ \/ Undone.mark \in {"not-owned", "not-written"}
       \/ Undone.kind = "create" /\ Undone.mark = "pending" /\ home[Undone.path] = Absent
       \/ /\ Undone.kind = "replace"
          /\ backup[cursor].old = Absent /\ home[Undone.path] # Absent
    /\ UndoDone
    /\ UNCHANGED <<home, backup, lock, result, faults, envVars>>

\* Whose object is at the path, or whether the document was written, is not known.
UndoUnresolved ==
    /\ pc = "undo"
    /\ Undone.mark = "pending"
    /\ Undone.kind = "create" => home[Undone.path] # Absent
    /\ UndoImpossible
    /\ UNCHANGED <<home, backup, lock, result, faults, envVars>>

\* Any read, check or rename of an undo may throw; a rename that was not acknowledged
\* is compensated.
UndoFails ==
    /\ pc \in {"undo", "undo-move"}
    /\ Undone.mark \notin {"not-owned", "not-written"}
    /\ Fault
    /\ UndoImpossible
    /\ UNCHANGED <<home, backup, lock, result, envVars>>

UndoCreateChecked ==
    /\ Undoing("create") /\ Undone.mark = "owned"
    /\ IF Matches(Undone, home[Undone.path])
         THEN Goto("undo-move") /\ UNCHANGED <<actions, cursor>>
         ELSE UndoImpossible
    /\ UNCHANGED <<home, backup, state, disk, lock, result, faults, envVars>>

\* A directory takes along what is in it.
Carried(p) == IF p \in StateDirs /\ ~IsEmpty(p)
                THEN [home[p] EXCEPT !.data = Foreign] ELSE home[p]

Taken(p) == {p} \cup (IF p \in StateDirs THEN Inside(p) ELSE {})

\* What the transaction made is moved to new/, never deleted.
UndoCreateMove ==
    LET p == Undone.path
    IN  /\ pc = "undo-move" /\ Undone.kind = "create"
        /\ home[p] # Absent
        /\ backup' = [backup EXCEPT ![cursor].new = Carried(p)]
        /\ home' = [q \in Path |-> IF q \in Taken(p) THEN Absent ELSE home[q]]
        /\ IF Matches(Undone, home[p]) THEN UndoDone ELSE UndoImpossible
        /\ UNCHANGED <<lock, result, faults, envVars>>

UndoCreateGone ==
    /\ pc = "undo-move" /\ Undone.kind = "create"
    /\ home[Undone.path] = Absent
    /\ UndoImpossible
    /\ UNCHANGED <<home, backup, lock, result, faults, envVars>>

\* Mutant: the original text is restored over whatever is there.
UndoWriteBlindly ==
    LET p == Undone.path
    IN  /\ Undoing("write") /\ Undone.mark = "written"
        /\ home' = [home EXCEPT ![p] = IF Undone.had
                       THEN [id |-> cursor, data |-> backup[cursor].orig.data] ELSE Absent]
        /\ UndoDone
        /\ UNCHANGED <<backup, lock, result, faults, envVars>>

\* The new text is swapped back to the original, or moved aside when there was none.
PutBack(p) ==
    \/ /\ Undone.had
       /\ home' = [home EXCEPT ![p] = [id |-> cursor, data |-> backup[cursor].orig.data]]
       /\ UNCHANGED backup
    \/ /\ ~Undone.had
       /\ home' = [home EXCEPT ![p] = Absent]
       /\ backup' = [backup EXCEPT ![cursor].new = home[p]]

UndoWrite ==
    /\ Undoing("write") /\ Undone.mark = "written"
    /\ home[Undone.path].data = Undone.data
    /\ PutBack(Undone.path)
    /\ UndoDone
    /\ UNCHANGED <<lock, result, faults, envVars>>

UndoWriteStale ==
    /\ Undoing("write") /\ Undone.mark = "written"
    /\ home[Undone.path].data # Undone.data
    /\ UndoImpossible
    /\ UNCHANGED <<home, backup, lock, result, faults, envVars>>

\* It did happen, but its directory sync failed: counted as not restored.
UndoWriteUnacknowledged ==
    /\ Undoing("write") /\ Undone.mark = "written"
    /\ home[Undone.path].data = Undone.data
    /\ Fault
    /\ PutBack(Undone.path)
    /\ UndoImpossible
    /\ UNCHANGED <<lock, result, envVars>>

\* The preserved original goes back only to an empty place and only as announced.
UndoReplaceChecked ==
    /\ Undoing("replace")
    /\ backup[cursor].old # Absent
    /\ home[Undone.path] = Absent
    /\ Matches(Undone, backup[cursor].old)
    /\ Goto("undo-move")
    /\ UNCHANGED <<home, backup, journalVars, lock, cursor, result, faults, envVars>>

UndoReplaceImpossible ==
    /\ Undoing("replace")
    /\ \/ backup[cursor].old # Absent /\ home[Undone.path] # Absent
       \/ backup[cursor].old # Absent /\ ~Matches(Undone, backup[cursor].old)
       \/ backup[cursor].old = Absent /\ home[Undone.path] = Absent
    /\ UndoImpossible
    /\ UNCHANGED <<home, backup, lock, result, faults, envVars>>

UndoReplaceMove ==
    /\ pc = "undo-move" /\ Undone.kind = "replace"
    /\ home' = [home EXCEPT ![Undone.path] = backup[cursor].old]
    /\ backup' = [backup EXCEPT ![cursor].old = Absent]
    /\ UndoDone
    /\ UNCHANGED <<lock, result, faults, envVars>>

\* The rename of an undo happened, was not acknowledged, and could not be compensated.
UndoMoveStuck ==
    LET p == Undone.path
    IN  /\ pc = "undo-move"
        /\ Fault
        /\ IF Undone.kind = "create"
             THEN /\ home[p] # Absent
                  /\ backup' = [backup EXCEPT ![cursor].new = Carried(p)]
                  /\ home' = [q \in Path |-> IF q \in Taken(p) THEN Absent ELSE home[q]]
             ELSE /\ backup' = [backup EXCEPT ![cursor].old = Absent]
                  /\ home' = [home EXCEPT ![p] = backup[cursor].old]
        /\ UndoImpossible
        /\ UNCHANGED <<lock, result, envVars>>

UndoPersist ==
    /\ pc = "undo-persist"
    /\ \/ Persist(state, actions) /\ UNCHANGED manual
       \/ PersistFails(state, actions) /\ manual' = TRUE
    /\ NextUndo
    /\ UNCHANGED <<home, backup, state, actions, lock, todo, failure, physical, cause,
                   result, envVars>>

\* Mutant: a failed last journal write is not reported.
EndRollbackUnreported ==
    LET outcome == IF manual THEN "rollback-failed" ELSE "rolled-back"
    IN  /\ pc = "end-rollback"
        /\ pc' = "release"
        /\ state' = outcome
        /\ Persist(outcome, actions) \/ PersistFails(outcome, actions)
        /\ UNCHANGED <<home, backup, actions, lock, todo, failVars, cursor, result, envVars>>

EndRollback ==
    LET outcome == IF manual THEN "rollback-failed" ELSE "rolled-back"
    IN  /\ pc = "end-rollback"
        /\ pc' = "release"
        /\ \/ Persist(outcome, actions) /\ state' = outcome /\ UNCHANGED manual
           \/ PersistFails(outcome, actions) /\ state' = "rollback-failed" /\ manual' = TRUE
        /\ UNCHANGED <<home, backup, actions, lock, todo, failure, physical, cause, cursor,
                       result, envVars>>

-----------------------------------------------------------------------------
(* The lock is released and the result returned *)

Return(status, exit) ==
    /\ result' = [status |-> status, exit |-> exit]
    /\ pc' = "done"

\* Mutant: the backup is emptied when the transaction is over.
ReleaseAndClean ==
    /\ pc = "release"
    /\ lock' = "free"
    /\ backup' = [i \in 1 .. MaxActions |-> EmptySlots]
    /\ CASE state = "committed" -> Return("committed", NoExit)
         [] state = "rolled-back" -> Return("rolled-back", cause)
         [] OTHER -> Return("rollback-failed", ManualRecovery)
    /\ UNCHANGED <<home, journalVars, todo, failVars, cursor, faults, envVars>>

Release ==
    /\ pc = "release"
    /\ lock' = "free"
    /\ CASE state = "committed" -> Return("committed", NoExit)
         [] state = "rolled-back" -> Return("rolled-back", cause)
         [] OTHER -> Return("rollback-failed", ManualRecovery)
    /\ UNCHANGED <<home, backup, journalVars, todo, failVars, cursor, faults, envVars>>

\* The lock file may be gone (only closing its guard failed) or left behind.  After a
\* rollback the journal is marked, which may fail as well.
ReleaseFails ==
    /\ pc = "release"
    /\ faults < MaxFaults
    /\ lock' \in {"free", "stranded"}
    /\ \/ /\ state = "committed"
          /\ Return("committed", ManualRecovery)
          /\ faults' = faults + 1
          /\ UNCHANGED <<state, disk, manual>>
       \/ /\ state # "committed"
          /\ Return("rollback-failed", ManualRecovery)
          /\ state' = "rollback-failed"
          /\ manual' = TRUE
          /\ \/ disk' = [state |-> "rollback-failed", actions |-> actions] /\ faults' = faults + 1
             \/ faults + 1 < MaxFaults /\ faults' = faults + 2 /\ UNCHANGED disk
    /\ UNCHANGED <<home, backup, actions, todo, failure, physical, cause, cursor, envVars>>

-----------------------------------------------------------------------------
(* The environment *)

Running == pc \notin {"done", "crashed"}

\* The process dies: the lock file stays behind, memory is lost.
Crash ==
    /\ Running
    /\ pc' = "crashed"
    /\ lock' = "stranded"
    /\ UNCHANGED <<home, backup, journalVars, todo, failVars, cursor, result, faults, envVars>>

ParentsExist(p) == \A k \in 1 .. Len(Parents[p]) : home[Parents[p][k]] # Absent

\* Two windows the code leaves to cooperation alone: between the check that a restore
\* target is free and the rename onto it, and between the comparison of a marker or a
\* pointer and its replacement (one step here; settings.yaml has a lock of its own).
InRestoreWindow(p) == pc = "undo-move" /\ Undone.kind = "replace" /\ Undone.path = p

\* Somebody who does not take the artifact lock writes, replaces or removes.
ForeignStep(p, object) ==
    /\ Running
    /\ foreign < MaxForeign
    /\ foreign' = foreign + 1
    /\ p \in Path \ StateDirs
    /\ home[p] # object
    /\ ParentsExist(p) /\ ~InRestoreWindow(p)
    /\ home' = [home EXCEPT ![p] = object]
    /\ touched' = touched \cup {p}
    /\ live' = IF object = Absent THEN live \ {p} ELSE live \cup {p}
    /\ UNCHANGED <<backup, journalVars, lock, pc, todo, failVars, cursor, result, faults, pre>>

ForeignWrite(p) == ForeignStep(p, Alien)
ForeignEdit(p) == home[p] # Absent /\ ForeignStep(p, [home[p] EXCEPT !.data = Foreign])
ForeignRemove(p) == ForeignStep(p, Absent)

-----------------------------------------------------------------------------
(* The specification *)

\* Below an absent state directory there is nothing.
Possible(h) ==
    \A p \in Path : h[p] # Absent =>
        \A k \in 1 .. Len(Parents[p]) : h[Parents[p][k]] # Absent

Init ==
    /\ home \in {h \in [Path -> {Absent, Original}] : Possible(h)}
    /\ backup = [i \in 1 .. MaxActions |-> EmptySlots]
    /\ state = "active" /\ actions = <<>>
    /\ disk = [state |-> "active", actions |-> <<>>]
    /\ lock = "held"
    /\ pc = "operate" /\ todo = <<>>
    /\ failure = NoExit /\ physical = FALSE /\ cause = NoExit /\ manual = FALSE
    /\ cursor = 0
    /\ result = NoResult
    /\ faults = 0 /\ foreign = 0
    /\ pre = home /\ touched = {} /\ live = {}

Call ==
    \E p \in Path :
        \/ CallCreate(p)
        \/ CallWriteState(p)
        \/ \E expect \in Snapshots(p) :
              CallRemove(p, expect) \/ CallDocument(p, expect) \/ CallStaleCurrent(p, expect)

Plan == PlanRefused \/ PlanCreate \/ PlanRemove \/ PlanRemoveRefused \/ PlanDocument
        \/ PlanDocumentRefused

Mutate == \/ CreateHappens \/ CreateTaken \/ CreateFails
          \/ RemoveChecked \/ RemoveStale \/ MoveAside \/ MoveAsideGone \/ MoveAsideFails
          \/ DocumentSwapped \/ DocumentStale \/ DocumentFails \/ SettingsLockTimeout

Record == RecordCreated \/ RecordLost \/ RecordWritten \/ Apply \/ ApplyFails \/ Seal

Finish == Commit \/ Abort \/ AbortAfterFailure

Undo == \/ StartRollback \/ UndoNothing \/ UndoUnresolved \/ UndoFails
        \/ UndoCreateChecked \/ UndoCreateMove \/ UndoCreateGone
        \/ UndoWrite \/ UndoWriteStale \/ UndoWriteUnacknowledged
        \/ UndoReplaceChecked \/ UndoReplaceImpossible \/ UndoReplaceMove
        \/ UndoMoveStuck \/ UndoPersist \/ EndRollback

Engine == Call \/ Plan \/ Mutate \/ Record \/ Finish \/ Undo \/ Release \/ ReleaseFails

Environment ==
    \/ Crash
    \/ \E p \in Path : ForeignWrite(p) \/ ForeignEdit(p) \/ ForeignRemove(p)

Next == Engine \/ Environment

Spec == Init /\ [][Next]_vars /\ WF_vars(Engine)

-----------------------------------------------------------------------------
(* The promise it implements *)

Untouched == Path \ touched

Dirty == {p \in Untouched : ~Same(p, home[p], pre[p])}

Named == {disk.actions[i].path : i \in 1 .. Len(disk.actions)}

Outcome == CASE pc = "crashed" -> "crashed"
             [] result.status = "committed" -> "committed"
             [] result.status = "rolled-back" -> "undone"
             [] result.status = "rollback-failed" -> "stuck"
             [] OTHER -> "running"

Atomic == INSTANCE AtomicTransaction WITH dirty <- Dirty, named <- Named, outcome <- Outcome

\* The engine implements the atomic transaction, whatever fails and whoever writes: the
\* journal names a path on disk before the path changes and never forgets it, and a run that
\* reports "rolled-back" has undone every change (transaction.ts, transaction-rollback.ts).
ImplementsAtomic == Atomic!Spec

-----------------------------------------------------------------------------
(* Properties *)

\* A reported rollback brings back the machine as it was: every path nobody else wrote
\* is the object it was before the transaction (README, exit 24).
RolledBackRestores ==
    result.status = "rolled-back" =>
        \A p \in Untouched : Same(p, home[p], pre[p])

\* No mutation without a durable announcement: whatever differs from before is named
\* by an action of journal.json, at every moment a crash may come.
WriteAhead ==
    \A p \in Untouched :
        ~Same(p, home[p], pre[p]) =>
            \E i \in 1 .. Len(disk.actions) : disk.actions[i].path = p

\* No original is lost: it is in its place, or below the backup of an action that
\* journal.json names, so that a person can bring it back after a crash.
OriginalRecoverable ==
    \A p \in Untouched :
        \/ pre[p] = Absent
        \/ Same(p, home[p], pre[p])
        \/ \E i \in 1 .. Len(disk.actions) :
              /\ disk.actions[i].path = p
              /\ Same(p, backup[i].old, pre[p]) \/ Same(p, backup[i].orig, pre[p])

\* What somebody else wrote is never destroyed: it is where it was put, or in the
\* backup of an action on that path or on its directory.
ForeignNeverLost ==
    \A p \in live :
        \/ home[p].data = Foreign
        \/ \E i \in 1 .. N :
              /\ actions[i].path = p \/ p \in Inside(actions[i].path)
              /\ Foreign \in {backup[i].old.data, backup[i].new.data, backup[i].orig.data}

\* The last action that took effect on a path, 0 when there is none.
Effective(i) == actions[i].mark \in {"owned", "written", "none"}
LastOn(p) ==
    LET on == {i \in 1 .. N : actions[i].path = p /\ Effective(i)}
    IN  IF on = {} THEN 0 ELSE CHOOSE i \in on : \A j \in on : j <= i

\* A reported commit is complete: every action is settled and each path is what the last
\* action on it made, even when the operation swallowed failures of its calls.
CommittedIsComplete ==
    result.status = "committed" =>
        /\ \A i \in 1 .. N : actions[i].phase = "applied" /\ actions[i].mark # "pending"
        /\ \A p \in Untouched :
              LET i == LastOn(p)
              IN  CASE i = 0 -> home[p] = pre[p]
                    [] i # 0 /\ actions[i].kind = "replace" -> home[p] = Absent
                    [] OTHER -> home[p].data = i

\* Any exit but 25 leaves nothing to a person: the lock is free and journal.json says
\* what was reported (README: never retry blindly after 25, retry safely otherwise).
CleanExitIsSettled ==
    pc = "done" /\ result.exit # ManualRecovery =>
        /\ lock = "free"
        /\ disk = [state |-> result.status, actions |-> actions]
        /\ \A i \in 1 .. N : actions[i].phase # "rollback-failed"

\* After the first failing action nothing is journaled any more (serializeAction).
FailureIsSticky ==
    [][failure # NoExit => Len(actions') = Len(actions)]_vars

\* A preserved original leaves the backup only for its own place.
OriginalsOnlyMoveHome ==
    [][\A i \in 1 .. MaxActions :
          backup[i].old # Absent /\ backup'[i].old # backup[i].old =>
              /\ backup'[i].old = Absent
              /\ home'[actions[i].path] = backup[i].old]_vars

\* Whatever fails, the transaction returns a result unless the process dies.
Terminates == <>(~Running)

\* exit-codes.ts on 25: "the machine was left mid-flight".  Something is different from
\* before the transaction, or a lock or the journal is not as reported.
ManualRecoveryMeansMidFlight ==
    result.exit = ManualRecovery =>
        \/ lock = "stranded"
        \/ physical
        \/ disk # [state |-> state, actions |-> actions]
        \/ \E p \in Path : ~Same(p, home[p], pre[p])

=============================================================================
