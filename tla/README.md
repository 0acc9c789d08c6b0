# dshpack in TLA+

dshpack packs, installs, updates and removes *dsh* profiles, skills and presets below one
directory, `DSH_HOME`. It keeps a content-addressed store of what it installed (`.dshpack/store`),
one immutable generation document per change of a profile, a *current* pointer per profile and a
marker per installed profile. All of that is plain files: there is no database, no daemon, and
several processes, a person with an editor and a crash may meet at any line. This project models
the parts of the program whose correctness depends on what happens *between* two file-system calls.

Paths below are relative to `src/packages/cli/src/` unless they say otherwise.

- [1. Inventory](#1-inventory)
- [2. Plan](#2-plan)
- [3. The transaction engine](#3-the-transaction-engine)
- [4. The lock of settings.yaml](#4-the-lock-of-settingsyaml)
- [5. Setup, quarantine and purge](#5-setup-quarantine-and-purge)
- [6. The managed home and its engines](#6-the-managed-home-and-its-engines)
- [7. The install workflow](#7-the-install-workflow)
- [8. From SOURCE to pack material](#8-from-source-to-pack-material)
- [9. The dsh subprocess](#9-the-dsh-subprocess)
- [10. The UI](#10-the-ui)
- [11. Proofs](#11-proofs)
- [12. Where the program and its text disagree](#12-where-the-program-and-its-text-disagree)
- [13. What is only model-checked, and what is not modelled](#13-what-is-only-model-checked-and-what-is-not-modelled)

## 1. Inventory

| component | source | state | operations | modules |
|---|---|---|---|---|
| transaction engine | `transaction.ts`, `transaction-actions.ts`, `transaction-rollback.ts`, `transaction-journal.ts`, `transaction-types.ts` | `journal.json` and the journal in memory, `backups/<txid>/{old,new,documents}`, the sticky action failure, the artifact lock | `create`, `replaceArtifact`, `ensureStateDirectory`, `writeStateFile`, `deleteStateFile`, `writeManagedDocument`, `deleteManagedDocument`, `writeGenerationCurrent`, `writeSettings`, commit, rollback | `Transaction`, `AtomicTransaction` |
| transaction setup | `transaction.ts` 313-521, `transaction-node-adapter.ts` 412-550 | `.setup-<uuid>` directories | acquire the lock, recover provisional directories, publish journal and backup directory, clean up | `TransactionSetup` |
| node adapter | `transaction-node-adapter.ts`, `adapters/fs.ts` | the file system | durable write, exclusive create, checked move with compensation, purge of a quarantine | `Transaction`, `GcQuarantine` |
| lock protocol | `adapters/settings-lock.ts` | `settings.yaml.lock`, `.dshpack/artifacts.lock` | acquire with identity, back-off and deadline; release with owner check | `SettingsLock` |
| settings editing | `adapters/settings.ts`, `switch/settings.ts` | `settings.yaml` | compare-and-swap, reviewed selection, canonical text | `SettingsEdit`, `SerialSettings` |
| metadata store | `metadata/state-storage.ts`, `metadata/contracts.ts`, `management/*` | blocks, generations, current pointers, markers | read, next generation, ownership, validation | `ManagedHome` |
| gc | `gc/engine.ts` | quarantine `gc-*` transactions | scan, confirm, locked rescan, quarantine in batches, purge | `GcEngine`, `GcQuarantine` |
| install | `install/*` | (none of its own) | capture, plan, confirm, recapture under the lock, apply | `InstallWorkflow`, `InstallEngine` |
| update | `update/*` | | three-way merge against the recorded base, re-check of every asset | `UpdateEngine` |
| uninstall | `uninstall/engine.ts` | quarantine `uninstall-purge-*` | plan, locked rebuild, remove or purge, verify | `UninstallEngine`, `GcQuarantine` |
| restore | `restore/engine.ts` | | go back to an earlier generation as a new one | `RestoreEngine` |
| migrate | `migrate/engine.ts` | | turn a version 0 marker into a version 1 one | `MigrateEngine` |
| switch | `switch/engine.ts`, `switch/settings.ts` | | choose the active presets | (selection: `SettingsLock`) |
| compose | `compose/*`, `../../core/src/compose.ts` | | merge sources, report conflicts | (skill clashes: `ComposeForm`) |
| pack, lock, init, export | `pack`, `lock`, `init`, `export`, `../../core/src/{lock,pack}.ts` | | file formats | |
| list, status, diff, doctor | same names | | readers | |
| dsh subprocess | `adapters/process.ts` | one child, its exit, time-out and signal | run, terminate | `DshProcess` |
| sources | `adapters/source*.ts`, `install/read.ts`, `install/snapshot-capture.ts` | two private directories | fetch, unpack, digest, capture, validate | `SourceIntake`, `ArchiveInspection` |
| UI server and client | `ui/*`, `../../ui/src/*` | plan digest, permissions; reducer state; compose form | plan, confirm, write | `UiGateway`, `UiReview`, `ComposeForm`, `UiSession` |
| patch, paths, secrets | `../../core/src/*` | | string functions | |

How they interact: every command that changes `DSH_HOME` (install, update, uninstall, restore,
migrate, switch, gc) plans outside any lock, asks the user, and then runs **one** transaction. The
transaction holds `.dshpack/artifacts.lock` from setup to result; the operation it is given calls
the context methods one after the other, re-checks what it planned with, and throws to abort.
`settings.yaml` has a lock of its own because dsh itself and the user's tools edit it. A crashed
transaction is not recovered by the next run: its `journal.json` and `backups/<txid>` are there
for a person, and exit code 25 is the promise that they are needed.

The modules follow that division. `SettingsLock` shows that a lock has one holder and that an edit
of `settings.yaml` is atomic; `Transaction` uses both as one step. `Transaction` shows that a
transaction is all or nothing for what nobody else wrote; `TransactionSetup`, `GcQuarantine`,
`InstallWorkflow` and `HomeLifecycle` use that. `HomeLifecycle` runs the engines on one home;
`InstallWorkflow` opens up one of them; `SourceIntake` is what comes before it, `DshProcess` what
it calls, and `UiSession` who asks for it.

What is hard, and which component it bites:

- a crash between an announcement, its mutation and its record (transaction engine, setup, purge);
- a file-system call that throws *after* it took effect (a rename whose directory sync failed)
  (node adapter, journal, document writes, rollback);
- somebody who does not take the artifact lock writes between a check and its use (moves,
  documents, captures of a source, targets of an install);
- the failure of one call swallowed by its caller (transaction context);
- a rollback that fails in the middle, or whose own journal cannot be written;
- two processes and an orphan in the lock protocol; time-outs;
- a plan that is stale when the lock is held (gc, install, update, restore, migrate, switch, UI);
- ownership that follows from a history of commands and edits (update, restore, uninstall);
- answers that come late, out of order or not at all (child process, UI previews and applies).

Properties that make each component correct:

- *transaction engine*: nothing changes before it is announced on disk; a reported rollback restores
  everything; a reported commit is complete; nothing of the user's or of a third party's is lost;
  exit 25 exactly when a person is needed; it ends.
- *lock*: at most one holder among cooperating processes, a waiting process gives up at the
  deadline, a release never removes the lock of somebody else beyond the one window it has.
- *setup and purge*: a provisional directory is published with a valid journal or recognised by the
  next run; a purge destroys only what a committed transaction quarantined.
- *store, generations, gc*: a generation that is kept has all its blocks; numbers are never reused;
  a concurrent install and gc do not cross; marker and current generation agree.
- *install, update, restore, uninstall, migrate*: what was confirmed is what is applied; what
  the user changed or another profile needs is not taken without a flag that says so.
- *sources*: what is installed is, byte for byte, what was judged.
- *subprocess*: the first reason wins, and a time-out is never reported as success.
- *UI*: what an engine applies was on the screen, ticked and confirmed.

Every hazard is listed in `PROJECT.json` at the line where it bites, with the properties that cover
it or the reason why none does yet.

## 2. Plan

| step | modules | abstract specification | checks and theorems |
|---|---|---|---|
| 1 (done) | `Transaction`, `MCTransaction`, `TransactionProofs` | `AtomicTransaction` | three runs; every safety property and the refinement proved |
| 2 (done) | `SettingsEdit`, `SettingsLock`, `MCSettingsLock`, `SettingsLockProofs` | `SerialSettings` | two runs; mutual exclusion, fresh reads, removal of the own file only and the refinement proved |
| 3 (done) | `TransactionSetup`, `GcQuarantine`, `MCGcQuarantine`, `GcQuarantineProofs` | | crash at every call, two runs at once and in a row; its four properties proved |
| 4 (done) | `ManagedHome`, the six `*Engine` modules, `HomeLifecycle`, `MCHomeLifecycle`, `HomeLifecycleProofs` | | two processes, stale plans, edits, crashes; five properties, all proved, and one disagreement |
| 5 (done) | `InstallWorkflow`, `MCInstallWorkflow`, `InstallWorkflowProofs` | | consent, recapture, outsider, rollback; its four properties proved |
| 6 (done) | `ArchiveInspection`, `SourceIntake`, `MCSourceIntake`, `SourceIntakeProofs` | the blocks and trees an archive stands for | edits during a capture, chunks, listings; its three properties proved |
| 7 (done) | `DshProcess`, `DshProcessProofs` | | races of exit, time-out, signal; its three safety properties proved |
| 8 (done) | `UiReview`, `UiGateway`, `ComposeForm`, `UiSession`, `MCUiSession`, `UiSessionProofs` | | late and lost answers, sources that change; both properties proved |
| later | switch workflow (inspect, activate presets, select), the other conflict kinds of compose, detached context calls | | |

Bounds in general: two or three paths of different kinds, one or two failing calls, one foreign
write, a crash anywhere. Every bound is a CONSTANT named in its module.

## 3. The transaction engine

### What is modelled

`Transaction.tla` is one run of `runTransaction` from the moment its journal is published
(`transaction.ts` 41-62 and 522) to its result. `AtomicTransaction.tla` is what it promises:
paths become dirty only after they are named, and the transaction ends committed, undone without a
trace, stuck with a report, or crashed. `Stuck` may name more paths as it ends: after a rollback whose lock
cannot be released the journal is written once more (`transaction-rollback.ts` 145-160), and that may be the first of its
writes to reach the disk. Five calls have to fail before it matters, more than any run has.

| in the model | in the code |
|---|---|
| `home` | what is below `DSH_HOME`: per path an object with an identity (device, inode, birth time) and content (bytes, digest) |
| `backup[i]` | `backups/<txid>/old`, `new` and `documents` of the i-th action |
| `state`, `actions` | the journal object in memory (`transaction-types.ts` 169-255) |
| `disk` | `journal.json` |
| `lock` | `.dshpack/artifacts.lock` as this run sees it |
| `todo` | what is left of one context call: a state file first makes sure of its directories (`ensureStateFileParent`) |
| `failure`, `physical` | `actionFailed`/`actionFailure` of `serializeAction`, and whether it is a `TransactionPhysicalProgressError` |
| `cause`, `manual`, `cursor` | the original failure, `rollbackDiagnostics`, and the loop of `rollbackTransaction` |
| `pre`, `touched`, `live` | history: `DSH_HOME` before, paths somebody else wrote, foreign bytes nobody took back |

Paths are of six kinds because the code treats them differently: artifact directories (moved whole),
state directories (must be empty to be taken back), state files (immutable, bound to a digest),
`settings.yaml` (a lock of its own), markers and current pointers (compare-and-swap with different
expectations). An object is two stamps rather than bytes: `Before`, `Foreign`, `Partial` (a
half-written file or a directory still being filled) or the number of the action that made it. The
properties only ask *whose* identity and *whose* content a path has.

Actions follow the code's suspension points. A context call is one action per await at which
something can happen: checks (`Plan...`), the durable announcement (`Announce`), the mutation
(`CreateHappens`, `RemoveChecked` then `MoveAside`, `DocumentSwapped`), the record of ownership
(`RecordCreated`, `RecordWritten`), the fill of an artifact (`Apply`) and the seal. Each has its
failing twin: the call throws before or after it took effect, because `writeFileAtomic` and
`renameDurable` may fail in the sync that follows the rename. Rollback is the loop of
`rollbackTransaction` over the entries, last first; `UndoNothing`, `UndoUnresolved`,
`UndoCreate...`, `UndoWrite...` and `UndoReplace...` are the branches of `rollbackAction`.

The operation is any sequence of context calls, with any of the expectations a caller can hold (a
snapshot of before, the object of now, none), that ends by returning, by throwing what failed, or by
throwing something else. That covers all engines, and engines nobody has written yet.

The environment fails calls (`MaxFaults`), writes, edits or removes what is below `DSH_HOME` without
taking the artifact lock (`MaxForeign`), holds `settings.yaml.lock` past the deadline
(`SettingsLockTimeout`), and kills the process at any step (`Crash`).

Assumptions, each a restriction of the environment that the code itself makes:

- Foreign writers do not write into two windows: between the check that a restore target is free
  and the rename onto it (the comment at `transaction-node-adapter.ts` 1035-1037 says that
  cooperation is what protects it), and between the comparison and the replacement of a marker or
  pointer (one step in the model; `settings.yaml` is protected by its own lock).
- Foreign writers put nothing *at* a state directory itself; they do write inside one.
- The engines await each context call, so at most one action is in flight. The FIFO queue of
  `serializeAction` shows as the sticky `failure`.
- Scope checks that end in a SECURITY refusal are one possible outcome of `PlanRefused`.

### The runs

All runs have `CHECK_DEADLOCK FALSE`: a transaction that returned or crashed is over.

| run | instance | asks |
|---|---|---|
| `transaction_artifacts` | a skill directory and `settings.yaml`; 3 actions, 2 failing calls, 1 foreign write; 1.4 million states | `TypeOK`; `RolledBackRestores`: "rolled-back" means every untouched path is what it was; `OriginalRecoverable`: an original is in its place or below the backup of an action that the journal on disk names, even after a crash; `ForeignNeverLost`: bytes of a third party are in place or in a backup; `CommittedIsComplete`: a commit leaves every path as the last effective action on it made it, even if the operation swallowed failures; `CleanExitIsSettled`: any exit but 25 leaves a free lock, no failed undo, and a journal that says what was reported; `FailureIsSticky`; `OriginalsOnlyMoveHome`: a preserved original leaves the backup for its own place only; `ImplementsAtomic`: the refinement; `Terminates` |
| `transaction_state` | a generation directory with a generation document and a current pointer in it, and a marker; 4 actions, 1 failing call, 1 foreign write; 5 million states | `WriteAhead`: what differs from before is named by `journal.json`, where directories must be empty to come back, content is bound to a digest and pointers are swapped |
| `transaction_mid_flight` | 2 actions, nothing fails, nobody writes | finds exit 25 although nothing was changed (below) |

Why the bounds are enough: three actions are enough for remove-then-create on one path and a
document beside it, so that undoing out of order, or one time too often, shows. Four are enough for a
directory, a document in it, its pointer and a marker. Two faults are the smallest number for
"it failed and its compensation failed too"; one foreign write is enough because each check looks at
one object, and a second write to the same path only renames the stranger. Every property is broken
by a mutant that changes one mapped definition the way a slip in the code would
(`PROJECT.json`, "mutants"); the mutant definitions are marked `Mutant:` in `Transaction.tla`.

Fairness is `WF_vars(Engine)`: one sequential process whose awaits return or throw, so an enabled
engine step is eventually taken unless the process dies. Nothing is assumed about the environment.
The model bounds the operation's calls by `MaxActions`; an operation that calls for ever would not
end, and no engine does.

### A finding

`transaction_mid_flight`: when `settings.yaml.lock` is held too long, the document write throws
before a byte is written, but its journal entry keeps `writeState: pending`, and rollback refuses to
judge a pending write (`transaction-journal.ts` 175). The result is exit 25, which `exit-codes.ts` 12 describes
as "the machine was left mid-flight", while the time-out itself says that the
configuration was not modified (`adapters/settings-lock.ts` 188). The counterexample needs no fault and
no foreign write. It is conservative rather than unsafe, but it disagrees with the documentation.

A detail worth knowing that is no finding: when writing "committed" fails after its rename, rollback starts
while the journal on disk says committed. If its own journal writes fail as well, the disk keeps
saying so; the exit is 25 then, so `CleanExitIsSettled` holds.

## 4. The lock of settings.yaml

### What is modelled

`SettingsLock.tla` is `withSettingsFileLock` (`adapters/settings-lock.ts` 146-219) around the four
edits of `settings.yaml`: `compareAndSwapText`, `compareAndMoveText` (`adapters/settings.ts`),
`updateSelectedPreset` (`switch/settings.ts`) and `updateAgentPresets`. Each writer is a process
that makes one call. `.dshpack/artifacts.lock` goes through the same function with an operation
that waits until it is told to release.

| in the model | in the code |
|---|---|
| `lock` | `<file>.lock`: its inode, its text (nothing yet, or a PID), and, as history, who created it |
| `pc[p]` | the file-system call `p` is about to make |
| `planned[p]` | what the caller read without a lock: `expected`, or `reviewed.selected` |
| `read[p]` | what `readSource` or `ordinarySource` returned under the lock |
| `identity[p]`, `guards` | the `LockIdentity`, and whose `guard` handle is open: its inode cannot be given to another file |
| `left[p]`, `wait[p]`, `delay[p]` | time to the deadline, rest of the sleep, next sleep |
| `answer[p]`, `fate[p]` | the result on its way out; as history, what became of the edit |

The document is three stamps: the selected preset, the rest of `agent-presets`, the other
namespaces (`SettingsEdit.tla`, shared with the abstract specification). Acquisition is `Create` or
`FindTaken`, then `Identify` (`guard.stat`), `Reopen` (the path must still lead to the same inode)
and `Sign` (the PID, through the handle); the operation is `Read` or `FindDifferent`, then `Write`;
release is `Verify`, `Payload`, `Recheck`, `Remove`, `Close`. Every one of them can fail, with the
path the code takes then: before the identity is known a failure leaves the file behind, after it
the file is removed if it is still the same one; a failure of the release replaces whatever
the operation returned. A write can fail before its rename or after it. YAML, alias, secret and directory checks are the outcome
"refused" of `CannotEdit` and `Refuse`.

The environment fails calls (`MaxFaults`), kills processes (`MaxCrashes`), takes away orphans as the
time-out's hint tells the operator to (`RemoveOrphan`), and removes, replaces or overwrites live lock
files (`Intrude`, `MaxIntrusions`). dsh itself takes the same lock; it is a writer like the others,
except that it removes the lock file unconditionally, which is one of the intrusions. Time is
counted in ticks, and it passes for all writers at once; the clock does not run backwards.

`SerialSettings.tla` is the promise: each call takes effect at one moment on the document of that
moment or not at all; "changed", "declined", "refused" and "timeout" are true, and "io" promises
nothing. `SettingsLock` implements it with `answer` mapped to what has been returned. This is what
allows `Transaction.tla` to treat a swap of `settings.yaml` as one step.

### The runs

| run | instance | asks |
|---|---|---|
| `settings_lock_edits` | three writers (swap, select, merge), two failing calls, a crash, no tampering | `TypeOK`; `MutualExclusion`; `ReadIsFresh`: what is replaced is what was compared; `LeavesNothingBehind`: a lock file stays only after an I/O failure or a death; `ImplementsSerial` |
| `settings_lock_ends` | two writers with the same PID, three inodes, three ticks, delays 1 and 2, a failing call, a crash, an intrusion | `EveryCallEnds`; `DecidesOnItsOwnFile`: a writer decides to remove only the file it created |

Three writers are enough for one that holds the lock, one that waits and one that planned earlier
and comes later. An intrusion takes a lock file away, overwrites it or puts another in its place; when one is gone its inode is free for the next file, which is what a mutant that closes the guard too early runs into. A dead
process and a failing call together give an orphan that others run into while the holder's own
release goes wrong. Both runs have `CHECK_DEADLOCK FALSE`: when every call has ended nothing is left to do.

`DecidesOnItsOwnFile` is about the decision, not the removal: between the last `lstat` and `rm` an
outsider may put another file there, and the code cannot exclude it (`settings-lock.ts` 79). With
tampering two writers can be at their operation at once, and `MutualExclusion`,
`ReadIsFresh` and `LeavesNothingBehind` claim nothing then.

Fairness for `EveryCallEnds`: `WF_vars(Step(p))`, since an awaited call returns or throws, and
`WF_vars(Tick)`, since time passes. Nobody is assumed to remove an orphan: the deadline ends the wait.

## 5. Setup, quarantine and purge

### What is modelled

`TransactionSetup.tla` is how `runTransaction` gets the directory its journal lives in
(`transaction.ts` 313-521): take the artifact lock of the home, clear what dead runs left
(`.setup-<uuid>` below `.dshpack/backups`), make a directory of that kind, write the journal in it,
rename it to `backups/<txid>`. `GcQuarantine.tla` extends it with what follows in gc and in
`uninstall --purge-generations`: a transaction moves files to `backups/<txid>/old`; once it is
committed and its lock is released, the purge takes the lock again and, file by file, compares,
renames to `<action>.purging-<uuid>`, compares again and unlinks. What a run leaves there a later gc
finishes (a *sweep* is a gc with nothing to collect of its own).

| in the model | in the code |
|---|---|
| `stage[r]` | the call run `r` is about to make |
| `setup[r]` | what `.setup-<uuid>` of the run holds: nothing, a temporary, the journal, something strange |
| `backup[r]` | what the journal in `backups/<txid>` says; "foreign" is a directory of somebody else |
| `owns[r]` | whether the run knows it made these directories, or cannot tell because the call threw |
| `payload[x]` | where a quarantined file is (home, slot, purging, gone), and whether its bytes are the journal's |
| `found[r]`, `hand[r]` | the files the locked scan listed, and the one being purged |
| `answer[r]` | the exit: "manual" is 25, "pending" is 0 with a warning that files wait to be reclaimed |
| `alone[r]` | history: no other run was alive at the same time |

Any call may fail, before or after it took effect; a run may die anywhere; its lock file stays until
somebody takes it away. Outsiders put things into provisional directories, take names, and write
into the quarantine.

Abstractions: the transaction between publication and unlock is its outcome (commit, rollback,
failed rollback), module `Transaction` has its steps; a scan is one step, except that an unlocked scan
may miss a file another run has in its hands; uuids and transaction ids do not repeat. An outsider
who writes between the second comparison and the unlink (marked "late") is the one case the code
cannot see.

### The run `gc_quarantine`

Two runs of any verb, two failing calls, one crash, one deed of an outsider; one million states up
to symmetry. Two runs are the one that left something and the one that finds it, or two at a time;
two failures are "it failed, and so did the clean-up".

- `CleanRefusal`: a run that refuses with any exit but 25 leaves no lock, no provisional directory and
  no unsettled transaction of its own.
- `RecoveryClearsTheDead`: recovery removes directories of runs that are over, never of a live one,
  and refuses only what an outsider put there: every state a dead run can leave is recognised.
- `OnlyCollectedStateGoes`: what is unlinked was collected by a committed transaction, is not the
  user's, has the journal's bytes, and goes only while the run that holds it has the lock.
- `SuccessMeansReclaimed`: a gc that was alone and says "success" without a warning has reclaimed
  everything that earlier runs had committed and left behind.

`CHECK_DEADLOCK FALSE`: runs end.

## 6. The managed home and its engines

### What is modelled

`ManagedHome.tla` is everything below `DSH_HOME` that dshpack manages, as one value: directories
(bytes, and who made them), one key of `agent-presets`, markers, generation documents, current
pointers, blocks of the store, and for a profile from before markers had an inventory what its
transaction journal says. Each engine is a module of operators on a home and a command line: when
it refuses, and which writes it makes in which order.

| module | code | what it decides |
|---|---|---|
| `InstallEngine` | `install/plan.ts`, `build-plan.ts`, `engine-apply.ts`, `metadata.ts` | which assets are created, replaced or skipped; the marker |
| `UpdateEngine` | `update/merge.ts`, `update/engine.ts` | the three-way merge per asset and for the key, `--ours`, `--theirs`, `--only`, what is put off to the next update |
| `UninstallEngine` | `uninstall/engine.ts` | drift, shared targets, version 0 markers, the inverse of the setting, which documents and blocks a purge may take |
| `RestoreEngine` | `restore/engine.ts`, `management/attribution.ts` | the fate of each asset, the key, the new marker |
| `GcEngine` | `gc/engine.ts` | what is retained, live and collected, in batches |
| `MigrateEngine` | `migrate/engine.ts` | how a version 0 marker becomes a version 1 one |

`HomeLifecycle.tla` runs them: a process plans a command without the lock (`Plan`), takes the lock
and plans again, comparing what the code compares (`Lock`, or `Refuse`), makes its writes one at a time
(`Write`), and commits, fails or dies. `facts[p]` is what the plan remembers to compare: gc compares
its whole plan, migrate its sources, update whether the user saw the plugins; install, uninstall and
restore plan anew under the lock. A write has the precondition the transaction gives it
(`Possible`): a move finds what was observed, a swap what was read, and a document is never written
over another. The writes are a sequence of stages, `todo`; within a stage the order is that of file
names, and stage i is reached when those before it are empty (`Reached`).

The homes to begin with are such as dshpack leaves behind (`HistoriesAssumption`): one document for a
number, each with its blocks and none of version 0 (`Legible`), an asset recorded as created has the
bytes of a version and one that is not there has none (`Honest`), and the marker is what the current
generation says (`Agree`). All of it is kept by every command, which the proofs use (section 11).

Assumptions: nobody edits while the lock is held (`Transaction` has that); replacing a directory is
one step; a rollback brings back the home of the moment the lock was taken (`Transaction`); after a
crash nothing is repaired, as in the code: a document without its pointer stays, and the next
command on that profile meets `E_GENERATION_EXISTS`. Contents are versions of the pack or "edited".
The generation limit stands for `MAX_SAFE_INTEGER`.

### The runs

| run | instance | asks |
|---|---|---|
| `home` | two profiles sharing a skill, three versions, two processes, three of sixteen command lines, one edit or crash; a home that is empty, freshly installed, or inherited with a version 0 marker; 650 000 states | below |
| `home_restore` | an edit, `update --ours`, `restore` | finds `RestoreKeepsWork` violated (section 12) |

- `EveryGenerationRestorable`: whatever document is there, the store has the blocks it names. It needs
  gc's comparison under the lock, the order of a batch (documents before blocks), and the references
  of *all* profiles in a purge.
- `RecordsAgree`: between commands the marker of a profile is its current generation, word for word.
- `DocumentsNeverChange`: no document is ever overwritten, also not after a crash left one
  without a pointer, or at the greatest number.
- `YourWorkSurvives`: no directory or key that people changed is replaced or removed unless a flag
  says so, whatever commands came before and whatever the marker says of it. Two exceptions are named:
  the profile directory that restore replaces, which `RestoreKeepsWork` states, and the directory that
  uninstall deletes because one of its files is gone (both in section 12).
- `PeersKeepTheirs`: uninstall and restore never take what the marker of another profile claims, or
  what one without an inventory may claim, even if that marker came between plan and lock.

Three commands are enough for install, update and restore of one profile, for two profiles that come to
share a skill while a third command waits, and for a gc planned before and run after an install. One
mishap is an edit *or* a crash at any point; both together were not explored. The command lines are
those whose flags change a decision. `SYMMETRY` exchanges the two processes, which no
property tells apart.

## 7. The install workflow

`InstallWorkflow.tla` opens up one install (`install/engine.ts` 134-385, `engine-apply.ts`,
`engine-profile.ts`): read the pack, probe dsh, resolve plugins, capture the target, plan, ask each
question, capture again, take the lock, capture a third time, then move the old profile away,
initialise the new one, add each plugin, audit the builds, ask again for lifecycle scripts nobody knew of,
authorise and rebuild, verify, write skills and settings, dump the configuration, doctor, record.
Each call may fail; an outsider may write to any piece at any time; the user may say no to each
question. `before` is the digest of the plan, `backup` and `wrote` what the transaction did,
`changed` and `late` (after the locked capture) are history of the outsider.

The packs ask for full access, for another dsh, for builds, for an unverified plugin; the command lines
are a person, a person with `--replace --force`, scripts with some or all consents, one that forgot `--yes`,
and a dry run; build approvals name the plugin, the dependency of the same name, or both.

Run `install_workflow` (two writes of the outsider, 917 000 states):

- `NothingWithoutConsent`: whatever is written, moved or run was agreed to by a flag or an answer; one
  approval of a name does not serve both a plugin and a dependency of that name.
- `ConfirmedIsReplaced`: what is moved to the backup is what the user saw, except for a write after the
  locked capture.
- `OutsiderSurvives`: what the outsider wrote is in its place or in the backup.
- `FailureLeavesNoTrace`: every answer but "installed" and exit 25 leaves each piece nobody else wrote as
  it was, and no copy behind.

Two writes are one that the recapture must see and one it cannot. Packages are a plugin and a
dependency: that pair is what the counting of approvals is about.

## 8. From SOURCE to pack material

`SourceIntake.tla` follows one SOURCE (directory, archive, file with digest, https, GitHub with or
without a commit) to the bytes an install works with: copy in chunks, digest, inspection,
extraction (`adapters/source.ts`); capture of each file with `lstat`, `open`, reads, `fstat` and `lstat`
(`install/snapshot-capture.ts`); the copy the validator reads, the second capture and the comparison
(`install/read.ts`); the removal of both private directories. `ArchiveInspection.tla` is the header
scanner of `adapters/source-archive.ts`, which sees a tar as chunks of any length, and the admission of its
entries in listing order. A file is two halves, each with the stamp of the edit that wrote it, so that a torn read shows.

Somebody edits SOURCE in place or renames another file over it at any point, and may change the copy.
Assumption: an edit changes bytes *and* change time, and never brings back what was there before;
the code compares size, modification and change times, inode and device.

Run `source_intake` (840 000 states; two edits, one deed on the copy, blocks of two units cut into chunks of up to
five, all listings of up to two entries and some of three):

- `MaterialIsWhatWasJudged`: no file is torn, every file is as the validator read it, and a digest in the
  reference or in the lock holds for it.
- `ArchiveIsReadRight`: the blocks the scanner judged are those of the stream, however it is cut; what is
  extracted is a tree with one spelling for each name; and what is such a tree is not refused.
- `NothingPrivateStays`: when the intake answers, both directories are gone or the answer
  says so, except for a refused archive (section 12).

Two edits are needed for "changed and changed again while one file is read". Three entries are a directory,
something in it, and a file that takes its name.

## 9. The dsh subprocess

`DshProcess.tla` is one call of `runDsh` (`adapters/process.ts`): look-up in `PATH`, direct child, fallback to
npx, log, answer. The child's exit, the close of its output (a descendant may hold it open), Execa's timer, the
guard 250 ms later and interruptions race. `first` is history: the first interruption or time-out the
event loop saw.

Run `dsh_process` (two interruptions; the state space is small because there is one process, but every
order is in it):

- `AnswerIsTrue`: a result means that the child ended well and nothing had interrupted the call before the log was
  written; an error carries the first reason.
- `NoChildForgotten`: when the call has answered, its child has ended or was told to.
- `NothingStartsAfterInterruption`: an interrupted call starts no other command.
- `BoundedCallEnds`: a call with a time-out answers, although the child ignores SIGTERM and a descendant keeps the output open.

Fairness: the event loop runs what is ready, and its timers fire. Nothing is assumed of the
child, its descendants or the user; a call *without* a time-out may wait for ever, and no property
says otherwise.

## 10. The UI

`UiReview.tla` is the reducer of `ui/src/state.ts` with the calls of `submitPlan` and `submitApply`;
`UiGateway.tla` is `dispatchWrite` of `ui/server.ts`: an apply plans again, checks permissions and
digest against that plan, and only then runs the engine, which fetches its source itself;
`ComposeForm.tla` is the compose screen of `ui/src/main.ts`; `UiSession.tla` puts them in one window.

| in the model | in the code |
|---|---|
| `view` | `BrowserState`; `ticked` and `sworn` are history: what the user did since this plan was drawn |
| `calls` | the calls made; "sent", "planned" (a matching apply) and "answered"; `seen` is history: the screen at the click |
| `version[r]` | the version of what a request is about, as it is now; it changes, and may change back, at any moment |
| `Needs(r, v)` | the dangerous permissions of the request at that version |
| `Blanket` | kinds of permission that reach the engine as one flag or are matched by kind alone (`engineInput`, `promptAuthorized`): version mismatches whatever the tested range, unverified sources whatever the plugin. The gateway's own check compares every permission itself |
| `Pinned` | requests whose plan names a commit; others are read again at the apply |
| `form`, `preview`, `flags`, `revision`, `lastAsked` | the variables of the compose screen; `asked` are previews on their way |

An answer does not name its request: it reaches whatever phase the screen is in. It may be late or
lost. While an input method composes a character nothing is redrawn, so the preview button stays enabled and
several previews can be under way.

Run `ui_session` (four calls, two versions, three edits, three previews; 1.5 million states):

- `AppliesOnlyWhatWasReviewed`: the request is the one on the screen of the click, a pinned commit is the
  one shown there and each dangerous permission it needs was ticked there. A source without a commit may have
  changed since; then each permission used was ticked or is of a blanket kind of which another was. Full access
  was confirmed on that screen.
- `InstallsWhatWasPreviewed`: the install button works only for a form the server said composes.

The form and the review share one click, so a behaviour explores one of the two: the form up to the
click, or a review. Four calls are two reviews with an apply each, so that an answer can
reach the wrong one. The second version of the install no longer needs full access; the two of
the update are outside different tested ranges, and the second builds as well, so that one may be fetched in place
of the other by the blanket grant, but not the other way round. The two sources of the form are symmetric.

Two simplifications. An update that brings a new plugin asks for it in a sentence which no permission equals, so
the engine always declines it; the model lets the grant count, which only adds behaviours. And the reason
`unresolvedConflicts` of the install button has no part in `InstallReady`: `previewCompose` lists as conflicts the
`E_COMPOSE_CONFLICT` diagnostics alone, which are errors, and with an error the preview is no success.

## 11. Proofs

`TransactionProofs.tla` proves every safety property of `Transaction` that a run checks, for every set of paths, every bound and every interleaving:

| theorem | states | argument |
|---|---|---|
| `TypeCorrect` | `Spec => []TypeOK` | `TypeOK` alone is not inductive: an action may be appended only if the journal has room for the rest of the call. `TypeInv == TypeOK /\ Room` is. One lemma per group of actions, on top of lemmas for what a throw, a goto and the next task keep |
| `FailureSticks` | `Spec => FailureIsSticky` | `Quiet`: no action is begun or under way once a call has failed; and only the planning of an action makes the journal longer |
| `WritesAhead` | `Spec => []WriteAhead` | `WriteAheadInv`, below |
| `CleanExits` | `Spec => []CleanExitIsSettled` | `LedgerInv`: where rollback is tells which entries are still to be undone (`Phased`), only the last entry can be pending (`Entries`), and what is reported is what the journal on disk says (`Reported`) |
| `RollsBack`, `Recoverable` | `Spec => []RolledBackRestores`, `[]OriginalRecoverable` | `RewindInv`, below |
| `Implements` | `Spec => ImplementsAtomic` | initial states map to initial states; an engine step maps to `Work`, an end or a stutter. That a path changes only when it is named is `WriteAhead` and `OnDisk`; that "undone" leaves nothing dirty is `RolledBackRestores` |
| `OriginalsGoHome` | `Spec => OriginalsOnlyMoveHome` | the only step that empties an `old/` is the undo of its own action (`BackupSteps`, `UndoEffects`); a move aside finds it empty |
| `ForeignKept` | `Spec => []ForeignNeverLost` | `ForeignInv`: nothing has been moved to the `new/` of an action still to be undone (`Unspent`), so an undo never overwrites one; an original goes home to an empty place (`Free`) |
| `CommitsComplete` | `Spec => []CommittedIsComplete` | `CompleteInv`: as long as nothing has failed, the actions before the one under way account for what is at each path (`Settled`) |

The write-ahead invariant has three groups. About the journals: what is on disk is a prefix, path by path, of what is in memory
(`Prefix`); an entry that is not on disk has no effect recorded and no
backup (`Idle`); state directories are only ever created, and owned only if they were not there
before (`DirActions`). About the step under way: an action is performed only when its entry is the last one on disk
(`Announced`), the second half of an undo belongs to an action that took
effect (`Moving`), and the tasks on state directories are "ensure" tasks (`DirTasks`, `DirMade`).
About `DSH_HOME`: directories that were there stay (`DirsStay`), nothing was below an absent directory
(`Possible(pre)`), and the rule itself. `Idle` is what carries it over a failing announcement: the entry may be in memory and not on
disk, and rollback will look at it, but finds nothing it could undo. `DirActions` and `DirsStay`
are needed because taking back a directory takes along what is in it. The lemmas `KeepsJournal`
and `KeepsHome` reduce each action to what it changes.

The rollback invariant says of each path, at every moment, what undoing would bring back. An action *stands* if it
took effect and is still to be undone (`Stands`): its mark says so, or, for a creation or a write without a recorded mark,
the object at its path carries its number, or, for a move, its `old/` holds something. `Rewinds(p)`: if no action on `p` stands, `p` is as it was
before the transaction; and what the first standing action found there (`Earlier`) is what was there before.
This needs no sequence of intermediate states, and so no induction over the journal. Once rollback has had to give
something up (`manual`) it no longer holds, and `Keeps(p)` is what remains: an original is in its place, or in
the backup of the first action on its path that took it. `CraftInv` relates identities and saved texts: an object made by
an action carries its number, which is above those of all the others (`Fresh`), what is recorded as owned is what the action made
unless somebody else was there (`Own`), and the saved text is the text the write replaces (`Saved`).
Each step of the engine changes a path in one of five shapes (`Shaped`): the actions on it rest, the one under way takes effect, the one at the cursor is
taken back, it is left to a person, or the path is swept away with its directory. `PathRewinds` and `PathKeeps` say once that each shape
keeps the invariant; the lemmas that end in `Shapes` and `Rest` say which step has which shape.

TLC checked `WriteAheadInv`, and the parts of the rollback invariant, on instances of `transaction_artifacts` and
`transaction_state` before they were proved. The proof of `Implements` failed at first where the
lock cannot be released after a rollback, and rightly so: TLC then found the five failing calls that
`Stuck` (section 3) now allows for.

Assumptions: the bounds are natural numbers (`BoundsAssumption`), `Parents` gives each path a
sequence of state directories (`ParentsAssumption`), and a path has one kind (`KindsAssumption`).

`SettingsLockProofs.tla` proves, for any number of writers, any PIDs, inodes, delays and bounds:

| theorem | states | argument |
|---|---|---|
| `LockTypeCorrect` | `Spec => []TypeOK` | inductive as it stands |
| `RemovesOwnFile` | `Spec => DecidesOnItsOwnFile` | `IdentityInv`: the writers with an open handle are those between creation and close, their inodes differ, and a lock file with the inode of an open handle was made by its owner, because a new file gets no inode that is in use. It holds under any tampering |
| `OneWriterAtATime`, `WritesWhatItRead`, `CleanAnswersLeaveNothing` | `Spec => []MutualExclusion`, `[]ReadIsFresh`, `[]LeavesNothingBehind` | `HoldInv`, as long as no intrusion has happened: between creation and removal the lock file is the owner's, under its inode and, once signed, its PID. Two owners are then one, so nobody else writes between a read and its write; the text is in the invariant because the release gives up on a foreign text |
| `EditsAreSerial` | `MaxIntrusions = 0 => (Spec => ImplementsSerial)` | `FateInv`: the edit is open until the operation ends, and the answer under way is true from then on. The rename is the step `Change`, a failed comparison is `Decline`, the return is `Answer`; everything else stutters |

Assumptions: an edit is of one of the four kinds (`KindAssumption`); times and bounds are naturals,
the first delay is at least one tick and no longer than the longest, inodes are positive, and no
writer is called "nobody" or "outsider" (`LockAssumption`).

`DshProcessProofs.tla` proves, for any number of interruptions:

| theorem | states | argument |
|---|---|---|
| `AnswersAreTrue`, `ChildrenAreTold` | `Spec => []AnswerIsTrue`, `[]NoChildForgotten` | `DshInv`: the recorded reason is the first one the handlers were told, for the late settlement, which records without being told, comes only after the guard has recorded; and a call that reaches its log unhindered knows how its child ended |
| `StopsAtInterruption` | `Spec => NothingStartsAfterInterruption` | a command is started only by a step that finds nothing recorded, and `DshInv` says that nothing was told then either |

`UiSessionProofs.tla` proves, for any requests, permissions, needs, versions, calls, edits and previews:

| theorem | states | argument |
|---|---|---|
| `AppliesWhatWasSeen` | `Spec => []AppliesOnlyWhatWasReviewed` | `ReviewInv`: whatever answer reaches the screen, what it grants was ticked there since its plan was drawn (`Honest`); an unanswered apply carries what was on the screen of its click, and one that the server accepted has the plan of that screen, at its version, with all it needs granted (`Carries`); what some permissions allow, more of them do (`AllowsMore`). One lemma per kind of step: of the screen, of one call, of a new call |
| `InstallsTheFormPreviewed` | `Spec => []InstallsWhatWasPreviewed` | `FormInv`: requests have different numbers, and the one that would count is about the form as it is. An answer that counts may clear the resolution of a clash; when it accepts the form it does not, because the server finds the skill wherever it is ticked |

Assumptions: danger-full-access is a permission, there is at least one version
(`ReviewAssumption`), needs are permissions (`NeedsAssumption`), danger-full-access is
in no blanket kind, for it has one subject only (`BlanketAssumption`), and the install of a composition is one
of the requests (`CompositionAssumption`).

`InstallWorkflowProofs.tla` proves, for any pieces of a target, packs, command lines, approved builds and
scripts, and any number of writes by an outsider:

| theorem | states | argument |
|---|---|---|
| `InstallTypes` | `Spec => []TypeOK` | part of `Inv`, the conjunction of the invariants named below |
| `Consent` | `Spec => []NothingWithoutConsent` | `ConsentInv`: each question that the plan raised was asked or answered by a flag before the first write, the plan is for what was captured, and a build or script is approved by itself |
| `Confirmation` | `Spec => []ConfirmedIsReplaced` | the second capture equals the first, or the workflow stops (`TargetInv`) |
| `Survival` | `Spec => []OutsiderSurvives` | `DiskInv`: what was moved away is in the backup, and a write only lands on what the transaction put there or found vacant |
| `NoTrace` | `Spec => []FailureLeavesNoTrace` | a piece that was not moved and that no outsider wrote is as planned for; a rollback puts the rest back |

Most of the workflow's steps only move on to the next; the lemma `Passing` does these at once, and
`ScriptInv` says that approvals of scripts come last.

`HomeLifecycleProofs.tla` proves, for any profiles, skills, versions and what they ship, any command lines,
any number of processes and any homes to begin with (`HistoriesAssumption`):

| theorem | states | argument |
|---|---|---|
| `HomeTypes` | `Spec => []TypeOK` | from `Inv` below |
| `Restorable` | `Spec => []EveryGenerationRestorable` | `Legible(home)` with `Stocked`: a document is written after its blocks, and no transaction writes a document and drops one of its blocks; a block goes after the documents that name it |
| `Agreement` | `Spec => []RecordsAgree` | `AllHead`: when the rest of the transaction is written, pointer, document and marker of each profile will agree. The last write makes `AllHead(home, {})`, which is `Agree(home)` |
| `Documents` | `Spec => DocumentsNeverChange` | `DocumentInv`: a document that is there and was there when the lock was taken is the same, so a rollback changes none; no transaction writes and drops documents (`Unmixed`) |
| `Work`, `Peerage` | `Spec => YourWorkSurvives`, `Spec => PeersKeepTheirs` | `Fits`: each write that is left was allowed by the flags and the markers at the moment of the lock; a move finds what was observed then |

The invariant is `Inv == ProcessInv /\ HomeInv /\ TodoInv /\ DocumentInv`. That one write keeps it
(`WriteKeeps`) does not depend on which command makes it: it is all in what a plan has to be like, `Good`. For each engine a
lemma says that its plan is good: `InstallGood`, `UpdateGood`, `RestoreGood`, `UninstallGood`, `GcGood` and `MigrateGood`.
That is where the decisions of the engines are used: the merge takes over only what is as the pack
left it (`MergeTakes`), the restored claims are those of the generation that was checked against the store, a
purged block is in no document of another profile, and a batch of gc takes blocks only with all
documents of the plan (`BatchShape`). `Honest` carries the argument about people's work from one command to the next: bytes a marker claims are
a version's, so what equals them nobody edited. TLC checked `Inv` on the instance of `home` before it was proved.

Assumptions: what people write is not what a version brings (`BytesAssumption`); a verb has the
arguments its command line asks for (`CommandsAssumption`); the homes to begin with are such as dshpack
leaves them (`HistoriesAssumption`); bounds are naturals.

`SourceIntakeProofs.tla` proves, for any archives, sizes of block and chunk, and any number of edits of SOURCE
and of the copy:

| theorem | states | argument |
|---|---|---|
| `IntakeTypes` | `Spec => []TypeOK` | together with `Copying`, what each stage has of the archive |
| `MaterialJudged` | `Spec => []MaterialIsWhatWasJudged` | stamps grow (`StampGrows`), so what is read of a file lies between its stamp at the opening and its stamp now (`Reading`); equal stamps before and after leave one version (`Whole`). A tampering writes what was never captured, so a copy that compares equal was not touched since it was judged (`Judged`) |
| `PrivateGone` | `Spec => []NothingPrivateStays` | `Kept`: which directory may be there at which stage |
| `ArchiveRead` | `Spec => []ArchiveIsReadRight` | `Assembled`: blocks seen and units waiting are the stream up to what was consumed, whatever a chunk closes, contains and begins (`ClosedBlock`, `WholePart`, `Stretch`). At a good end no unit waits, so nothing is loose and the kinds read are those of the archive (`ScanComplete`). `Admitted`: the entries so far are a tree, which an entry that collides with nothing extends (`TreeGrows`) and of which no member collides with the others (`TreeHasRoom`) |

Assumptions: a block and a chunk have at least one unit; an archive has blocks of the four kinds, entries with paths, and
less than a block after the last (`ArchivesAssumption`); bounds are naturals. That an edit never brings back what was there
before is in the model (section 8), and `MaterialJudged` rests on it.

`GcQuarantineProofs.tla` proves the properties of `TransactionSetup` and `GcQuarantine` for any number of runs of
any verbs, and any budgets of failures, crashes and outsiders:

| theorem | states | argument |
|---|---|---|
| `GcTypes` | `Spec => []TypeOK` | from `IInv` below |
| `RefusesCleanly` | `Spec => []CleanRefusal` | inductive together with `Directories` (what a run may have made at each stage, and what it knows of it: before it lets the lock go it is bare or unsure) and `Outcome` (what the journal says of it) |
| `RecoversTheDead` | `Spec => RecoveryClearsTheDead` | a directory that is neither absent nor strange belongs to a run that holds the lock, or to one that has ended; the run that recovers holds the lock itself |
| `CollectsOnly` | `Spec => OnlyCollectedStateGoes` | `Quarantine`: what the locked scan found was committed, which it stays (`CommitStays`); the file in hand is one of these, and an overwriting between comparison and unlink is marked "late" |
| `Reclaims` | `Spec => SuccessMeansReclaimed` | `Remainder`: while a run purges, every file that waits is still among those it found; a run that answers without the lock has no other live run beside it (`AloneInv`), so nothing is in anybody's hands |

`IInv` has these parts and `LockInv`, that a run at work under the lock is the one the lock file names. `Turn` splits every
step in two: a run that purges does the next step of its purge, or some other step happens, of which it
notices nothing, since committing and moving need the lock. TLC checked `IInv` on the instance of `gc_quarantine` before it was proved.
Assumption: a process is not the mark of a free lock (`RunAssumption`); budgets are naturals.

## 12. Where the program and its text disagree

Checked as `violation` runs:

- **Exit 25 without a change** (`transaction_mid_flight`, section 3).
- **restore discards an edit** (`home_restore`). The user edits a profile directory; `update --ours` leaves it alone and
  records it with action "skip" and its edited files. A later `restore` without `--force` replaces it: the root of
  the profile always counts as the installation's (`management/attribution.ts` 17), and drift is measured against the
  recorded, edited files, so it is "intact". `src/README.md` 111 says that restore does not discard changes made since.
  The test at `restore-engine.test.ts` 1958 covers a skill, which is kept.

Met while modelling, and read in the code rather than stated by a run:

- `uninstall` deletes a directory that lost one recorded file, although others in it were edited: "missing" is found
  before "modified" (`metadata/contracts.ts` 706), and only "modified" is kept. `src/README.md` 112 says that what
  cannot be attributed is kept. (`UninstallEngine!Drift` has it, with the bytes "trimmed"; `YourWorkSurvives` names the exception.)
- An asset that update creates where the pack brought none before is claimed as `create` only through
  `update/engine.ts` 1286: line 1269 returns first when nothing was observed, so the marker does not claim it and a later
  uninstall leaves it. The command's summary does say
  `create` (the test at `update-engine.test.ts` 166); only the marker is silent.
- `update` removes a skill that the new version lacks even if the marker of another profile claims it; uninstall and restore ask.
- gc answers exit 25 "interrupted" when another gc is merely in the middle of its transaction (`gc/engine.ts` 417-435).
- A sweep that has removed files and then meets a bare file-system error answers exit 70 with
  "no collection plan was applied" (`gc/engine.ts` 592, 1098-1108).
- A purge whose lock acquisition fails and leaves the lock file is reported as pending with exit 0, although the comment at
  `uninstall/engine.ts` 1525-1528 says that a stranded lease is never taken for pending cleanup.
- A refused archive whose private directory cannot be removed stays behind unmentioned: the failure is swallowed
  (`adapters/source.ts` 529).
- An apply whose second plan fails is answered with HTTP 200 (`ui/server.ts` 501) and drawn as done.
- After a reset, the late answer of an apply is taken for the next plan's or the next apply's (`ui/src/state.ts` 563-569); the server's digest
  check is what keeps `AppliesOnlyWhatWasReviewed`.
- The digest of a skill edit covers lengths, not bytes (`ui/skills.ts`); a change of the same length between plan and apply goes
  unnoticed. The skill editor is not modelled.

## 13. What is only model-checked, and what is not modelled

Only model-checked: `Terminates`, `EveryCallEnds` and `BoundedCallEnds` (liveness under fairness is out of the
prover's reach); every safety property that a run checks and that is not meant to be violated is proved as well.
What a fold over the blocks of
an archive computes (`Remaining`) is not proved either: `ArchiveRead` says that the scanner computes it on the right blocks.

Not modelled:

- *Transaction*: the unjournaled creation of parent directories; a context call the operation did not await (a hazard, listed); the text of diagnostics.
- *Settings*: editors that write `settings.yaml` without the lock (they are foreign writers in `Transaction`); a wall clock set back; YAML.
- *Node adapter*: scope checks of paths, which are an outcome "refused"; the loss of unsynced data at a power failure (a sync that returned is believed).
- *Home*: edits while the lock is held; repairs by hand after a crash; more than one key of `agent-presets`; plugins as such.
- *Install*: what pnpm and dsh do inside a profile; the content rules of a pack.
- *Sources*: HTTP, DNS and gunzip, which are external; limits on sizes and counts, which are an outcome "refused".
- *UI*: reading endpoints, token and host checks, the skill editor, drawing, messages.
- *switch*: the listing and activation of presets around the selection. *compose*: the text of the pack it generates, and
  conflicts other than those of skill ids.
- pack, lock, init and export write new files where the user says, once, with nothing that interleaves; list, status, diff and doctor
  have no state; patch, paths and secrets are string functions.
