--------------------------- MODULE HomeLifecycle ---------------------------
(***************************************************************************)
(* A home over its life: commands of several dshpack processes on several  *)
(* profiles, each planned without the lock and carried out under it, with  *)
(* people editing the home in between and processes dying half way.        *)
(*                                                                         *)
(* A command holds the home lock from Lock to Commit, Fail or Crash; that  *)
(* one writer holds it, and that a rollback leaves the home as it was, is  *)
(* the subject of modules SettingsLock and Transaction.  After a crash the *)
(* home stays as the writer left it: no command repairs it.                *)
(***************************************************************************)
EXTENDS InstallEngine, UpdateEngine, RestoreEngine, GcEngine, MigrateEngine

CONSTANTS
    Process,       \* dshpack processes
    Commands,      \* the command lines given
    Histories,     \* the homes to begin with
    MaxCommands,   \* bound: commands planned
    MaxMishaps     \* bound: edits by people, and deaths of a process that holds the lock

\* What a pack brought is recorded as its own; what people made of it, as skipped.
OfPack(asset) ==
    /\ asset.act = "none" => asset.thing.bytes = "none"
    /\ Claims(asset) => asset.thing.bytes \in Version

Honest(meta) ==
    /\ meta.schema # "none" => meta.pack \in Version
    /\ \A t \in Target : OfPack(meta.assets[t]) /\ OfPack(meta.deferred[t].base)

\* Of each profile, the marker is what the current generation says.
Agree(h) ==
    \A p \in Profile :
        IF h.current[p] = 0 THEN h.marker[p].schema # "v1"
        ELSE h.current[p] \in Kept(h, p) /\ h.marker[p] = DocAt(h, p, h.current[p]).meta

\* A home as dshpack leaves it: one document for a number, and each with its blocks.
Legible(h) ==
    /\ \A d, e \in h.docs : d.profile = e.profile /\ d.seq = e.seq => d = e
    /\ \A d \in h.docs : InStore(h, d.meta) /\ d.meta.schema # "v0" /\ Honest(d.meta)
    /\ \A p \in Profile : Honest(h.marker[p])
    /\ \A t \in Target : h.disk[t].bytes = "none" => h.disk[t] = Nothing

\* A verb gets the arguments its command line asks for.
ASSUME CommandsAssumption ==
    \A c \in Commands :
       /\ c \in Command
       /\ c.verb # "gc" => c.profile \in Profile
       /\ c.verb \in {"install", "update"} => c.version \in Version
ASSUME HistoriesAssumption == \A h \in Histories : h \in Home /\ Legible(h) /\ Agree(h)
ASSUME BoundsAssumption == {MaxCommands, MaxMishaps} \subseteq Nat

VARIABLES
    home,     \* what is below DSH_HOME
    pc,       \* what a process is at: "idle", "planned" or "locked"
    command,  \* its command line
    facts,    \* what its plan knew, for the verbs that compare it under the lock
    todo,     \* what the holder of the lock has yet to write
    saved,    \* the home when the lock was taken
    torn,     \* a process died while it held the lock
    budget    \* commands and mishaps so far

vars == <<home, pc, command, facts, todo, saved, torn, budget>>

NoCommand == [verb |-> "gc", profile |-> "all", version |-> "none", only |-> {}, number |-> 0, flags |-> {}]
NoFacts == [verb |-> "none"]

Locked == \E p \in Process : pc[p] = "locked"

-----------------------------------------------------------------------------
(* Which engine *)

Refuses(h, c) ==
    CASE c.verb = "install"   -> InstallRefuses(h, c)
      [] c.verb = "update"    -> UpdateRefuses(h, c)
      [] c.verb = "uninstall" -> UninstallRefuses(h, c)
      [] c.verb = "restore"   -> RestoreRefuses(h, c)
      [] c.verb = "gc"        -> GcRefuses(h, c)
      [] c.verb = "migrate"   -> MigrateRefuses(h, c)

\* install, uninstall and restore plan again under the lock and take nothing along.
FactsFor(h, c) ==
    CASE c.verb = "update"  -> [verb |-> "update", reviewed |-> NeedsReview(h.marker[c.profile], c)]
      [] c.verb = "gc"      -> [verb |-> "gc", plan |-> GcPlan(h, c)]
      [] c.verb = "migrate" -> [verb |-> "migrate", seen |-> MigrateFacts(h, c)]
      [] OTHER              -> NoFacts

\* Mutant of FactsHold: what gc planned is not compared.
FactsHoldForGc(h, c, known) ==
    CASE known.verb = "update"  -> known.reviewed \/ ~NeedsReview(h.marker[c.profile], c)
      [] known.verb = "migrate" -> known.seen = MigrateFacts(h, c)
      [] OTHER                  -> TRUE

\* authorizationAfterMarkerChange, samePlan, and what migration compares.
FactsHold(h, c, known) ==
    CASE known.verb = "update"  -> known.reviewed \/ ~NeedsReview(h.marker[c.profile], c)
      [] known.verb = "gc"      -> known.plan = GcPlan(h, c)
      [] known.verb = "migrate" -> known.seen = MigrateFacts(h, c)
      [] OTHER                  -> TRUE

\* The stages of the transaction; gc writes the batch it planned.
Todos(h, c, known) ==
    CASE c.verb = "install"   -> {InstallWrites(h, c)}
      [] c.verb = "update"    -> {UpdateWrites(h, c)}
      [] c.verb = "uninstall" -> {UninstallWrites(h, c)}
      [] c.verb = "restore"   -> {RestoreWrites(h, c)}
      [] c.verb = "gc"        -> {GcWrites(batch) : batch \in Batches(known.plan)}
      [] c.verb = "migrate"   -> {MigrateWrites(h, c)}

\* What comes before stage i is written.
Reached(i) == \A j \in 1 .. i - 1 : todo[j] = {}

-----------------------------------------------------------------------------

Init ==
    /\ home \in Histories
    /\ pc = [p \in Process |-> "idle"]
    /\ command = [p \in Process |-> NoCommand]
    /\ facts = [p \in Process |-> NoFacts]
    /\ todo = <<>>
    /\ saved = home
    /\ torn = FALSE
    /\ budget = [commands |-> 0, mishaps |-> 0]

\* Everything up to the lock.  Someone else may be writing meanwhile.
Plan(p) ==
    /\ pc[p] = "idle" /\ budget.commands < MaxCommands
    /\ \E c \in Commands :
         /\ ~Refuses(home, c)
         /\ command' = [command EXCEPT ![p] = c]
         /\ facts' = [facts EXCEPT ![p] = FactsFor(home, c)]
    /\ pc' = [pc EXCEPT ![p] = "planned"]
    /\ budget' = [budget EXCEPT !.commands = @ + 1]
    /\ UNCHANGED <<home, todo, saved, torn>>

Over(p) ==
    /\ pc' = [pc EXCEPT ![p] = "idle"]
    /\ command' = [command EXCEPT ![p] = NoCommand]
    /\ facts' = [facts EXCEPT ![p] = NoFacts]

\* The plan is made again under the lock, and what was reviewed or compared still holds.
Lock(p) ==
    /\ pc[p] = "planned" /\ ~Locked
    /\ ~Refuses(home, command[p]) /\ FactsHold(home, command[p], facts[p])
    /\ todo' \in Todos(home, command[p], facts[p])
    /\ saved' = home
    /\ pc' = [pc EXCEPT ![p] = "locked"]
    /\ UNCHANGED <<home, command, facts, torn, budget>>

\* The home is no longer what the plan was made for: nothing is written.
Refuse(p) ==
    /\ pc[p] = "planned" /\ ~Locked
    /\ ~(~Refuses(home, command[p]) /\ FactsHold(home, command[p], facts[p]))
    /\ Over(p)
    /\ UNCHANGED <<home, todo, saved, torn, budget>>

\* One write.
Write(p) ==
    /\ pc[p] = "locked"
    /\ \E i \in DOMAIN todo : \E w \in todo[i] :
         /\ Reached(i)
         /\ Possible(home, w)
         /\ home' = Done(home, w)
         /\ todo' = [todo EXCEPT ![i] = @ \ {w}]
    /\ UNCHANGED <<pc, command, facts, saved, torn, budget>>

Commit(p) ==
    /\ pc[p] = "locked" /\ \A i \in DOMAIN todo : todo[i] = {}
    /\ Over(p)
    /\ saved' = home /\ todo' = <<>>
    /\ UNCHANGED <<home, torn, budget>>

\* A write, a child process or the doctor fails: all is rolled back.
Fail(p) ==
    /\ pc[p] = "locked"
    /\ home' = saved /\ todo' = <<>>
    /\ Over(p)
    /\ UNCHANGED <<saved, torn, budget>>

\* The process dies; what it wrote stays, and someone takes its lock file away.
Crash(p) ==
    /\ pc[p] = "locked" /\ budget.mishaps < MaxMishaps
    /\ saved' = home /\ todo' = <<>> /\ torn' = TRUE
    /\ Over(p)
    /\ budget' = [budget EXCEPT !.mishaps = @ + 1]
    /\ UNCHANGED home

\* What people do to the managed directories and to their settings.
Edited(h) ==
    {[h EXCEPT !.disk[t].bytes = b] : t \in {u \in Target : h.disk[u] # Nothing}, b \in EditedBytes}
      \cup {[h EXCEPT !.disk[t] = Nothing] : t \in Target}
      \cup {[h EXCEPT !.disk[t] = [bytes |-> b, by |-> User]] :
              t \in {u \in Target : h.disk[u] = Nothing}, b \in EditedBytes}
      \cup {[h EXCEPT !.setting = value] : value \in {"edited", "none"}}

\* Nobody edits while the lock is held; that is a subject of module Transaction.
Edit ==
    /\ ~Locked /\ budget.mishaps < MaxMishaps
    /\ home' \in Edited(home) \ {home}
    /\ saved' = home'
    /\ budget' = [budget EXCEPT !.mishaps = @ + 1]
    /\ UNCHANGED <<pc, command, facts, todo, torn>>

Next ==
    \/ \E p \in Process : Plan(p) \/ Lock(p) \/ Refuse(p) \/ Write(p) \/ Commit(p) \/ Fail(p) \/ Crash(p)
    \/ Edit

Spec == Init /\ [][Next]_vars

-----------------------------------------------------------------------------
(* Properties *)

\* A home is a home, and only the holder of the lock has writes to make.
TypeOK ==
    /\ home \in Home
    /\ pc \in [Process -> {"idle", "planned", "locked"}]
    /\ \A p, q \in Process : pc[p] = "locked" /\ pc[q] = "locked" => p = q
    /\ todo # <<>> => Locked
    /\ torn \in BOOLEAN

\* Whatever document is there, the store has every block it names: no command, batch, failure
\* or crash leaves a generation that restore would have to refuse (E_RESTORE_CAS).
EveryGenerationRestorable ==
    \A d \in home.docs : InStore(home, d.meta)

\* Between commands the marker of a profile is what its current generation says, word for word
\* (assertCurrentState), and a profile without one was never installed or is uninstalled.
RecordsAgree ==
    Locked \/ torn \/ Agree(home)

\* A generation document never changes: it is there as it was written, or it is gone
\* (writeGeneration refuses to overwrite one, also after a crash left it without a pointer).
DocumentsNeverChange ==
    [][\A d \in home.docs, e \in home'.docs : d.profile = e.profile /\ d.seq = e.seq => d = e]_vars

\* The writer's step, as opposed to a rollback or an edit.
Writing(p) == pc[p] = "locked" /\ pc'[p] = "locked"

\* Who says so explicitly: --force, --theirs, --replace of a profile, and install, which
\* sets the whole namespace of agent-presets.
MayTakeDirectory(c, t) ==
    "force" \in c.flags \/ (c.verb = "update" /\ "theirs" \in c.flags)
      \/ (c.verb = "install" /\ t = c.profile)
MayTakeSetting(c) ==
    "force" \in c.flags \/ (c.verb = "update" /\ "theirs" \in c.flags) \/ c.verb = "install"

\* The exception that RestoreKeepsWork is about.
RestoresSkipped(c, t) ==
    c.verb = "restore" /\ t = c.profile /\ saved.marker[t].assets[t].act = "skip"

\* The one that classifyAssetDrift makes: where a file is gone, what else changed is not seen.
TakesTrimmed(c, t) == c.verb = "uninstall" /\ home.disk[t].bytes = "trimmed"

\* No command replaces or removes a directory or a key that people changed unless its flags
\* say so (update: "what you changed is not overwritten"; uninstall, restore: drift is kept).
YourWorkSurvives ==
    [][\A p \in Process : Writing(p) =>
         /\ \A t \in Target :
              home.disk[t].bytes \in EditedBytes /\ home'.disk[t] # home.disk[t]
                => MayTakeDirectory(command[p], t) \/ RestoresSkipped(command[p], t) \/ TakesTrimmed(command[p], t)
         /\ home.setting = "edited" /\ home'.setting # "edited" => MayTakeSetting(command[p])]_vars

\* uninstall and restore leave a directory alone that the marker of another profile claims, or
\* that a version 0 marker might (shared-target, legacy-profile-reference), whatever the flags.
PeersKeepTheirs ==
    [][\A p \in Process, t \in Target :
         Writing(p) /\ command[p].verb \in {"uninstall", "restore"}
           /\ home.disk[t] # Nothing /\ home'.disk[t] # home.disk[t]
         => \/ saved.marker[command[p].profile].schema = "v0" /\ t = command[p].profile
            \/ ~LegacyPeer(saved, command[p].profile) /\ ~PeerClaims(saved, command[p].profile, t)]_vars

\* README.md:111 of restore: it "does not discard the changes you made since".
RestoreKeepsWork ==
    [][\A p \in Process, t \in Target :
         Writing(p) /\ command[p].verb = "restore" /\ "force" \notin command[p].flags
           /\ home.disk[t].bytes \in EditedBytes
         => home'.disk[t] = home.disk[t]]_vars
=============================================================================
