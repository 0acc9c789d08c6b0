-------------------------- MODULE InstallWorkflow --------------------------
(***************************************************************************)
(* One dshpack install (packages/cli/src/install/): fetch and read the     *)
(* pack, capture the target, plan, ask, capture again, take the artifact   *)
(* lock, capture once more, then build the profile, write the assets and   *)
(* settings.yaml, verify, record.  Each call to the outside may fail; an   *)
(* outsider may write to the target at any time; the user may decline.     *)
(*                                                                         *)
(* The transaction is seen as what module Transaction shows of it: what is *)
(* replaced is moved to a backup, a failure moves it back unless somebody  *)
(* else has written in its place.                                          *)
(***************************************************************************)
EXTENDS Naturals, FiniteSets

CONSTANTS
    FlagSets,    \* the command lines: sets of flags
    BuildFlags,  \* the --allow-build lists: how often each name is given
    RiskSets,    \* what the packs ask for: subsets of Risk
    MaxChanges   \* bound: writes of the outsider

Flag == {"replace", "force", "yes", "interactive", "dry-run",
         "allow-danger", "allow-mismatch", "allow-unverified"}
\* The pack wants full access, was tested with another dsh, has a plugin that builds,
\* has a plugin nothing vouches for.
Risk == {"danger", "mismatch", "builds", "unverified"}
\* A plugin of the manifest and a dependency of it.  A dependency may have the name
\* of a plugin (another version of it, deeper in node_modules).
Package == {"plugin", "dependency"}
Piece == {"profile", "skill", "settings"}
Content == {"absent", "user", "alien", "partial", "pack"}

ASSUME FlagSetsAssumption == FlagSets \subseteq SUBSET Flag
ASSUME BuildFlagsAssumption == BuildFlags \subseteq [Package -> 0 .. 2]
ASSUME RiskSetsAssumption == RiskSets \subseteq SUBSET Risk
ASSUME MaxChangesAssumption == MaxChanges \in Nat

VARIABLES
    pc,        \* the stage the install is at
    flags, builds, risks,  \* the command line and the pack
    home,      \* what is at each piece of the target
    before,    \* captureTargetState at planning time
    action,    \* the plan: what is done with each piece
    prompts,   \* the questions still to ask
    accepted,  \* the questions the user said yes to
    approvals, \* the package names whose builds are approved, as the engine keeps them
    scripts,   \* the transitive packages whose scripts the audit found
    keys,      \* allowBuilds of the new profile: whose scripts pnpm may run
    ran,       \* <<how, name>>: lifecycle scripts that ran
    staged,    \* the private copy of SOURCE
    backup,    \* what the transaction moved away
    wrote,     \* pieces this transaction has written
    changed,   \* pieces the outsider wrote
    late,      \* those written after the locked capture
    changes

userVars == <<flags, builds, risks>>
planVars == <<before, action, prompts, accepted>>
buildVars == <<approvals, scripts, keys, ran>>
diskVars == <<home, backup, wrote>>
outsiderVars == <<changed, late, changes>>
vars == <<pc, userVars, planVars, buildVars, diskVars, staged, outsiderVars>>

Stages == {"source", "read", "probe", "resolve", "capture", "plan", "confirm", "recapture",
           "begin", "locked", "init", "baseline", "stage", "add", "audit", "ask", "authorize",
           "rebuild", "reaudit", "verify", "patch", "skill", "settings", "dump", "doctor", "record", "rollback"}
\* `declined` and `refused` are answers from before the transaction.
Outcomes == {"planned", "declined", "refused", "installed", "rolled-back", "manual-recovery"}
Question == ({"danger", "mismatch", "install"} \X {"pack"}) \cup ({"build", "script"} \X Package)
About(kind) == <<kind, "pack">>

TypeOK ==
    /\ pc \in Stages \cup Outcomes
    /\ flags \in FlagSets /\ builds \in BuildFlags /\ risks \in RiskSets
    /\ home \in [Piece -> Content] /\ before \in [Piece -> Content]
    /\ action \in [Piece -> {"none", "create", "replace", "skip", "merge"}]
    /\ prompts \subseteq Question /\ accepted \subseteq Question
    /\ approvals \subseteq Package /\ scripts \subseteq Package /\ keys \subseteq Package
    /\ ran \subseteq {"direct", "transitive"} \X Package
    /\ staged \in {"none", "there", "removed", "stuck"}
    /\ backup \in [Piece -> Content \cup {"nothing"}]
    /\ wrote \subseteq Piece /\ changed \subseteq Piece /\ late \subseteq Piece
    /\ changes \in 0 .. MaxChanges

Init ==
    /\ pc = "source"
    /\ flags \in FlagSets /\ builds \in BuildFlags /\ risks \in RiskSets
    /\ home \in [Piece -> {"absent", "user"}]
    /\ before = home
    /\ action = [p \in Piece |-> "none"]
    /\ prompts = {} /\ accepted = {}
    /\ approvals = {n \in Package : builds[n] > 0}
    /\ scripts = {} /\ keys = {} /\ ran = {}
    /\ staged = "none"
    /\ backup = [p \in Piece |-> "nothing"]
    /\ wrote = {} /\ changed = {} /\ late = {}
    /\ changes = 0

At(stage) == pc = stage
Goto(stage) == pc' = stage
\* Between the locked capture and the answer.
Writing == pc \in {"init", "baseline", "stage", "add", "audit", "ask", "authorize", "rebuild",
                  "reaudit", "verify", "patch", "skill", "settings", "dump", "doctor", "record", "rollback"}

-----------------------------------------------------------------------------
(* Before the transaction: nothing is written *)

\* materializeSource makes a private copy.
Materialize ==
    /\ At("source")
    /\ \/ Goto("read") /\ staged' = "there"
       \/ Goto("refused") /\ UNCHANGED staged
    /\ UNCHANGED <<userVars, planVars, buildVars, diskVars, outsiderVars>>

\* The pack is read and validated, and the copy removed whatever came of it.
ReadPack ==
    /\ At("read")
    /\ \/ staged' = "removed" /\ pc' \in {"probe", "refused"}
       \/ staged' = "stuck" /\ Goto("refused")
    /\ UNCHANGED <<userVars, planVars, buildVars, diskVars, outsiderVars>>

RefuseAt(stage) ==
    /\ At(stage)
    /\ Goto("refused")
    /\ UNCHANGED <<userVars, planVars, buildVars, diskVars, staged, outsiderVars>>

\* `dsh --version` and `pnpm --version`, from PATH and without scripts.
Probe ==
    /\ At("probe")
    /\ Goto("resolve")
    /\ UNCHANGED <<userVars, planVars, buildVars, diskVars, staged, outsiderVars>>

\* One is missing, or pnpm is older than 10.
Unsupported == RefuseAt("probe")

\* Every plugin of the manifest gets an exact source, in a directory that is removed.
Resolve ==
    /\ At("resolve")
    /\ Goto("capture")
    /\ UNCHANGED <<userVars, planVars, buildVars, diskVars, staged, outsiderVars>>

Unresolved == RefuseAt("resolve")

\* The profile, the assets and settings.yaml are hashed one after the other, each
\* checked to be stable while it is read.
Capture ==
    /\ At("capture")
    /\ before' = home
    /\ Goto("plan")
    /\ UNCHANGED <<userVars, action, prompts, accepted, buildVars, diskVars, staged, outsiderVars>>

\* A link in the way, or a piece that changes while it is read.
Unreadable == RefuseAt("capture")

\* What buildInstallPlan does with a piece it found.
ActionFor(piece, found) ==
    CASE piece = "settings" -> "merge"
      [] piece = "profile"  -> IF found = "absent" THEN "create" ELSE "replace"
      [] piece = "skill"    -> IF found = "absent" THEN "create"
                               ELSE IF "force" \in flags THEN "replace" ELSE "skip"

\* decideInstall: what the flags do not already answer.
Prompts ==
    {<<"build", n>> : n \in {m \in {"plugin"} : "builds" \in risks /\ builds[m] = 0}}
    \cup {q \in {About("danger")} : "danger" \in risks /\ "allow-danger" \notin flags}
    \cup {q \in {About("mismatch")} : "mismatch" \in risks /\ ~{"yes", "allow-mismatch"} \subseteq flags}
    \cup {q \in {About("install")} : "yes" \notin flags}

\* A profile that is there is replaced with --replace only.
MayReplace == before["profile"] = "absent" \/ "replace" \in flags

\* --yes does not answer for a plugin without integrity.
Verifiable == "unverified" \notin risks \/ "allow-unverified" \in flags

\* prepareInstallPlan: an invalid input, pack or resolution is refused, too.
Plan ==
    /\ At("plan") /\ MayReplace /\ Verifiable
    /\ action' = [p \in Piece |-> ActionFor(p, before[p])]
    /\ prompts' = Prompts
    /\ Goto(IF "dry-run" \in flags THEN "planned"
            ELSE IF Prompts # {} /\ "interactive" \notin flags THEN "declined" ELSE "confirm")
    /\ UNCHANGED <<userVars, before, accepted, buildVars, diskVars, staged, outsiderVars>>

PlanRefused == RefuseAt("plan")

\* confirmPlan asks one question after the other.
Accept ==
    /\ At("confirm")
    /\ \E q \in prompts :
          /\ prompts' = prompts \ {q}
          /\ accepted' = accepted \cup {q}
          /\ approvals' = approvals \cup {n \in Package : q = <<"build", n>>}
    /\ UNCHANGED <<pc, userVars, before, action, scripts, keys, ran, diskVars, staged, outsiderVars>>

Decline ==
    /\ At("confirm") /\ prompts # {}
    /\ Goto("declined")
    /\ UNCHANGED <<userVars, planVars, buildVars, diskVars, staged, outsiderVars>>

Confirmed ==
    /\ At("confirm") /\ prompts = {}
    /\ Goto("recapture")
    /\ UNCHANGED <<userVars, planVars, buildVars, diskVars, staged, outsiderVars>>

\* Mutant of SameTarget: only the profile is compared.
SameProfile == home["profile"] = before["profile"]

\* The digest of the target: the profile, every asset and settings.yaml.
SameTarget == home = before

Recapture ==
    /\ At("recapture") /\ SameTarget
    /\ Goto("begin")
    /\ UNCHANGED <<userVars, planVars, buildVars, diskVars, staged, outsiderVars>>

\* Something has changed since the plan, or cannot be read.
TargetChanged == RefuseAt("recapture")

\* runTransaction: without the artifact lock nothing starts.
BeginTransaction ==
    /\ At("begin")
    /\ pc' \in {"locked", "refused"}
    /\ UNCHANGED <<userVars, planVars, buildVars, diskVars, staged, outsiderVars>>

-----------------------------------------------------------------------------
(* In the transaction *)

LockedCapture ==
    /\ At("locked")
    /\ \/ Goto("init") /\ SameTarget
       \/ Goto("rollback")
    /\ UNCHANGED <<userVars, planVars, buildVars, diskVars, staged, outsiderVars>>

\* Any call may throw: the transaction rolls back.
Fails ==
    /\ Writing /\ pc # "rollback"
    /\ Goto("rollback")
    /\ UNCHANGED <<userVars, planVars, buildVars, diskVars, staged, outsiderVars>>

\* replaceProfile, replaceArtifact: what is there is moved to the backup.
MoveAway(piece, stage) ==
    /\ At(stage)
    /\ action[piece] = "replace" /\ backup[piece] = "nothing"
    /\ backup' = [backup EXCEPT ![piece] = home[piece]]
    /\ home' = [home EXCEPT ![piece] = "absent"]
    /\ UNCHANGED <<pc, userVars, planVars, buildVars, wrote, staged, outsiderVars>>

\* Mutant of Vacant: whatever is there is written over.
VacantAnyway(piece) == action[piece] = "replace" => backup[piece] # "nothing"

\* Nothing is created where something is.
Vacant(piece) ==
    /\ action[piece] = "replace" => backup[piece] # "nothing"
    /\ home[piece] = "absent"

\* create: `dsh plugin list` makes the profile directory, the plugins fill it.
CreateProfile ==
    /\ At("init") /\ Vacant("profile")
    /\ home' = [home EXCEPT !["profile"] = "partial"]
    /\ wrote' = wrote \cup {"profile"}
    /\ Goto("baseline")
    /\ UNCHANGED <<userVars, planVars, buildVars, backup, staged, outsiderVars>>

\* validateOfficialProfileInit: the directory holds what dsh makes and nothing else.
VerifyInit ==
    /\ At("baseline")
    /\ home["profile"] = "partial"
    /\ Goto("stage")
    /\ UNCHANGED <<userVars, planVars, buildVars, diskVars, staged, outsiderVars>>

\* A plugin that builds must be approved by now.  A tarball is downloaded and checked
\* into a private directory.
StagePlugin ==
    /\ At("stage")
    /\ "builds" \in risks => "plugin" \in approvals
    /\ Goto("add")
    /\ UNCHANGED <<userVars, planVars, buildVars, diskVars, staged, outsiderVars>>

\* `dsh plugin add` with every script denied; the private directory goes.
AddPlugin ==
    /\ At("add")
    /\ Goto("audit")
    /\ UNCHANGED <<userVars, planVars, buildVars, diskVars, staged, outsiderVars>>

\* Mutant of TransitiveApproved: the approval of a plugin holds for any dependency.
ApprovedByName(n, given, confirmed) == n \in confirmed \/ given[n] > 0 \/ n \in approvals

\* hasTransitiveApproval: the plugin of that name uses up one --allow-build.
TransitiveApproved(n, given, confirmed) ==
    n \in confirmed \/ given[n] > Cardinality({m \in {"plugin"} : m = n /\ "builds" \in risks})

ConfirmedScripts == {n \in Package : <<"script", n>> \in accepted}
Missing == {n \in scripts : ~TransitiveApproved(n, builds, ConfirmedScripts)}

\* auditInstalledBuildScripts walks the installed dependencies.
Audit ==
    /\ At("audit")
    /\ scripts' \in SUBSET Package
    /\ LET missing == {n \in scripts' : ~TransitiveApproved(n, builds, {})} IN
       Goto(IF missing = {} THEN "authorize" ELSE IF "interactive" \in flags THEN "ask" ELSE "rollback")
    /\ UNCHANGED <<userVars, planVars, approvals, keys, ran, diskVars, staged, outsiderVars>>

\* A second question for every script nobody has approved; a no ends in Fails.
AcceptScript ==
    /\ At("ask")
    /\ \E n \in Missing :
          /\ accepted' = accepted \cup {<<"script", n>>}
          /\ approvals' = approvals \cup {n}
          /\ Goto(IF Missing = {n} THEN "authorize" ELSE "ask")
    /\ UNCHANGED <<userVars, before, action, prompts, scripts, keys, ran, diskVars, staged, outsiderVars>>

\* authorizeBuild sets one key of pnpm-workspace.yaml after the other.
Authorize ==
    /\ At("authorize")
    /\ keys' = scripts \cup {n \in {"plugin"} : "builds" \in risks}
    /\ Goto("rebuild")
    /\ UNCHANGED <<userVars, planVars, approvals, scripts, ran, diskVars, staged, outsiderVars>>

\* `pnpm rebuild` of each name runs what the keys allow, and may fail half way.
Rebuild ==
    /\ At("rebuild")
    /\ LET run == ({"direct"} \X {n \in keys : n = "plugin" /\ "builds" \in risks})
                  \cup ({"transitive"} \X (keys \cap scripts))
       IN \E done \in SUBSET run :
             /\ ran' = ran \cup done
             /\ pc' \in IF done = run THEN {"reaudit", "rollback"} ELSE {"rollback"}
    /\ UNCHANGED <<userVars, planVars, approvals, scripts, keys, diskVars, staged, outsiderVars>>

\* The audit after the build.
Reaudit ==
    /\ At("reaudit")
    /\ Missing = {}
    /\ Goto("verify")
    /\ UNCHANGED <<userVars, planVars, buildVars, diskVars, staged, outsiderVars>>

\* verifyInstalledPlugin: each plugin is the one that was resolved.
VerifyPlugin ==
    /\ At("verify")
    /\ Goto("patch")
    /\ UNCHANGED <<userVars, planVars, buildVars, diskVars, staged, outsiderVars>>

\* cordis.patch.yml, with the servers of the manifest, is the last file of the profile.
WritePatch ==
    /\ At("patch")
    /\ home' = [home EXCEPT !["profile"] = IF @ = "partial" THEN "pack" ELSE @]
    /\ Goto("skill")
    /\ UNCHANGED <<userVars, planVars, buildVars, backup, wrote, staged, outsiderVars>>

\* applyAsset.
SkipSkill ==
    /\ At("skill") /\ action["skill"] = "skip"
    /\ Goto("settings")
    /\ UNCHANGED <<userVars, planVars, buildVars, diskVars, staged, outsiderVars>>

CreateSkill ==
    /\ At("skill") /\ action["skill"] # "skip" /\ Vacant("skill")
    /\ home' = [home EXCEPT !["skill"] = "pack"]
    /\ wrote' = wrote \cup {"skill"}
    /\ Goto("settings")
    /\ UNCHANGED <<userVars, planVars, buildVars, backup, staged, outsiderVars>>

\* The merge was made from the document of planning time and is swapped for it.
MergeSettings ==
    /\ At("settings")
    /\ home["settings"] = before["settings"]
    /\ backup' = [backup EXCEPT !["settings"] = home["settings"]]
    /\ home' = [home EXCEPT !["settings"] = "pack"]
    /\ wrote' = wrote \cup {"settings"}
    /\ Goto("dump")
    /\ UNCHANGED <<userVars, planVars, buildVars, staged, outsiderVars>>

\* A pack without settings.
NoSettings ==
    /\ At("settings")
    /\ Goto("dump")
    /\ UNCHANGED <<userVars, planVars, buildVars, diskVars, staged, outsiderVars>>

DumpConfig ==
    /\ At("dump")
    /\ Goto("doctor")
    /\ UNCHANGED <<userVars, planVars, buildVars, diskVars, staged, outsiderVars>>

\* A finding of doctor is the install's to answer for when it lies in the profile, in
\* settings.yaml or in an asset it wrote, or lies nowhere.
Attributable(where) ==
    where \in {"nowhere", "profile", "settings"} \/ (where = "skill" /\ action["skill"] # "skip")

\* What `doctor --strict` may find, by where it lies.
Findings == SUBSET {"nowhere", "profile", "skill", "settings", "elsewhere"}

\* Errors of this install fail it, others become warnings, and a doctor that fails in
\* silence, without so much as a remark that is no error, fails it, too.
Doctor ==
    /\ At("doctor")
    /\ \E errors \in Findings, succeeded, remarks \in BOOLEAN :
          IF \/ \E where \in errors : Attributable(where)
             \/ ~succeeded /\ errors = {} /\ ~remarks
          THEN Goto("rollback") ELSE Goto("record")
    /\ UNCHANGED <<userVars, planVars, buildVars, diskVars, staged, outsiderVars>>

\* Snapshot, blocks, generation, current and marker (see ManagedHome), then commit.
Record ==
    /\ At("record")
    /\ Goto("installed")
    /\ UNCHANGED <<userVars, planVars, buildVars, diskVars, staged, outsiderVars>>

\* Somebody else's content is where the transaction has to put something back.
Occupied(p) ==
    \/ p \in wrote /\ home[p] = "alien"
    \/ p \notin wrote /\ backup[p] # "nothing" /\ home[p] # "absent"

\* Mutant of ToUndo: only what was written is undone.
WrittenOnly == {p \in wrote : ~Occupied(p)}

\* What a rollback undoes.
ToUndo == {p \in Piece : (p \in wrote \/ backup[p] # "nothing") /\ ~Occupied(p)}

\* Undoing may fail as well; then the answer is manual recovery.
Rollback ==
    /\ At("rollback")
    /\ \E undone \in SUBSET ToUndo :
          /\ home' = [p \in Piece |-> IF p \notin undone THEN home[p]
                                      ELSE IF backup[p] = "nothing" THEN "absent" ELSE backup[p]]
          /\ backup' = [p \in Piece |-> IF p \in undone THEN "nothing" ELSE backup[p]]
          /\ Goto(IF undone = ToUndo /\ ~\E p \in Piece : Occupied(p)
                  THEN "rolled-back" ELSE "manual-recovery")
    /\ UNCHANGED <<userVars, planVars, buildVars, wrote, staged, outsiderVars>>

-----------------------------------------------------------------------------
(* The outsider, who takes no lock, writes to the target until the answer. *)
Outsider ==
    /\ pc \notin Outcomes /\ changes < MaxChanges
    /\ \E p \in Piece :
          /\ home' = [home EXCEPT ![p] = "alien"]
          /\ changed' = changed \cup {p}
          /\ late' = IF Writing THEN late \cup {p} ELSE late
    /\ changes' = changes + 1
    /\ UNCHANGED <<pc, userVars, planVars, buildVars, backup, wrote, staged>>

Next ==
    \/ Materialize \/ ReadPack \/ Probe \/ Unsupported \/ Resolve \/ Unresolved
    \/ Capture \/ Unreadable \/ Plan \/ PlanRefused
    \/ Accept \/ Decline \/ Confirmed \/ Recapture \/ TargetChanged
    \/ BeginTransaction \/ LockedCapture \/ Fails
    \/ MoveAway("profile", "init") \/ CreateProfile \/ VerifyInit \/ StagePlugin \/ AddPlugin
    \/ Audit \/ AcceptScript \/ Authorize \/ Rebuild \/ Reaudit
    \/ VerifyPlugin \/ WritePatch
    \/ SkipSkill \/ MoveAway("skill", "skill") \/ CreateSkill
    \/ MergeSettings \/ NoSettings \/ DumpConfig \/ Doctor \/ Record
    \/ Rollback
    \/ Outsider

Spec == Init /\ [][Next]_vars

-----------------------------------------------------------------------------
(* Properties *)

Touched == wrote # {} \/ \E p \in Piece : backup[p] # "nothing"

\* Nothing is written, moved or run that the user has not agreed to, by a flag or by an
\* answer: full access, another dsh, a plugin nothing vouches for, the install itself,
\* the replacement of a profile or an asset, and each lifecycle script for itself.  The
\* approval of a plugin is not one for a dependency of the same name.
NothingWithoutConsent ==
    /\ Touched =>
         /\ "danger" \in risks => "allow-danger" \in flags \/ About("danger") \in accepted
         /\ "mismatch" \in risks => {"yes", "allow-mismatch"} \subseteq flags \/ About("mismatch") \in accepted
         /\ "unverified" \in risks => "allow-unverified" \in flags
         /\ "yes" \in flags \/ About("install") \in accepted
         /\ backup["profile"] # "nothing" => "replace" \in flags
         /\ backup["skill"] # "nothing" => "force" \in flags
    /\ \A n \in Package :
         /\ <<"direct", n>> \in ran => builds[n] > 0 \/ <<"build", n>> \in accepted
         /\ <<"transitive", n>> \in ran =>
              \/ <<"script", n>> \in accepted
              \/ builds[n] > (IF n = "plugin" /\ "builds" \in risks THEN 1 ELSE 0)

\* What the transaction takes the place of is what the plan showed to the user: only a
\* write after the locked capture can still be moved away unseen.
ConfirmedIsReplaced ==
    \A p \in Piece \ late :
       /\ backup[p] # "nothing" => backup[p] = before[p]
       /\ p \in wrote /\ backup[p] = "nothing" /\ pc # "rolled-back" /\ pc # "manual-recovery"
            => before[p] = "absent"

\* What an outsider wrote is never lost: it is still there, or it is in the backup.
OutsiderSurvives ==
    \A p \in changed : "alien" \in {home[p], backup[p]}

\* An install that did not take place changes nothing: after a refusal, a no, a dry run
\* or a rollback every piece nobody else wrote is what it was, and no copy stays behind.
FailureLeavesNoTrace ==
    pc \in {"refused", "declined", "planned", "rolled-back"} =>
       /\ \A p \in Piece : backup[p] = "nothing"
       /\ \A p \in Piece \ changed : home[p] = before[p]
=============================================================================
