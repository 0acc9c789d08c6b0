----------------------- MODULE InstallWorkflowProofs -----------------------
(***************************************************************************)
(* Proofs about InstallWorkflow, for any command lines, packs, approvals   *)
(* and any number of writes of the outsider.                               *)
(***************************************************************************)
EXTENDS InstallWorkflow, FiniteSetTheorems, TLAPS

-----------------------------------------------------------------------------
(* The invariant *)

Building == {"init", "baseline", "stage", "add", "audit", "ask", "authorize", "rebuild",
             "reaudit", "verify", "patch", "skill", "settings", "dump", "doctor", "record"}
Undone == {"rolled-back", "manual-recovery"}
\* From the locked capture on, and from the last answer of the user on.
Touching == Building \cup {"rollback", "installed"} \cup Undone
Agreed == Touching \cup {"recapture", "begin", "locked"}

AsPlanned == \A p \in Piece : action[p] = ActionFor(p, before[p])

\* Every question the plan raised is still to be asked or was said yes to, and the plan is
\* the one for what was captured.
ConsentInv ==
    /\ pc = "confirm" => Prompts \subseteq prompts \cup accepted
    /\ pc \in Agreed => Prompts \subseteq accepted
    /\ pc \in Agreed \cup {"confirm"} =>
          MayReplace /\ Verifiable /\ AsPlanned

\* The scripts that ran had the user's word, and so have those that are about to.
ScriptInv ==
    /\ pc \in {"authorize", "rebuild"} => Missing = {}
    /\ \A n \in Package :
         /\ <<"direct", n>> \in ran => builds[n] > 0 \/ <<"build", n>> \in accepted
         /\ <<"transitive", n>> \in ran => TransitiveApproved(n, builds, ConfirmedScripts)

\* What has been moved away, and when.
DiskInv ==
    /\ pc \notin Touching => wrote = {} /\ backup = [p \in Piece |-> "nothing"]
    /\ pc \in Building \ {"dump", "doctor", "record"} => backup["settings"] = "nothing"
    /\ pc \in Building \ {"init"} => "profile" \in wrote
    /\ \A p \in {"profile", "skill"} : backup[p] # "nothing" => action[p] = "replace"

\* A piece the transaction has yet to touch is as it was planned for, while the transaction
\* goes on unless the outsider wrote after the locked capture, and at any time unless he wrote at all.
TargetInv ==
    /\ late \subseteq changed
    /\ \A p \in Piece \ (late \cup wrote) :
          pc \in Building /\ backup[p] = "nothing" => home[p] = before[p]
    /\ \A p \in Piece \ (changed \cup wrote) :
          pc \notin Undone /\ backup[p] = "nothing" => home[p] = before[p]

-----------------------------------------------------------------------------
(* Steps that only move on *)

Passes ==
    \/ Materialize \/ ReadPack \/ Probe \/ Unsupported \/ Resolve \/ Unresolved
    \/ Unreadable \/ PlanRefused \/ Decline \/ Confirmed \/ Recapture \/ TargetChanged
    \/ BeginTransaction \/ LockedCapture \/ Fails
    \/ VerifyInit \/ StagePlugin \/ AddPlugin \/ Reaudit \/ VerifyPlugin
    \/ SkipSkill \/ NoSettings \/ DumpConfig \/ Doctor \/ Record

LEMMA Passing ==
    ASSUME Passes
    PROVE  /\ UNCHANGED <<userVars, planVars, buildVars, diskVars, outsiderVars>>
           /\ pc \notin {"plan", "audit", "ask", "authorize", "rebuild", "rollback"} \cup Outcomes \/ pc' \in {"refused", "rollback"}
           /\ pc' \in Stages \cup Outcomes
           /\ staged' \in {staged, "there", "removed", "stuck"}
           /\ pc' \notin {"plan", "confirm", "authorize", "rebuild"} \cup Undone
           /\ pc' \in Agreed => pc \in Agreed \/ (pc = "confirm" /\ prompts = {})
           /\ pc' \in Touching => pc \in Touching \cup {"locked"}
           /\ pc \in Touching => pc' \in Touching
           /\ pc' \in Building => pc \in Building \/ SameTarget
           /\ pc' \in Building \ {"dump", "doctor", "record"} =>
                pc \in (Building \ {"dump", "doctor", "record"}) \cup {"locked"}
           /\ pc' \in Building \ {"init"} => pc \in Building \ {"init"}
           /\ pc' \in {"refused", "declined", "planned", "rolled-back"} => pc \notin Touching
<1> USE DEF At, Goto, Stages, Outcomes, Agreed, Touching, Building, Undone
<1>1. CASE Materialize \/ ReadPack \/ Probe \/ Unsupported \/ Resolve \/ Unresolved \/ Unreadable \/ PlanRefused \/ Decline \/ Confirmed \/ Recapture \/ TargetChanged \/ BeginTransaction
  BY <1>1 DEF Materialize, ReadPack, Probe, Unsupported, Resolve, Unresolved, Unreadable, PlanRefused, Decline, Confirmed, Recapture, TargetChanged, BeginTransaction, RefuseAt
<1>2. CASE LockedCapture \/ Fails \/ VerifyInit \/ StagePlugin \/ AddPlugin \/ Reaudit \/ VerifyPlugin \/ SkipSkill \/ NoSettings \/ DumpConfig \/ Doctor \/ Record
  BY <1>2 DEF LockedCapture, Fails, VerifyInit, StagePlugin, AddPlugin, Reaudit, VerifyPlugin, SkipSkill, NoSettings, DumpConfig, Doctor, Record, Writing
<1>3. QED
  BY <1>1, <1>2 DEF Passes

\* The other steps.
Acts ==
    \/ Capture \/ Plan \/ Accept
    \/ MoveAway("profile", "init") \/ CreateProfile \/ Audit \/ AcceptScript \/ Authorize
    \/ Rebuild \/ WritePatch \/ MoveAway("skill", "skill") \/ CreateSkill \/ MergeSettings
    \/ Rollback \/ Outsider

LEMMA Moves == ASSUME Next PROVE Passes \/ Acts
BY DEF Next, Passes, Acts

-----------------------------------------------------------------------------
(* Types *)

LEMMA TypeInit == ASSUME Init PROVE TypeOK
BY MaxChangesAssumption DEF Init, TypeOK, Stages, Content

LEMMA TypePreserved == ASSUME TypeOK, [Next]_vars PROVE TypeOK'
<1> USE DEF At, Goto, Stages, Outcomes, userVars, planVars, buildVars, diskVars, outsiderVars
<1>1. CASE Passes
  BY <1>1, Passing DEF TypeOK
<1>2. CASE Capture
  BY <1>2 DEF TypeOK, Capture
<1>3. CASE Plan
  <2>1. \A p \in Piece : ActionFor(p, before[p]) \in {"none", "create", "replace", "skip", "merge"}
    BY DEF ActionFor, Piece
  <2>2. Prompts \subseteq Question
    BY DEF Prompts, Question, About, Package
  <2>3. action' \in [Piece -> {"none", "create", "replace", "skip", "merge"}]
    BY <1>3, <2>1 DEF Plan
  <2>4. pc' \in Outcomes \cup {"confirm"} /\ prompts' \subseteq Question
    BY <1>3, <2>2 DEF Plan
  <2>5. QED
    BY <1>3, <2>3, <2>4 DEF TypeOK, Plan
<1>4. CASE Accept
  BY <1>4 DEF TypeOK, Accept
<1>5. CASE MoveAway("profile", "init") \/ MoveAway("skill", "skill")
  <2>1. PICK piece \in {"profile", "skill"} :
           /\ backup' = [backup EXCEPT ![piece] = home[piece]] /\ home' = [home EXCEPT ![piece] = "absent"]
           /\ UNCHANGED <<pc, userVars, planVars, buildVars, wrote, staged, outsiderVars>>
    BY <1>5 DEF MoveAway
  <2>2. home' \in [Piece -> Content] /\ backup' \in [Piece -> Content \cup {"nothing"}]
    BY <2>1 DEF TypeOK, Piece, Content
  <2>3. QED
    BY <2>1, <2>2 DEF TypeOK
<1>6. CASE CreateProfile
  BY <1>6 DEF TypeOK, CreateProfile, Piece, Content
<1>7. CASE Audit
  BY <1>7 DEF TypeOK, Audit
<1>8. CASE AcceptScript
  <2>1. PICK n \in Missing : accepted' = accepted \cup {<<"script", n>>} /\ approvals' = approvals \cup {n}
    BY <1>8 DEF AcceptScript
  <2>2. n \in Package /\ <<"script", n>> \in Question
    BY <2>1 DEF TypeOK, Missing, Question
  <2>3. QED
    BY <1>8, <2>1, <2>2 DEF TypeOK, AcceptScript
<1>9. CASE Authorize
  BY <1>9 DEF TypeOK, Authorize, Package
<1>10. CASE Rebuild
  BY <1>10 DEF TypeOK, Rebuild
<1>11. CASE WritePatch
  BY <1>11 DEF TypeOK, WritePatch, Content
<1>12. CASE CreateSkill
  BY <1>12 DEF TypeOK, CreateSkill, Piece, Content
<1>13. CASE MergeSettings
  BY <1>13 DEF TypeOK, MergeSettings, Piece, Content
<1>14. CASE Rollback
  <2>1. PICK undone \in SUBSET ToUndo :
           /\ home' = [p \in Piece |-> IF p \notin undone THEN home[p]
                                       ELSE IF backup[p] = "nothing" THEN "absent" ELSE backup[p]]
           /\ backup' = [p \in Piece |-> IF p \in undone THEN "nothing" ELSE backup[p]]
    BY <1>14 DEF Rollback
  <2>2. home' \in [Piece -> Content] /\ backup' \in [Piece -> Content \cup {"nothing"}]
    BY <2>1 DEF TypeOK, Content
  <2>3. pc' \in Outcomes
    BY <1>14 DEF Rollback
  <2>4. QED
    BY <1>14, <2>2, <2>3 DEF TypeOK, Rollback
<1>15. CASE Outsider
  BY <1>15, MaxChangesAssumption DEF TypeOK, Outsider, Content
<1>16. CASE UNCHANGED vars
  BY <1>16 DEF TypeOK, vars
<1>17. QED
  BY <1>1, <1>2, <1>3, <1>4, <1>5, <1>6, <1>7, <1>8, <1>9, <1>10, <1>11, <1>12, <1>13, <1>14, <1>15, <1>16, Moves DEF Acts

-----------------------------------------------------------------------------
(* What the user agreed to *)

LEMMA ConsentInit == ASSUME Init PROVE ConsentInv
BY DEF Init, ConsentInv, Agreed, Touching, Building, Undone

\* Only the capture changes what the plan is made for, and nothing changes the command line.
LEMMA Fixed ==
    ASSUME [Next]_vars
    PROVE  /\ UNCHANGED userVars
           /\ pc # "capture" => UNCHANGED before
           /\ pc # "plan" => UNCHANGED action
           /\ UNCHANGED before => MayReplace' = MayReplace
           /\ UNCHANGED <<action, before>> => AsPlanned' = AsPlanned
           /\ Prompts' = Prompts /\ Verifiable' = Verifiable
           /\ accepted \subseteq accepted'
<1> USE DEF userVars, planVars
<1>1. UNCHANGED userVars /\ (pc # "capture" => UNCHANGED before) /\ (pc # "plan" => UNCHANGED action) /\ accepted \subseteq accepted'
  <2>1. CASE Passes
    BY <2>1, Passing
  <2>2. CASE Acts
    BY <2>2 DEF Acts, At, Capture, Plan, Accept, MoveAway, CreateProfile, Audit, AcceptScript, Authorize,
         Rebuild, WritePatch, CreateSkill, MergeSettings, Rollback, Outsider
  <2>3. CASE UNCHANGED vars
    BY <2>3 DEF vars
  <2>4. QED
    BY <2>1, <2>2, <2>3, Moves
<1>2. Prompts' = Prompts /\ Verifiable' = Verifiable
  BY <1>1 DEF Prompts, Verifiable
<1>3. UNCHANGED before => MayReplace' = MayReplace
  BY <1>1 DEF MayReplace
<1>4. ASSUME UNCHANGED <<action, before>> PROVE AsPlanned' = AsPlanned
  BY <1>1, <1>4 DEF AsPlanned, ActionFor
<1>5. QED
  BY <1>1, <1>2, <1>3, <1>4

LEMMA ConsentPreserved == ASSUME TypeOK, ConsentInv, [Next]_vars PROVE ConsentInv'
<1> USE Fixed DEF At, Goto, userVars, planVars
<1>1. CASE Passes
  BY <1>1, Passing DEF ConsentInv, Agreed, Touching, Building, Undone
<1>2. CASE Capture
  BY <1>2 DEF ConsentInv, Capture, Agreed, Touching, Building, Undone
<1>3. CASE Plan
  <2>1. pc' \in {"planned", "declined", "confirm"} /\ prompts' = Prompts
    BY <1>3 DEF Plan
  <2>2. AsPlanned' /\ MayReplace' /\ Verifiable'
    BY <1>3 DEF Plan, ActionFor, AsPlanned, MayReplace, Verifiable
  <2>3. QED
    BY <2>1, <2>2 DEF ConsentInv, Agreed, Touching, Building, Undone
<1>4. CASE Accept
  <2>1. pc = "confirm" /\ pc' = "confirm" /\ prompts \cup accepted = prompts' \cup accepted'
    BY <1>4 DEF Accept
  <2>2. QED
    BY <2>1 DEF ConsentInv, Agreed, Touching, Building, Undone
<1>5. CASE Acts /\ ~Capture /\ ~Plan /\ ~Accept /\ ~Outsider
  <2>1. pc \in Agreed /\ pc # "confirm" /\ pc # "capture" /\ pc # "plan" /\ pc' # "confirm"
    BY <1>5 DEF Acts, MoveAway, CreateProfile, Audit, AcceptScript, Authorize, Rebuild, WritePatch, CreateSkill,
         MergeSettings, Rollback, Agreed, Touching, Building, Undone
  <2>2. QED
    BY <2>1 DEF ConsentInv
<1>6. CASE Outsider \/ UNCHANGED vars
  BY <1>6 DEF Outsider, vars, ConsentInv
<1>7. QED
  BY <1>1, <1>2, <1>3, <1>4, <1>5, <1>6, Moves DEF Acts

-----------------------------------------------------------------------------
(* Scripts *)

LEMMA ScriptInit == ASSUME Init PROVE ScriptInv
BY DEF Init, ScriptInv

\* An approval, once given, holds.
LEMMA ApprovalLasts ==
    ASSUME [Next]_vars, NEW n \in Package
    PROVE  /\ TransitiveApproved(n, builds, {}) => TransitiveApproved(n, builds, ConfirmedScripts)'
           /\ TransitiveApproved(n, builds, ConfirmedScripts) => TransitiveApproved(n, builds, ConfirmedScripts)'
BY Fixed DEF TransitiveApproved, ConfirmedScripts, userVars

LEMMA ScriptPreserved == ASSUME TypeOK, ConsentInv, ScriptInv, [Next]_vars PROVE ScriptInv'
<1> USE DEF At, Goto, userVars, planVars, buildVars
<1>1. CASE UNCHANGED ran /\ (pc' \in {"authorize", "rebuild"} => Missing' = {})
  BY <1>1, ApprovalLasts, Fixed DEF ScriptInv
<1>2. CASE Passes
  BY <1>1, <1>2, Passing
<1>3. CASE Acts /\ ~Audit /\ ~AcceptScript /\ ~Authorize /\ ~Rebuild /\ ~Outsider
  <2>1. UNCHANGED ran /\ pc' \notin {"authorize", "rebuild"}
    BY <1>3 DEF Acts, Capture, Plan, Accept, MoveAway, CreateProfile, WritePatch, CreateSkill,
         MergeSettings, Rollback, Outcomes
  <2>2. QED
    BY <1>1, <2>1
<1>4. CASE Audit
  <2>1. CASE pc' = "authorize"
    <3>1. {n \in scripts' : ~TransitiveApproved(n, builds, {})} = {} /\ scripts' \subseteq Package
      BY <1>4, <2>1 DEF Audit
    <3>2. Missing' = {}
      BY <3>1, ApprovalLasts DEF Missing
    <3>3. QED
      BY <1>1, <1>4, <3>2 DEF Audit
  <2>2. QED
    BY <1>1, <1>4, <2>1 DEF Audit
<1>5. CASE AcceptScript
  <2>1. PICK n \in Missing : /\ accepted' = accepted \cup {<<"script", n>>}
                             /\ pc' = (IF Missing = {n} THEN "authorize" ELSE "ask")
    BY <1>5 DEF AcceptScript
  <2>2. ASSUME Missing = {n}, NEW m \in Missing' PROVE FALSE
    <3>1. m \in Package /\ m \in scripts /\ n \in Package
      BY <1>5, <2>1, <2>2 DEF AcceptScript, Missing, TypeOK
    <3>2. m # n
      BY <2>1, <2>2, <3>1 DEF Missing, TransitiveApproved, ConfirmedScripts
    <3>3. m \in Missing
      BY <2>2, <3>1, ApprovalLasts DEF Missing
    <3>4. QED
      BY <2>2, <3>2, <3>3
  <2>3. QED
    BY <1>1, <1>5, <2>1, <2>2 DEF AcceptScript
<1>6. CASE Authorize
  <2>1. Missing' = Missing
    BY <1>6 DEF Authorize, Missing, ConfirmedScripts, TransitiveApproved
  <2>2. QED
    BY <1>1, <1>6, <2>1 DEF Authorize, ScriptInv
<1>7. CASE Rebuild
  <2> DEFINE run == ({"direct"} \X {n \in keys : n = "plugin" /\ "builds" \in risks})
                    \cup ({"transitive"} \X (keys \cap scripts))
  <2>1. ran' \subseteq ran \cup run /\ pc = "rebuild" /\ pc' \notin {"authorize", "rebuild"}
    BY <1>7 DEF Rebuild
  <2>2. ASSUME NEW n \in Package, <<"direct", n>> \in run PROVE builds[n] > 0 \/ <<"build", n>> \in accepted'
    <3>1. n = "plugin" /\ "builds" \in risks
      BY <2>2
    <3>2. builds[n] \in 0 .. 2
      BY BuildFlagsAssumption DEF TypeOK
    <3>3. CASE builds[n] = 0
      <4>1. <<"build", n>> \in Prompts
        BY <3>1, <3>3 DEF Prompts
      <4>2. QED
        BY <4>1, <2>1, Fixed DEF ConsentInv, Agreed, Touching, Building
    <3>4. QED
      BY <3>2, <3>3
  <2>3. ASSUME NEW n \in Package, <<"transitive", n>> \in run PROVE TransitiveApproved(n, builds, ConfirmedScripts)'
    <3>1. n \in scripts
      BY <2>3
    <3>2. TransitiveApproved(n, builds, ConfirmedScripts)
      BY <3>1, <2>1 DEF ScriptInv, Missing
    <3>3. QED
      BY <3>2, ApprovalLasts
  <2> HIDE DEF run
  <2>4. QED
    BY <2>1, <2>2, <2>3, ApprovalLasts, Fixed DEF ScriptInv
<1>8. CASE Outsider \/ UNCHANGED vars
  BY <1>8, <1>1 DEF Outsider, vars, ScriptInv, Missing, ConfirmedScripts, TransitiveApproved
<1>9. QED
  BY <1>2, <1>3, <1>4, <1>5, <1>6, <1>7, <1>8, Moves DEF Acts

-----------------------------------------------------------------------------
(* The target and the backup *)

LEMMA DiskInit ==
    ASSUME Init PROVE DiskInv /\ TargetInv /\ OutsiderSurvives /\ ConfirmedIsReplaced /\ FailureLeavesNoTrace
BY DEF Init, DiskInv, TargetInv, OutsiderSurvives, ConfirmedIsReplaced, FailureLeavesNoTrace,
   Touching, Building, Undone, Piece

\* What each step does to the pieces.
LEMMA Writes ==
    ASSUME TypeOK, [Next]_vars
    PROVE  \/ /\ UNCHANGED <<home, backup, wrote, changed, late>> 
              /\ Passes \/ Capture \/ Plan \/ Accept \/ Audit \/ AcceptScript \/ Authorize \/ Rebuild \/ UNCHANGED vars
           \/ MoveAway("profile", "init") \/ MoveAway("skill", "skill")
           \/ CreateProfile \/ WritePatch \/ CreateSkill \/ MergeSettings \/ Rollback \/ Outsider
<1> USE DEF diskVars, outsiderVars
<1>1. CASE Passes
  BY <1>1, Passing
<1>2. CASE Acts
  BY <1>2 DEF Acts, Capture, Plan, Accept, Audit, AcceptScript, Authorize, Rebuild
<1>3. CASE UNCHANGED vars
  BY <1>3 DEF vars
<1>4. QED
  BY <1>1, <1>2, <1>3, Moves

LEMMA DiskPreserved == ASSUME TypeOK, DiskInv, [Next]_vars PROVE DiskInv'
<1> USE DEF At, Goto, userVars, planVars, buildVars, diskVars, outsiderVars, Piece
<1>1. CASE Passes
  BY <1>1, Passing DEF DiskInv, Touching, Building, Undone
<1>2. CASE Capture \/ Plan \/ Accept
  <2>1. pc \in {"capture", "plan", "confirm"} /\ pc' \in {"plan", "planned", "declined", "confirm"} /\ UNCHANGED diskVars
    BY <1>2 DEF Capture, Plan, Accept
  <2>2. QED
    BY <2>1 DEF DiskInv, Touching, Building, Undone
<1>3. CASE Audit \/ AcceptScript \/ Authorize \/ Rebuild
  <2>1. /\ pc \in {"audit", "ask", "authorize", "rebuild"} 
        /\ pc' \in {"authorize", "ask", "rebuild", "reaudit", "rollback"} /\ UNCHANGED <<diskVars, action>>
    BY <1>3 DEF Audit, AcceptScript, Authorize, Rebuild
  <2>2. QED
    BY <2>1 DEF DiskInv, Touching, Building, Undone
<1>4. CASE MoveAway("profile", "init") \/ MoveAway("skill", "skill")
  BY <1>4 DEF MoveAway, TypeOK, DiskInv, Touching, Building, Undone
<1>5. CASE CreateProfile
  BY <1>5 DEF CreateProfile, DiskInv, Touching, Building, Undone
<1>6. CASE WritePatch
  BY <1>6 DEF WritePatch, DiskInv, Touching, Building, Undone
<1>7. CASE CreateSkill
  BY <1>7 DEF CreateSkill, DiskInv, Touching, Building, Undone
<1>8. CASE MergeSettings
  BY <1>8 DEF MergeSettings, TypeOK, DiskInv, Touching, Building, Undone
<1>9. CASE Rollback
  <2>1. PICK undone \in SUBSET ToUndo :
           backup' = [p \in Piece |-> IF p \in undone THEN "nothing" ELSE backup[p]]
    BY <1>9 DEF Rollback
  <2>2. pc' \in Undone /\ UNCHANGED action
    BY <1>9 DEF Rollback, Undone
  <2>3. QED
    BY <2>1, <2>2 DEF DiskInv, Touching, Building, Undone
<1>10. CASE Outsider \/ UNCHANGED vars
  BY <1>10 DEF Outsider, vars, DiskInv
<1>11. QED
  BY <1>1, <1>2, <1>3, <1>4, <1>5, <1>6, <1>7, <1>8, <1>9, <1>10, Moves DEF Acts

\* Whoever wrote, his content is on the disk or in the backup.
LEMMA SurvivesPreserved == ASSUME TypeOK, DiskInv, OutsiderSurvives, [Next]_vars PROVE OutsiderSurvives'
<1> USE DEF At, Piece, Content, OutsiderSurvives
<1>1. CASE UNCHANGED <<home, backup, wrote, changed, late>>
  BY <1>1
<1>2. CASE MoveAway("profile", "init") \/ MoveAway("skill", "skill")
  BY <1>2 DEF MoveAway, TypeOK, outsiderVars
<1>3. CASE CreateProfile
  BY <1>3 DEF CreateProfile, Vacant, TypeOK, outsiderVars
<1>4. CASE WritePatch
  BY <1>4 DEF WritePatch, TypeOK, outsiderVars
<1>5. CASE CreateSkill
  BY <1>5 DEF CreateSkill, Vacant, TypeOK, outsiderVars
<1>6. CASE MergeSettings
  <2>1. backup["settings"] = "nothing"
    BY <1>6 DEF MergeSettings, DiskInv, Building
  <2>2. QED
    BY <1>6, <2>1 DEF MergeSettings, TypeOK, outsiderVars
<1>7. CASE Rollback
  <2>1. PICK undone \in SUBSET ToUndo :
           /\ home' = [p \in Piece |-> IF p \notin undone THEN home[p]
                                       ELSE IF backup[p] = "nothing" THEN "absent" ELSE backup[p]]
           /\ backup' = [p \in Piece |-> IF p \in undone THEN "nothing" ELSE backup[p]]
    BY <1>7 DEF Rollback
  <2>2. ASSUME NEW p \in changed' PROVE "alien" \in {home'[p], backup'[p]}
    <3>1. p \in changed /\ p \in Piece
      BY <1>7, <2>2 DEF Rollback, TypeOK, outsiderVars
    <3>2. CASE p \in undone
      <4>1. p \in wrote \/ backup[p] # "nothing"
        BY <2>1, <3>2 DEF ToUndo
      <4>2. home[p] # "alien"
        BY <2>1, <3>1, <3>2, <4>1 DEF ToUndo, Occupied
      <4>3. backup[p] = "alien"
        BY <3>1, <4>2
      <4>4. QED
        BY <2>1, <3>1, <3>2, <4>3
    <3>3. CASE p \notin undone
      BY <2>1, <3>1, <3>3
    <3>4. QED
      BY <3>2, <3>3
  <2>3. QED
    BY <2>2
<1>8. CASE Outsider
  <2>1. PICK p \in Piece : home' = [home EXCEPT ![p] = "alien"] /\ changed' = changed \cup {p}
    BY <1>8 DEF Outsider
  <2>2. UNCHANGED backup
    BY <1>8 DEF Outsider
  <2>3. QED
    BY <2>1, <2>2 DEF TypeOK
<1>9. QED
  BY <1>1, <1>2, <1>3, <1>4, <1>5, <1>6, <1>7, <1>8, Writes

LEMMA TargetPreserved == ASSUME TypeOK, DiskInv, TargetInv, [Next]_vars PROVE TargetInv'
<1> USE DEF At, Goto, Piece, Content, userVars, planVars, buildVars, diskVars, outsiderVars
<1>1. CASE Passes
  <2>1. SameTarget => \A p \in Piece : home[p] = before[p]
    BY DEF SameTarget
  <2>2. pc \notin Undone
    BY <1>1 DEF Passes, Undone, Materialize, ReadPack, Probe, Unsupported, Resolve, Unresolved, Unreadable, PlanRefused, Decline, Confirmed, Recapture, TargetChanged, BeginTransaction, RefuseAt, LockedCapture, Fails, VerifyInit, StagePlugin, AddPlugin, Reaudit, VerifyPlugin, SkipSkill, NoSettings, DumpConfig, Doctor, Record, Writing
  <2>3. QED
    BY <1>1, <2>1, <2>2, Passing DEF TargetInv
<1>2. CASE Capture
  BY <1>2 DEF TargetInv, Capture, TypeOK
<1>3. CASE Plan \/ Accept
  <2>1. pc \in {"plan", "confirm"} /\ pc' \in {"planned", "declined", "confirm"} /\ UNCHANGED <<diskVars, outsiderVars, before>>
    BY <1>3 DEF Plan, Accept
  <2>2. QED
    BY <2>1 DEF TargetInv, Building, Undone
<1>4. CASE Audit \/ AcceptScript \/ Authorize \/ Rebuild
  <2>1. /\ pc \in {"audit", "ask", "authorize", "rebuild"} /\ UNCHANGED <<diskVars, outsiderVars, before>>
    BY <1>4 DEF Audit, AcceptScript, Authorize, Rebuild
  <2>2. QED
    BY <2>1 DEF TargetInv, Building, Undone
<1>5. CASE MoveAway("profile", "init") \/ MoveAway("skill", "skill")
  BY <1>5 DEF MoveAway, TypeOK, TargetInv
<1>6. CASE CreateProfile
  BY <1>6 DEF CreateProfile, TypeOK, TargetInv, Building, Undone
<1>7. CASE WritePatch
  <2>1. "profile" \in wrote
    BY <1>7 DEF WritePatch, DiskInv, Building
  <2>2. QED
    BY <1>7, <2>1 DEF WritePatch, TypeOK, TargetInv, Building, Undone
<1>8. CASE CreateSkill
  BY <1>8 DEF CreateSkill, TypeOK, TargetInv, Building, Undone
<1>9. CASE MergeSettings
  BY <1>9 DEF MergeSettings, TypeOK, TargetInv, Building, Undone
<1>10. CASE Rollback
  <2>1. pc' \in Undone /\ UNCHANGED <<changed, late>>
    BY <1>10 DEF Rollback, Undone
  <2>2. QED
    BY <2>1 DEF TargetInv, Building, Undone
<1>11. CASE Outsider
  <2>1. PICK p \in Piece : /\ home' = [home EXCEPT ![p] = "alien"] /\ changed' = changed \cup {p}
                           /\ late' = IF Writing THEN late \cup {p} ELSE late
    BY <1>11 DEF Outsider
  <2>2. UNCHANGED <<pc, before, backup, wrote>> /\ (pc \in Building => Writing)
    BY <1>11 DEF Outsider, Building, Writing
  <2>3. QED
    BY <2>1, <2>2 DEF TargetInv, TypeOK
<1>12. CASE UNCHANGED vars
  BY <1>12 DEF vars, TargetInv
<1>13. QED
  BY <1>1, <1>2, <1>3, <1>4, <1>5, <1>6, <1>7, <1>8, <1>9, <1>10, <1>11, <1>12, Moves DEF Acts

LEMMA ConfirmedPreserved ==
    ASSUME TypeOK, ConsentInv, DiskInv, TargetInv, ConfirmedIsReplaced, [Next]_vars
    PROVE  ConfirmedIsReplaced'
<1> USE DEF At, Goto, Piece, Content, userVars, planVars, buildVars, diskVars, outsiderVars
<1>1. CASE Passes
  <2>1. pc \notin Undone
    BY <1>1 DEF Passes, Undone, Materialize, ReadPack, Probe, Unsupported, Resolve, Unresolved, Unreadable, PlanRefused, Decline, Confirmed, Recapture, TargetChanged, BeginTransaction, RefuseAt, LockedCapture, Fails, VerifyInit, StagePlugin, AddPlugin, Reaudit, VerifyPlugin, SkipSkill, NoSettings, DumpConfig, Doctor, Record, Writing
  <2>2. QED
    BY <1>1, <2>1, Passing DEF ConfirmedIsReplaced, Undone
<1>2. CASE Capture
  BY <1>2 DEF ConfirmedIsReplaced, Capture, DiskInv, Touching, Building, Undone
<1>3. CASE Plan \/ Accept \/ Audit \/ AcceptScript \/ Authorize \/ Rebuild
  <2>1. pc \notin Undone /\ UNCHANGED <<diskVars, outsiderVars, before>>
    BY <1>3 DEF Plan, Accept, Audit, AcceptScript, Authorize, Rebuild, Undone
  <2>2. QED
    BY <2>1 DEF ConfirmedIsReplaced, Undone
<1>4. ASSUME NEW piece \in {"profile", "skill"}, NEW stage \in {"init", "skill"}, MoveAway(piece, stage)
      PROVE  ConfirmedIsReplaced'
  <2>1. before[piece] # "absent"
    BY <1>4 DEF MoveAway, ConsentInv, AsPlanned, ActionFor, Agreed, Touching, Building
  <2>2. pc \in Building /\ pc \notin Undone /\ backup[piece] = "nothing"
    BY <1>4 DEF MoveAway, Building, Undone
  <2>3. piece \notin late => home[piece] = before[piece]
    BY <2>1, <2>2 DEF TargetInv, ConfirmedIsReplaced, Undone
  <2>4. QED
    BY <1>4, <2>2, <2>3 DEF MoveAway, ConfirmedIsReplaced, TypeOK, Undone
<1>5. ASSUME NEW piece \in {"profile", "skill"}, Vacant(piece), action[piece] # "skip", pc \in Building
      PROVE  backup[piece] = "nothing" => before[piece] = "absent"
  BY <1>5 DEF Vacant, ConsentInv, AsPlanned, ActionFor, Agreed, Touching
<1>6. CASE CreateProfile
  <2>1. action["profile"] # "skip"
    BY <1>6 DEF CreateProfile, ConsentInv, AsPlanned, ActionFor, Agreed, Touching, Building
  <2>2. backup["profile"] = "nothing" => before["profile"] = "absent"
    BY <1>5, <1>6, <2>1 DEF CreateProfile, Building
  <2>3. QED
    BY <1>6, <2>2 DEF CreateProfile, ConfirmedIsReplaced
<1>7. CASE CreateSkill
  <2>1. backup["skill"] = "nothing" => before["skill"] = "absent"
    BY <1>5, <1>7 DEF CreateSkill, Building
  <2>2. QED
    BY <1>7, <2>1 DEF CreateSkill, ConfirmedIsReplaced
<1>8. CASE WritePatch
  BY <1>8 DEF WritePatch, ConfirmedIsReplaced
<1>9. CASE MergeSettings
  BY <1>9 DEF MergeSettings, TypeOK, ConfirmedIsReplaced
<1>10. CASE Rollback
  <2>1. PICK undone \in SUBSET ToUndo : backup' = [p \in Piece |-> IF p \in undone THEN "nothing" ELSE backup[p]]
    BY <1>10 DEF Rollback
  <2>2. pc' \in Undone /\ UNCHANGED <<before, late>>
    BY <1>10 DEF Rollback, Undone
  <2>3. QED
    BY <2>1, <2>2 DEF ConfirmedIsReplaced, Undone
<1>11. CASE Outsider \/ UNCHANGED vars
  <2>1. UNCHANGED <<pc, before, backup, wrote>> /\ late \subseteq late'
    BY <1>11 DEF Outsider, vars
  <2>2. QED
    BY <2>1 DEF ConfirmedIsReplaced
<1>12. QED
  BY <1>1, <1>2, <1>3, <1>4, <1>6, <1>7, <1>8, <1>9, <1>10, <1>11, Moves DEF Acts

LEMMA NoTracePreserved ==
    ASSUME TypeOK, DiskInv, TargetInv, ConfirmedIsReplaced, FailureLeavesNoTrace, [Next]_vars
    PROVE  FailureLeavesNoTrace'
<1> DEFINE Answered == {"refused", "declined", "planned", "rolled-back"}
<1> USE DEF At, Goto, Piece, Content, userVars, planVars, buildVars, diskVars, outsiderVars
<1>1. ASSUME pc \notin Touching, UNCHANGED <<home, before, backup, changed>>
      PROVE  FailureLeavesNoTrace'
  BY <1>1 DEF FailureLeavesNoTrace, DiskInv, TargetInv, Touching
<1>2. ASSUME pc' \notin Answered
      PROVE  FailureLeavesNoTrace'
  BY <1>2 DEF FailureLeavesNoTrace
<1>3. CASE Passes
  BY <1>1, <1>2, <1>3, Passing
<1>4. CASE Plan
  <2>1. pc \notin Touching /\ UNCHANGED <<home, before, backup, changed>>
    BY <1>4 DEF Plan, Touching, Building, Undone
  <2>2. QED
    BY <1>1, <2>1
<1>5. CASE Acts /\ ~Plan /\ ~Rollback /\ ~Outsider
  BY <1>2, <1>5 DEF Acts, Capture, Accept, MoveAway, CreateProfile, Audit, AcceptScript, Authorize, Rebuild,
       WritePatch, CreateSkill, MergeSettings
<1>6. CASE Rollback
  <2>1. PICK undone \in SUBSET ToUndo :
           /\ home' = [p \in Piece |-> IF p \notin undone THEN home[p]
                                       ELSE IF backup[p] = "nothing" THEN "absent" ELSE backup[p]]
           /\ backup' = [p \in Piece |-> IF p \in undone THEN "nothing" ELSE backup[p]]
           /\ pc' = IF undone = ToUndo /\ ~\E p \in Piece : Occupied(p)
                    THEN "rolled-back" ELSE "manual-recovery"
    BY <1>6 DEF Rollback
  <2>2. pc = "rollback" /\ UNCHANGED <<before, changed>>
    BY <1>6 DEF Rollback
  <2>3. CASE undone = ToUndo /\ ~\E p \in Piece : Occupied(p)
    <3>1. ASSUME NEW p \in Piece
          PROVE  backup'[p] = "nothing" /\ (p \notin changed => home'[p] = before[p])
      <4>1. CASE p \in undone
        <5>1. p \notin changed /\ backup[p] # "nothing" => backup[p] = before[p]
          BY DEF TargetInv, ConfirmedIsReplaced
        <5>2. p \notin changed /\ backup[p] = "nothing" => before[p] = "absent"
          BY <2>2, <2>3, <4>1 DEF TargetInv, ConfirmedIsReplaced, ToUndo
        <5>3. QED
          BY <2>1, <4>1, <5>1, <5>2
      <4>2. CASE p \notin undone
        <5>1. p \notin wrote /\ backup[p] = "nothing"
          BY <2>3, <4>2 DEF ToUndo
        <5>2. p \notin changed => home[p] = before[p]
          BY <2>2, <5>1 DEF TargetInv, Undone
        <5>3. QED
          BY <2>1, <4>2, <5>1, <5>2
      <4>3. QED
        BY <4>1, <4>2
    <3>2. QED
      BY <2>2, <3>1 DEF FailureLeavesNoTrace
  <2>4. CASE ~(undone = ToUndo /\ ~\E p \in Piece : Occupied(p))
    BY <1>2, <2>1, <2>4
  <2>5. QED
    BY <2>3, <2>4
<1>7. CASE Outsider
  <2>1. pc \notin Answered /\ UNCHANGED pc
    BY <1>7 DEF Outsider, Outcomes
  <2>2. QED
    BY <1>2, <2>1
<1>8. CASE UNCHANGED vars
  BY <1>8 DEF vars, FailureLeavesNoTrace
<1>9. QED
  BY <1>3, <1>4, <1>5, <1>6, <1>7, <1>8, Moves

-----------------------------------------------------------------------------
(* The theorems *)

Inv ==
    /\ TypeOK /\ ConsentInv /\ ScriptInv /\ DiskInv /\ TargetInv
    /\ OutsiderSurvives /\ ConfirmedIsReplaced /\ FailureLeavesNoTrace

LEMMA InvInductive == Spec => []Inv
<1>1. Init => Inv
  BY TypeInit, ConsentInit, ScriptInit, DiskInit DEF Inv
<1>2. Inv /\ [Next]_vars => Inv'
  BY TypePreserved, ConsentPreserved, ScriptPreserved, DiskPreserved, TargetPreserved, SurvivesPreserved,
     ConfirmedPreserved, NoTracePreserved DEF Inv
<1>3. QED
  BY <1>1, <1>2, PTL DEF Spec

\* Every variable of the install stays in its type, for any command lines, packs and outsider.
THEOREM InstallTypes == Spec => []TypeOK
<1>1. Inv => TypeOK
  BY DEF Inv
<1>2. QED
  BY <1>1, InvInductive, PTL

LEMMA Consenting == ASSUME Inv PROVE NothingWithoutConsent
<1> USE DEF Inv, Piece
<1>1. ASSUME Touched
      PROVE  pc \in Agreed
  BY <1>1 DEF Touched, DiskInv, Agreed
<1>2. ASSUME pc \in Agreed
      PROVE  Prompts \subseteq accepted /\ MayReplace /\ Verifiable /\ AsPlanned
  BY <1>2 DEF ConsentInv
<1>3. ASSUME Touched
      PROVE  /\ "danger" \in risks => "allow-danger" \in flags \/ About("danger") \in accepted
             /\ "mismatch" \in risks => {"yes", "allow-mismatch"} \subseteq flags \/ About("mismatch") \in accepted
             /\ "unverified" \in risks => "allow-unverified" \in flags
             /\ "yes" \in flags \/ About("install") \in accepted
  BY <1>1, <1>2, <1>3 DEF Prompts, Verifiable
<1>4. backup["profile"] # "nothing" => "replace" \in flags
  <2>1. SUFFICES ASSUME backup["profile"] # "nothing" PROVE "replace" \in flags
    OBVIOUS
  <2>2. action["profile"] = "replace" /\ MayReplace /\ AsPlanned
    BY <1>1, <1>2, <2>1 DEF DiskInv, Touched
  <2>3. QED
    BY <2>2 DEF MayReplace, AsPlanned, ActionFor
<1>5. backup["skill"] # "nothing" => "force" \in flags
  <2>1. SUFFICES ASSUME backup["skill"] # "nothing" PROVE "force" \in flags
    OBVIOUS
  <2>2. action["skill"] = "replace" /\ AsPlanned
    BY <1>1, <1>2, <2>1 DEF DiskInv, Touched
  <2>3. QED
    BY <2>2 DEF AsPlanned, ActionFor
<1>6. ASSUME NEW n \in Package
      PROVE  /\ <<"direct", n>> \in ran => builds[n] > 0 \/ <<"build", n>> \in accepted
             /\ <<"transitive", n>> \in ran =>
                   \/ <<"script", n>> \in accepted
                   \/ builds[n] > (IF n = "plugin" /\ "builds" \in risks THEN 1 ELSE 0)
  <2> DEFINE same == {m \in {"plugin"} : m = n /\ "builds" \in risks}
  <2>1. Cardinality(same) = IF n = "plugin" /\ "builds" \in risks THEN 1 ELSE 0
    <3>1. same = IF n = "plugin" /\ "builds" \in risks THEN {"plugin"} ELSE {}
      OBVIOUS
    <3>2. Cardinality({"plugin"}) = 1 /\ Cardinality({}) = 0
      BY FS_Singleton, FS_EmptySet
    <3>3. QED
      BY <3>1, <3>2
  <2>2. TransitiveApproved(n, builds, ConfirmedScripts) <=> n \in ConfirmedScripts \/ builds[n] > Cardinality(same)
    BY DEF TransitiveApproved
  <2> HIDE DEF same
  <2>3. QED
    BY <2>1, <2>2 DEF ScriptInv, ConfirmedScripts
<1>7. QED
  BY <1>3, <1>4, <1>5, <1>6 DEF NothingWithoutConsent

\* Whatever the command line, the pack and the approvals given: nothing is touched and no
\* script runs that the user has not agreed to, each for itself (decideInstall, confirmPlan,
\* hasTransitiveApproval).
THEOREM Consent == Spec => []NothingWithoutConsent
<1>1. Inv => NothingWithoutConsent
  BY Consenting
<1>2. QED
  BY <1>1, InvInductive, PTL

\* The three captures of the target are enough: but for a write after the last of them, what
\* the transaction moves away or finds vacant is what the plan showed.
THEOREM Confirmation == Spec => []ConfirmedIsReplaced
<1>1. Inv => ConfirmedIsReplaced
  BY DEF Inv
<1>2. QED
  BY <1>1, InvInductive, PTL

\* However often and whenever an outsider writes to the target, the install loses none of it.
THEOREM Survival == Spec => []OutsiderSurvives
<1>1. Inv => OutsiderSurvives
  BY DEF Inv
<1>2. QED
  BY <1>1, InvInductive, PTL

\* An install that answers with a refusal, a no, a plan or a rollback leaves the target as it was.
THEOREM NoTrace == Spec => []FailureLeavesNoTrace
<1>1. Inv => FailureLeavesNoTrace
  BY DEF Inv
<1>2. QED
  BY <1>1, InvInductive, PTL
=============================================================================
