----------------------------- MODULE UiSession -----------------------------
(* A session of the UI: the compose form, the review of a write and the      *)
(* server that serves both, in one browser window.                           *)
EXTENDS UiGateway, ComposeForm

CONSTANT Composition   \* the request that installs what the form describes

ASSUME CompositionAssumption == Composition \in Request

vars == <<view, calls, version, formVars>>

TypeOK == ReviewTypeOK /\ GatewayTypeOK /\ FormTypeOK

Init == ReviewInit /\ GatewayInit /\ FormInit

\* The install button of the form.
InstallComposition ==
    /\ InstallReady
    /\ SubmitPlan(Composition)

(***************************************************************************)
(* The form and the review share nothing but that click, so a behaviour    *)
(* explores one of them: either the form up to the click, or a review that *)
(* may begin with the composition a form of earlier described.             *)
(***************************************************************************)
FormUntouched == revision = 0 /\ lastAsked = 0 /\ ~flags.composing

Next ==
    \/ /\ FormUntouched
       /\ \/ /\ (\E r \in Request : SubmitPlan(r)) \/ NextReview
             /\ UNCHANGED <<version, formVars>>
          \/ NextGateway /\ UNCHANGED formVars
    \/ /\ calls = << >> /\ view = Idle /\ version = [r \in Request |-> 1]
       /\ \/ NextForm /\ UNCHANGED <<view, calls, version>>
          \/ InstallComposition /\ UNCHANGED <<version, formVars>>

Spec == Init /\ [][Next]_vars

(***************************************************************************)
(* What an engine applied is what a user reviewed: where the plan names a  *)
(* commit, that commit was applied, and each dangerous permission it used  *)
(* was ticked by hand on the screen that showed the plan.  Without a       *)
(* commit a source may change after the plan; then each permission was     *)
(* ticked, or is of a blanket kind of which one was ticked.                *)
(* danger-full-access was confirmed on that screen.  This holds although   *)
(* the server plans again, sources change at any time, and an answer may   *)
(* reach a screen that shows another request (main.ts, submitPlan and      *)
(* submitApply; state.ts, reduceBrowserState; server.ts, dispatchWrite).   *)
(***************************************************************************)
AppliesOnlyWhatWasReviewed ==
    \A c \in DOMAIN calls :
        LET call == calls[c]
            needs == Needs(call.request, call.did)
        IN call.did # 0 =>
              /\ call.seen.plan.request = call.request
              /\ call.request \in Pinned => /\ call.did = call.seen.plan.version
                                            /\ needs \subseteq call.seen.ticked
              /\ \A p \in needs : Allows(call.seen.ticked, p)
              /\ Danger \in needs => call.seen.sworn

(***************************************************************************)
(* The install button of the compose screen works only for a form of which *)
(* the server has said that it composes, whatever was edited while         *)
(* previews were under way (main.ts, requestComposePreview and             *)
(* invalidateComposePreview).                                              *)
(***************************************************************************)
InstallsWhatWasPreviewed == InstallReady => preview.ok /\ preview.of = form
=============================================================================
