------------------------------ MODULE UiReview ------------------------------
(* The review of a write in the browser client: the reducer of               *)
(* ui/src/state.ts, and the calls submitPlan and submitApply of              *)
(* ui/src/main.ts make.  A call carries its request to the server; the       *)
(* answer comes back to whatever phase the screen is in by then, for no      *)
(* answer says which request it belongs to.                                  *)
EXTENDS Naturals, Sequences

CONSTANTS Request,      \* what the user can ask for
          Permission,   \* dangerous permissions
          Danger,       \* danger-full-access, which wants a second click
          MaxVersion,   \* bound on the versions of what a request is about
          MaxCalls      \* bound on the calls of the session

ASSUME ReviewAssumption == /\ Danger \in Permission
                           /\ MaxVersion \in Nat \ {0}
                           /\ MaxCalls \in Nat

VARIABLES view,    \* BrowserState
          calls    \* the calls made, oldest first

(***************************************************************************)
(* A plan is known by its digest, which covers the request and the version *)
(* of what it is about; an answer without a usable plan has NoPlan.        *)
(***************************************************************************)
NoPlan == [request |-> "none", version |-> 0]

Plan == [request: Request, version: 1 .. MaxVersion] \cup {NoPlan}

Answer(status, plan, required, missing) ==
    [status |-> status, plan |-> plan, required |-> required, missing |-> missing]

NoAnswer == Answer(0, NoPlan, {}, {})

\* "seen" is what the user had on screen at the click: the plan, and what was
\* ticked and confirmed since that plan was drawn.
NothingSeen == [plan |-> NoPlan, ticked |-> {}, sworn |-> FALSE]

\* The server's half of a call: sent, planned (an apply whose plan matched, at
\* version "fixed") and answered; "did" is the version an engine applied, or 0.
NewCall(phase, request, digest, authorized, seen) ==
    [phase |-> phase, request |-> request, digest |-> digest,
     authorized |-> authorized, seen |-> seen, awaited |-> TRUE,
     stage |-> "sent", fixed |-> 0, did |-> 0, answer |-> NoAnswer]

Idle == [phase |-> "idle", request |-> "none", plan |-> NoPlan, required |-> {},
         granted |-> {}, highlighted |-> {}, confirmed |-> FALSE,
         ticked |-> {}, sworn |-> FALSE]

At(phase, request) == [Idle EXCEPT !.phase = phase, !.request = request]

Phases == {"idle", "planning", "reviewing", "applying", "done", "stale", "failed"}

ReviewTypeOK ==
    /\ view \in [phase: Phases, request: Request \cup {"none"}, plan: Plan,
                 required: SUBSET Permission, granted: SUBSET Permission,
                 highlighted: SUBSET Permission, confirmed: BOOLEAN,
                 ticked: SUBSET Permission, sworn: BOOLEAN]
    /\ view.phase # "idle" => view.request \in Request
    /\ Len(calls) <= MaxCalls
    /\ \A c \in DOMAIN calls :
          /\ calls[c].phase \in {"plan", "apply"}
          /\ calls[c].request \in Request
          /\ calls[c].stage \in {"sent", "planned", "answered"}
          /\ calls[c].fixed \in 0 .. MaxVersion /\ calls[c].did \in 0 .. MaxVersion

ReviewInit == view = Idle /\ calls = << >>

(***************************************************************************)
(* Clicks.                                                                 *)
(***************************************************************************)
\* submitPlan: from any phase but planning and applying.  retryPlan is the same
\* with the request on screen.
SubmitPlan(request) ==
    /\ view.phase \notin {"planning", "applying"}
    /\ Len(calls) < MaxCalls
    /\ view' = At("planning", request)
    /\ calls' = Append(calls, NewCall("plan", request, NoPlan, {}, NothingSeen))

\* A tick box of the review; the ghosts ticked and sworn are what the user did
\* since the plan on screen was drawn.
Tick(p) ==
    /\ view.phase = "reviewing"
    /\ p \in view.required \ view.granted
    /\ view' = [view EXCEPT !.granted = @ \cup {p}, !.highlighted = @ \ {p},
                            !.ticked = @ \cup {p}]
    /\ UNCHANGED calls

Untick(p) ==
    /\ view.phase = "reviewing"
    /\ p \in view.granted
    /\ view' = [view EXCEPT !.granted = @ \ {p}, !.highlighted = @ \cup {p},
                            !.ticked = @ \ {p},
                            !.confirmed = @ /\ p # Danger, !.sworn = @ /\ p # Danger]
    /\ UNCHANGED calls

ConfirmDanger(yes) ==
    /\ view.phase = "reviewing"
    /\ Danger \in view.required
    /\ view.confirmed # yes
    /\ view' = [view EXCEPT !.confirmed = yes, !.sworn = yes]
    /\ UNCHANGED calls

CanApply ==
    /\ view.phase = "reviewing"
    /\ view.required \subseteq view.granted
    /\ view.highlighted = {}
    /\ Danger \in view.required => view.confirmed

SubmitApply ==
    /\ CanApply
    /\ Len(calls) < MaxCalls
    /\ view' = [view EXCEPT !.phase = "applying"]
    /\ calls' = Append(calls,
                  NewCall("apply", view.request, view.plan, view.granted,
                          [plan |-> view.plan, ticked |-> view.ticked, sworn |-> view.sworn]))

\* The reset button is never disabled, not even while a call is under way.
Reset ==
    /\ view.phase # "idle"
    /\ view' = Idle
    /\ UNCHANGED calls

(***************************************************************************)
(* Answers.                                                                *)
(***************************************************************************)
Review(a) ==
    LET missing == IF a.missing = {} THEN a.required ELSE a.missing
    IN [At("reviewing", view.request) EXCEPT
            !.plan = a.plan, !.required = a.required, !.highlighted = missing]

AfterPlan(a) ==
    IF a.status = 409 THEN At("stale", view.request)
    ELSE IF a.status >= 400 \/ a.plan = NoPlan THEN At("failed", view.request)
    ELSE Review(a)

\* A refused apply: the same plan stays under review, but the danger must be
\* confirmed again; another plan is stale.
Refused(a) ==
    LET missing == IF a.missing \cap a.required = {}
                   THEN a.required \ view.granted ELSE a.missing \cap a.required
    IN IF a.plan = view.plan /\ a.plan # NoPlan /\ a.required = view.required
       THEN [view EXCEPT !.phase = "reviewing", !.highlighted = missing,
                         !.confirmed = FALSE, !.sworn = FALSE]
       ELSE At("stale", view.request)

AfterApply(a) ==
    CASE a.status = 403 -> Refused(a)
      [] a.status = 409 -> At("stale", view.request)
      [] a.status \in 200 .. 299 -> [view EXCEPT !.phase = "done"]
      [] OTHER -> At("failed", view.request)

\* submitPlan dispatches 'plan-success', which only a planning screen takes;
\* submitApply dispatches 'response', which a planning screen takes as well.
Take(c, a) ==
    /\ view' = CASE view.phase = "planning" -> AfterPlan(a)
                 [] view.phase = "applying" /\ calls[c].phase = "apply" -> AfterApply(a)
                 [] OTHER -> view
    /\ calls' = [calls EXCEPT ![c].awaited = FALSE, ![c].answer = NoAnswer]

Receive(c) ==
    /\ calls[c].awaited /\ calls[c].stage = "answered"
    /\ Take(c, calls[c].answer)

\* fetch fails, or its body is no report: status 0, while the server goes on.
LoseAnswer(c) ==
    /\ calls[c].awaited
    /\ Take(c, NoAnswer)

\* Every step of the screen but the submission of a plan.
NextReview ==
    \/ \E p \in Permission : Tick(p) \/ Untick(p)
    \/ \E yes \in BOOLEAN : ConfirmDanger(yes)
    \/ SubmitApply
    \/ Reset
    \/ \E c \in DOMAIN calls : Receive(c) \/ LoseAnswer(c)
=============================================================================
