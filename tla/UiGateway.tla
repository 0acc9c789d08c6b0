----------------------------- MODULE UiGateway -----------------------------
(* The write gateway of the UI server (cli/src/ui/server.ts): an apply plans *)
(* again, checks the permissions and the digest against that plan, and only  *)
(* then runs the engine, which resolves its source for itself.  Calls are    *)
(* not serialised, and what a request is about may change at any moment.     *)
EXTENDS UiReview

CONSTANTS Needs(_, _),   \* dangerous permissions of a request at a version
          Blanket,       \* kinds of permission an engine looks no closer at
          Pinned         \* requests whose plan names a commit to apply

ASSUME NeedsAssumption == \A r \in Request, v \in 1 .. MaxVersion :
                              Needs(r, v) \subseteq Permission
ASSUME BlanketAssumption == \A kind \in Blanket : Danger \notin kind

VARIABLE version    \* the version of now of what each request is about

GatewayTypeOK == version \in [Request -> 1 .. MaxVersion]

GatewayInit == version = [r \in Request |-> 1]

\* Somebody pushes to a branch or edits a directory, or undoes that.
Publish(r) ==
    /\ \E v \in 1 .. MaxVersion \ {version[r]} : version' = [version EXCEPT ![r] = v]
    /\ UNCHANGED <<view, calls>>

\* The server is done with a call and forgets its request; nobody may be waiting
\* for the answer any more.
Answered(call, a) ==
    [call EXCEPT !.stage = "answered", !.digest = NoPlan, !.authorized = {}, !.fixed = 0,
                 !.answer = IF call.awaited THEN a ELSE NoAnswer]

Answers(c, a) ==
    /\ calls' = [calls EXCEPT ![c] = [Answered(@, a) EXCEPT !.seen = NothingSeen]]
    /\ UNCHANGED <<view, version>>

(***************************************************************************)
(* dispatchWrite up to its second call of the engine.                      *)
(***************************************************************************)
PlanNow(c) == [request |-> calls[c].request, version |-> version[calls[c].request]]

Required(c) == Needs(calls[c].request, version[calls[c].request])

Missing(c) == Required(c) \ calls[c].authorized

\* The engine cannot plan: status 200, also for an apply, and no plan.
PlanRefused(c) ==
    /\ calls[c].stage = "sent"
    /\ Answers(c, Answer(200, NoPlan, {}, {}))

AnswerPlan(c) ==
    /\ calls[c].stage = "sent" /\ calls[c].phase = "plan"
    /\ Answers(c, Answer(200, PlanNow(c), Required(c), Missing(c)))

AnswerForbidden(c) ==
    /\ calls[c].stage = "sent" /\ calls[c].phase = "apply"
    /\ Missing(c) # {}
    /\ Answers(c, Answer(403, PlanNow(c), Required(c), Missing(c)))

DigestMatches(c) == calls[c].digest = PlanNow(c)

AnswerChanged(c) ==
    /\ calls[c].stage = "sent" /\ calls[c].phase = "apply"
    /\ Missing(c) = {} /\ ~DigestMatches(c)
    /\ Answers(c, Answer(409, PlanNow(c), Required(c), {}))

AcceptApply(c) ==
    /\ calls[c].stage = "sent" /\ calls[c].phase = "apply"
    /\ Missing(c) = {} /\ DigestMatches(c)
    /\ calls' = [calls EXCEPT ![c].stage = "planned",
                              ![c].fixed = version[calls[c].request]]
    /\ UNCHANGED <<view, version>>

(***************************************************************************)
(* The engine's apply.  frozenApplyInput gives it the commit of the plan;  *)
(* a source without one is read again, and the prompts of what is read are *)
(* answered from the permissions of the call alone.                        *)
(***************************************************************************)
\* An engine is told in one flag that unverified sources, or a version that was not
\* tested, are fine, whichever the user was shown; the rest is granted one by one.
Allows(granted, p) ==
    \/ p \in granted
    \/ \E kind \in Blanket : p \in kind /\ kind \cap granted # {}

\* Mutant of Fetched: the branch is resolved again.
FetchedAgain(c) == version[calls[c].request]

Fetched(c) == IF calls[c].request \in Pinned THEN calls[c].fixed
              ELSE version[calls[c].request]

PromptsAuthorized(c) ==
    \A p \in Needs(calls[c].request, Fetched(c)) : Allows(calls[c].authorized, p)

Report(c) == Answer(200, calls[c].digest, Needs(calls[c].request, calls[c].fixed), {})

Apply(c) ==
    /\ calls[c].stage = "planned"
    /\ PromptsAuthorized(c)
    /\ calls' = [calls EXCEPT ![c] = [Answered(@, Report(c)) EXCEPT !.did = Fetched(c)]]
    /\ UNCHANGED <<view, version>>

\* A prompt is declined, or the engine fails for a reason of its own and says so:
\* status 200 all the same, and nothing was applied.
Decline(c) ==
    /\ calls[c].stage = "planned"
    /\ Answers(c, Report(c))

\* The engine throws before it has changed anything: status 500.
EngineThrows(c) ==
    /\ calls[c].stage \in {"sent", "planned"}
    /\ Answers(c, Answer(500, NoPlan, {}, {}))

NextGateway ==
    \/ \E r \in Request : Publish(r)
    \/ \E c \in DOMAIN calls :
          \/ PlanRefused(c) \/ AnswerPlan(c) \/ AnswerForbidden(c) \/ AnswerChanged(c)
          \/ AcceptApply(c) \/ Apply(c) \/ Decline(c) \/ EngineThrows(c)
=============================================================================
