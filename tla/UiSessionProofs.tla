-------------------------- MODULE UiSessionProofs --------------------------
(***************************************************************************)
(* Proofs about UiSession, for any requests, permissions, needs, versions, *)
(* calls, edits and previews.                                              *)
(***************************************************************************)
EXTENDS UiSession, TLAPS

-----------------------------------------------------------------------------
(* The review: types *)

View == [phase: Phases, request: Request \cup {"none"}, plan: Plan,
         required: SUBSET Permission, granted: SUBSET Permission,
         highlighted: SUBSET Permission, confirmed: BOOLEAN,
         ticked: SUBSET Permission, sworn: BOOLEAN]

Reply == [status: Nat, plan: Plan, required: SUBSET Permission, missing: SUBSET Permission]

Seen == [plan: Plan, ticked: SUBSET Permission, sworn: BOOLEAN]

Call == [phase: {"plan", "apply"}, request: Request, digest: Plan,
         authorized: SUBSET Permission, seen: Seen, awaited: BOOLEAN,
         stage: {"sent", "planned", "answered"}, fixed: 0 .. MaxVersion,
         did: 0 .. MaxVersion, answer: Reply]

(***************************************************************************)
(* What is on a screen was ticked there, and what a call carries was on    *)
(* the screen of its click.                                                *)
(***************************************************************************)
Honest(v) ==
    /\ v.ticked = v.granted
    /\ v.granted \subseteq v.required
    /\ v.confirmed => v.sworn

Reviewed(call) ==
    LET needs == Needs(call.request, call.did)
    IN call.did # 0 =>
          /\ call.seen.plan.request = call.request
          /\ call.request \in Pinned => /\ call.did = call.seen.plan.version
                                        /\ needs \subseteq call.seen.ticked
          /\ \A p \in needs : Allows(call.seen.ticked, p)
          /\ Danger \in needs => call.seen.sworn

Carries(call) ==
    /\ call.stage # "answered" => call.did = 0
    /\ call.stage # "answered" /\ call.phase = "apply" =>
          /\ call.digest = call.seen.plan
          /\ call.authorized \subseteq call.seen.ticked
          /\ Danger \in call.authorized => call.seen.sworn
    /\ call.stage = "planned" =>
          /\ call.phase = "apply"
          /\ call.seen.plan.request = call.request
          /\ call.seen.plan.version = call.fixed
          /\ call.fixed # 0
          /\ Needs(call.request, call.fixed) \subseteq call.authorized
    /\ Reviewed(call)

ReviewInv ==
    /\ view \in View /\ Honest(view)
    /\ view.phase # "idle" => view.request \in Request
    /\ calls \in Seq(Call) /\ Len(calls) <= MaxCalls
    /\ \A c \in DOMAIN calls : Carries(calls[c])
    /\ GatewayTypeOK

-----------------------------------------------------------------------------
(* The values the steps are made of *)

LEMMA NoPlanType == NoPlan \in Plan
  BY DEF NoPlan, Plan

LEMMA NothingType == NoAnswer \in Reply /\ NothingSeen \in Seen
<1>1. NoPlan \in Plan
  BY NoPlanType
<1>2. QED
  BY <1>1 DEF NoAnswer, Answer, Reply, NothingSeen, Seen

LEMMA IdleType == Idle \in View /\ Honest(Idle)
<1>1. NoPlan \in Plan
  BY NoPlanType
<1>2. QED
  BY <1>1 DEF Idle, View, Phases, Honest

LEMMA AtType ==
    ASSUME NEW phase \in Phases, NEW request \in Request \cup {"none"}
    PROVE  /\ At(phase, request) \in View /\ Honest(At(phase, request))
           /\ At(phase, request).request = request
<1>1. NoPlan \in Plan
  BY NoPlanType
<1>2. QED
  BY <1>1 DEF At, Idle, View, Honest

LEMMA ReviewType ==
    ASSUME NEW a \in Reply, view \in View
    PROVE  Review(a) \in View /\ Honest(Review(a)) /\ Review(a).request = view.request
<1>1. NoPlan \in Plan
  BY NoPlanType
<1>2. QED
  BY <1>1 DEF Review, At, Idle, View, Honest, Reply, Phases

\* The screen after an answer to a plan.
LEMMA AfterPlanType ==
    ASSUME NEW a \in Reply, view \in View, view.request \in Request
    PROVE  /\ AfterPlan(a) \in View /\ Honest(AfterPlan(a))
           /\ AfterPlan(a).request \in Request
<1>1. view.request \in Request \cup {"none"} /\ {"stale", "failed"} \subseteq Phases
  BY DEF Phases
<1>2. \A phase \in {"stale", "failed"} :
         /\ At(phase, view.request) \in View /\ Honest(At(phase, view.request))
         /\ At(phase, view.request).request = view.request
  BY <1>1, AtType
<1>3. QED
  BY <1>2, ReviewType DEF AfterPlan

\* The screen after a refused apply.
LEMMA RefusedType ==
    ASSUME NEW a \in Reply, view \in View, Honest(view), view.request \in Request
    PROVE  Refused(a) \in View /\ Honest(Refused(a)) /\ Refused(a).request \in Request
<1>1. view.request \in Request \cup {"none"} /\ "stale" \in Phases /\ "reviewing" \in Phases
  BY DEF Phases
<1>2. /\ At("stale", view.request) \in View /\ Honest(At("stale", view.request))
      /\ At("stale", view.request).request = view.request
  BY <1>1, AtType
<1>3. ASSUME NEW missing \in SUBSET Permission
      PROVE  LET v == [view EXCEPT !.phase = "reviewing", !.highlighted = missing,
                                   !.confirmed = FALSE, !.sworn = FALSE]
             IN v \in View /\ Honest(v) /\ v.request = view.request
  BY <1>1, <1>3 DEF View, Honest
<1>4. a.required \ view.granted \in SUBSET Permission /\ a.missing \cap a.required \in SUBSET Permission
  BY DEF Reply
<1>5. QED
  BY <1>2, <1>3, <1>4 DEF Refused

\* The screen after any answer to an apply.
LEMMA AfterApplyType ==
    ASSUME NEW a \in Reply, view \in View, Honest(view), view.request \in Request
    PROVE  /\ AfterApply(a) \in View /\ Honest(AfterApply(a))
           /\ AfterApply(a).request \in Request
<1>1. view.request \in Request \cup {"none"} /\ {"stale", "failed", "done"} \subseteq Phases
  BY DEF Phases
<1>2. \A phase \in {"stale", "failed"} :
         /\ At(phase, view.request) \in View /\ Honest(At(phase, view.request))
         /\ At(phase, view.request).request = view.request
  BY <1>1, AtType
<1>3. LET v == [view EXCEPT !.phase = "done"]
      IN v \in View /\ Honest(v) /\ v.request = view.request
  BY <1>1 DEF View, Honest
<1>4. CASE a.status = 403
  BY <1>4, RefusedType DEF AfterApply
<1>5. CASE a.status = 409
  BY <1>2, <1>5 DEF AfterApply
<1>6. CASE a.status \in 200 .. 299
  BY <1>3, <1>6 DEF AfterApply
<1>7. CASE a.status # 403 /\ a.status # 409 /\ a.status \notin 200 .. 299
  BY <1>2, <1>7 DEF AfterApply
<1>8. QED
  BY <1>4, <1>5, <1>6, <1>7

-----------------------------------------------------------------------------
(* The calls *)

Good(call) == call \in Call /\ Carries(call)

\* Calls that are all good stay so when one of them is changed for a good one.
LEMMA OneCallChanges ==
    ASSUME calls \in Seq(Call), \A c \in DOMAIN calls : Carries(calls[c]),
           NEW k \in DOMAIN calls, NEW call, Good(call),
           calls' = [calls EXCEPT ![k] = call]
    PROVE  /\ calls' \in Seq(Call) /\ Len(calls') = Len(calls)
           /\ \A c \in DOMAIN calls' : Carries(calls'[c])
<1>1. call \in Call /\ Carries(call)
  BY DEF Good
<1>2. DOMAIN calls' = DOMAIN calls /\ \A c \in DOMAIN calls : calls'[c] = IF c = k THEN call ELSE calls[c]
  OBVIOUS
<1>3. calls' \in Seq(Call) /\ Len(calls') = Len(calls)
  BY <1>1
<1>4. QED
  BY <1>1, <1>2, <1>3

\* A call is appended.
LEMMA CallAppended ==
    ASSUME calls \in Seq(Call), \A c \in DOMAIN calls : Carries(calls[c]), Len(calls) < MaxCalls,
           NEW call, Good(call), calls' = Append(calls, call)
    PROVE  /\ calls' \in Seq(Call) /\ Len(calls') <= MaxCalls
           /\ \A c \in DOMAIN calls' : Carries(calls'[c])
<1>1. call \in Call /\ Carries(call)
  BY DEF Good
<1>2. calls' \in Seq(Call) /\ Len(calls') = Len(calls) + 1 /\ Len(calls) \in Nat
  BY <1>1
<1>3. \A c \in 1 .. Len(calls) : calls'[c] = calls[c]
  BY <1>1
<1>4. calls'[Len(calls) + 1] = call
  BY <1>1
<1>5. \A c \in DOMAIN calls' : c \in 1 .. Len(calls) \/ c = Len(calls) + 1
  BY <1>2
<1>6. QED
  BY <1>1, <1>2, <1>3, <1>4, <1>5, ReviewAssumption

\* A new call to plan carries nothing.
LEMMA PlanCallGood ==
    ASSUME NEW request \in Request
    PROVE  Good(NewCall("plan", request, NoPlan, {}, NothingSeen))
<1>1. NoPlan \in Plan /\ NoAnswer \in Reply /\ NothingSeen \in Seen
  BY NoPlanType, NothingType
<1>2. 0 \in 0 .. MaxVersion
  BY ReviewAssumption
<1>3. QED
  BY <1>1, <1>2 DEF Good, NewCall, Call, Carries, Reviewed

\* A new call to apply carries what is on the screen.
LEMMA ApplyCallGood ==
    ASSUME view \in View, Honest(view), view.request \in Request, CanApply
    PROVE  Good(NewCall("apply", view.request, view.plan, view.granted,
                        [plan |-> view.plan, ticked |-> view.ticked, sworn |-> view.sworn]))
<1> DEFINE seen == [plan |-> view.plan, ticked |-> view.ticked, sworn |-> view.sworn]
<1>1. NoAnswer \in Reply /\ seen \in Seen /\ view.plan \in Plan /\ view.granted \in SUBSET Permission
  BY NothingType DEF View, Seen
<1>2. 0 \in 0 .. MaxVersion
  BY ReviewAssumption
<1>3. view.granted \subseteq view.ticked /\ (Danger \in view.granted => view.sworn)
  BY DEF Honest, CanApply
<1>4. QED
  BY <1>1, <1>2, <1>3 DEF Good, NewCall, Call, Carries, Reviewed

\* An answer is taken, or given up.
LEMMA TakenGood ==
    ASSUME NEW call, Good(call)
    PROVE  Good([call EXCEPT !.awaited = FALSE, !.answer = NoAnswer])
  BY NothingType DEF Good, Call, Carries, Reviewed

\* The server answers a call for which no engine has applied anything.
LEMMA AnsweredGood ==
    ASSUME NEW call, Good(call), call.stage # "answered", NEW a \in Reply
    PROVE  Good([Answered(call, a) EXCEPT !.seen = NothingSeen])
<1>1. NoPlan \in Plan /\ NoAnswer \in Reply /\ NothingSeen \in Seen
  BY NoPlanType, NothingType
<1>2. 0 \in 0 .. MaxVersion
  BY ReviewAssumption
<1>3. QED
  BY <1>1, <1>2 DEF Good, Answered, Call, Carries, Reviewed

\* An apply that matches the plan of now is fixed to its version.
LEMMA AcceptedGood ==
    ASSUME NEW call, Good(call), call.stage = "sent", call.phase = "apply",
           NEW now \in 1 .. MaxVersion, call.digest = [request |-> call.request, version |-> now],
           Needs(call.request, now) \subseteq call.authorized
    PROVE  Good([call EXCEPT !.stage = "planned", !.fixed = now])
<1>1. now \in 0 .. MaxVersion
  BY ReviewAssumption
<1>2. call.seen.plan = [request |-> call.request, version |-> now]
  BY DEF Good, Carries
<1> DEFINE after == [call EXCEPT !.stage = "planned", !.fixed = now]
<1>3. after \in Call
  BY <1>1 DEF Good, Call
<1>4. /\ after.stage = "planned" /\ after.fixed = now /\ now # 0
      /\ \A f \in {"phase", "request", "digest", "authorized", "seen", "did"} : after[f] = call[f]
  BY ReviewAssumption DEF Good, Call
<1>5. after.seen.plan.request = after.request /\ after.seen.plan.version = after.fixed
  BY <1>2, <1>4
<1>6. /\ after.did = 0 /\ after.phase = "apply" /\ after.digest = after.seen.plan
      /\ after.authorized \subseteq after.seen.ticked
      /\ Danger \in after.authorized => after.seen.sworn
      /\ Needs(after.request, after.fixed) \subseteq after.authorized
  BY <1>4 DEF Good, Carries
<1>7. QED
  BY <1>3, <1>4, <1>5, <1>6 DEF Good, Carries, Reviewed

\* What is allowed by some permissions is allowed by more of them.
LEMMA AllowsMore ==
    ASSUME NEW few, NEW many, few \subseteq many, NEW p, Allows(few, p)
    PROVE  Allows(many, p)
  BY DEF Allows

\* danger-full-access is allowed by itself alone.
LEMMA DangerAllowed ==
    ASSUME NEW granted, Allows(granted, Danger)
    PROVE  Danger \in granted
  BY BlanketAssumption DEF Allows

\* The engine applies the version that was fixed, which needs what was ticked on the screen
\* of its plan, or for want of a commit another one, whose needs that allows.
LEMMA AppliedGood ==
    ASSUME NEW call, Good(call), call.stage = "planned", NEW a \in Reply,
           NEW fetched \in 0 .. MaxVersion, call.request \in Pinned => fetched = call.fixed,
           \A p \in Needs(call.request, fetched) : Allows(call.authorized, p)
    PROVE  Good([Answered(call, a) EXCEPT !.did = fetched])
<1> DEFINE after == [Answered(call, a) EXCEPT !.did = fetched]
<1>1. NoPlan \in Plan /\ NoAnswer \in Reply /\ 0 \in 0 .. MaxVersion
  BY NoPlanType, NothingType, ReviewAssumption
<1>2. after \in Call
  BY <1>1 DEF Good, Answered, Call
<1>3. /\ after.stage = "answered" /\ after.did = fetched /\ after.seen = call.seen
      /\ after.request = call.request
  BY DEF Good, Answered, Call
<1>4. /\ call.seen.plan.request = call.request /\ call.seen.plan.version = call.fixed
      /\ call.authorized \subseteq call.seen.ticked
      /\ Danger \in call.authorized => call.seen.sworn
      /\ Needs(call.request, call.fixed) \subseteq call.authorized
  BY DEF Good, Carries
<1>5. \A p \in Needs(call.request, fetched) : Allows(call.seen.ticked, p)
  BY <1>4, AllowsMore
<1>6. Danger \in Needs(call.request, fetched) => call.seen.sworn
  BY <1>4, DangerAllowed
<1>7. call.request \in Pinned => Needs(call.request, fetched) \subseteq call.seen.ticked
  BY <1>4
<1>8. Reviewed(after)
  BY <1>3, <1>4, <1>5, <1>6, <1>7 DEF Reviewed
<1>9. QED
  BY <1>2, <1>3, <1>8 DEF Good, Carries

-----------------------------------------------------------------------------
(* The steps *)

\* A step of the screen that leaves the calls alone.
LEMMA ScreenStep ==
    ASSUME ReviewInv, UNCHANGED <<calls, version>>, view' \in View, Honest(view'),
           view'.phase # "idle" => view'.request \in Request
    PROVE  ReviewInv'
<1>1. Honest(view)' /\ calls' = calls /\ version' = version
  BY DEF Honest
<1>2. (\A c \in DOMAIN calls : Carries(calls[c]))'
  BY <1>1 DEF ReviewInv, Carries, Reviewed
<1>3. QED
  BY <1>1, <1>2 DEF ReviewInv, GatewayTypeOK

\* A step that changes one call.
LEMMA CallStep ==
    ASSUME ReviewInv, NEW k \in DOMAIN calls, NEW call, Good(call),
           calls' = [calls EXCEPT ![k] = call], UNCHANGED version,
           view' \in View, Honest(view'), view'.phase # "idle" => view'.request \in Request
    PROVE  ReviewInv'
<1>1. /\ calls' \in Seq(Call) /\ Len(calls') = Len(calls)
      /\ \A c \in DOMAIN calls' : Carries(calls'[c])
  BY OneCallChanges DEF ReviewInv
<1>2. Honest(view)' /\ (\A c \in DOMAIN calls : Carries(calls[c]))'
  BY <1>1 DEF Honest, Carries, Reviewed
<1>3. QED
  BY <1>1, <1>2 DEF ReviewInv, GatewayTypeOK

LEMMA AppendStep ==
    ASSUME ReviewInv, NEW call, Good(call), Len(calls) < MaxCalls,
           calls' = Append(calls, call), UNCHANGED version,
           view' \in View, Honest(view'), view'.phase # "idle" => view'.request \in Request
    PROVE  ReviewInv'
<1>1. /\ calls' \in Seq(Call) /\ Len(calls') <= MaxCalls
      /\ \A c \in DOMAIN calls' : Carries(calls'[c])
  BY CallAppended DEF ReviewInv
<1>2. Honest(view)' /\ (\A c \in DOMAIN calls : Carries(calls[c]))'
  BY <1>1 DEF Honest, Carries, Reviewed
<1>3. QED
  BY <1>1, <1>2 DEF ReviewInv, GatewayTypeOK

LEMMA SubmitPlanKeeps ==
    ASSUME ReviewInv, NEW request \in Request, SubmitPlan(request), UNCHANGED version
    PROVE  ReviewInv'
<1>1. Good(NewCall("plan", request, NoPlan, {}, NothingSeen))
  BY PlanCallGood
<1>2. /\ At("planning", request) \in View /\ Honest(At("planning", request))
      /\ At("planning", request).request = request
  BY AtType DEF Phases
<1>3. QED
  BY <1>1, <1>2, AppendStep DEF SubmitPlan

\* The screen takes an answer, or finds that none will come.
LEMMA TakeKeeps ==
    ASSUME ReviewInv, NEW c \in DOMAIN calls, NEW a \in Reply, Take(c, a), UNCHANGED version
    PROVE  ReviewInv'
<1>1. Good(calls[c])
  BY DEF ReviewInv, Good
<1>2. Good([calls[c] EXCEPT !.awaited = FALSE, !.answer = NoAnswer])
  BY <1>1, TakenGood
<1>3. calls' = [calls EXCEPT ![c] = [calls[c] EXCEPT !.awaited = FALSE, !.answer = NoAnswer]]
  BY DEF Take
<1>4. view \in View /\ Honest(view) /\ (view.phase # "idle" => view.request \in Request)
  BY DEF ReviewInv
<1>5. view' \in View /\ Honest(view') /\ (view'.phase # "idle" => view'.request \in Request)
  <2>1. CASE view.phase = "planning"
    BY <1>4, <2>1, AfterPlanType DEF Take
  <2>2. CASE view.phase = "applying" /\ calls[c].phase = "apply"
    BY <1>4, <2>2, AfterApplyType DEF Take
  <2>3. CASE view.phase # "planning" /\ ~(view.phase = "applying" /\ calls[c].phase = "apply")
    BY <1>4, <2>3 DEF Take
  <2>4. QED
    BY <2>1, <2>2, <2>3
<1>6. QED
  BY <1>2, <1>3, <1>5, CallStep

LEMMA ReviewKeeps ==
    ASSUME ReviewInv, NextReview, UNCHANGED version
    PROVE  ReviewInv'
<1>1. ASSUME NEW p \in Permission, Tick(p) PROVE ReviewInv'
  <2>1. view' \in View /\ Honest(view') /\ view'.request = view.request /\ view'.phase = view.phase
    BY <1>1 DEF Tick, ReviewInv, View, Honest
  <2>2. QED
    BY <1>1, <2>1, ScreenStep DEF Tick, ReviewInv
<1>2. ASSUME NEW p \in Permission, Untick(p) PROVE ReviewInv'
  <2>1. view' \in View /\ Honest(view') /\ view'.request = view.request /\ view'.phase = view.phase
    BY <1>2 DEF Untick, ReviewInv, View, Honest
  <2>2. QED
    BY <1>2, <2>1, ScreenStep DEF Untick, ReviewInv
<1>3. ASSUME NEW yes \in BOOLEAN, ConfirmDanger(yes) PROVE ReviewInv'
  <2>1. view' \in View /\ Honest(view') /\ view'.request = view.request /\ view'.phase = view.phase
    BY <1>3 DEF ConfirmDanger, ReviewInv, View, Honest
  <2>2. QED
    BY <1>3, <2>1, ScreenStep DEF ConfirmDanger, ReviewInv
<1>4. ASSUME SubmitApply PROVE ReviewInv'
  <2>1. view \in View /\ Honest(view) /\ view.request \in Request /\ CanApply
    BY <1>4 DEF SubmitApply, CanApply, ReviewInv
  <2>2. Good(NewCall("apply", view.request, view.plan, view.granted,
                     [plan |-> view.plan, ticked |-> view.ticked, sworn |-> view.sworn]))
    BY <2>1, ApplyCallGood
  <2>3. view' \in View /\ Honest(view') /\ view'.request = view.request
    BY <1>4, <2>1 DEF SubmitApply, View, Honest, Phases
  <2>4. QED
    BY <1>4, <2>1, <2>2, <2>3, AppendStep DEF SubmitApply
<1>5. ASSUME Reset PROVE ReviewInv'
  <2>1. Idle.phase = "idle"
    BY DEF Idle
  <2>2. QED
    BY <1>5, <2>1, IdleType, ScreenStep DEF Reset
<1>6. ASSUME NEW c \in DOMAIN calls, Receive(c) PROVE ReviewInv'
  <2>1. calls[c] \in Call
    BY DEF ReviewInv
  <2>2. calls[c].answer \in Reply
    BY <2>1 DEF Call
  <2>3. QED
    BY <1>6, <2>2, TakeKeeps DEF Receive
<1>7. ASSUME NEW c \in DOMAIN calls, LoseAnswer(c) PROVE ReviewInv'
  BY <1>7, NothingType, TakeKeeps DEF LoseAnswer
<1>8. QED
  BY <1>1, <1>2, <1>3, <1>4, <1>5, <1>6, <1>7 DEF NextReview
\* A call the server has answered without an engine's having applied anything.
LEMMA AnswersKeeps ==
    ASSUME ReviewInv, NEW c \in DOMAIN calls, calls[c].stage # "answered",
           NEW a \in Reply, Answers(c, a)
    PROVE  ReviewInv'
<1>1. Good(calls[c])
  BY DEF ReviewInv, Good
<1>2. Good([Answered(calls[c], a) EXCEPT !.seen = NothingSeen])
  BY <1>1, AnsweredGood
<1>3. calls' = [calls EXCEPT ![c] = [Answered(calls[c], a) EXCEPT !.seen = NothingSeen]]
  BY DEF Answers
<1>4. /\ view' = view /\ version' = version /\ view \in View /\ Honest(view)
      /\ view.phase # "idle" => view.request \in Request
  BY DEF Answers, ReviewInv
<1>5. QED
  BY <1>2, <1>3, <1>4, CallStep

\* What the server knows of a call.
LEMMA PlanOfNow ==
    ASSUME ReviewInv, NEW c \in DOMAIN calls
    PROVE  /\ calls[c] \in Call /\ calls[c].request \in Request
           /\ version[calls[c].request] \in 1 .. MaxVersion
           /\ PlanNow(c) \in Plan
           /\ Required(c) \in SUBSET Permission /\ Missing(c) \in SUBSET Permission
<1>1. calls[c] \in Call
  BY DEF ReviewInv
<1>2. calls[c].request \in Request
  BY <1>1 DEF Call
<1>3. version[calls[c].request] \in 1 .. MaxVersion
  BY <1>2 DEF ReviewInv, GatewayTypeOK
<1>4. Required(c) \in SUBSET Permission
  BY <1>2, <1>3, NeedsAssumption DEF Required
<1>5. QED
  BY <1>1, <1>2, <1>3, <1>4 DEF PlanNow, Plan, Missing

LEMMA ReplyType ==
    ASSUME NEW status \in Nat, NEW plan \in Plan,
           NEW required \in SUBSET Permission, NEW missing \in SUBSET Permission
    PROVE  Answer(status, plan, required, missing) \in Reply
  BY DEF Answer, Reply

LEMMA PublishKeeps ==
    ASSUME ReviewInv, NEW r \in Request, Publish(r)
    PROVE  ReviewInv'
<1>1. version' \in [Request -> 1 .. MaxVersion]
  BY ReviewAssumption DEF Publish, ReviewInv, GatewayTypeOK
<1>2. /\ view' = view /\ calls' = calls /\ Honest(view)' /\ (view.phase # "idle" => view.request \in Request)'
      /\ (view \in View)'
  BY DEF Publish, ReviewInv, Honest
<1>3. (\A c \in DOMAIN calls : Carries(calls[c]))'
  BY <1>2 DEF ReviewInv, Carries, Reviewed
<1>4. QED
  BY <1>1, <1>2, <1>3 DEF ReviewInv, GatewayTypeOK

LEMMA AcceptKeeps ==
    ASSUME ReviewInv, NEW c \in DOMAIN calls, AcceptApply(c)
    PROVE  ReviewInv'
<1> DEFINE now == version[calls[c].request]
           after == [calls[c] EXCEPT !.stage = "planned", !.fixed = now]
<1>1. now \in 1 .. MaxVersion /\ Good(calls[c])
  BY PlanOfNow DEF ReviewInv, Good
<1>2. calls[c].stage = "sent" /\ calls[c].phase = "apply" /\ calls[c].digest = [request |-> calls[c].request, version |-> now]
  BY DEF AcceptApply, DigestMatches, PlanNow
<1>3. Good(after)
  <2>1. Needs(calls[c].request, now) \subseteq calls[c].authorized
    BY DEF AcceptApply, Missing, Required
  <2>2. QED
    BY <1>1, <1>2, <2>1, AcceptedGood
<1>4. calls' = [calls EXCEPT ![c] = after] /\ UNCHANGED <<view, version>>
  BY DEF AcceptApply
<1>5. view \in View /\ Honest(view) /\ (view.phase # "idle" => view.request \in Request)
  BY DEF ReviewInv
<1> HIDE DEF after
<1>6. QED
  BY <1>3, <1>4, <1>5, CallStep

\* The report of an engine.
LEMMA ReportType ==
    ASSUME ReviewInv, NEW c \in DOMAIN calls, calls[c].stage = "planned"
    PROVE  Report(c) \in Reply /\ calls[c].fixed \in 1 .. MaxVersion
<1> DEFINE call == calls[c]
<1>1. call \in Call /\ Carries(call) /\ call.request \in Request
  BY PlanOfNow DEF ReviewInv
<1>2. call.digest \in Plan /\ call.fixed \in 1 .. MaxVersion
  BY <1>1, ReviewAssumption DEF Call, Carries
<1>3. Needs(call.request, call.fixed) \in SUBSET Permission
  BY <1>1, <1>2, NeedsAssumption
<1>4. QED
  BY <1>2, <1>3, ReplyType DEF Report

LEMMA ApplyKeeps ==
    ASSUME ReviewInv, NEW c \in DOMAIN calls, Apply(c)
    PROVE  ReviewInv'
<1> DEFINE applied == [Answered(calls[c], Report(c)) EXCEPT !.did = Fetched(c)]
<1>1. Good(calls[c]) /\ calls[c].stage = "planned"
  BY DEF ReviewInv, Good, Apply
<1>2. Report(c) \in Reply /\ calls[c].fixed \in 1 .. MaxVersion
  BY <1>1, ReportType
<1>3. /\ Fetched(c) \in 0 .. MaxVersion
      /\ calls[c].request \in Pinned => Fetched(c) = calls[c].fixed
  BY <1>2, PlanOfNow, ReviewAssumption DEF Fetched
<1>4. \A p \in Needs(calls[c].request, Fetched(c)) : Allows(calls[c].authorized, p)
  BY DEF Apply, PromptsAuthorized
<1>5. Good(applied)
  BY <1>1, <1>2, <1>3, <1>4, AppliedGood
<1>6. calls' = [calls EXCEPT ![c] = applied] /\ UNCHANGED <<view, version>>
  BY DEF Apply
<1>7. view \in View /\ Honest(view) /\ (view.phase # "idle" => view.request \in Request)
  BY DEF ReviewInv
<1> HIDE DEF applied
<1>8. QED
  BY <1>5, <1>6, <1>7, CallStep

LEMMA GatewayKeeps ==
    ASSUME ReviewInv, NextGateway
    PROVE  ReviewInv'
<1>1. ASSUME NEW c \in DOMAIN calls
      PROVE  /\ Answer(200, NoPlan, {}, {}) \in Reply
             /\ Answer(500, NoPlan, {}, {}) \in Reply
             /\ Answer(200, PlanNow(c), Required(c), Missing(c)) \in Reply
             /\ Answer(403, PlanNow(c), Required(c), Missing(c)) \in Reply
             /\ Answer(409, PlanNow(c), Required(c), {}) \in Reply
  BY <1>1, NoPlanType, PlanOfNow, ReplyType
<1>2. ASSUME NEW r \in Request, Publish(r) PROVE ReviewInv'
  BY <1>2, PublishKeeps
<1>3. ASSUME NEW c \in DOMAIN calls, PlanRefused(c) PROVE ReviewInv'
  BY <1>1, <1>3, AnswersKeeps DEF PlanRefused
<1>4. ASSUME NEW c \in DOMAIN calls, AnswerPlan(c) PROVE ReviewInv'
  BY <1>1, <1>4, AnswersKeeps DEF AnswerPlan
<1>5. ASSUME NEW c \in DOMAIN calls, AnswerForbidden(c) PROVE ReviewInv'
  BY <1>1, <1>5, AnswersKeeps DEF AnswerForbidden
<1>6. ASSUME NEW c \in DOMAIN calls, AnswerChanged(c) PROVE ReviewInv'
  BY <1>1, <1>6, AnswersKeeps DEF AnswerChanged
<1>7. ASSUME NEW c \in DOMAIN calls, EngineThrows(c) PROVE ReviewInv'
  <2>1. calls[c].stage # "answered"
    BY <1>7 DEF EngineThrows
  <2>2. QED
    BY <1>1, <1>7, <2>1, AnswersKeeps DEF EngineThrows
<1>8. ASSUME NEW c \in DOMAIN calls, AcceptApply(c) PROVE ReviewInv'
  BY <1>8, AcceptKeeps
<1>9. ASSUME NEW c \in DOMAIN calls, Apply(c) PROVE ReviewInv'
  BY <1>9, ApplyKeeps
<1>10. ASSUME NEW c \in DOMAIN calls, Decline(c) PROVE ReviewInv'
  <2>1. calls[c].stage # "answered" /\ Report(c) \in Reply
    BY <1>10, ReportType DEF Decline
  <2>2. QED
    BY <1>10, <2>1, AnswersKeeps DEF Decline
<1>11. QED
  BY <1>2, <1>3, <1>4, <1>5, <1>6, <1>7, <1>8, <1>9, <1>10 DEF NextGateway

LEMMA ReviewStarts == Init => ReviewInv
<1>1. SUFFICES ASSUME Init PROVE ReviewInv
  OBVIOUS
<1>2. view = Idle /\ calls = << >> /\ version = [r \in Request |-> 1]
  BY <1>1 DEF Init, ReviewInit, GatewayInit
<1>3. Idle.phase = "idle"
  BY DEF Idle
<1>4. QED
  BY <1>2, <1>3, IdleType, ReviewAssumption DEF ReviewInv, GatewayTypeOK

LEMMA ReviewHolds == ReviewInv /\ [Next]_vars => ReviewInv'
<1>1. SUFFICES ASSUME ReviewInv, [Next]_vars PROVE ReviewInv'
  OBVIOUS
<1>2. view \in View /\ Honest(view) /\ (view.phase # "idle" => view.request \in Request)
  BY <1>1 DEF ReviewInv
<1>3. ASSUME UNCHANGED <<view, calls, version>> PROVE ReviewInv'
  BY <1>1, <1>2, <1>3, ScreenStep
<1>4. ASSUME NEW r \in Request, SubmitPlan(r), UNCHANGED version PROVE ReviewInv'
  BY <1>1, <1>4, SubmitPlanKeeps
<1>5. ASSUME NextReview, UNCHANGED version PROVE ReviewInv'
  BY <1>1, <1>5, ReviewKeeps
<1>6. ASSUME NextGateway PROVE ReviewInv'
  BY <1>1, <1>6, GatewayKeeps
<1>7. ASSUME InstallComposition, UNCHANGED version PROVE ReviewInv'
  BY <1>4, <1>7, CompositionAssumption DEF InstallComposition
<1>8. CASE Next
  BY <1>3, <1>4, <1>5, <1>6, <1>7, <1>8 DEF Next
<1>9. CASE UNCHANGED vars
  BY <1>3, <1>9 DEF vars
<1>10. QED
  BY <1>1, <1>8, <1>9

(***************************************************************************)
(* What an engine applied is what a user reviewed, whatever the requests,  *)
(* the permissions they need and the versions they pass through: at the    *)
(* click the plan, the ticks and the confirmation on screen went into the  *)
(* call, the server accepted them only for the plan of that moment, and    *)
(* the engine uses nothing that those of the call do not allow.            *)
(***************************************************************************)
THEOREM AppliesWhatWasSeen == Spec => []AppliesOnlyWhatWasReviewed
<1>1. ReviewInv => AppliesOnlyWhatWasReviewed
  BY DEF ReviewInv, AppliesOnlyWhatWasReviewed, Carries, Reviewed
<1>2. QED
  BY <1>1, ReviewStarts, ReviewHolds, PTL DEF Spec

-----------------------------------------------------------------------------
(* The form *)

Shaped(f) == f = [part \in {"profile", "from", "pick", "resolution"} |-> f[part]]

(***************************************************************************)
(* The preview on screen and the latest one asked for, unless an edit came *)
(* in between, are of the form as it is; a resolution is there only while  *)
(* the skill is ticked of every source.                                    *)
(***************************************************************************)
FormInv ==
    /\ Shaped(form)
    /\ lastAsked \in Nat
    /\ \A p \in asked : p.revision \in Nat /\ p.id \in Nat
    /\ revision \in Nat
    /\ \A p \in asked : p.id <= lastAsked
    /\ \A p \in asked : p.revision <= revision
    /\ \A p, q \in asked : p.id = q.id => p = q
    /\ \A p \in asked : IsCurrent(p) => p.of = form
    /\ preview.ok => preview.of = form
    /\ form.resolution # "none" => \A s \in Source : form.pick[s] = "skill"

LEMMA FormStarts == Init => FormInv
<1>1. SUFFICES ASSUME FormInit PROVE FormInv
  BY DEF Init
<1>2. Shaped(form)
  BY <1>1 DEF FormInit, Shaped
<1>3. form.resolution = "none" /\ preview.ok = FALSE
  BY <1>1 DEF FormInit, NoPreview
<1>4. QED
  BY <1>1, <1>2, <1>3 DEF FormInit, FormInv

\* An edit, whatever it makes of the form, leaves no answer under way that would count.
LEMMA EditKeeps ==
    ASSUME FormInv, Invalidate, Shaped(form'),
           form'.resolution # "none" => \A s \in Source : form'.pick[s] = "skill"
    PROVE  FormInv'
<1>1. preview'.ok = FALSE
  BY DEF Invalidate, NoPreview
<1>2. revision' = revision + 1 /\ lastAsked' = lastAsked /\ asked' = asked
  BY DEF Invalidate
<1>3. \A p \in asked : p.revision # revision + 1
  BY DEF FormInv
<1>4. (\A p \in asked : IsCurrent(p) => p.of = form)'
  BY <1>2, <1>3 DEF IsCurrent
<1>5. (\A p \in asked : p.revision <= revision)'
  BY <1>2 DEF FormInv
<1>6. QED
  BY <1>1, <1>2, <1>4, <1>5 DEF FormInv

LEMMA EditFormKeeps ==
    ASSUME FormInv, EditForm
    PROVE  FormInv'
<1>1. /\ Shaped(form)
      /\ form.resolution # "none" => \A s \in Source : form.pick[s] = "skill"
  BY DEF FormInv
<1>2. ASSUME EditProfile PROVE FormInv'
  <2>1. Shaped(form') /\ form'.resolution = form.resolution /\ form'.pick = form.pick
    BY <1>1, <1>2 DEF EditProfile, Shaped
  <2>2. QED
    BY <1>1, <1>2, <2>1, EditKeeps DEF EditProfile
<1>3. ASSUME NEW s \in Source, EditAddress(s) PROVE FormInv'
  <2>1. Shaped(form') /\ form'.resolution = "none"
    BY <1>1, <1>3 DEF EditAddress, Shaped
  <2>2. QED
    BY <1>3, <2>1, EditKeeps DEF EditAddress
<1>4. ASSUME NEW s \in Source, Pick(s) PROVE FormInv'
  <2>1. Shaped(form') /\ form'.resolution = "none"
    BY <1>1, <1>4 DEF Pick, Shaped
  <2>2. QED
    BY <1>4, <2>1, EditKeeps DEF Pick
<1>5. ASSUME NEW choice \in Resolutions, Resolve(choice) PROVE FormInv'
  <2>1. Shaped(form') /\ form'.pick = form.pick
    BY <1>1, <1>5 DEF Resolve, Shaped
  <2>2. \A s \in Source : form.pick[s] = "skill"
    BY <1>5 DEF Resolve, Clashes
  <2>3. QED
    BY <1>5, <2>1, <2>2, EditKeeps DEF Resolve
<1>6. QED
  BY <1>2, <1>3, <1>4, <1>5 DEF EditForm

LEMMA AskKeeps ==
    ASSUME FormInv, AskPreview
    PROVE  FormInv'
<1> DEFINE new == [of |-> form, revision |-> revision, id |-> lastAsked + 1]
<1>1. /\ asked' = asked \cup {new} /\ lastAsked' = lastAsked + 1
      /\ UNCHANGED <<form, preview, revision>>
  BY DEF AskPreview
<1>2. new.revision \in Nat /\ new.id \in Nat
  BY DEF FormInv
<1>3. (\A p \in asked : p.revision \in Nat /\ p.id \in Nat)'
  BY <1>1, <1>2 DEF FormInv
<1>4. /\ \A p \in asked : p.id <= lastAsked /\ p.id \in Nat /\ p.revision <= revision
      /\ lastAsked \in Nat /\ revision \in Nat
  BY DEF FormInv
<1>5. \A p \in asked : p.id # lastAsked + 1 /\ p.id <= lastAsked + 1
  BY <1>4
<1>6. new.id = lastAsked + 1 /\ new.of = form /\ new.revision = revision
  OBVIOUS
<1>7. (\A p, q \in asked : p.id = q.id => p = q)'
  BY <1>1, <1>5, <1>6 DEF FormInv
<1>8. (\A p \in asked : IsCurrent(p) => p.of = form)'
  BY <1>1, <1>5, <1>6 DEF IsCurrent
<1>9. (\A p \in asked : p.id <= lastAsked)' /\ (\A p \in asked : p.revision <= revision)'
  BY <1>1, <1>4, <1>5, <1>6
<1>10. QED
  BY <1>1, <1>3, <1>4, <1>7, <1>8, <1>9 DEF FormInv

LEMMA AnswerPreviewKeeps ==
    ASSUME FormInv, NEW p \in asked, NEW offered \in SUBSET Source,
           NEW unlicensed \in BOOLEAN, NEW lost \in BOOLEAN,
           AnswerPreview(p, offered, unlicensed, lost)
    PROVE  FormInv'
<1> DEFINE ok == ~lost /\ Composes(p.of, offered)
           found == IF ok THEN offered ELSE {}
<1>1. asked' = asked \ {p} /\ UNCHANGED <<revision, lastAsked>>
  BY DEF AnswerPreview
<1>2. CASE ~IsCurrent(p)
  <2>1. UNCHANGED <<form, preview>>
    BY <1>2 DEF AnswerPreview
  <2>2. QED
    BY <1>1, <2>1 DEF FormInv, IsCurrent
<1>3. CASE IsCurrent(p)
  <2>1. /\ preview'.of = form /\ preview'.ok = ok
        /\ form' = [form EXCEPT !.resolution = IF Clashes(form, found) THEN @ ELSE "none"]
    BY <1>3 DEF AnswerPreview, FormInv
  <2>2. Shaped(form) /\ p.of = form
    BY <1>3 DEF FormInv
  <2>3. /\ Shaped(form') /\ form'.pick = form.pick
        /\ form'.resolution # "none" => form.resolution # "none"
    BY <2>1, <2>2 DEF Shaped
  <2>4. ASSUME ok PROVE form' = form
    <3>1. CASE form.resolution = "none"
      BY <2>1, <2>2, <3>1 DEF Shaped
    <3>2. CASE form.resolution # "none"
      <4>1. Clashes(form, found)
        BY <2>2, <2>4, <3>2 DEF FormInv, Composes, Clashes
      <4>2. QED
        BY <2>1, <2>2, <4>1 DEF Shaped
    <3>3. QED
      BY <3>1, <3>2
  <2>5. \A q \in asked' : ~IsCurrent(q)
    BY <1>1, <1>3 DEF FormInv, IsCurrent
  <2>6. (\A q \in asked : IsCurrent(q) => q.of = form)'
    BY <1>1, <2>5 DEF IsCurrent
  <2>7. (preview.ok => preview.of = form)'
    BY <2>1, <2>4
  <2>8. (form.resolution # "none" => \A s \in Source : form.pick[s] = "skill")'
    BY <2>3 DEF FormInv
  <2>9. QED
    BY <1>1, <2>3, <2>6, <2>7, <2>8 DEF FormInv
<1>4. QED
  BY <1>2, <1>3

LEMMA FormHolds == FormInv /\ [Next]_vars => FormInv'
<1>1. SUFFICES ASSUME FormInv, [Next]_vars PROVE FormInv'
  OBVIOUS
<1>2. ASSUME UNCHANGED <<form, preview, revision, lastAsked, asked>> PROVE FormInv'
  BY <1>1, <1>2 DEF FormInv, IsCurrent
<1>3. CASE UNCHANGED formVars
  BY <1>2, <1>3 DEF formVars
<1>4. CASE NextForm
  <2>1. ASSUME NEW starts \in BOOLEAN, Compose(starts) PROVE FormInv'
    BY <1>2, <2>1 DEF Compose
  <2>2. ASSUME NEW yes \in BOOLEAN, Acknowledge(yes) PROVE FormInv'
    BY <1>2, <2>2 DEF Acknowledge
  <2>3. QED
    BY <1>1, <1>4, <2>1, <2>2, EditFormKeeps, AskKeeps, AnswerPreviewKeeps DEF NextForm
<1>5. QED
  BY <1>1, <1>3, <1>4 DEF Next, vars

(***************************************************************************)
(* For any two sources, any edits and any order of answers, the install    *)
(* button works only for a form the server has composed: an edit outdates  *)
(* the answers under way by the revision, a later question by the number   *)
(* of the request, and an answer that counts clears a resolution only when *)
(* it refuses the form.                                                    *)
(***************************************************************************)
THEOREM InstallsTheFormPreviewed == Spec => []InstallsWhatWasPreviewed
<1>1. FormInv => InstallsWhatWasPreviewed
  BY DEF FormInv, InstallsWhatWasPreviewed, InstallReady
<1>2. QED
  BY <1>1, FormStarts, FormHolds, PTL DEF Spec
=============================================================================
