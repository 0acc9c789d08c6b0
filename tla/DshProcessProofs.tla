-------------------------- MODULE DshProcessProofs --------------------------
(***************************************************************************)
(* Proofs about DshProcess, for any number of interruptions.  The          *)
(* invariant: the reason recorded is the one the handlers were told first, *)
(* no child is there before the command has been looked up, and a call     *)
(* that goes on to its log unhindered knows how its child ended.           *)
(***************************************************************************)
EXTENDS DshProcess, TLAPS

Over == pc \in {"logging", "done"}

\* The recorded reason is the true one; SettleLate, which records without having been
\* told anything, comes after the guard has recorded.
ReasonInv ==
    /\ reason = first
    /\ timer = "guard" => reason # "none"

\* What is known of the child.
ChildInv ==
    /\ pc \in {"start", "lookup"} => child = "none"
    /\ Over => child # "alive" \/ told
    /\ Over /\ reason = "none" =>
          /\ child \in {"missing", "succeeded", "failed"}
          /\ attempt.failed <=> child # "succeeded"

\* What the caller was told.
OutcomeInv ==
    /\ outcome.kind \in {"result", "error"} => pc = "done"
    /\ AnswerIsTrue

DshInv == ReasonInv /\ ChildInv /\ OutcomeInv

-----------------------------------------------------------------------------
LEMMA DshStarts == Init => DshInv
  BY DEF Init, DshInv, ReasonInv, ChildInv, Over, OutcomeInv, AnswerIsTrue, Pending

\* An attempt that reports its result to the log or to npx.
LEMMA SettleKeeps ==
    ASSUME DshInv, Settle
    PROVE  DshInv'
<1> DEFINE timedOut == timer = "execa"
<1>1. /\ pc = "running" /\ child \in {"missing", "succeeded", "failed"}
      /\ attempt'.failed = (child # "succeeded" \/ timedOut) /\ Result.timedOut = timedOut
      /\ outcome' = outcome
  BY DEF Settle, Ended, Result
<1>2. reason = first /\ ~(outcome.kind \in {"result", "error"})
  BY <1>1 DEF DshInv, ReasonInv, OutcomeInv
<1>3. reason' = first' /\ (timedOut => reason' # "none")
  BY <1>1, <1>2 DEF Settle, Mark, See, Marked
<1>4. CASE FallsBack(Result, reason')
  <2>1. (pc' = "running" /\ timer' \in {"armed", "off"}) \/ (pc' = "logging" /\ timer' = "off" /\ child' = child)
    BY <1>4 DEF Settle, AfterAttempt, Spawn
  <2>2. QED
    BY <1>1, <1>2, <1>3, <2>1 DEF DshInv, ReasonInv, ChildInv, Over, OutcomeInv, AnswerIsTrue
<1>5. CASE ~FallsBack(Result, reason')
  <2>1. pc' = "logging" /\ timer' = "off" /\ child' = child
    BY <1>5 DEF Settle, AfterAttempt
  <2>2. QED
    BY <1>1, <1>2, <1>3, <2>1 DEF DshInv, ReasonInv, ChildInv, Over, OutcomeInv, AnswerIsTrue
<1>6. QED
  BY <1>4, <1>5

\* The log is written or not, and the call answers.
LEMMA AnswerKeeps ==
    ASSUME DshInv, Answer \/ LogFails
    PROVE  DshInv'
<1>1. /\ pc = "logging" /\ pc' = "done"
      /\ UNCHANGED <<child, told, timer, attempt, reason, first>>
  BY DEF Answer, LogFails, childVars
<1>2. ReasonInv' /\ ChildInv'
  BY <1>1 DEF DshInv, ReasonInv, ChildInv, Over
<1>3. CASE LogFails
  BY <1>1, <1>2, <1>3 DEF LogFails, DshInv, OutcomeInv, AnswerIsTrue
<1>4. CASE Answer
  <2>1. reason = first /\ (reason = "none" => (attempt.failed <=> child # "succeeded"))
    BY <1>1 DEF DshInv, ReasonInv, ChildInv, Over
  <2>2. outcome' = Report
    BY <1>4 DEF Answer
  <2>3. CASE attempt.failed \/ reason # "none"
    <3>1. outcome'.kind = "error" /\ outcome'.reason = reason
      BY <2>2, <2>3 DEF Report
    <3>2. QED
      BY <1>1, <1>2, <2>1, <2>3, <3>1 DEF DshInv, OutcomeInv, AnswerIsTrue
  <2>4. CASE ~(attempt.failed \/ reason # "none")
    <3>1. outcome'.kind = "result"
      BY <2>2, <2>4 DEF Report
    <3>2. QED
      BY <1>1, <1>2, <2>1, <2>4, <3>1 DEF DshInv, OutcomeInv, AnswerIsTrue
  <2>5. QED
    BY <2>3, <2>4
<1>5. QED
  BY <1>3, <1>4

LEMMA DshHolds == DshInv /\ [Next]_vars => DshInv'
<1>1. SUFFICES ASSUME DshInv, [Next]_vars PROVE DshInv'
  OBVIOUS
<1> USE DEF DshInv, ReasonInv, ChildInv, Over, OutcomeInv, AnswerIsTrue
<1>2. CASE Begin
  BY <1>1, <1>2 DEF Begin, childVars
<1>3. CASE BeginAborted
  BY <1>1, <1>3 DEF BeginAborted, childVars, Mark, Marked, See, NoAttempt
<1>4. CASE LookupInterrupted
  BY <1>1, <1>4 DEF LookupInterrupted, childVars
<1>5. CASE LookupFinds
  BY <1>1, <1>5 DEF LookupFinds, Spawn
<1>6. CASE LookupMisses
  BY <1>1, <1>6 DEF LookupMisses, Spawn
<1>7. CASE GuardFires
  BY <1>1, <1>7 DEF GuardFires, Mark, Marked, See
<1>8. CASE SettleLate
  BY <1>1, <1>8 DEF SettleLate, Mark, Marked
<1>9. CASE Interrupt
  BY <1>1, <1>9 DEF Interrupt, Mark, Marked, See
<1>10. CASE ExecaTimesOut
  BY <1>1, <1>10 DEF ExecaTimesOut
<1>11. ASSUME NEW how \in {"succeeded", "failed"}, ChildEnds(how) PROVE DshInv'
  BY <1>1, <1>11 DEF ChildEnds
<1>12. CASE OutputCloses
  BY <1>1, <1>12 DEF OutputCloses
<1>13. CASE UNCHANGED vars
  BY <1>1, <1>13 DEF vars, childVars
<1>14. CASE Settle \/ Answer \/ LogFails
  BY <1>1, <1>14, SettleKeeps, AnswerKeeps
<1>15. QED
  BY <1>1, <1>2, <1>3, <1>4, <1>5, <1>6, <1>7, <1>8, <1>9, <1>10, <1>11, <1>12, <1>13, <1>14
     DEF Next

\* A command is started only before anything has been recorded.
LEMMA StartsUninterrupted ==
    ASSUME DshInv, [Next]_vars, launcher' # launcher
    PROVE  first' = "none"
<1>1. reason = first
  BY DEF DshInv, ReasonInv
<1>2. LookupFinds \/ LookupMisses \/ Settle
  BY DEF Next, vars, childVars, Begin, BeginAborted, LookupInterrupted, GuardFires, SettleLate,
         Answer, LogFails, Interrupt, ExecaTimesOut, ChildEnds, OutputCloses
<1>3. CASE LookupFinds \/ LookupMisses
  BY <1>1, <1>3 DEF LookupFinds, LookupMisses
<1>4. CASE Settle
  <2>1. reason' = "none"
    BY <1>4 DEF Settle, AfterAttempt, FallsBack
  <2>2. reason' = first'
    BY <1>1, <1>4 DEF Settle, Mark, See, Marked
  <2>3. QED
    BY <2>1, <2>2
<1>5. QED
  BY <1>2, <1>3, <1>4

-----------------------------------------------------------------------------
(* The theorems *)

(***************************************************************************)
(* In whatever order the child's exit, the close of its output, the two    *)
(* timers and any number of interruptions come, the answer is true: a      *)
(* result means a child that ended well and an uninterrupted call, an      *)
(* error carries what the handlers were told first.                        *)
(***************************************************************************)
THEOREM AnswersAreTrue == Spec => []AnswerIsTrue
<1>1. DshInv => AnswerIsTrue
  BY DEF DshInv, OutcomeInv
<1>2. QED
  BY <1>1, DshStarts, DshHolds, PTL DEF Spec

(***************************************************************************)
(* A call that has answered leaves no child running that was not told to   *)
(* end, by Execa's timer, the guard or the interruption.                   *)
(***************************************************************************)
THEOREM ChildrenAreTold == Spec => []NoChildForgotten
<1>1. DshInv => NoChildForgotten
  BY DEF DshInv, ChildInv, Over, NoChildForgotten
<1>2. QED
  BY <1>1, DshStarts, DshHolds, PTL DEF Spec

(***************************************************************************)
(* After an interruption or a time-out neither dsh nor npx is started.     *)
(***************************************************************************)
THEOREM StopsAtInterruption == Spec => NothingStartsAfterInterruption
<1>1. DshInv /\ [Next]_vars => [launcher' # launcher => first' = "none"]_vars
  BY StartsUninterrupted
<1>2. QED
  BY <1>1, DshStarts, DshHolds, PTL DEF Spec, NothingStartsAfterInterruption
=============================================================================
