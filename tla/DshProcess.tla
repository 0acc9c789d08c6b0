----------------------------- MODULE DshProcess -----------------------------
(***************************************************************************)
(* One call of runDsh (packages/cli/src/adapters/process.ts): look dsh up  *)
(* in PATH, run it as a direct child, fall back to npx when the command is *)
(* missing, write the log, answer.  Four things race: the child's exit,    *)
(* the close of its output (a descendant may keep it open), the two timers *)
(* (Execa's own, and the guard 250 ms later), and an interruption by       *)
(* Ctrl+C or by the transaction's abort signal.                            *)
(***************************************************************************)
EXTENDS Integers

CONSTANT MaxInterrupts  \* bound: Ctrl+C or abort, counted together

VARIABLES
    pc,         \* where the call is
    bounded,    \* BOOLEAN: options.timeout > 0
    launcher,   \* the command of the running or last attempt
    child,      \* the direct child
    output,     \* its output pipes: "open" while any descendant holds them
    told,       \* BOOLEAN: SIGTERM was sent to the child
    timer,      \* the two timers of the attempt
    attempt,    \* what the last attempt reported
    reason,     \* interruptionReason
    first,      \* the first interruption or time-out the event loop saw
    interrupts, \* interruptions so far
    outcome     \* what the caller gets

vars == <<pc, bounded, launcher, child, output, told, timer, attempt, reason,
          first, interrupts, outcome>>
childVars == <<launcher, child, output, told, timer>>

ASSUME MaxInterruptsAssumption == MaxInterrupts \in 0 .. 10

Reasons == {"none", "signal", "timeout"}
NoAttempt == [failed |-> FALSE, missing |-> FALSE, timedOut |-> FALSE]
Attempt == [failed: BOOLEAN, missing: BOOLEAN, timedOut: BOOLEAN]
Pending == [kind |-> "pending", reason |-> "none"]

TypeOK ==
    /\ pc \in {"start", "lookup", "running", "logging", "done"}
    /\ bounded \in BOOLEAN
    /\ launcher \in {"none", "path", "npx"}
    /\ child \in {"none", "missing", "alive", "succeeded", "failed"}
    /\ output \in {"open", "closed"}
    /\ told \in BOOLEAN
    /\ timer \in {"off", "armed", "execa", "guard"}
    /\ attempt \in Attempt
    /\ reason \in Reasons
    /\ first \in Reasons
    /\ interrupts \in 0 .. MaxInterrupts
    /\ outcome \in [kind: {"pending", "result", "error", "log-error"}, reason: Reasons]

Init ==
    /\ pc = "start"
    /\ bounded \in BOOLEAN
    /\ launcher = "none" /\ child = "none" /\ output = "closed" /\ told = FALSE
    /\ timer = "off"
    /\ attempt = NoAttempt
    /\ reason = "none" /\ first = "none"
    /\ interrupts = 0
    /\ outcome = Pending

\* Mutant of Marked: the last reason wins.
MarkedLast(why) == why

\* markInterrupted: the first reason stands.
Marked(why) == IF reason = "none" THEN why ELSE reason
Mark(why) == reason' = Marked(why)
\* What the handlers were told first, whatever they make of it.
See(why) == first' = IF first = "none" THEN why ELSE first

-----------------------------------------------------------------------------
(* The call *)

\* The listeners are on; an aborted signal ends the call before anything is spawned.
Begin ==
    /\ pc = "start"
    /\ pc' = "lookup"
    /\ UNCHANGED <<bounded, childVars, attempt, reason, first, interrupts, outcome>>

BeginAborted ==
    /\ pc = "start" /\ interrupts < MaxInterrupts
    /\ interrupts' = interrupts + 1
    /\ Mark("signal") /\ See("signal")
    /\ attempt' = [NoAttempt EXCEPT !.failed = TRUE]
    /\ pc' = "logging"
    /\ UNCHANGED <<bounded, childVars, outcome>>

\* execa(): the child starts, or the command is not there after all.
Spawn(command) ==
    /\ launcher' = command
    /\ told' = FALSE
    /\ \/ child' = "alive" /\ output' = "open"
       \/ child' = "missing" /\ output' = "closed"
    /\ timer' = IF bounded THEN "armed" ELSE "off"
    /\ pc' = "running"

\* Mutant of FallsBack: npx is tried whenever dsh is missing.
FallsBackAlways(result, why) == result.failed /\ result.missing

\* Whether a failed first attempt is retried with npx.
FallsBack(result, why) == result.failed /\ why = "none" /\ result.missing

LookupInterrupted ==
    /\ pc = "lookup" /\ reason # "none"
    /\ attempt' = [NoAttempt EXCEPT !.failed = TRUE]
    /\ pc' = "logging"
    /\ UNCHANGED <<bounded, childVars, reason, first, interrupts, outcome>>

LookupFinds ==
    /\ pc = "lookup" /\ reason = "none"
    /\ Spawn("path")
    /\ UNCHANGED <<bounded, attempt, reason, first, interrupts, outcome>>

LookupMisses ==
    /\ pc = "lookup" /\ reason = "none"
    /\ attempt' = [failed |-> TRUE, missing |-> TRUE, timedOut |-> FALSE]
    /\ FallsBack(attempt', reason)
    /\ Spawn("npx")
    /\ UNCHANGED <<bounded, reason, first, interrupts, outcome>>

\* The attempt is over: retry with npx, or write the log.
AfterAttempt(result, why) ==
    \/ /\ launcher = "path" /\ FallsBack(result, why)
       /\ Spawn("npx")
    \/ /\ ~(launcher = "path" /\ FallsBack(result, why))
       /\ pc' = "logging"
       /\ timer' = "off"
       /\ UNCHANGED <<launcher, child, output, told>>

\* Execa's promise: the child has ended and nobody holds its output any more.
Ended == child \in {"missing", "succeeded", "failed"} /\ output = "closed"
Result == [failed |-> child # "succeeded" \/ timer = "execa",
           missing |-> child = "missing",
           timedOut |-> timer = "execa"]

Settle ==
    /\ pc = "running" /\ Ended
    /\ attempt' = Result
    /\ IF Result.timedOut THEN Mark("timeout") /\ See("timeout")
                          ELSE UNCHANGED <<reason, first>>
    /\ AfterAttempt(Result, reason')
    /\ UNCHANGED <<bounded, interrupts, outcome>>

\* Mutant of GuardFires: the guard waits for the output as well.
GuardWaits ==
    /\ pc = "running" /\ timer = "execa" /\ Ended
    /\ Mark("timeout") /\ See("timeout")
    /\ told' = TRUE
    /\ attempt' = [failed |-> TRUE, missing |-> FALSE, timedOut |-> TRUE]
    /\ timer' = "guard"
    /\ pc' = "logging"
    /\ UNCHANGED <<bounded, launcher, child, output, interrupts, outcome>>

\* The guard timer: the answer no longer waits for the output to close.
GuardFires ==
    /\ pc = "running" /\ timer = "execa"
    /\ Mark("timeout") /\ See("timeout")
    /\ told' = TRUE
    /\ attempt' = [failed |-> TRUE, missing |-> FALSE, timedOut |-> TRUE]
    /\ timer' = "guard"
    /\ pc' = "logging"
    /\ UNCHANGED <<bounded, launcher, child, output, interrupts, outcome>>

\* Execa's promise settles after the guard answered; its callback still runs.
SettleLate ==
    /\ timer = "guard" /\ Ended
    /\ Mark("timeout")
    /\ timer' = "off"
    /\ UNCHANGED <<pc, bounded, launcher, child, output, told, attempt, first, interrupts, outcome>>

\* persistLog fails, and that is what the caller gets.
LogFails ==
    /\ pc = "logging"
    /\ outcome' = [kind |-> "log-error", reason |-> reason]
    /\ pc' = "done"
    /\ UNCHANGED <<bounded, childVars, attempt, reason, first, interrupts>>

\* failureDetails: an interruption is reported whatever the child did.
Report == IF attempt.failed \/ reason # "none" THEN [kind |-> "error", reason |-> reason]
          ELSE [kind |-> "result", reason |-> "none"]

Answer ==
    /\ pc = "logging"
    /\ outcome' = Report
    /\ pc' = "done"
    /\ UNCHANGED <<bounded, childVars, attempt, reason, first, interrupts>>

-----------------------------------------------------------------------------
(* What races with it *)

\* Mutant of Interrupt: the call goes on at once and the child is not told.
InterruptWithoutKill ==
    /\ pc \in {"lookup", "running", "logging"} /\ interrupts < MaxInterrupts
    /\ interrupts' = interrupts + 1
    /\ Mark("signal") /\ See("signal")
    /\ pc' = IF pc = "running" THEN "logging" ELSE pc
    /\ UNCHANGED <<bounded, launcher, child, output, told, timer, attempt, outcome>>

\* Ctrl+C or abort, while the listeners are on: only the direct child is told.
Interrupt ==
    /\ pc \in {"lookup", "running", "logging"} /\ interrupts < MaxInterrupts
    /\ interrupts' = interrupts + 1
    /\ Mark("signal") /\ See("signal")
    /\ told' = (told \/ (reason = "none" /\ pc = "running"))
    /\ UNCHANGED <<pc, bounded, launcher, child, output, timer, attempt, outcome>>

\* Execa's own timer stops the direct child.
ExecaTimesOut ==
    /\ pc = "running" /\ timer = "armed" /\ ~Ended
    /\ timer' = "execa"
    /\ told' = TRUE
    /\ UNCHANGED <<pc, bounded, launcher, child, output, attempt, reason, first,
                   interrupts, outcome>>

\* The child ends, by itself or because it was told; it may also ignore that.
ChildEnds(how) ==
    /\ child = "alive"
    /\ child' = how
    /\ UNCHANGED <<pc, bounded, launcher, output, told, timer, attempt, reason, first,
                   interrupts, outcome>>

OutputCloses ==
    /\ output = "open" /\ child \in {"succeeded", "failed"}
    /\ output' = "closed"
    /\ UNCHANGED <<pc, bounded, launcher, child, told, timer, attempt, reason, first,
                   interrupts, outcome>>

-----------------------------------------------------------------------------
Next ==
    \/ Begin \/ BeginAborted
    \/ LookupInterrupted \/ LookupFinds \/ LookupMisses
    \/ Settle \/ GuardFires \/ SettleLate
    \/ Answer \/ LogFails
    \/ Interrupt \/ ExecaTimesOut
    \/ \E how \in {"succeeded", "failed"} : ChildEnds(how)
    \/ OutputCloses

Spec == Init /\ [][Next]_vars

\* The event loop runs what is ready and its timers fire; nothing is assumed of
\* the child, of its descendants or of the user.
Fairness ==
    /\ WF_vars(Begin \/ LookupInterrupted \/ LookupFinds \/ LookupMisses)
    /\ WF_vars(Settle \/ GuardFires)
    /\ WF_vars(ExecaTimesOut)
    /\ WF_vars(Answer \/ LogFails)

FairSpec == Spec /\ Fairness

-----------------------------------------------------------------------------
(* Properties *)

\* The answer tells what happened: a result means that the child ended well and that
\* nothing interrupted the call before the log was written; an error carries the first
\* reason the handlers were told, however exit, time-out and Ctrl+C followed each other.
AnswerIsTrue ==
    /\ outcome.kind = "result" => child = "succeeded" /\ first = "none"
    /\ outcome.kind = "error" => outcome.reason = first /\ (first # "none" \/ child # "succeeded")

\* Nobody is abandoned: when the call has answered, its child has ended or was told to.
NoChildForgotten ==
    pc = "done" => child # "alive" \/ told

\* An interrupted call starts no other command: not the one it was looking up, and not
\* npx after a failed dsh.
NothingStartsAfterInterruption ==
    [][launcher' # launcher => first' = "none"]_vars

\* A call with a time-out answers, even if its child ignores SIGTERM and a descendant
\* keeps the output open for ever.
BoundedCallEnds == (bounded /\ pc = "start") ~> (pc = "done")

=============================================================================
