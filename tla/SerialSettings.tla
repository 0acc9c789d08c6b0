--------------------------- MODULE SerialSettings ---------------------------
(***************************************************************************)
(* What the writers of settings.yaml promise each other: every call takes  *)
(* effect at one moment, on the document of that moment, or not at all,    *)
(* and its answer tells which.  SettingsLock.tla implements it as long as  *)
(* nobody tampers with a live lock file.                                   *)
(***************************************************************************)
EXTENDS SettingsEdit

VARIABLES
    settings,  \* the document
    planned,   \* planned[p]: the document p planned on, read without a lock
    fate,      \* fate[p]: what became of the edit of p
    answer     \* answer[p]: what the call of p returned

vars == <<settings, planned, fate, answer>>

Answers == {"none", "changed", "declined", "refused", "timeout", "io"}

Init ==
    /\ settings = Initial
    /\ planned = [p \in Writers |-> Missing]
    /\ fate = [p \in Writers |-> "idle"]
    /\ answer = [p \in Writers |-> "none"]

Plan(p) ==
    /\ fate[p] = "idle" /\ SomethingToMove(p, settings)
    /\ fate' = [fate EXCEPT ![p] = "open"]
    /\ planned' = [planned EXCEPT ![p] = settings]
    /\ UNCHANGED <<settings, answer>>

Change(p) ==
    /\ fate[p] = "open" /\ answer[p] = "none"
    /\ ~Declines(p, planned[p], settings)
    /\ settings' = Edited(p, planned[p], settings)
    /\ fate' = [fate EXCEPT ![p] = "changed"]
    /\ UNCHANGED <<planned, answer>>

Decline(p) ==
    /\ fate[p] = "open" /\ answer[p] = "none"
    /\ Declines(p, planned[p], settings)
    /\ fate' = [fate EXCEPT ![p] = "declined"]
    /\ UNCHANGED <<settings, planned, answer>>

\* "refused" and "timeout" promise that nothing was written; "io" promises nothing.
Truthful(p, a) ==
    /\ a = "changed" => fate[p] = "changed"
    /\ a = "declined" => fate[p] = "declined"
    /\ a \in {"refused", "timeout"} => fate[p] = "open"

Answer(p, a) ==
    /\ fate[p] # "idle" /\ answer[p] = "none"
    /\ Truthful(p, a)
    /\ answer' = [answer EXCEPT ![p] = a]
    /\ UNCHANGED <<settings, planned, fate>>

Next == \E p \in Writers :
    \/ Plan(p) \/ Change(p) \/ Decline(p)
    \/ \E a \in Answers \ {"none"} : Answer(p, a)

Spec == Init /\ [][Next]_vars
=============================================================================
