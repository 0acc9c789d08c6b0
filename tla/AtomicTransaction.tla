-------------------------- MODULE AtomicTransaction --------------------------
(***************************************************************************)
(* What runTransaction promises to the engines that call it, and to the    *)
(* person who finds its journal after a crash: nothing below DSH_HOME is   *)
(* changed that journal.json did not name before, what it has named it     *)
(* never forgets, and a transaction ends committed, undone without a       *)
(* trace, or stuck with a report.  Transaction.tla implements it.          *)
(***************************************************************************)
CONSTANT Path

VARIABLES
    dirty,   \* paths that are not as they were before the transaction
    named,   \* paths an action of journal.json on disk is about
    outcome  \* how it ended

vars == <<dirty, named, outcome>>

Outcomes == {"running", "committed", "undone", "stuck", "crashed"}

TypeOK ==
    /\ dirty \in SUBSET Path
    /\ named \in SUBSET Path
    /\ outcome \in Outcomes

Init == dirty = {} /\ named = {} /\ outcome = "running"

\* Name paths in the journal, change paths it has named already.
Work ==
    /\ outcome = "running"
    /\ named' \in SUBSET Path /\ named \subseteq named'
    /\ dirty' \in SUBSET (dirty \cup named)
    /\ UNCHANGED outcome

End(how) ==
    /\ outcome = "running"
    /\ outcome' = how
    /\ UNCHANGED <<dirty, named>>

Commit == End("committed")
Undone == dirty = {} /\ End("undone")
Crash == End("crashed")

\* The last journal write of a transaction that is stuck may be the first to reach the disk.
Stuck ==
    /\ outcome = "running"
    /\ outcome' = "stuck"
    /\ named' \in SUBSET Path /\ named \subseteq named'
    /\ UNCHANGED dirty

Next == Work \/ Commit \/ Undone \/ Stuck \/ Crash

Spec == Init /\ [][Next]_vars

\* A transaction that ended undone left no trace, and everything that is not as before is
\* named in the journal a person reads.
Atomic ==
    /\ dirty \subseteq named
    /\ outcome = "undone" => dirty = {}
=============================================================================
