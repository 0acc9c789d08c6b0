---------------------------- MODULE SettingsEdit ----------------------------
(***************************************************************************)
(* The four edits of settings.yaml, as functions of the document:          *)
(*   cas     compareAndSwapText: the planned text over the planned text    *)
(*   move    compareAndMoveText: the planned text into a backup            *)
(*   select  updateSelectedPreset: agent-presets.selected, as reviewed     *)
(*   merge   updateAgentPresets: the whole agent-presets namespace         *)
(* A document is what the edits tell apart: the selected preset, the rest  *)
(* of agent-presets, the other namespaces.                                 *)
(***************************************************************************)
CONSTANTS
    Writers,  \* the processes that edit settings.yaml, one call each
    Kind,     \* Kind[p]: the edit p makes
    Choice    \* Choice[p]: the preset p selects, or the section it writes

ASSUME KindAssumption == Kind \in [Writers -> {"cas", "move", "select", "merge"}]

Stamp == {"none", "initial"} \cup {Choice[p] : p \in Writers}
Document == [selected: Stamp, rest: Stamp, other: Stamp]
Missing == [selected |-> "none", rest |-> "none", other |-> "none"]
Initial == [selected |-> "initial", rest |-> "initial", other |-> "initial"]

\* Only a file that is there can be moved away.
SomethingToMove(p, doc) == Kind[p] = "move" => doc # Missing

\* p, who planned on `planned`, finds `doc` and changes nothing.
Declines(p, planned, doc) ==
    \/ Kind[p] \in {"cas", "move"} /\ doc # planned
    \/ /\ Kind[p] = "select"
       /\ doc.selected # planned.selected \/ doc.selected = Choice[p]

\* What p leaves behind where it found `doc`.  The text of a swap was rendered at
\* planning time, from the document of that time.
Edited(p, planned, doc) ==
    CASE Kind[p] = "cas"    -> [planned EXCEPT !.selected = Choice[p], !.rest = Choice[p]]
      [] Kind[p] = "move"   -> Missing
      [] Kind[p] = "select" -> [doc EXCEPT !.selected = Choice[p]]
      [] Kind[p] = "merge"  -> [doc EXCEPT !.selected = Choice[p], !.rest = Choice[p]]
=============================================================================
