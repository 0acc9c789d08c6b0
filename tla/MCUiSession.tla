---------------------------- MODULE MCUiSession ----------------------------
(* A small UI session for TLC: an install from a branch, and an        *)
(* update, which no commit is named for.                                     *)
EXTENDS UiSession, TLC

CONSTANTS danger, build, early, late, left, right

\* The second version of the branch wants less than the first.  The update was not
\* tested with this version of dsh; a change of its directory is of the range it was
\* tested with, and builds as well.
NeedsOf(r, v) == CASE r = "install" -> IF v = 1 THEN {danger} ELSE {}
                   [] OTHER -> IF v = 1 THEN {early} ELSE {late, build}

Mismatch == {{early, late}}

SourceSymmetry == Permutations({left, right})
=============================================================================
