--------------------------- MODULE MCTransaction ---------------------------
(* Instances of Transaction for TLC: which paths there are and what is above them. *)
EXTENDS Transaction

CONSTANTS skill, settingsFile, generationDir, generationFile, currentFile, marker

\* The immutable generation document and the current pointer of a profile lie in the
\* generations directory; the directories of the other paths are there already.
MCParents ==
    [p \in Path |-> IF p \in {generationFile, currentFile} /\ generationDir \in StateDirs
                    THEN <<generationDir>> ELSE <<>>]

=============================================================================
