------------------------- MODULE MCInstallWorkflow -------------------------
(* Instances of InstallWorkflow for TLC: command lines and packs worth trying. *)
EXTENDS InstallWorkflow, TLC

\* A person at a terminal, with and without --replace --force; scripts with some and
\* with every consent; a script that forgot --yes; a dry run.
CommandLines ==
    { {"interactive"},
      {"interactive", "replace", "force"},
      {"yes", "replace", "force", "allow-unverified"},
      {"yes", "replace", "allow-danger", "allow-mismatch"},
      {"force", "allow-danger"},
      {"replace", "dry-run"} }

\* --allow-build given not at all, for the plugin once or twice, for the dependency.
ApprovalLists ==
    { [n \in Package |-> 0], ("plugin" :> 1) @@ ("dependency" :> 0), ("plugin" :> 2) @@ ("dependency" :> 0),
      ("plugin" :> 1) @@ ("dependency" :> 1) }

Packs == { {}, {"builds", "unverified"}, {"danger", "mismatch"}, {"danger", "mismatch", "builds"} }
=============================================================================
