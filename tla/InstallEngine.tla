--------------------------- MODULE InstallEngine ---------------------------
(* install of a pack into a home: what it refuses and what it writes.  The steps before
   the writes, and what may go wrong between them, are in module InstallWorkflow. *)
EXTENDS ManagedHome

\* prepareInstallPlanFromValidated: a profile that is there needs --replace.
InstallRefuses(h, c) ==
    \/ h.disk[c.profile] # Nothing /\ "replace" \notin c.flags
    \/ ~CanAllocate(h, c.profile)

\* buildInstallPlan: a skill that is there is kept, unless --force.
InstallAction(h, c, t) ==
    CASE t = c.profile -> IF h.disk[t] = Nothing THEN "create" ELSE "replace"
      [] t \in Ships[c.version] ->
           IF h.disk[t] = Nothing THEN "create"
           ELSE IF "force" \in c.flags THEN "replace" ELSE "skip"
      [] OTHER -> "none"

\* captureInstalledAssets: what is on disk after the writes.
InstalledThing(h, c, t) ==
    IF InstallAction(h, c, t) = "skip" THEN h.disk[t]
    ELSE [bytes |-> c.version, by |-> <<c.profile, NextGeneration(h, c.profile)>>]

InstalledAsset(h, c, t) ==
    IF InstallAction(h, c, t) = "none" THEN NoAsset
    ELSE [act |-> InstallAction(h, c, t), thing |-> InstalledThing(h, c, t)]

\* installedMetadata.
InstalledMeta(h, c) ==
    [NoMarker EXCEPT !.schema = "v1", !.gen = NextGeneration(h, c.profile),
                     !.pack = c.version, !.plugins = c.version, !.setting = Setting(c.version),
                     !.assets = [t \in Target |-> InstalledAsset(h, c, t)]]

\* applyInstallOperation.
InstallWrites(h, c) ==
    LET written == {t \in Target : InstallAction(h, c, t) \in {"create", "replace"}} IN
    << {Place(t, h.disk[t], InstalledThing(h, c, t)) : t \in written},
       IF c.version \in Contributes THEN KeyStage(h, c.version) ELSE {} >>
    \o Recorded(c.profile, "install", InstalledMeta(h, c))
=============================================================================
