--------------------------- MODULE MigrateEngine ---------------------------
(* migrate (packages/cli/src/migrate/engine.ts): a version 0 marker becomes a version 1 one.
   What the pack had put there is rebuilt in a scratch home; what is there now is left alone. *)
EXTENDS ManagedHome

Shipped(m, p) == {p} \cup Ships[m.pack]

\* readLegacyMarker: a version 1 marker is current already.
IsLegacy(m) == m.schema = "v0"

\* profileActionFromCommittedJournal: how the legacy transaction made the profile, if at all.
ProfileAction(h, p) == h.journal[p]

\* reconstructScratchBase: the recorded source, installed again somewhere else.
RebuiltBytes(m) == m.pack

\* migrateProfile.  Migration never makes a target that is gone.
MigrateRefuses(h, c) ==
    LET m == h.marker[c.profile] IN
    \/ ~IsLegacy(m)
    \/ ProfileAction(h, c.profile) = "none"
    \/ \E t \in Shipped(m, c.profile) : h.disk[t] = Nothing
    \/ ~CanAllocate(h, c.profile)

\* What is compared again under the lock: marker, proof, and the bytes of what migration names.
MigrateFacts(h, c) ==
    LET m == h.marker[c.profile] IN
    [marker |-> m, journal |-> ProfileAction(h, c.profile), setting |-> h.setting,
     bytes |-> [t \in Target |-> IF IsLegacy(m) /\ t \in Shipped(m, c.profile)
                                 THEN h.disk[t].bytes ELSE "none"]]

\* captureScratchBaseAssets: the bytes of the pack, the identity of what is there.
MigratedAsset(h, m, c, t) ==
    IF t \notin Shipped(m, c.profile) THEN NoAsset
    ELSE [act |-> IF t = c.profile THEN ProfileAction(h, t) ELSE "skip",
          thing |-> [h.disk[t] EXCEPT !.bytes = RebuiltBytes(m)]]

MigratedMeta(h, m, c) ==
    [m EXCEPT !.schema = "v1", !.gen = NextGeneration(h, c.profile), !.setting = Setting(m.pack),
              !.assets = [t \in Target |-> MigratedAsset(h, m, c, t)]]

\* migrateProfile.
MigrateWrites(h, c) == Recorded(c.profile, "install", MigratedMeta(h, h.marker[c.profile], c))
=============================================================================
