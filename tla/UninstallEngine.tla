-------------------------- MODULE UninstallEngine --------------------------
(* uninstall (packages/cli/src/uninstall/engine.ts): what of a profile is deleted, what is
   kept because somebody else may need it, and what --purge-generations takes along. *)
EXTENDS ManagedHome

\* classifyAssetDrift: a recorded file that is gone comes before files that changed.
Drift(asset, thing) ==
    IF thing = Nothing \/ (thing.bytes = "trimmed" /\ asset.thing.bytes # "trimmed") THEN "missing"
    ELSE IF thing # asset.thing THEN "modified"
    ELSE "intact"

\* Mutant of Deletes: the markers of the other profiles are not asked.
DeletesShared(h, c, t) ==
    LET asset == h.marker[c.profile].assets[t] IN
    /\ Claims(asset) /\ h.disk[t] # Nothing
    /\ "keep-assets" \in c.flags => t = c.profile
    /\ Drift(asset, h.disk[t]) = "modified" => "force" \in c.flags

\* buildPlan, for a version 1 marker.
Deletes(h, c, t) ==
    LET asset == h.marker[c.profile].assets[t] IN
    /\ Claims(asset) /\ h.disk[t] # Nothing
    /\ "keep-assets" \in c.flags => t = c.profile
    /\ ~LegacyPeer(h, c.profile) /\ ~PeerClaims(h, c.profile, t)
    /\ Drift(asset, h.disk[t]) = "modified" => "force" \in c.flags

\* prepareInverseSettings: the key goes if it is as the pack set it.
TakesBack(h, m, force) ==
    m.setting # "none" /\ h.setting # "none" /\ (h.setting = m.setting \/ force)

-----------------------------------------------------------------------------
(* --purge-generations *)

BlocksOf(h, p) == UNION {Entries(d.meta) : d \in DocsOf(h, p)}

\* A block that a generation of another profile refers to stays.
PurgeBlocks(h, p) == BlocksOf(h, p) \ UNION {BlocksOf(h, q) : q \in Profile \ {p}}

\* buildPurgePlan.
PurgeRefuses(h, p) == h.current[p] \notin Kept(h, p) \/ ~(PurgeBlocks(h, p) \subseteq h.blocks)

\* Mutant of PurgeWrites: the current pointer is left behind.
PurgeWritesNotCurrent(h, p) ==
    << {DropDoc(d) : d \in DocsOf(h, p)}, {DropBlock(b) : b \in PurgeBlocks(h, p)} >>

PurgeWrites(h, p) ==
    << {Point(p, 0)}, {DropDoc(d) : d \in DocsOf(h, p)}, {DropBlock(b) : b \in PurgeBlocks(h, p)} >>

-----------------------------------------------------------------------------

UninstallRefuses(h, c) ==
    LET m == h.marker[c.profile] IN
    \/ m.schema = "none"
    \/ m.schema = "v0" /\ "force" \notin c.flags
    \/ m.schema = "v1" /\ IF "purge" \in c.flags THEN PurgeRefuses(h, c.profile)
                          ELSE ~CanAllocate(h, c.profile)

\* A version 0 marker lists nothing: --force takes the profile directory and the marker.
LegacyWrites(h, c) ==
    << {w \in {Place(c.profile, h.disk[c.profile], Nothing)} : h.disk[c.profile] # Nothing} >>

TrackedWrites(h, c) ==
    LET p == c.profile
        takesBack == "keep-assets" \notin c.flags /\ TakesBack(h, h.marker[p], "force" \in c.flags)
        n == NextGeneration(h, p)
    IN << {Place(t, h.disk[t], Nothing) : t \in {u \in Target : Deletes(h, c, u)}},
          IF takesBack THEN KeyStage(h, "none") ELSE {} >>
       \o IF "purge" \in c.flags THEN PurgeWrites(h, p)
          ELSE << {WriteDoc(p, n, "uninstall", NoMarker)}, {Point(p, n)} >>

\* uninstallProfile: the marker goes last.
UninstallWrites(h, c) ==
    (IF h.marker[c.profile].schema = "v0" THEN LegacyWrites(h, c) ELSE TrackedWrites(h, c))
      \o << {Mark(c.profile, NoMarker)} >>
=============================================================================
