--------------------------- MODULE RestoreEngine ---------------------------
(* restore (packages/cli/src/restore/engine.ts): back to a generation that is kept, asset by
   asset, as far as what is there is still what the current generation put there. *)
EXTENDS UninstallEngine

\* --to, or the generation before the current one.
RestoreTarget(h, c) == IF c.number # 0 THEN c.number ELSE h.current[c.profile] - 1
Wanted(h, c) == DocAt(h, c.profile, RestoreTarget(h, c)).meta

\* assertCurrentState: the marker is what the current generation says, word for word.
CurrentStateHolds(h, p) ==
    h.current[p] \in Kept(h, p) /\ DocAt(h, p, h.current[p]).meta = h.marker[p]

\* preflightTargetEntries.
TargetIsStored(h, c) == InStore(h, Wanted(h, c))

\* preparePlan.
RestoreRefuses(h, c) ==
    \/ RestoreTarget(h, c) \notin Kept(h, c.profile)
    \/ ~CurrentStateHolds(h, c.profile)
    \/ ~TargetIsStored(h, c)
    \/ ~CanAllocate(h, c.profile)

\* attributableToInstall: the root of the profile always is, a skipped asset is not.
Attributable(h, c, t) == h.marker[c.profile].assets[t].act # "skip" \/ t = c.profile

\* restoreDrift looks at the files: a directory that restore made has another identity.
Changed(asset, thing) == thing.bytes # asset.thing.bytes

\* preparePlan: what becomes of a target.
Fate(h, c, t) ==
    LET now == h.marker[c.profile].assets[t]
        wanted == Claims(Wanted(h, c).assets[t])
        there == h.disk[t] # Nothing
        force == "force" \in c.flags
        changed == now.act # "none" /\ Changed(now, h.disk[t])
    IN IF now.act = "none" /\ ~wanted THEN "none"
       ELSE IF there /\ (LegacyPeer(h, c.profile) \/ PeerClaims(h, c.profile, t)) THEN "retain"
       ELSE IF ~Attributable(h, c, t) THEN IF force /\ wanted THEN "materialize" ELSE "unchanged"
       ELSE IF now.act = "none" /\ there THEN IF force THEN "materialize" ELSE "retain"
       ELSE IF ~wanted /\ ~there THEN "unchanged"
       ELSE IF changed /\ ~force THEN "retain"
       ELSE IF wanted THEN "materialize" ELSE "remove"

\* settingsPlan: what the current pack set is taken back first.
KeyAfterInverse(h, c) ==
    IF TakesBack(h, h.marker[c.profile], "force" \in c.flags) THEN "none" ELSE h.setting

\* A key that is not as the current pack left it is kept, and so is one that is in the way.
KeyRetained(h, c) ==
    \/ KeyAfterInverse(h, c) # "none"
    \/ /\ h.marker[c.profile].setting # "none" /\ "force" \notin c.flags
       /\ ~TakesBack(h, h.marker[c.profile], FALSE)

RestoredKey(h, c) ==
    IF Wanted(h, c).setting # "none" /\ ~KeyRetained(h, c) THEN Wanted(h, c).setting
    ELSE KeyAfterInverse(h, c)

\* materializeAsset makes a directory of its own.
Fresh(h, c, t) ==
    [bytes |-> Wanted(h, c).assets[t].thing.bytes, by |-> <<c.profile, NextGeneration(h, c.profile)>>]

\* restoredMetadata: what was not materialized is not claimed.
RestoredAsset(h, c, t) ==
    LET asset == Wanted(h, c).assets[t] IN
    CASE asset.act = "none" -> NoAsset
      [] asset.act # "none" /\ Fate(h, c, t) = "materialize" /\ Claims(asset) ->
           [asset EXCEPT !.thing = Fresh(h, c, t)]
      [] OTHER -> [asset EXCEPT !.act = "skip"]

RestoredMeta(h, c) ==
    [Wanted(h, c) EXCEPT !.gen = NextGeneration(h, c.profile),
                         !.setting = IF KeyRetained(h, c) THEN "none" ELSE @,
                         !.assets = [t \in Target |-> RestoredAsset(h, c, t)]]

\* restoreProfile.  Back to before the installation there is no marker.
RestoreWrites(h, c) ==
    LET p == c.profile
        n == NextGeneration(h, p)
        meta == IF Wanted(h, c) = NoMarker THEN NoMarker ELSE RestoredMeta(h, c)
    IN << {Place(t, h.disk[t], Fresh(h, c, t)) : t \in {u \in Target : Fate(h, c, u) = "materialize"}}
            \cup {Place(t, h.disk[t], Nothing) : t \in {u \in Target : Fate(h, c, u) = "remove"}},
          KeyStage(h, RestoredKey(h, c)),
          {WriteDoc(p, n, "restore", meta)}, {Point(p, n)}, {Mark(p, meta)} >>
=============================================================================
