---------------------------- MODULE UpdateEngine ----------------------------
(* update (packages/cli/src/update/): the three-way merge of what the marker recorded, what
   is there and what the new pack brings, per asset and for the setting; and what the new
   marker says of the assets it did not touch. *)
EXTENDS ManagedHome

\* mergeThreeWayState.
ThreeWay(base, current, target) ==
    CASE current = target /\ base = current -> "unchanged"
      [] current = target /\ base # current -> "converged"
      [] current # target /\ base = current ->
           IF target = "none" THEN "remove" ELSE IF base = "none" THEN "create" ELSE "update"
      [] OTHER ->
           IF "none" \in {current, target} \/ base = target THEN "retain" ELSE "conflict"

\* onlyIncludes: no selector selects everything.
Selects(c, x) == c.only = {} \/ x \in c.only

\* The base of the merge: the one an earlier update put off, or what the marker recorded.
BaseOf(m, t) == IF m.deferred[t].why # "none" THEN m.deferred[t].base ELSE m.assets[t]

\* profileTargetChanged: a profile directory is not compared, its recipe is.
BaseSignature(m, p) == IF m.deferred[p].why # "none" THEN m.deferred[p].sig ELSE m.pack
ProfileChanged(m, c) == c.version # BaseSignature(m, c.profile)

MergeKeys(m, c) ==
    {t \in Target : m.assets[t].act # "none" \/ m.deferred[t].why # "none"}
      \cup Ships[c.version] \cup {c.profile}

\* A profile the marker has no base for is not looked at.
ObservedFor(h, m, c, t) ==
    IF t = c.profile /\ BaseOf(m, t).act = "none" THEN Nothing ELSE h.disk[t]

TargetState(m, c, t) ==
    IF t = c.profile THEN IF ProfileChanged(m, c) THEN "fresh" ELSE BaseOf(m, t).thing.bytes
    ELSE IF t \in Ships[c.version] THEN c.version ELSE "none"

\* What the merge says before the flags are asked; a skipped base is the user's.
MergeAction(h, m, c, t) ==
    IF BaseOf(m, t).act = "skip" THEN "retain"
    ELSE ThreeWay(BaseOf(m, t).thing.bytes, ObservedFor(h, m, c, t).bytes, TargetState(m, c, t))

\* Mutant of TargetAction: a conflict is decided for the target.
TargetActionEager(raw, target, current, c) ==
    IF raw = "conflict" \/ (raw = "retain" /\ "theirs" \in c.flags)
    THEN IF target = "none" THEN "remove" ELSE IF current = "none" THEN "create" ELSE "update"
    ELSE raw

\* targetAction: --ours keeps, --theirs takes over, a conflict needs one of them.
TargetAction(raw, target, current, c) ==
    IF raw = "conflict" /\ "ours" \in c.flags THEN "retain"
    ELSE IF raw \in {"conflict", "retain"} /\ "theirs" \in c.flags
    THEN IF target = "none" THEN "remove" ELSE IF current = "none" THEN "create" ELSE "update"
    ELSE raw

UpdateAction(h, m, c, t) ==
    IF ~Selects(c, t) THEN "unchanged"
    ELSE TargetAction(MergeAction(h, m, c, t), TargetState(m, c, t), ObservedFor(h, m, c, t).bytes, c)

SettingAction(h, m, c) ==
    IF ~Selects(c, "setting") THEN "unchanged"
    ELSE TargetAction(ThreeWay(m.setting, h.setting, Setting(c.version)), Setting(c.version), h.setting, c)

Writes(action) == action \in {"update", "create", "remove"}

-----------------------------------------------------------------------------
(* What the next update has to know *)

MustDefer(h, m, c, t) ==
    \/ UpdateAction(h, m, c, t) = "retain"
    \/ ~Selects(c, t) /\ IF t = c.profile THEN ProfileChanged(m, c) ELSE MergeAction(h, m, c, t) # "converged"

Reason(h, m, c, t) ==
    IF UpdateAction(h, m, c, t) # "retain" THEN "only"
    ELSE IF ObservedFor(h, m, c, t) = Nothing THEN "missing" ELSE "modified"

\* E_UPDATE_DEFERRED_BASE: what has no base cannot be put off, except by --only.
NoBase(h, m, c, t) ==
    MustDefer(h, m, c, t) /\ Reason(h, m, c, t) # "only" /\ BaseOf(m, t).act = "none"

\* deferredAssets.
Deferral(h, m, c, t) ==
    IF t \notin MergeKeys(m, c) \/ ~MustDefer(h, m, c, t) THEN NotDeferred
    ELSE [why |-> Reason(h, m, c, t), base |-> BaseOf(m, t),
          sig |-> IF t = c.profile THEN BaseSignature(m, t) ELSE "none"]

\* metadataAction: what the new marker claims.
ClaimOf(h, m, c, t) ==
    LET base == BaseOf(m, t)
        seen == ObservedFor(h, m, c, t)
        action == UpdateAction(h, m, c, t)
    IN CASE seen = Nothing          -> "none"
         [] seen # Nothing /\ ~Selects(c, t) ->
              IF Claims(base) /\ base.thing = seen THEN base.act ELSE "skip"
         [] seen # Nothing /\ Selects(c, t) ->
              CASE action = "remove" -> "none"
                [] action = "update" -> "replace"
                [] action = "create" -> "create"
                [] action = "retain" -> "skip"
                [] OTHER -> IF base.act = "none" THEN "skip" ELSE base.act

Written(c, n) == [bytes |-> c.version, by |-> <<c.profile, n>>]

\* captureUpdateAssets.
UpdatedAsset(h, m, c, t) ==
    LET n == NextGeneration(h, c.profile)
        action == UpdateAction(h, m, c, t)
    IN CASE t \notin MergeKeys(m, c) -> NoAsset
         [] t \in MergeKeys(m, c) /\ action \in {"update", "create"} ->
              IF ClaimOf(h, m, c, t) = "none" THEN NoAsset
              ELSE [act |-> ClaimOf(h, m, c, t), thing |-> Written(c, n)]
         [] OTHER -> IF ClaimOf(h, m, c, t) = "none" THEN NoAsset
                     ELSE [act |-> ClaimOf(h, m, c, t), thing |-> ObservedFor(h, m, c, t)]

\* The facts of the plugins follow the profile directory.
UpdatedMeta(h, m, c) ==
    [schema |-> "v1", gen |-> NextGeneration(h, c.profile), pack |-> c.version,
     plugins |-> IF Writes(UpdateAction(h, m, c, c.profile)) THEN c.version ELSE m.plugins,
     setting |-> IF Selects(c, "setting") THEN Setting(c.version) ELSE m.setting,
     assets |-> [t \in Target |-> UpdatedAsset(h, m, c, t)],
     deferred |-> [t \in Target |-> Deferral(h, m, c, t)]]

-----------------------------------------------------------------------------
\* authorizationDelta: the plugin as the new pack resolves it is not the installed one.
NeedsReview(m, c) == m.plugins # c.version

\* parseInstalledMetadata: a marker lists an asset, or one that was put off.
Lists(meta) == \E t \in Target : meta.assets[t].act # "none" \/ meta.deferred[t].why # "none"

UpdateRefuses(h, c) ==
    LET m == h.marker[c.profile] IN
    \/ m.schema # "v1" \/ ~CanAllocate(h, c.profile) \/ ~Lists(UpdatedMeta(h, m, c))
    \/ ~(c.only \subseteq MergeKeys(m, c) \cup {"setting"})
    \/ \E t \in MergeKeys(m, c) : UpdateAction(h, m, c, t) = "conflict" \/ NoBase(h, m, c, t)
    \/ SettingAction(h, m, c) = "conflict"

\* applyUpdate.
UpdateWrites(h, c) ==
    LET m == h.marker[c.profile]
        n == NextGeneration(h, c.profile)
        Result(t) == IF UpdateAction(h, m, c, t) = "remove" THEN Nothing ELSE Written(c, n)
    IN << {Place(t, ObservedFor(h, m, c, t), Result(t)) :
             t \in {u \in MergeKeys(m, c) : Writes(UpdateAction(h, m, c, u))}},
          IF Writes(SettingAction(h, m, c))
          THEN KeyStage(h, Setting(c.version)) ELSE {} >>
       \o Recorded(c.profile, "update", UpdatedMeta(h, m, c))
=============================================================================
