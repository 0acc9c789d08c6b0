---------------------------- MODULE ManagedHome ----------------------------
(***************************************************************************)
(* What dshpack keeps below DSH_HOME, as one value that every engine reads *)
(* and writes: the managed directories, agent-presets in settings.yaml,    *)
(* the markers (.dshpack/installed), the generation documents and current  *)
(* pointers (.dshpack/generations), the content store (.dshpack/store).    *)
(*                                                                         *)
(* The modules of the engines say, as functions of a home and a command,   *)
(* when the engine refuses and which writes it makes otherwise.  Module    *)
(* HomeLifecycle runs them.                                                *)
(***************************************************************************)
EXTENDS Integers, FiniteSets, Sequences

CONSTANTS
    Profile,       \* profiles; each stands for its directory profiles/<p> as well
    Skill,         \* skills and presets that packs bring along
    Version,       \* versions of the pack
    Ships,         \* Ships[v]: the skills of version v
    Contributes,   \* the versions that set the one key of agent-presets
    EditedBytes,   \* what people make of a directory; in "trimmed" one file is changed, one gone
    MaxGeneration  \* bound: stands for MAX_SAFE_INTEGER

ASSUME ShipsAssumption == Ships \in [Version -> SUBSET Skill]
ASSUME ContributesAssumption == Contributes \subseteq Version
\* What people write is not what a pack brings, and the words the engines use are neither.
ASSUME BytesAssumption ==
    /\ Version \cap (EditedBytes \cup {"none", "fresh", "edited"}) = {}
    /\ EditedBytes \cap {"none", "fresh"} = {}
ASSUME MaxGenerationAssumption == MaxGeneration \in Nat \ {0}

Target == Profile \cup Skill
Generation == 1 .. MaxGeneration
Bytes == Version \cup EditedBytes \cup {"none"}

\* A directory: the bytes below it, and who made it (its device, inode and birth time).
User == <<"user", 0>>
Legacy == <<"legacy", 0>>
Maker == (Profile \X Generation) \cup {User, Legacy, <<"nobody", 0>>}
Thing == [bytes: Bytes, by: Maker]
Nothing == [bytes |-> "none", by |-> <<"nobody", 0>>]

\* MetadataAsset: what a marker says of a target; `skip` claims nothing.
Asset == [act: {"none", "create", "replace", "skip"}, thing: Thing]
NoAsset == [act |-> "none", thing |-> Nothing]
Claims(asset) == asset.act \in {"create", "replace"}
\* DeferredMetadataAsset: the base of a merge an update put off.
Deferred == [why: {"none", "missing", "modified", "only"}, base: Asset, sig: Version \cup {"none"}]
NotDeferred == [why |-> "none", base |-> NoAsset, sig |-> "none"]

\* InstalledMetadata.  Version 0 has no inventory; NoMarker is no file (or null).
Meta == [schema: {"none", "v0", "v1"}, gen: 0 .. MaxGeneration, pack: Version \cup {"none"},
         plugins: Version \cup {"none"}, setting: Version \cup {"none"},
         assets: [Target -> Asset], deferred: [Target -> Deferred]]
NoMarker == [schema |-> "none", gen |-> 0, pack |-> "none", plugins |-> "none", setting |-> "none",
             assets |-> [t \in Target |-> NoAsset], deferred |-> [t \in Target |-> NotDeferred]]

\* GenerationDocument; its entries follow from the metadata.
Doc == [profile: Profile, seq: Generation, op: {"install", "update", "restore", "uninstall"}, meta: Meta]

\* The files of a directory in the store.  Profile directories of one version share theirs.
Block == ({"profile"} \cup Skill) \X Version
BlockOf(t, bytes) == <<IF t \in Profile THEN "profile" ELSE t, bytes>>

Home == [disk: [Target -> Thing], setting: Version \cup {"edited", "none"},
         marker: [Profile -> Meta], docs: SUBSET Doc,
         current: [Profile -> 0 .. MaxGeneration], blocks: SUBSET Block,
         journal: [Profile -> {"none", "create", "replace"}]]

\* A command line.  `number` is --to of restore and --keep of gc.
Flag == {"replace", "force", "ours", "theirs", "purge", "keep-assets"}
Command == [verb: {"install", "update", "uninstall", "restore", "gc", "migrate"},
            profile: Profile \cup {"all"}, version: Version \cup {"none"},
            only: SUBSET (Target \cup {"setting"}), number: Nat, flags: SUBSET Flag]

-----------------------------------------------------------------------------
(* Reading *)

Setting(v) == IF v \in Contributes THEN v ELSE "none"

\* The entries of a generation: the files of the assets it claims.
Entries(meta) == {BlockOf(t, meta.assets[t].thing.bytes) : t \in {u \in Target : Claims(meta.assets[u])}}

\* listGenerations and readGeneration.
DocsOf(h, p) == {d \in h.docs : d.profile = p}
Kept(h, p) == {d.seq : d \in DocsOf(h, p)}
DocAt(h, p, n) == CHOOSE d \in DocsOf(h, p) : d.seq = n

\* readCasBlock of every entry.
InStore(h, meta) == Entries(meta) \subseteq h.blocks

\* The markers of the other profiles.  One without an inventory might claim anything
\* (countMetadataAssetTargetReferences), one with an inventory what it lists.
Peers(h, p) == {h.marker[q] : q \in Profile \ {p}}
LegacyPeer(h, p) == \E m \in Peers(h, p) : m.schema = "v0"
PeerClaims(h, p, t) == \E m \in Peers(h, p) : Claims(m.assets[t])

\* nextGeneration: one after current, and none after the greatest safe integer.
NextGeneration(h, p) == h.current[p] + 1

CanAllocate(h, p) == NextGeneration(h, p) \in Generation

-----------------------------------------------------------------------------
(* Writing: the steps of a transaction, in stages.  Within a stage the order is that of
   file names and says nothing. *)

Place(t, over, thing) == [kind |-> "place", target |-> t, over |-> over, thing |-> thing]
SetKey(over, value) == [kind |-> "setting", over |-> over, value |-> value]
Store(block) == [kind |-> "block", block |-> block]
DropBlock(block) == [kind |-> "drop-block", block |-> block]
WriteDoc(p, n, op, meta) ==
    [kind |-> "document", doc |-> [profile |-> p, seq |-> n, op |-> op, meta |-> meta]]
DropDoc(doc) == [kind |-> "drop-document", doc |-> doc]
Point(p, n) == [kind |-> "current", profile |-> p, seq |-> n]
Mark(p, meta) == [kind |-> "marker", profile |-> p, meta |-> meta]

\* Mutant of Possible: a document is written over the one that is there.
PossibleAnyway(h, w) ==
    CASE w.kind = "place"   -> h.disk[w.target] = w.over
      [] w.kind = "setting" -> h.setting = w.over
      [] OTHER              -> TRUE

\* A move finds what was observed, a swap what was read, and writeGeneration no document.
Possible(h, w) ==
    CASE w.kind = "place"    -> h.disk[w.target] = w.over
      [] w.kind = "setting"  -> h.setting = w.over
      [] w.kind = "document" -> w.doc.seq \notin Kept(h, w.doc.profile)
      [] OTHER               -> TRUE

Done(h, w) ==
    CASE w.kind = "place"      -> [h EXCEPT !.disk[w.target] = w.thing]
      [] w.kind = "setting"    -> [h EXCEPT !.setting = w.value]
      [] w.kind = "block"      -> [h EXCEPT !.blocks = @ \cup {w.block}]
      [] w.kind = "drop-block" -> [h EXCEPT !.blocks = @ \ {w.block}]
      [] w.kind = "document"   -> [h EXCEPT !.docs = {d \in @ : d.profile # w.doc.profile \/ d.seq # w.doc.seq} \cup {w.doc}]
      [] w.kind = "drop-document" -> [h EXCEPT !.docs = @ \ {w.doc}]
      [] w.kind = "current"    -> [h EXCEPT !.current[w.profile] = w.seq]
      [] w.kind = "marker"     -> [h EXCEPT !.marker[w.profile] = w.meta]

\* settings.yaml is only written when it changes.
KeyStage(h, value) == {w \in {SetKey(h.setting, value)} : value # h.setting}

\* storeCapturedAssets, writeGeneration, advanceCurrent, and the marker last.
Recorded(p, op, meta) ==
    << {Store(block) : block \in Entries(meta)},
       {WriteDoc(p, meta.gen, op, meta)},
       {Point(p, meta.gen)},
       {Mark(p, meta)} >>
=============================================================================
