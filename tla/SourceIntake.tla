---------------------------- MODULE SourceIntake ----------------------------
(***************************************************************************)
(* From SOURCE to the pack material an install works with (packages/cli/   *)
(* src/adapters/source.ts, install/read.ts, install/snapshot-capture.ts).  *)
(*                                                                         *)
(* An archive is copied into a private directory, inspected (see           *)
(* ArchiveInspection) and extracted.  The pack's directory, private or the *)
(* user's own, is captured file by file; the captured bytes are written to *)
(* a second private directory, validated there, captured again and         *)
(* compared.  Both directories are removed whatever came of it.            *)
(*                                                                         *)
(* Somebody may edit SOURCE at any time, in place or by renaming another   *)
(* file over it, and may change the copy that is validated.  An edit gives *)
(* a file bytes and times it has not had before.                           *)
(***************************************************************************)
EXTENDS ArchiveInspection

CONSTANTS
    References,   \* the kinds of SOURCE given
    MaxEdits,     \* bound: edits of SOURCE
    MaxTampering, \* bound: edits of the copy that is validated
    MaxRedirects  \* redirects followed

File == {"manifest", "skill"}
\* A directory; a local archive; a local or remote one with its sha512; a GitHub
\* repository with and without a commit.
Reference == {"directory", "archive", "file", "https", "github", "repository"}
ASSUME ReferencesAssumption == References \subseteq Reference
ASSUME BoundsAssumption == MaxEdits \in Nat /\ MaxTampering \in Nat /\ MaxRedirects \in Nat

Remote == {"https", "github", "repository"}
GitHub == {"github", "repository"}
Pinned == {"file", "https"}
NoStamp == -1
\* The bytes of a file are two halves, each with the stamp of the edit that wrote it.
Stamp == -1 .. MaxEdits + MaxTampering
Bytes == Stamp \X Stamp
Original == <<0, 0>>
None == <<NoStamp, NoStamp>>

VARIABLES
    pc,
    reference, \* the kind of SOURCE
    frozen,    \* --frozen: the pack carries a lock that names the original bytes
    inode,     \* [File \cup {"archive"} -> Nat]: what SOURCE's names lead to
    written,   \* [inode -> stamp of its last edit]
    edits,
    tampering,
    hops,      \* redirects followed
    copy,      \* the halves of the archive copied so far
    reading,   \* the file being captured, with the stats taken of it
    captured,  \* the material: [File -> Bytes]
    snapshot,  \* the copy that is validated
    judged,    \* what the validator read
    private,   \* private directories that are there
    result,    \* what the reader has to say once it has cleaned up
    answer

sourceVars == <<reference, frozen, inode, written, edits>>
captureVars == <<reading, captured>>
judgeVars == <<snapshot, judged, tampering>>
endVars == <<private, result, answer>>
vars == <<pc, sourceVars, hops, copy, captureVars, judgeVars, endVars, archiveVars>>

Things == File \cup {"archive"}
NotReading == [file |-> "none", ino |-> 0, opened |-> NoStamp, halves |-> <<>>, after |-> NoStamp]
Stages == {"parse", "resolve", "fetch", "copy", "digest", "scan", "entries", "extract", "discard",
           "capture", "open", "read", "recheck", "compare", "write", "judge", "recapture",
           "clean", "release", "done"}

TypeOK ==
    /\ pc \in Stages
    /\ reference \in References /\ frozen \in BOOLEAN
    /\ inode \in [Things -> 0 .. MaxEdits + 2] /\ written \in [0 .. MaxEdits + 2 -> Stamp]
    /\ edits \in 0 .. MaxEdits /\ tampering \in 0 .. MaxTampering
    /\ hops \in 0 .. MaxRedirects
    /\ copy \in Seq(Stamp) /\ Len(copy) <= 2
    /\ reading.file \in File \cup {"none"} /\ reading.halves \in Seq(Stamp)
    /\ captured \in [File -> Bytes] /\ snapshot \in [File -> Bytes] /\ judged \in [File -> Bytes]
    /\ private \subseteq {"archive", "snapshot"}
    /\ result \in {"none", "refused", "material"}
    /\ answer \in {"none", "refused", "leftover", "material"}

Init ==
    /\ pc = "parse"
    /\ reference \in References /\ frozen \in BOOLEAN
    /\ inode = [t \in Things |-> CASE t = "manifest" -> 0 [] t = "skill" -> 1 [] OTHER -> 2]
    /\ written = [i \in 0 .. MaxEdits + 2 |-> 0]
    /\ edits = 0 /\ tampering = 0 /\ hops = 0
    /\ copy = <<>> /\ reading = NotReading
    /\ captured = [f \in File |-> None] /\ snapshot = [f \in File |-> None]
    /\ judged = [f \in File |-> None]
    /\ private = {} /\ result = "none" /\ answer = "none"
    /\ ArchiveInit
    /\ reference = "directory" => archive = CHOOSE a \in Archives : TRUE  \* there is none

At(stage) == pc = stage
Goto(stage) == pc' = stage

-----------------------------------------------------------------------------
(* The archive: materializeSource *)

Answer(word) == Goto("done") /\ answer' = word

\* The reference is a directory, an archive that is there, or a URL the policy admits.
Parse ==
    /\ At("parse")
    /\ Goto(IF reference = "directory" THEN "capture"
            ELSE IF reference = "repository" THEN "resolve" ELSE "fetch")
    /\ UNCHANGED <<sourceVars, hops, copy, captureVars, judgeVars, endVars, archiveVars>>

BadReference ==
    /\ At("parse") /\ reference # "repository"
    /\ Answer("refused")
    /\ UNCHANGED <<sourceVars, hops, copy, captureVars, judgeVars, private, result, archiveVars>>

\* GitHub is asked for the head of the default branch; from here on the commit is fixed.
ResolveHead ==
    /\ At("resolve")
    /\ Goto("fetch")
    /\ UNCHANGED <<sourceVars, hops, copy, captureVars, judgeVars, endVars, archiveVars>>

HeadUnknown ==
    /\ At("resolve")
    /\ Answer("refused")
    /\ UNCHANGED <<sourceVars, hops, copy, captureVars, judgeVars, private, result, archiveVars>>

MakePrivate ==
    /\ At("fetch")
    /\ private' = private \cup {"archive"}
    /\ Goto("copy")
    /\ UNCHANGED <<sourceVars, hops, copy, captureVars, judgeVars, result, answer, archiveVars>>

\* Every hop is a URL of its own, checked like the first.
Redirect ==
    /\ At("copy") /\ reference \in Remote /\ copy = <<>>
    /\ hops < MaxRedirects
    /\ hops' = hops + 1
    /\ UNCHANGED <<pc, sourceVars, copy, captureVars, judgeVars, endVars, archiveVars>>

\* A chunk of the archive, as it is at that moment; it is hashed and written.
CopyChunk ==
    /\ At("copy")
    /\ copy' = Append(copy, written[inode["archive"]])
    /\ Goto(IF Len(copy) = 1 THEN "digest" ELSE "copy")
    /\ UNCHANGED <<sourceVars, hops, captureVars, judgeVars, endVars, archiveVars>>

\* Too many redirects, too many bytes, a failed read or write, an error of the server.
CopyFails ==
    /\ At("copy")
    /\ Goto("discard")
    /\ UNCHANGED <<sourceVars, hops, copy, captureVars, judgeVars, endVars, archiveVars>>

\* The sha512 of what was copied.
DigestAgrees == reference \in Pinned => copy = Original

CheckDigest ==
    /\ At("digest")
    /\ Goto(IF DigestAgrees THEN "scan" ELSE "discard")
    /\ UNCHANGED <<sourceVars, hops, copy, captureVars, judgeVars, endVars, archiveVars>>

Scan ==
    /\ At("scan") /\ ScanChunk
    /\ UNCHANGED <<pc, sourceVars, hops, copy, captureVars, judgeVars, endVars>>

\* Halves of two versions do not unzip.
Scanned ==
    /\ At("scan") /\ ScanEnds
    /\ Goto(IF HeadersSafe /\ copy[1] = copy[2] THEN "entries" ELSE "discard")
    /\ UNCHANGED <<sourceVars, hops, copy, captureVars, judgeVars, endVars, archiveVars>>

AdmitEntry ==
    /\ At("entries") /\ Admit
    /\ reference \in GitHub => ~OutsideRoot(NextEntry)
    /\ UNCHANGED <<pc, sourceVars, hops, copy, captureVars, judgeVars, endVars>>

\* A collision, a path outside the root, a limit, unsafe metadata or an empty archive.
RefuseEntry ==
    /\ At("entries")
    /\ Goto("discard")
    /\ UNCHANGED <<sourceVars, hops, copy, captureVars, judgeVars, endVars, archiveVars>>

Inspected ==
    /\ At("entries") /\ EntriesEnd /\ archive.entries # <<>>
    /\ Goto("extract")
    /\ UNCHANGED <<sourceVars, hops, copy, captureVars, judgeVars, endVars, archiveVars>>

\* extractTar; for GitHub the pack is the one directory of the archive.
Extract ==
    /\ At("extract")
    /\ pc' \in {"capture", "discard"}
    /\ UNCHANGED <<sourceVars, hops, copy, captureVars, judgeVars, endVars, archiveVars>>

\* The catch of materializeArchive: a removal that fails is not mentioned.
Discard ==
    /\ At("discard")
    /\ private' \in {{}, private}
    /\ Answer("refused")
    /\ UNCHANGED <<sourceVars, hops, copy, captureVars, judgeVars, result, archiveVars>>

-----------------------------------------------------------------------------
(* The directory: captureSourceDirectory, readBoundedRegularFile *)

\* What the pack's directory holds: SOURCE itself, or what was extracted.
InodeOf(f) == IF reference = "directory" THEN inode[f] ELSE 0
StampOf(i) == IF reference = "directory" THEN written[i] ELSE copy[1]
Uncaptured == {f \in File : captured[f] = None}

\* The files come in the order the directory lists them.
StatFile ==
    /\ At("capture")
    /\ \E f \in Uncaptured : reading' = [NotReading EXCEPT !.file = f, !.ino = InodeOf(f)]
    /\ Goto("open")
    /\ UNCHANGED <<sourceVars, hops, copy, captured, judgeVars, endVars, archiveVars>>

\* The opened file must be the one the directory listed.
OpenFile ==
    /\ At("open")
    /\ InodeOf(reading.file) = reading.ino
    /\ reading' = [reading EXCEPT !.opened = StampOf(reading.ino)]
    /\ Goto("read")
    /\ UNCHANGED <<sourceVars, hops, copy, captured, judgeVars, endVars, archiveVars>>

\* The handle goes on reading the file it opened.
ReadChunk ==
    /\ At("read")
    /\ reading' = [reading EXCEPT !.halves = Append(@, StampOf(reading.ino))]
    /\ Goto(IF Len(reading.halves) = 1 THEN "recheck" ELSE "read")
    /\ UNCHANGED <<sourceVars, hops, copy, captured, judgeVars, endVars, archiveVars>>

StatHandle ==
    /\ At("recheck")
    /\ reading' = [reading EXCEPT !.after = StampOf(reading.ino)]
    /\ Goto("compare")
    /\ UNCHANGED <<sourceVars, hops, copy, captured, judgeVars, endVars, archiveVars>>

\* Mutant of Stable: the path must still lead to the file, whatever was written to it.
StableIdentity == InodeOf(reading.file) = reading.ino

\* The handle before and after the read, and the path now.
Stable ==
    /\ reading.opened = reading.after
    /\ InodeOf(reading.file) = reading.ino
    /\ StampOf(reading.ino) = reading.after

TakeFile ==
    /\ At("compare") /\ Stable
    /\ captured' = [captured EXCEPT ![reading.file] = <<reading.halves[1], reading.halves[2]>>]
    /\ reading' = NotReading
    /\ Goto(IF Uncaptured = {reading.file} THEN "write" ELSE "capture")
    /\ UNCHANGED <<sourceVars, hops, copy, judgeVars, endVars, archiveVars>>

\* A link, a special file, a limit, a failed read, or a file that is not stable.
CaptureFails ==
    /\ pc \in {"capture", "open", "read", "recheck", "compare", "write"}
    /\ result' = "refused"
    /\ Goto("clean")
    /\ UNCHANGED <<sourceVars, hops, copy, captureVars, judgeVars, private, answer, archiveVars>>

-----------------------------------------------------------------------------
(* The private copy: readValidatedPack *)

WriteSnapshot ==
    /\ At("write")
    /\ private' = private \cup {"snapshot"}
    /\ \/ Goto("judge") /\ snapshot' = captured /\ UNCHANGED result
       \/ Goto("clean") /\ result' = "refused" /\ UNCHANGED snapshot
    /\ UNCHANGED <<sourceVars, hops, copy, captureVars, judged, tampering, answer, archiveVars>>

\* lockDiagnostics, with --frozen: the lock names the bytes of every file.
LockAgrees == frozen => \A f \in File : snapshot[f] = Original

\* validateLocalPack reads every file of the copy.
Validate ==
    /\ At("judge")
    /\ judged' = snapshot
    /\ \/ Goto("recapture") /\ LockAgrees /\ UNCHANGED result
       \/ Goto("clean") /\ result' = "refused"
    /\ UNCHANGED <<sourceVars, hops, copy, captureVars, snapshot, tampering, private, answer, archiveVars>>

SameCapture == snapshot = captured

Recapture ==
    /\ At("recapture")
    /\ result' \in IF SameCapture THEN {"material", "refused"} ELSE {"refused"}
    /\ Goto("clean")
    /\ UNCHANGED <<sourceVars, hops, copy, captureVars, judgeVars, private, answer, archiveVars>>

\* The copy is removed after every outcome; a failure takes the place of the outcome.
CleanSnapshot ==
    /\ At("clean")
    /\ \/ private' = private \ {"snapshot"} /\ UNCHANGED answer
       \/ "snapshot" \in private /\ answer' = "leftover" /\ UNCHANGED private
    /\ Goto("release")
    /\ UNCHANGED <<sourceVars, hops, copy, captureVars, judgeVars, result, archiveVars>>

\* Mutant of Settled: the removal of the extracted archive is not awaited.
SettledAnyway(gone) == IF answer = "leftover" THEN "leftover" ELSE result

\* What installPack makes of it.
Settled(gone) == IF gone /\ answer # "leftover" THEN result ELSE "leftover"

\* cleanup of the materialized source, in a finally.
Release ==
    /\ At("release")
    /\ \E gone \in BOOLEAN :
          /\ "archive" \notin private => gone
          /\ private' = IF gone THEN private \ {"archive"} ELSE private
          /\ Answer(Settled(gone))
    /\ UNCHANGED <<sourceVars, hops, copy, captureVars, judgeVars, result, archiveVars>>

-----------------------------------------------------------------------------
(* Others *)

Editable == IF reference = "directory" THEN File ELSE {"archive"}

EditInPlace ==
    /\ ~At("done") /\ edits < MaxEdits
    /\ \E t \in Editable : written' = [written EXCEPT ![inode[t]] = edits + 1]
    /\ edits' = edits + 1
    /\ UNCHANGED <<pc, reference, frozen, inode, hops, copy, captureVars, judgeVars, endVars, archiveVars>>

RenameOver ==
    /\ ~At("done") /\ edits < MaxEdits
    /\ \E t \in Editable : inode' = [inode EXCEPT ![t] = 3 + edits]
    /\ written' = [written EXCEPT ![3 + edits] = edits + 1]
    /\ edits' = edits + 1
    /\ UNCHANGED <<pc, reference, frozen, hops, copy, captureVars, judgeVars, endVars, archiveVars>>

\* The validator, or somebody in the temporary directory, changes the copy.
Tamper ==
    /\ pc \in {"judge", "recapture"} /\ tampering < MaxTampering
    /\ \E f \in File :
          snapshot' = [snapshot EXCEPT ![f] = <<MaxEdits + tampering + 1, MaxEdits + tampering + 1>>]
    /\ tampering' = tampering + 1
    /\ UNCHANGED <<pc, sourceVars, hops, copy, captureVars, judged, endVars, archiveVars>>

Next ==
    \/ Parse \/ BadReference \/ ResolveHead \/ HeadUnknown \/ MakePrivate
    \/ Redirect \/ CopyChunk \/ CopyFails \/ CheckDigest
    \/ Scan \/ Scanned \/ AdmitEntry \/ RefuseEntry \/ Inspected \/ Extract \/ Discard
    \/ StatFile \/ OpenFile \/ ReadChunk \/ StatHandle \/ TakeFile \/ CaptureFails
    \/ WriteSnapshot \/ Validate \/ Recapture \/ CleanSnapshot \/ Release
    \/ EditInPlace \/ RenameOver \/ Tamper

Spec == Init /\ [][Next]_vars

-----------------------------------------------------------------------------
(* Properties *)

\* The bytes an install works with are the bytes that were judged: no file is torn between
\* two versions, every file is as the validator read it, and a digest in the reference or
\* in the lock holds for them, whoever edits SOURCE or the copy meanwhile.
MaterialIsWhatWasJudged ==
    answer = "material" =>
       /\ \A f \in File : captured[f] # None /\ captured[f][1] = captured[f][2]
       /\ judged = captured
       /\ frozen \/ reference \in Pinned => \A f \in File : captured[f] = Original

\* An archive is extracted only if its blocks, put together from any chunks, are the blocks
\* of the stream and safe, and if its entries make a tree on the target: one spelling for
\* a name, no file above another entry, nothing twice.  What has no such fault is admitted.
Treelike(entries) ==
    \A d, e \in entries :
       /\ \A p \in UpTo(d.path), q \in UpTo(e.path) : Canonical(p) = Canonical(q) => p = q
       /\ d # e => d.path # e.path
       /\ d.type = "file" => Canonical(d.path) \notin Above(Canonical(e.path))
Extractable ==
    LET entries == {i \in DOMAIN archive.entries : archive.entries[i].type # "link"}
    IN /\ Treelike({archive.entries[i] : i \in entries})
       /\ \A i, j \in entries : i # j => archive.entries[i] # archive.entries[j]

ArchiveIsReadRight ==
    /\ \A k \in DOMAIN seen : seen[k] = UnitsOf(k)
    /\ At("extract") =>
          /\ archive.loose = 0 /\ Remaining(archive.blocks) = 0
          /\ Extractable
    /\ At("entries") /\ Extractable /\ ~EntriesEnd => NextEntry.type = "link" \/ ~Collides(NextEntry)

\* No private directory stays behind unmentioned: when the intake has an answer, both are
\* gone, or the answer says so.  The one exception is an archive that was refused.
NothingPrivateStays ==
    At("done") /\ private # {} =>
       answer = "leftover" \/ (answer = "refused" /\ result = "none" /\ private = {"archive"})
=============================================================================
