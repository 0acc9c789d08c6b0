------------------------- MODULE ArchiveInspection -------------------------
(***************************************************************************)
(* What adapters/source-archive.ts does with a .dshpack.tgz before a byte  *)
(* of it is extracted: the tar blocks are scanned as they come out of the  *)
(* gunzip stream, in chunks of any size, then the entries are admitted one *)
(* after the other to what the target file system will hold.               *)
(*                                                                         *)
(* A block has BlockUnits units (512 bytes in the code).  Names that       *)
(* differ in case only are one name on the target.                         *)
(***************************************************************************)
EXTENDS Naturals, Integers, Sequences, FiniteSets, SequencesExt

CONSTANTS
    Archives,    \* [blocks, loose, entries]: the blocks, units after them, the entries
    BlockUnits,  \* units of a block
    MaxChunk     \* bound: units of a chunk

Segment == {"a", "A", "b"}
\* A regular file, a directory, or something else that is skipped, such as a link.
Entry == [path : Seq(Segment), type : {"file", "directory", "link"}]
\* A header followed by no or one block of data, zeros, or a header with bytes after NUL.
BlockKind == {"empty", "file", "zero", "unsafe"}

ASSUME BlockUnitsAssumption == BlockUnits \in Nat \ {0}
ASSUME MaxChunkAssumption == MaxChunk \in Nat \ {0}
ASSUME ArchivesAssumption ==
    \A a \in Archives : /\ a.blocks \in Seq(BlockKind)
                        /\ a.entries \in Seq(Entry)
                        /\ a.loose \in 0 .. BlockUnits - 1

VARIABLES
    archive,   \* the archive
    consumed,  \* units of the stream consumed
    tail,      \* the units of a block that has not ended with its chunk
    seen,      \* the blocks the scanner has assembled
    admitted,  \* number of entries admitted or skipped
    deployed   \* the entries to extract

archiveVars == <<archive, consumed, tail, seen, admitted, deployed>>

ArchiveInit ==
    /\ archive \in Archives
    /\ consumed = 0 /\ tail = <<>> /\ seen = <<>>
    /\ admitted = 0 /\ deployed = {}

-----------------------------------------------------------------------------
(* The scanner *)

StreamLength == Len(archive.blocks) * BlockUnits + archive.loose
\* The units of block k, and what a block of units is when it is none of them.
UnitsOf(k) == [i \in 1 .. BlockUnits |-> (k - 1) * BlockUnits + i]
KindOf(block) ==
    IF \E k \in DOMAIN archive.blocks : block = UnitsOf(k)
    THEN archive.blocks[CHOOSE k \in DOMAIN archive.blocks : block = UnitsOf(k)]
    ELSE "unsafe"

\* inspectRawHeaderBlock: the blocks of data still to come, or -1.
InspectBlock(remaining, kind) ==
    CASE remaining = -1 -> -1
      [] remaining > 0 -> remaining - 1
      [] kind = "unsafe" /\ remaining = 0 -> -1
      [] kind = "file" /\ remaining = 0 -> 1
      [] OTHER -> 0
Remaining(kinds) == FoldLeft(InspectBlock, 0, kinds)

DataLeft == Remaining([k \in DOMAIN seen |-> KindOf(seen[k])])
\* The stream is over, or a block was refused.
ScanEnds == consumed = StreamLength \/ DataLeft = -1

\* Mutant of NextTail: what is left of a chunk is lost when the chunk closed a block.
NextTailLost(chunk, offset, full) ==
    IF offset > 0 THEN <<>> ELSE SubSeq(chunk, offset + full * BlockUnits + 1, Len(chunk))

\* What is left of a chunk once its whole blocks are taken.
NextTail(chunk, offset, full) == SubSeq(chunk, offset + full * BlockUnits + 1, Len(chunk))

\* rawHeaderSafetyFromChunks and metadataHeaderTypesFromChunks, one chunk.
ScanChunk ==
    /\ ~ScanEnds
    /\ \E n \in 1 .. MaxChunk :
          LET chunk == [i \in 1 .. n |-> consumed + i]
              needed == BlockUnits - Len(tail)
              offset == IF tail = <<>> THEN 0 ELSE needed
              closed == IF tail = <<>> THEN <<>> ELSE << tail \o SubSeq(chunk, 1, needed) >>
              full == (n - offset) \div BlockUnits
              whole == [k \in 1 .. full |->
                          SubSeq(chunk, offset + (k - 1) * BlockUnits + 1, offset + k * BlockUnits)]
          IN /\ consumed + n <= StreamLength
             /\ consumed' = consumed + n
             /\ IF tail # <<>> /\ n < needed
                THEN tail' = tail \o chunk /\ UNCHANGED seen
                ELSE tail' = NextTail(chunk, offset, full) /\ seen' = seen \o closed \o whole
    /\ UNCHANGED <<archive, admitted, deployed>>

HeadersSafe == tail = <<>> /\ DataLeft = 0

-----------------------------------------------------------------------------
(* The entries *)

Canonical(path) == [i \in DOMAIN path |-> IF path[i] = "A" THEN "a" ELSE path[i]]
Above(path) == {SubSeq(path, 1, i) : i \in 1 .. Len(path) - 1}
UpTo(path) == Above(path) \cup {path}
Spellings == UNION {UpTo(e.path) : e \in deployed}
CanonicalFiles == {Canonical(e.path) : e \in {d \in deployed : d.type = "file"}}
Parents == UNION {Above(Canonical(e.path)) : e \in deployed}
Terminals == {Canonical(e.path) : e \in deployed}

\* validateDeploymentEntry: another spelling, a file above, a duplicate, a file in place
\* of a directory.
Collides(e) ==
    \/ \E p \in UpTo(e.path), q \in Spellings : p # q /\ Canonical(p) = Canonical(q)
    \/ Above(Canonical(e.path)) \cap CanonicalFiles # {}
    \/ Canonical(e.path) \in Terminals
    \/ e.type = "file" /\ Canonical(e.path) \in Parents

NextEntry == archive.entries[admitted + 1]
EntriesEnd == admitted = Len(archive.entries)

\* The entries of a GitHub archive lie in one directory.
OutsideRoot(e) ==
    \/ e.path[1] # archive.entries[1].path[1]
    \/ Len(e.path) = 1 /\ e.type = "file"

Admit ==
    /\ ~EntriesEnd
    /\ NextEntry.type # "link" => ~Collides(NextEntry)
    /\ admitted' = admitted + 1
    /\ deployed' = IF NextEntry.type = "link" THEN deployed ELSE deployed \cup {NextEntry}
    /\ UNCHANGED <<archive, consumed, tail, seen>>
=============================================================================
