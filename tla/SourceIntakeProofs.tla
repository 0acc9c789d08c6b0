------------------------- MODULE SourceIntakeProofs -------------------------
(***************************************************************************)
(* Proofs about SourceIntake, for any archives, any size of block and      *)
(* chunk, and any edits of SOURCE and of the copy that is validated.       *)
(***************************************************************************)
EXTENDS SourceIntake, SequenceTheorems, TLAPS

-----------------------------------------------------------------------------
(* The inductive invariants *)

\* The archive has been copied; a file is being read; the bytes are complete.
Copied == {"digest", "scan", "entries", "extract"}
Capturing == {"capture", "open", "read", "recheck", "compare"}
Judging == {"judge", "recapture"}

\* What the stages are: nothing is written later than the last edit.
Copying ==
    /\ reading \in [file : File \cup {"none"}, ino : Nat, opened : Stamp, halves : Seq(Stamp), after : Stamp]
    /\ written \in [0 .. MaxEdits + 2 -> 0 .. edits]
    /\ copy \in Seq(0 .. MaxEdits)
    /\ pc \in {"parse", "resolve", "fetch"} => copy = <<>>
    /\ pc = "copy" => Len(copy) < 2
    /\ pc \in Copied => Len(copy) = 2
    /\ pc \in Capturing /\ reference # "directory" => Len(copy) = 2
    /\ pc \in (Copied \ {"digest"}) \cup Capturing /\ reference \in Pinned => copy = Original

\* What has been read of a file was written after it was opened, and not after now.
Reading ==
    /\ pc \in Capturing \ {"capture"} =>
         /\ reading.file \in File /\ reading.ino \in 0 .. MaxEdits + 2
         /\ reading.halves \in Seq(0 .. MaxEdits)
    /\ pc = "open" => reading.halves = <<>>
    /\ pc = "read" => Len(reading.halves) < 2
    /\ pc \in {"recheck", "compare"} => Len(reading.halves) = 2
    /\ pc \in {"read", "recheck", "compare"} =>
         /\ reading.opened \in 0 .. StampOf(reading.ino)
         /\ \A i \in DOMAIN reading.halves : reading.halves[i] \in reading.opened .. StampOf(reading.ino)
    /\ pc = "compare" => \A i \in DOMAIN reading.halves : reading.halves[i] <= reading.after

\* A file is captured whole, in a version SOURCE had.
Whole ==
    /\ \A f \in File : captured[f] = None \/
         \E s \in 0 .. MaxEdits : captured[f] = <<s, s>> /\ (reference \in Pinned => s = 0)
    /\ pc \in {"write", "judge", "recapture"} => \A f \in File : captured[f] # None

\* A tampering never gives the copy the captured bytes back.
Judged ==
    /\ pc \in Judging => \A f \in File : snapshot[f] = captured[f] \/ snapshot[f][1] > MaxEdits
    /\ pc = "recapture" =>
         /\ judged = snapshot \/ \E f \in File : snapshot[f][1] > MaxEdits
         /\ frozen => \A f \in File : judged[f] = Original
    /\ result = "material" =>
         /\ pc \in {"clean", "release", "done"}
         /\ \A f \in File : captured[f] # None
         /\ judged = captured
         /\ frozen => \A f \in File : captured[f] = Original

\* Which private directories are there, and what is said of them.
Kept ==
    /\ pc \in {"parse", "resolve", "fetch"} => private = {}
    /\ pc \in {"copy", "discard"} \cup Copied \cup Capturing \cup {"write"} => private \subseteq {"archive"}
    /\ private \subseteq {"archive", "snapshot"}
    /\ result \in {"none", "refused", "material"}
    /\ answer \in {"none", "refused", "leftover", "material"}
    /\ pc = "release" /\ "snapshot" \in private => answer = "leftover"
    /\ pc = "release" => answer \in {"none", "leftover"} /\ result \in {"refused", "material"}
    /\ pc = "clean" => result \in {"refused", "material"}
    /\ pc \notin {"release", "done"} => answer = "none"
    /\ pc \notin {"clean", "release", "done"} => result = "none"
    /\ answer = "material" => result = "material"
    /\ NothingPrivateStays

\* The units of a sequence follow one another, from the one after a on.
Follows(units, a) == \A i \in 1 .. Len(units) : units[i] = a + i

\* The blocks and the units that wait for their block are the stream as far as it was read.
Assembled ==
    /\ seen \in Seq(Seq(Nat)) /\ tail \in Seq(Nat)
    /\ \A k \in 1 .. Len(seen) : seen[k] = UnitsOf(k)
    /\ Follows(tail, Len(seen) * BlockUnits)
    /\ Len(tail) < BlockUnits
    /\ consumed = Len(seen) * BlockUnits + Len(tail)
    /\ consumed <= StreamLength
    /\ archive \in Archives

\* The entries admitted so far are a tree on the target.
Admitted ==
    LET entries == {i \in 1 .. admitted : archive.entries[i].type # "link"}
    IN /\ admitted \in 0 .. Len(archive.entries)
       /\ deployed = {archive.entries[i] : i \in entries}
       /\ Treelike(deployed)
       /\ \A i, j \in entries : i # j => archive.entries[i] # archive.entries[j]

\* The entries are looked at once the blocks were found safe, and extracted once all were.
Screened ==
    /\ pc \in {"entries", "extract"} => archive.loose = 0 /\ Remaining(archive.blocks) = 0
    /\ pc = "extract" => EntriesEnd

-----------------------------------------------------------------------------
(* The stages *)

\* Every sequence of stamps has stamps.
LEMMA StampBounds ==
    /\ 0 .. MaxEdits \subseteq Stamp /\ NoStamp \in Stamp
    /\ Original \in Bytes /\ None \in Bytes
  BY BoundsAssumption DEF Stamp, NoStamp, Bytes, Original, None

\* At the start nothing has been copied or read.
LEMMA TypesInit == Init => TypeOK /\ Copying
  BY StampBounds, BoundsAssumption
     DEF Init, TypeOK, Copying, Stages, Things, File, NotReading, NoStamp, Copied, Capturing, Bytes

\* Which actions change what.
LEMMA Changes ==
    ASSUME [Next]_vars
    PROVE  /\ UNCHANGED <<reference, frozen, archive>>
           /\ EditInPlace \/ RenameOver \/ UNCHANGED <<inode, written, edits>>
           /\ CopyChunk \/ UNCHANGED copy
           /\ StatFile \/ OpenFile \/ ReadChunk \/ StatHandle \/ TakeFile \/ UNCHANGED reading
           /\ TakeFile \/ UNCHANGED captured
           /\ WriteSnapshot \/ Tamper \/ UNCHANGED snapshot
           /\ Validate \/ UNCHANGED judged
           /\ Redirect \/ UNCHANGED hops
           /\ Tamper \/ UNCHANGED tampering
           /\ CaptureFails \/ WriteSnapshot \/ Validate \/ Recapture \/ UNCHANGED result
           /\ Scan \/ UNCHANGED <<consumed, tail, seen>>
           /\ AdmitEntry \/ UNCHANGED <<admitted, deployed>>
  <1> USE DEF sourceVars, captureVars, judgeVars, endVars, archiveVars
  <1>1. CASE UNCHANGED vars
    BY <1>1 DEF vars
  <1>2. CASE Parse
    BY <1>2 DEF Parse
  <1>3. CASE BadReference
    BY <1>3 DEF BadReference
  <1>4. CASE ResolveHead
    BY <1>4 DEF ResolveHead
  <1>5. CASE HeadUnknown
    BY <1>5 DEF HeadUnknown
  <1>6. CASE MakePrivate
    BY <1>6 DEF MakePrivate
  <1>7. CASE Redirect
    BY <1>7 DEF Redirect
  <1>8. CASE CopyChunk
    BY <1>8 DEF CopyChunk
  <1>9. CASE CopyFails
    BY <1>9 DEF CopyFails
  <1>10. CASE CheckDigest
    BY <1>10 DEF CheckDigest
  <1>11. CASE Scan
    BY <1>11 DEF Scan, ScanChunk
  <1>12. CASE Scanned
    BY <1>12 DEF Scanned
  <1>13. CASE AdmitEntry
    BY <1>13 DEF AdmitEntry, Admit
  <1>14. CASE RefuseEntry
    BY <1>14 DEF RefuseEntry
  <1>15. CASE Inspected
    BY <1>15 DEF Inspected
  <1>16. CASE Extract
    BY <1>16 DEF Extract
  <1>17. CASE Discard
    BY <1>17 DEF Discard
  <1>18. CASE StatFile
    BY <1>18 DEF StatFile
  <1>19. CASE OpenFile
    BY <1>19 DEF OpenFile
  <1>20. CASE ReadChunk
    BY <1>20 DEF ReadChunk
  <1>21. CASE StatHandle
    BY <1>21 DEF StatHandle
  <1>22. CASE TakeFile
    BY <1>22 DEF TakeFile
  <1>23. CASE CaptureFails
    BY <1>23 DEF CaptureFails
  <1>24. CASE WriteSnapshot
    BY <1>24 DEF WriteSnapshot
  <1>25. CASE Validate
    BY <1>25 DEF Validate
  <1>26. CASE Recapture
    BY <1>26 DEF Recapture
  <1>27. CASE CleanSnapshot
    BY <1>27 DEF CleanSnapshot
  <1>28. CASE Release
    BY <1>28 DEF Release
  <1>29. CASE EditInPlace
    BY <1>29 DEF EditInPlace
  <1>30. CASE RenameOver
    BY <1>30 DEF RenameOver
  <1>31. CASE Tamper
    BY <1>31 DEF Tamper
  <1>. QED
    BY <1>1, <1>2, <1>3, <1>4, <1>5, <1>6, <1>7, <1>8, <1>9, <1>10, <1>11, <1>12, <1>13, <1>14, <1>15, <1>16, <1>17, <1>18, <1>19, <1>20, <1>21, <1>22, <1>23, <1>24, <1>25, <1>26, <1>27, <1>28, <1>29, <1>30, <1>31 DEF Next

\* Which stages follow a stage, and where SOURCE's kind decides.
LEMMA Moves ==
    ASSUME [Next]_vars, pc \in Stages
    PROVE  /\ pc' \in Stages
           /\ pc' # pc =>
                /\ pc' # "parse"
                /\ pc' \in {"resolve", "fetch"} => pc \in {"parse", "resolve"}
                /\ pc' = "copy" => pc = "fetch"
                /\ pc' = "digest" => CopyChunk
                /\ pc' = "scan" => CheckDigest /\ DigestAgrees
                /\ pc' = "entries" => Scanned
                /\ pc' = "extract" => Inspected
                /\ pc' = "discard" => pc = "copy" \/ pc \in Copied
                /\ pc' = "capture" => TakeFile \/ (pc = "parse" /\ reference = "directory") \/ Extract
                /\ pc' = "open" => StatFile
                /\ pc' = "read" => OpenFile
                /\ pc' = "recheck" => ReadChunk
                /\ pc' = "compare" => StatHandle
                /\ pc' = "write" => TakeFile
                /\ pc' = "judge" => WriteSnapshot
                /\ pc' = "recapture" => Validate
                /\ pc' = "clean" => CaptureFails \/ WriteSnapshot \/ Validate \/ Recapture
                /\ pc' = "release" => CleanSnapshot
                /\ pc' = "done" => BadReference \/ HeadUnknown \/ Discard \/ Release
  <1> USE DEF Stages, At, Goto, Answer, Copied
  <1>1. CASE UNCHANGED vars
    BY <1>1 DEF vars
  <1>2. CASE Parse
    BY <1>2 DEF Parse
  <1>3. CASE BadReference
    BY <1>3 DEF BadReference
  <1>4. CASE ResolveHead
    BY <1>4 DEF ResolveHead
  <1>5. CASE HeadUnknown
    BY <1>5 DEF HeadUnknown
  <1>6. CASE MakePrivate
    BY <1>6 DEF MakePrivate
  <1>7. CASE Redirect
    BY <1>7 DEF Redirect
  <1>8. CASE CopyChunk
    BY <1>8 DEF CopyChunk
  <1>9. CASE CopyFails
    BY <1>9 DEF CopyFails
  <1>10. CASE CheckDigest
    BY <1>10 DEF CheckDigest
  <1>11. CASE Scan
    BY <1>11 DEF Scan
  <1>12. CASE Scanned
    BY <1>12 DEF Scanned
  <1>13. CASE AdmitEntry
    BY <1>13 DEF AdmitEntry
  <1>14. CASE RefuseEntry
    BY <1>14 DEF RefuseEntry
  <1>15. CASE Inspected
    BY <1>15 DEF Inspected
  <1>16. CASE Extract
    BY <1>16 DEF Extract
  <1>17. CASE Discard
    BY <1>17 DEF Discard
  <1>18. CASE StatFile
    BY <1>18 DEF StatFile
  <1>19. CASE OpenFile
    BY <1>19 DEF OpenFile
  <1>20. CASE ReadChunk
    BY <1>20 DEF ReadChunk
  <1>21. CASE StatHandle
    BY <1>21 DEF StatHandle
  <1>22. CASE TakeFile
    BY <1>22 DEF TakeFile
  <1>23. CASE CaptureFails
    BY <1>23 DEF CaptureFails
  <1>24. CASE WriteSnapshot
    BY <1>24 DEF WriteSnapshot
  <1>25. CASE Validate
    BY <1>25 DEF Validate
  <1>26. CASE Recapture
    BY <1>26 DEF Recapture
  <1>27. CASE CleanSnapshot
    BY <1>27 DEF CleanSnapshot
  <1>28. CASE Release
    BY <1>28 DEF Release
  <1>29. CASE EditInPlace
    BY <1>29 DEF EditInPlace
  <1>30. CASE RenameOver
    BY <1>30 DEF RenameOver
  <1>31. CASE Tamper
    BY <1>31 DEF Tamper
  <1>. QED
    BY <1>1, <1>2, <1>3, <1>4, <1>5, <1>6, <1>7, <1>8, <1>9, <1>10, <1>11, <1>12, <1>13, <1>14, <1>15, <1>16, <1>17, <1>18, <1>19, <1>20, <1>21, <1>22, <1>23, <1>24, <1>25, <1>26, <1>27, <1>28, <1>29, <1>30, <1>31 DEF Next

-----------------------------------------------------------------------------
(* The private directories *)

\* The private directories are there, and mentioned, as the stages say.
LEMMA KeptStep == pc \in Stages /\ Kept /\ [Next]_vars => Kept'
  <1> SUFFICES ASSUME pc \in Stages, Kept, [Next]_vars PROVE Kept'
    OBVIOUS
  <1> USE DEF Stages, Copied, Capturing, At, Goto, Answer, Kept, NothingPrivateStays
  <1> USE DEF sourceVars, captureVars, judgeVars, endVars
  <1>1. CASE Parse
    BY <1>1 DEF Parse
  <1>2. CASE BadReference
    BY <1>2 DEF BadReference
  <1>3. CASE ResolveHead
    BY <1>3 DEF ResolveHead
  <1>4. CASE HeadUnknown
    BY <1>4 DEF HeadUnknown
  <1>5. CASE MakePrivate
    BY <1>5 DEF MakePrivate
  <1>6. CASE Redirect
    BY <1>6 DEF Redirect
  <1>7. CASE CopyChunk
    BY <1>7 DEF CopyChunk
  <1>8. CASE CopyFails
    BY <1>8 DEF CopyFails
  <1>9. CASE CheckDigest
    BY <1>9 DEF CheckDigest
  <1>10. CASE Scan
    BY <1>10 DEF Scan
  <1>11. CASE Scanned
    BY <1>11 DEF Scanned
  <1>12. CASE AdmitEntry
    BY <1>12 DEF AdmitEntry
  <1>13. CASE RefuseEntry
    BY <1>13 DEF RefuseEntry
  <1>14. CASE Inspected
    BY <1>14 DEF Inspected
  <1>15. CASE Extract
    BY <1>15 DEF Extract
  <1>16. CASE Discard
    BY <1>16 DEF Discard
  <1>17. CASE StatFile
    BY <1>17 DEF StatFile
  <1>18. CASE OpenFile
    BY <1>18 DEF OpenFile
  <1>19. CASE ReadChunk
    BY <1>19 DEF ReadChunk
  <1>20. CASE StatHandle
    BY <1>20 DEF StatHandle
  <1>21. CASE TakeFile
    BY <1>21 DEF TakeFile
  <1>22. CASE CaptureFails
    BY <1>22 DEF CaptureFails
  <1>23. CASE WriteSnapshot
    BY <1>23 DEF WriteSnapshot
  <1>24. CASE Validate
    BY <1>24 DEF Validate
  <1>25. CASE Recapture
    BY <1>25 DEF Recapture
  <1>26. CASE CleanSnapshot
    BY <1>26 DEF CleanSnapshot
  <1>27. CASE Release
    <2>1. PICK gone \in BOOLEAN :
              /\ "archive" \notin private => gone
              /\ private' = IF gone THEN private \ {"archive"} ELSE private
              /\ answer' = Settled(gone)
      BY <1>27 DEF Release
    <2>2. "snapshot" \in private => answer' = "leftover"
      BY <1>27, <2>1 DEF Release, Settled
    <2>3. private' # {} => answer' = "leftover"
      <3>1. private \subseteq {"archive", "snapshot"}
        BY <1>27 DEF Release
      <3>. QED
        BY <2>1, <2>2, <3>1 DEF Settled
    <2>. QED
      BY <1>27, <2>1, <2>3 DEF Release, Settled
  <1>28. CASE EditInPlace
    BY <1>28 DEF EditInPlace
  <1>29. CASE RenameOver
    BY <1>29 DEF RenameOver
  <1>30. CASE Tamper
    BY <1>30 DEF Tamper
  <1>31. CASE UNCHANGED vars
    BY <1>31 DEF vars
  <1>. QED
    BY <1>1, <1>2, <1>3, <1>4, <1>5, <1>6, <1>7, <1>8, <1>9, <1>10, <1>11, <1>12, <1>13, <1>14, <1>15, <1>16, <1>17, <1>18, <1>19, <1>20, <1>21, <1>22, <1>23, <1>24, <1>25, <1>26, <1>27, <1>28, <1>29, <1>30, <1>31 DEF Next

-----------------------------------------------------------------------------
(* The copy of the archive *)

\* What overwriting one value of a function leaves.
LEMMA Overwritten ==
    ASSUME NEW S, NEW T, NEW f \in [S -> T], NEW k, NEW v \in T
    PROVE  /\ [f EXCEPT ![k] = v] \in [S -> T]
           /\ \A i \in S : [f EXCEPT ![k] = v][i] = f[i] \/ [f EXCEPT ![k] = v][i] = v
  OBVIOUS

\* An edit writes a later stamp than any there is.
LEMMA EditsStep ==
    ASSUME TypeOK, Copying, [Next]_vars
    PROVE  /\ edits' \in 0 .. MaxEdits /\ edits <= edits'
           /\ inode' \in [Things -> 0 .. MaxEdits + 2]
           /\ written' \in [0 .. MaxEdits + 2 -> 0 .. edits']
           /\ \A i \in 0 .. MaxEdits + 2 : written[i] <= written'[i]
  <1>1. /\ edits \in 0 .. MaxEdits /\ MaxEdits \in Nat
        /\ inode \in [Things -> 0 .. MaxEdits + 2]
        /\ written \in [0 .. MaxEdits + 2 -> 0 .. edits]
    BY BoundsAssumption DEF TypeOK, Copying
  <1>2. CASE EditInPlace
    <2>1. PICK t \in Editable : written' = [written EXCEPT ![inode[t]] = edits + 1]
      BY <1>2 DEF EditInPlace
    <2>2. edits < MaxEdits /\ edits' = edits + 1 /\ inode' = inode
      BY <1>2 DEF EditInPlace
    <2>3. edits' \in 0 .. MaxEdits /\ edits + 1 \in 0 .. edits' /\ 0 .. edits \subseteq 0 .. edits'
      BY <1>1, <2>2
    <2>4. written \in [0 .. MaxEdits + 2 -> 0 .. edits']
      BY <1>1, <2>3
    <2>5. /\ written' \in [0 .. MaxEdits + 2 -> 0 .. edits']
          /\ \A i \in 0 .. MaxEdits + 2 : written'[i] = written[i] \/ written'[i] = edits + 1
      BY <2>1, <2>3, <2>4, Overwritten
    <2>6. \A i \in 0 .. MaxEdits + 2 : written[i] \in 0 .. edits
      BY <1>1
    <2>7. ASSUME NEW i \in 0 .. MaxEdits + 2 PROVE written[i] <= written'[i]
      <3>1. written[i] \in 0 .. edits /\ (written'[i] = written[i] \/ written'[i] = edits + 1)
        BY <2>5, <2>6
      <3>2. edits \in Nat
        BY <1>1
      <3>. QED
        BY <3>1, <3>2
    <2>. QED
      BY <1>1, <2>2, <2>3, <2>5, <2>7
  <1>3. CASE RenameOver
    <2>1. PICK t \in Editable : inode' = [inode EXCEPT ![t] = 3 + edits]
      BY <1>3 DEF RenameOver
    <2>2. edits < MaxEdits /\ edits' = edits + 1 /\ written' = [written EXCEPT ![3 + edits] = edits + 1]
      BY <1>3 DEF RenameOver
    <2>3. inode' \in [Things -> 0 .. MaxEdits + 2]
      <3>1. 3 + edits \in 0 .. MaxEdits + 2
        BY <1>1, <2>2
      <3>. QED
        BY <1>1, <2>1, <3>1, Overwritten
    <2>4. edits' \in 0 .. MaxEdits /\ edits + 1 \in 0 .. edits' /\ 0 .. edits \subseteq 0 .. edits'
      BY <1>1, <2>2
    <2>5. written \in [0 .. MaxEdits + 2 -> 0 .. edits']
      BY <1>1, <2>4
    <2>6. /\ written' \in [0 .. MaxEdits + 2 -> 0 .. edits']
          /\ \A i \in 0 .. MaxEdits + 2 : written'[i] = written[i] \/ written'[i] = edits + 1
      BY <2>2, <2>4, <2>5, Overwritten
    <2>7. \A i \in 0 .. MaxEdits + 2 : written[i] \in 0 .. edits
      BY <1>1
    <2>8. ASSUME NEW i \in 0 .. MaxEdits + 2 PROVE written[i] <= written'[i]
      <3>1. written[i] \in 0 .. edits /\ (written'[i] = written[i] \/ written'[i] = edits + 1)
        BY <2>6, <2>7
      <3>2. edits \in Nat
        BY <1>1
      <3>. QED
        BY <3>1, <3>2
    <2>. QED
      BY <1>1, <2>2, <2>3, <2>4, <2>6, <2>8
  <1>4. CASE UNCHANGED <<inode, written, edits>>
    BY <1>1, <1>4
  <1>. QED
    BY <1>2, <1>3, <1>4, Changes

\* The elements of a pair.
LEMMA TwoElements ==
    ASSUME NEW S, NEW s \in Seq(S), Len(s) = 2
    PROVE  s[1] \in S /\ s[2] \in S
  <1>1. 1 \in 1 .. Len(s) /\ 2 \in 1 .. Len(s)
    OBVIOUS
  <1>. QED
    BY <1>1, ElementOfSeq

\* While the files are captured a file has a stamp, and a name leads to one.
LEMMA StampOfFile ==
    ASSUME TypeOK, Copying, pc \in Capturing
    PROVE  /\ \A i \in 0 .. MaxEdits + 2 : StampOf(i) \in 0 .. MaxEdits
           /\ \A f \in File : InodeOf(f) \in 0 .. MaxEdits + 2
  <1>1. edits \in 0 .. MaxEdits /\ MaxEdits \in Nat
    BY BoundsAssumption DEF TypeOK
  <1>2. \A i \in 0 .. MaxEdits + 2 : written[i] \in 0 .. MaxEdits
    BY <1>1 DEF Copying
  <1>3. reference # "directory" => copy[1] \in 0 .. MaxEdits
    <2>1. CASE reference # "directory"
      <3>1. copy \in Seq(0 .. MaxEdits) /\ Len(copy) = 2
        BY <2>1 DEF Copying
      <3>. QED
        BY <3>1, TwoElements
    <2>. QED
      BY <2>1
  <1>4. \A f \in File : inode[f] \in 0 .. MaxEdits + 2
    BY DEF TypeOK, Things
  <1>. QED
    BY <1>1, <1>2, <1>3, <1>4 DEF StampOf, InodeOf

\* A chunk of the archive has a stamp.
LEMMA ArchiveStamp ==
    ASSUME TypeOK, Copying
    PROVE  written[inode["archive"]] \in 0 .. MaxEdits
  <1>1. edits \in 0 .. MaxEdits /\ MaxEdits \in Nat
    BY BoundsAssumption DEF TypeOK
  <1>2. \A i \in 0 .. MaxEdits + 2 : written[i] \in 0 .. MaxEdits
    BY <1>1 DEF Copying
  <1>3. inode["archive"] \in 0 .. MaxEdits + 2
    BY DEF TypeOK, Things
  <1>. QED
    BY <1>2, <1>3

\* What is copied is stamps; the copy is complete before its digest is taken.
LEMMA CopyStep ==
    ASSUME TypeOK, Copying, [Next]_vars
    PROVE  /\ copy' \in Seq(0 .. MaxEdits) /\ copy' \in Seq(Stamp) /\ Len(copy') <= 2
           /\ pc' \in {"parse", "resolve", "fetch"} => copy' = <<>>
           /\ pc' = "copy" => Len(copy') < 2
           /\ pc' \in Copied => Len(copy') = 2
           /\ pc' \in Capturing /\ reference' # "directory" => Len(copy') = 2
           /\ pc' \in (Copied \ {"digest"}) \cup Capturing /\ reference' \in Pinned => copy' = Original
  <1>1. copy \in Seq(0 .. MaxEdits) /\ Len(copy) \in Nat /\ pc \in Stages
    BY LenProperties DEF TypeOK, Copying
  <1>2. 0 .. MaxEdits \subseteq Stamp
    BY StampBounds
  <1>3. CASE CopyChunk
    <2>1. pc = "copy" /\ Len(copy) < 2
      BY <1>3 DEF CopyChunk, At, Copying
    <2>2. copy' \in Seq(0 .. MaxEdits) /\ Len(copy') = Len(copy) + 1
      BY <1>1, <1>3, ArchiveStamp, AppendProperties DEF CopyChunk
    <2>3. copy' \in Seq(Stamp)
      BY <1>2, <2>2, SeqMonotonic
    <2>4. pc' = IF Len(copy) = 1 THEN "digest" ELSE "copy"
      BY <1>3 DEF CopyChunk, Goto
    <2>. QED
      <3>1. /\ pc' = "digest" => Len(copy') = 2
            /\ pc' = "copy" => Len(copy') < 2
            /\ Len(copy') <= 2
            /\ pc' \in {"digest", "copy"}
        <4>1. Len(copy) = 0 \/ Len(copy) = 1
          BY <1>1, <2>1
        <4>2. CASE Len(copy) = 0
          BY <2>2, <2>4, <4>2
        <4>3. CASE Len(copy) = 1
          BY <2>2, <2>4, <4>3
        <4>. QED
          BY <4>1, <4>2, <4>3
      <3>2. pc' \notin {"parse", "resolve", "fetch"} /\ pc' \notin (Copied \ {"digest"}) \cup Capturing
        BY <3>1 DEF Copied, Capturing
      <3>3. pc' \in Copied => pc' = "digest"
        BY <3>1 DEF Copied
      <3>. QED
        BY <2>2, <2>3, <3>1, <3>2, <3>3
  <1>4. CASE UNCHANGED copy
    <2>1. copy \in Seq(Stamp)
      BY <1>1, <1>2, SeqMonotonic
    <2>2. /\ pc' \in {"parse", "resolve", "fetch"} => copy = <<>>
          /\ pc' = "copy" => Len(copy) < 2
      <3>1. pc = "fetch" => Len(copy) = 0
        BY DEF Copying
      <3>. QED
        BY <1>1, <3>1, Moves DEF Copying
    <2>3. pc' \in Copied => Len(copy) = 2
      BY <1>1, <1>4, Moves
         DEF Copying, Copied, Stages, CopyChunk, CheckDigest, Scanned, Inspected, At
    <2>4. /\ pc' \in Capturing /\ reference # "directory" => Len(copy) = 2
          /\ pc' \in (Copied \ {"digest"}) \cup Capturing /\ reference \in Pinned => copy = Original
      BY <1>1, Moves
         DEF Copying, Copied, Capturing, Stages, Pinned, DigestAgrees, CheckDigest, Scanned, Inspected,
             Extract, StatFile, OpenFile, ReadChunk, StatHandle, TakeFile, CopyChunk, At
    <2>. QED
      BY <1>1, <1>4, <2>1, <2>2, <2>3, <2>4, Changes DEF TypeOK
  <1>. QED
    BY <1>3, <1>4, Changes

\* The file being read stays a record of that shape.
LEMMA ReadingStep ==
    ASSUME TypeOK, Copying, Reading, [Next]_vars
    PROVE  reading' \in [file : File \cup {"none"}, ino : Nat, opened : Stamp, halves : Seq(Stamp),
                       after : Stamp]
  <1> DEFINE Record == [file : File \cup {"none"}, ino : Nat, opened : Stamp, halves : Seq(Stamp), after : Stamp]
  <1>1. reading \in Record /\ NotReading \in Record
    BY StampBounds DEF Copying, NotReading
  <1>2. 0 .. MaxEdits \subseteq Stamp /\ MaxEdits \in Nat
    BY StampBounds, BoundsAssumption
  <1>3. CASE StatFile
    <2>1. PICK f \in File : reading' = [NotReading EXCEPT !.file = f, !.ino = InodeOf(f)]
      BY <1>3 DEF StatFile, Uncaptured
    <2>2. InodeOf(f) \in Nat
      BY <1>2, <1>3, StampOfFile DEF StatFile, At, Capturing
    <2>. QED
      BY <1>1, <2>1, <2>2
  <1>4. ASSUME pc \in {"open", "read", "recheck"} PROVE StampOf(reading.ino) \in Stamp
    BY <1>2, <1>4, StampOfFile DEF Reading, Capturing
  <1>5. CASE OpenFile
    BY <1>1, <1>4, <1>5 DEF OpenFile, At
  <1>6. CASE ReadChunk
    <2>1. Append(reading.halves, StampOf(reading.ino)) \in Seq(Stamp)
      BY <1>1, <1>4, <1>6, AppendProperties DEF ReadChunk, At
    <2>. QED
      BY <1>1, <1>6, <2>1 DEF ReadChunk
  <1>7. CASE StatHandle
    BY <1>1, <1>4, <1>7 DEF StatHandle, At
  <1>. QED
    BY <1>1, <1>3, <1>5, <1>6, <1>7, Changes DEF TakeFile

\* Every variable keeps its type, and the copy of the archive is stamps.
LEMMA TypesStep == TypeOK /\ Copying /\ Reading /\ Kept /\ [Next]_vars => TypeOK' /\ Copying' /\ Kept'
  <1> SUFFICES ASSUME TypeOK, Copying, Reading, Kept, [Next]_vars PROVE TypeOK' /\ Copying' /\ Kept'
    OBVIOUS
  <1>1. Kept' /\ pc' \in Stages
    BY KeptStep, Moves DEF TypeOK
  <1>2. reference' \in References /\ frozen' \in BOOLEAN
    BY Changes DEF TypeOK
  <1>3. written' \in [0 .. MaxEdits + 2 -> Stamp]
    <2>1. 0 .. edits' \subseteq Stamp /\ written' \in [0 .. MaxEdits + 2 -> 0 .. edits']
      BY EditsStep, BoundsAssumption DEF Stamp
    <2>. QED
      BY <2>1
  <1>4. hops' \in 0 .. MaxRedirects
    BY Changes, BoundsAssumption DEF TypeOK, Redirect
  <1>5. tampering' \in 0 .. MaxTampering
    BY Changes, BoundsAssumption DEF TypeOK, Tamper
  <1>6. captured' \in [File -> Bytes]
    <2>1. CASE TakeFile
      <3>1. reading.halves \in Seq(Stamp) /\ Len(reading.halves) = 2
        BY <2>1 DEF TakeFile, At, Reading, Copying
      <3>2. <<reading.halves[1], reading.halves[2]>> \in Bytes
        BY <3>1, TwoElements DEF Bytes
      <3>. QED
        BY <2>1, <3>2, Overwritten DEF TakeFile, TypeOK
    <2>. QED
      BY <2>1, Changes DEF TypeOK
  <1>7. snapshot' \in [File -> Bytes]
    <2>1. CASE Tamper
      <3>1. <<MaxEdits + tampering + 1, MaxEdits + tampering + 1>> \in Bytes
        BY <2>1, BoundsAssumption DEF Tamper, TypeOK, Bytes, Stamp
      <3>. QED
        BY <2>1, <3>1, Overwritten DEF Tamper, TypeOK
    <2>. QED
      BY <2>1, Changes DEF TypeOK, WriteSnapshot
  <1>8. judged' \in [File -> Bytes]
    BY Changes DEF TypeOK, Validate
  <1>9. Copying'
    BY CopyStep, ReadingStep, EditsStep DEF Copying
  <1>10. TypeOK'
    BY <1>1, <1>2, <1>3, <1>4, <1>5, <1>6, <1>7, <1>8, CopyStep, ReadingStep, EditsStep DEF TypeOK, Kept
  <1>. QED
    BY <1>1, <1>9, <1>10

-----------------------------------------------------------------------------
(* The capture *)

\* What is edited while the files are captured gets a later stamp.
LEMMA StampGrows ==
    ASSUME TypeOK, Copying, pc \in Capturing, [Next]_vars, NEW i \in 0 .. MaxEdits + 2
    PROVE  /\ StampOf(i) \in 0 .. MaxEdits
           /\ StampOf(i)' \in Int
           /\ StampOf(i) <= StampOf(i)'
  <1>1. StampOf(i) \in 0 .. MaxEdits /\ MaxEdits \in Nat
    BY StampOfFile, BoundsAssumption
  <1>2. UNCHANGED <<reference, copy>>
    BY Changes DEF Capturing, CopyChunk, At
  <1>3. written'[i] \in Int /\ written[i] <= written'[i]
    <2>1. edits' \in 0 .. MaxEdits /\ written' \in [0 .. MaxEdits + 2 -> 0 .. edits']
      BY EditsStep
    <2>2. written'[i] \in 0 .. edits'
      BY <2>1
    <2>. QED
      BY <2>1, <2>2, EditsStep
  <1>4. CASE reference = "directory"
    BY <1>1, <1>2, <1>3, <1>4 DEF StampOf
  <1>5. CASE reference # "directory"
    BY <1>1, <1>2, <1>5 DEF StampOf
  <1>. QED
    BY <1>4, <1>5

\* A chunk is as old as the file was when it was read, and no older than at its opening.
LEMMA ReadingInv == TypeOK /\ Copying /\ Reading /\ [Next]_vars => Reading'
  <1> SUFFICES ASSUME TypeOK, Copying, Reading, [Next]_vars PROVE Reading'
    OBVIOUS
  <1>1. CASE StatFile
    <2>1. pc' = "open" /\ pc \in Capturing
      BY <1>1 DEF StatFile, Goto, At, Capturing
    <2>2. PICK f \in File : reading' = [NotReading EXCEPT !.file = f, !.ino = InodeOf(f)]
      BY <1>1 DEF StatFile, Uncaptured
    <2>3. InodeOf(f) \in 0 .. MaxEdits + 2
      BY <2>1, StampOfFile
    <2>4. reading'.file = f /\ reading'.ino = InodeOf(f) /\ reading'.halves = <<>>
      BY <2>2 DEF NotReading
    <2>. QED
      BY <2>1, <2>3, <2>4 DEF Reading, Capturing
  <1>2. CASE OpenFile
    <2>1. /\ pc' = "read" /\ pc = "open" /\ pc \in Capturing
          /\ reading' = [reading EXCEPT !.opened = StampOf(reading.ino)]
      BY <1>2 DEF OpenFile, Goto, At, Capturing
    <2>2. /\ reading'.file = reading.file /\ reading'.ino = reading.ino
          /\ reading'.halves = reading.halves /\ reading'.opened = StampOf(reading.ino)
      BY <2>1 DEF Copying
    <2>3. /\ reading.file \in File /\ reading.ino \in 0 .. MaxEdits + 2 /\ reading.halves = <<>>
          /\ reading.halves \in Seq(0 .. MaxEdits)
      BY <2>1 DEF Reading, Capturing
    <2>4. PICK k \in 0 .. MaxEdits + 2 : k = reading.ino
      BY <2>3
    <2>5. StampOf(k) \in 0 .. MaxEdits /\ StampOf(k)' \in Int /\ StampOf(k) <= StampOf(k)'
      BY <2>1, <2>4, StampGrows
    <2>6. StampOf(reading.ino)' = StampOf(k)' /\ StampOf(reading.ino) = StampOf(k)
      BY <2>2, <2>4 DEF StampOf
    <2>7. reading'.opened \in 0 .. StampOf(reading.ino)'
      BY <2>2, <2>5, <2>6
    <2>8. Len(reading'.halves) < 2 /\ DOMAIN reading'.halves = {}
      BY <2>2, <2>3
    <2>. QED
      BY <2>1, <2>2, <2>3, <2>7, <2>8 DEF Reading, Capturing
  <1>3. CASE ReadChunk
    <2>1. /\ pc' = IF Len(reading.halves) = 1 THEN "recheck" ELSE "read"
          /\ pc = "read" /\ pc \in Capturing
          /\ reading' = [reading EXCEPT !.halves = Append(reading.halves, StampOf(reading.ino))]
      BY <1>3 DEF ReadChunk, Goto, At, Capturing
    <2>2. /\ reading'.file = reading.file /\ reading'.ino = reading.ino
          /\ reading'.opened = reading.opened
          /\ reading'.halves = Append(reading.halves, StampOf(reading.ino))
      BY <2>1 DEF Copying
    <2>3. /\ reading.file \in File /\ reading.ino \in 0 .. MaxEdits + 2
          /\ reading.halves \in Seq(0 .. MaxEdits) /\ Len(reading.halves) < 2
          /\ reading.opened \in 0 .. StampOf(reading.ino)
          /\ \A i \in DOMAIN reading.halves : reading.halves[i] \in reading.opened .. StampOf(reading.ino)
      BY <2>1 DEF Reading, Capturing
    <2>4. PICK k \in 0 .. MaxEdits + 2 : k = reading.ino
      BY <2>3
    <2>5. StampOf(k) \in 0 .. MaxEdits /\ StampOf(k)' \in Int /\ StampOf(k) <= StampOf(k)'
      BY <2>1, <2>4, StampGrows
    <2>6. StampOf(reading.ino)' = StampOf(k)' /\ StampOf(reading.ino) = StampOf(k)
      BY <2>2, <2>4 DEF StampOf
    <2>7. reading'.opened \in 0 .. StampOf(reading.ino)'
      BY <2>2, <2>3, <2>5, <2>6
    <2>8. /\ reading'.halves \in Seq(0 .. MaxEdits)
          /\ Len(reading'.halves) = Len(reading.halves) + 1
          /\ DOMAIN reading'.halves = 1 .. Len(reading.halves) + 1
          /\ DOMAIN reading.halves = 1 .. Len(reading.halves)
          /\ Len(reading.halves) \in Nat
          /\ \A i \in 1 .. Len(reading.halves) : reading'.halves[i] = reading.halves[i]
          /\ reading'.halves[Len(reading.halves) + 1] = StampOf(k)
      BY <2>2, <2>3, <2>5, <2>6, AppendProperties, LenProperties
    <2>9. ASSUME NEW i \in DOMAIN reading'.halves
          PROVE  reading'.halves[i] \in reading'.opened .. StampOf(reading.ino)'
      <3>1. CASE i = Len(reading.halves) + 1
        BY <2>2, <2>3, <2>5, <2>6, <2>8, <3>1
      <3>2. CASE i \in 1 .. Len(reading.halves)
        <4>1. reading.halves[i] \in reading.opened .. StampOf(k)
          BY <2>3, <2>6, <2>8, <3>2
        <4>. QED
          BY <2>2, <2>3, <2>5, <2>6, <2>8, <3>2, <4>1
      <3>. QED
        BY <2>8, <3>1, <3>2
    <2>10. /\ pc' \in {"read", "recheck"}
           /\ pc' = "read" => Len(reading'.halves) < 2
           /\ pc' = "recheck" => Len(reading'.halves) = 2
      <3>1. Len(reading.halves) = 0 \/ Len(reading.halves) = 1
        <4>1. PICK n \in Nat : n = Len(reading.halves)
          BY <2>8
        <4>2. n < 2
          BY <2>3, <4>1
        <4>3. n = 0 \/ n = 1
          BY <4>2
        <4>. QED
          BY <4>1, <4>3, Zenon
      <3>2. CASE Len(reading.halves) = 0
        BY <2>1, <2>8, <3>2
      <3>3. CASE Len(reading.halves) = 1
        BY <2>1, <2>8, <3>3
      <3>. QED
        BY <3>1, <3>2, <3>3
    <2>. QED
      BY <2>2, <2>3, <2>7, <2>8, <2>9, <2>10 DEF Reading, Capturing
  <1>4. CASE StatHandle
    <2>1. /\ pc' = "compare" /\ pc = "recheck" /\ pc \in Capturing
          /\ reading' = [reading EXCEPT !.after = StampOf(reading.ino)]
      BY <1>4 DEF StatHandle, Goto, At, Capturing
    <2>2. /\ reading'.file = reading.file /\ reading'.ino = reading.ino
          /\ reading'.halves = reading.halves /\ reading'.opened = reading.opened
          /\ reading'.after = StampOf(reading.ino)
      BY <2>1 DEF Copying
    <2>3. /\ reading.file \in File /\ reading.ino \in 0 .. MaxEdits + 2
          /\ reading.halves \in Seq(0 .. MaxEdits) /\ Len(reading.halves) = 2
          /\ reading.opened \in 0 .. StampOf(reading.ino)
          /\ \A i \in DOMAIN reading.halves : reading.halves[i] \in reading.opened .. StampOf(reading.ino)
      BY <2>1 DEF Reading, Capturing
    <2>4. PICK k \in 0 .. MaxEdits + 2 : k = reading.ino
      BY <2>3
    <2>5. StampOf(k) \in 0 .. MaxEdits /\ StampOf(k)' \in Int /\ StampOf(k) <= StampOf(k)'
      BY <2>1, <2>4, StampGrows
    <2>6. StampOf(reading.ino)' = StampOf(k)' /\ StampOf(reading.ino) = StampOf(k)
      BY <2>2, <2>4 DEF StampOf
    <2>7. reading'.opened \in 0 .. StampOf(reading.ino)'
      BY <2>2, <2>3, <2>5, <2>6
    <2>8. ASSUME NEW i \in DOMAIN reading'.halves
          PROVE  /\ reading'.halves[i] \in reading'.opened .. StampOf(reading.ino)'
                 /\ reading'.halves[i] <= reading'.after
      <3>1. reading.halves[i] \in reading.opened .. StampOf(k)
        BY <2>2, <2>3, <2>6
      <3>. QED
        BY <2>2, <2>3, <2>5, <2>6, <3>1
    <2>. QED
      BY <2>1, <2>2, <2>3, <2>7, <2>8 DEF Reading, Capturing
  <1>5. CASE TakeFile
    <2>1. pc' \in {"write", "capture"}
      BY <1>5 DEF TakeFile, Goto
    <2>. QED
      BY <2>1 DEF Reading, Capturing
  <1>6. CASE ~(StatFile \/ OpenFile \/ ReadChunk \/ StatHandle \/ TakeFile)
    <2>1. UNCHANGED reading /\ (pc' \in Capturing \ {"capture"} => pc' = pc)
      BY <1>6, Changes, Moves DEF Capturing, TypeOK
    <2>2. ASSUME pc \in {"read", "recheck", "compare"}
          PROVE  /\ reading.opened \in 0 .. StampOf(reading.ino)'
                 /\ \A i \in DOMAIN reading.halves : reading.halves[i] \in reading.opened .. StampOf(reading.ino)'
      <3>1. /\ reading.ino \in 0 .. MaxEdits + 2 /\ pc \in Capturing
            /\ reading.opened \in 0 .. StampOf(reading.ino)
            /\ \A i \in DOMAIN reading.halves : reading.halves[i] \in reading.opened .. StampOf(reading.ino)
        BY <2>2 DEF Reading, Capturing
      <3>2. PICK k \in 0 .. MaxEdits + 2 : k = reading.ino
        BY <3>1
      <3>3. StampOf(k) \in 0 .. MaxEdits /\ StampOf(k)' \in Int /\ StampOf(k) <= StampOf(k)'
        BY <3>1, <3>2, StampGrows
      <3>4. StampOf(reading.ino)' = StampOf(k)' /\ StampOf(reading.ino) = StampOf(k)
        BY <2>1, <3>2 DEF StampOf
      <3>5. reading.opened \in 0 .. StampOf(reading.ino)'
        BY <3>1, <3>3, <3>4
      <3>6. ASSUME NEW i \in DOMAIN reading.halves
            PROVE  reading.halves[i] \in reading.opened .. StampOf(reading.ino)'
        <4>1. reading.halves[i] \in reading.opened .. StampOf(k)
          BY <3>1, <3>4
        <4>. QED
          BY <3>1, <3>3, <3>4, <4>1
      <3>. QED
        BY <3>5, <3>6
    <2>. QED
      BY <2>1, <2>2 DEF Reading, Capturing
  <1>. QED
    BY <1>1, <1>2, <1>3, <1>4, <1>5, <1>6

\* A file that is taken did not change between the first stat and the last.
LEMMA TakenIsWhole ==
    ASSUME TypeOK, Copying, Reading, TakeFile
    PROVE  /\ reading.file \in File
           /\ \E s \in 0 .. MaxEdits :
                 /\ captured' = [captured EXCEPT ![reading.file] = <<s, s>>]
                 /\ reference \in Pinned => s = 0
  <1>1. /\ pc = "compare" /\ pc \in Capturing /\ reading.opened = reading.after
        /\ captured' = [captured EXCEPT ![reading.file] = <<reading.halves[1], reading.halves[2]>>]
    BY DEF TakeFile, Stable, At, Capturing
  <1>2. /\ reading.file \in File /\ reading.ino \in 0 .. MaxEdits + 2
        /\ reading.halves \in Seq(0 .. MaxEdits) /\ Len(reading.halves) = 2
        /\ reading.opened \in 0 .. StampOf(reading.ino)
        /\ \A i \in DOMAIN reading.halves :
              /\ reading.halves[i] \in reading.opened .. StampOf(reading.ino)
              /\ reading.halves[i] <= reading.after
    BY <1>1 DEF Reading, Capturing
  <1>3. PICK k \in 0 .. MaxEdits + 2 : k = reading.ino
    BY <1>2
  <1>4. StampOf(k) \in 0 .. MaxEdits /\ MaxEdits \in Nat
    BY <1>1, StampOfFile, BoundsAssumption
  <1>5. DOMAIN reading.halves = 1 .. 2
    BY <1>2, LenProperties
  <1>6. PICK s \in 0 .. MaxEdits : s = reading.opened
    BY <1>2, <1>3, <1>4
  <1>7. ASSUME NEW i \in 1 .. 2 PROVE reading.halves[i] = s
    <2>1. reading.halves[i] \in s .. StampOf(k) /\ reading.halves[i] <= s
      BY <1>1, <1>2, <1>3, <1>5, <1>6
    <2>. QED
      BY <1>4, <2>1
  <1>8. ASSUME reference \in Pinned PROVE s = 0
    <2>1. StampOf(k) = 0
      BY <1>1, <1>8 DEF Copying, StampOf, Pinned, Original
    <2>. QED
      BY <1>2, <1>3, <1>6, <2>1
  <1>9. captured' = [captured EXCEPT ![reading.file] = <<s, s>>]
    <2>1. reading.halves[1] = s /\ reading.halves[2] = s
      BY <1>7
    <2>. QED
      BY <1>1, <2>1, Zenon
  <1>. QED
    BY <1>2, <1>8, <1>9

\* A file that is taken is whole, and the original one if a digest names it.
LEMMA WholeStep == TypeOK /\ Copying /\ Reading /\ Whole /\ [Next]_vars => Whole'
  <1> SUFFICES ASSUME TypeOK, Copying, Reading, Whole, [Next]_vars PROVE Whole'
    OBVIOUS
  <1>1. reference' = reference
    BY Changes
  <1>2. CASE TakeFile
    <2>1. reading.file \in File
      BY <1>2, TakenIsWhole
    <2>2. PICK s \in 0 .. MaxEdits :
              /\ captured' = [captured EXCEPT ![reading.file] = <<s, s>>]
              /\ reference \in Pinned => s = 0
      BY <1>2, TakenIsWhole
    <2>3. captured \in [File -> Bytes] /\ captured'[reading.file] = <<s, s>>
      BY <2>1, <2>2 DEF TypeOK
    <2>4. \A f \in File \ {reading.file} : captured'[f] = captured[f]
      BY <2>2, <2>3
    <2>5. <<s, s>> # None
      BY DEF None, NoStamp
    <2>6. pc' = IF Uncaptured = {reading.file} THEN "write" ELSE "capture"
      BY <1>2 DEF TakeFile, Goto
    <2>7. pc' \in {"write", "judge", "recapture"} => \A f \in File \ {reading.file} : captured[f] # None
      BY <2>6 DEF Uncaptured
    <2>8. \A f \in File : captured'[f] = None \/
             \E t \in 0 .. MaxEdits : captured'[f] = <<t, t>> /\ (reference \in Pinned => t = 0)
      BY <2>2, <2>3, <2>4 DEF Whole
    <2>. QED
      BY <1>1, <2>3, <2>4, <2>5, <2>7, <2>8 DEF Whole
  <1>3. CASE ~TakeFile
    <2>1. captured' = captured
      BY <1>3, Changes
    <2>2. pc' \in {"write", "judge", "recapture"} => pc \in {"write", "judge", "recapture"}
      BY <1>3, Moves DEF TypeOK, WriteSnapshot, Validate, At
    <2>. QED
      BY <1>1, <2>1, <2>2 DEF Whole
  <1>. QED
    BY <1>2, <1>3

-----------------------------------------------------------------------------
(* The judgement *)

\* The material is what the validator read, however the copy was changed.
LEMMA JudgedStep == TypeOK /\ Whole /\ Judged /\ Kept /\ [Next]_vars => Judged'
  <1> SUFFICES ASSUME TypeOK, Whole, Judged, Kept, [Next]_vars PROVE Judged'
    OBVIOUS
  <1>0. frozen' = frozen /\ pc \in Stages
    BY Changes DEF TypeOK
  <1>1. CASE WriteSnapshot
    <2>1. pc = "write" /\ result' # "material" /\ pc' \in {"judge", "clean"}
      BY <1>1 DEF WriteSnapshot, At, Goto, Kept
    <2>2. pc' = "judge" => snapshot' = captured /\ captured' = captured
      BY <1>1 DEF WriteSnapshot, Goto, captureVars
    <2>. QED
      BY <2>1, <2>2 DEF Judged, Judging
  <1>2. CASE Validate
    <2>1. /\ pc = "judge" /\ result' # "material" /\ pc' \in {"recapture", "clean"}
          /\ judged' = snapshot /\ snapshot' = snapshot /\ captured' = captured
          /\ pc' = "recapture" => LockAgrees
      BY <1>2 DEF Validate, At, Goto, Kept, captureVars
    <2>. QED
      BY <1>0, <2>1 DEF Judged, Judging, LockAgrees
  <1>3. CASE Recapture
    <2>1. /\ pc = "recapture" /\ pc' = "clean"
          /\ snapshot' = snapshot /\ captured' = captured /\ judged' = judged
          /\ result' = "material" => SameCapture
      BY <1>3 DEF Recapture, At, Goto, captureVars, judgeVars
    <2>2. ASSUME SameCapture PROVE judged = captured
      <3>1. snapshot = captured
        BY <2>2 DEF SameCapture
      <3>2. ASSUME NEW f \in File PROVE ~(snapshot[f][1] > MaxEdits)
        <4>1. captured[f] # None
          BY <2>1 DEF Whole
        <4>2. PICK s \in 0 .. MaxEdits : captured[f] = <<s, s>>
          BY <4>1 DEF Whole
        <4>. QED
          BY <3>1, <4>2, BoundsAssumption
      <3>. QED
        BY <2>1, <3>1, <3>2 DEF Judged
    <2>3. \A f \in File : captured[f] # None
      BY <2>1 DEF Whole
    <2>4. frozen => \A f \in File : judged[f] = Original
      BY <2>1 DEF Judged
    <2>. QED
      BY <1>0, <2>1, <2>2, <2>3, <2>4 DEF Judged, Judging
  <1>4. CASE Tamper
    <2>1. /\ pc \in Judging /\ pc' = pc /\ result' = result
          /\ captured' = captured /\ judged' = judged
      BY <1>4 DEF Tamper, Judging, captureVars, endVars
    <2>2. PICK f \in File :
              snapshot' = [snapshot EXCEPT ![f] = <<MaxEdits + tampering + 1, MaxEdits + tampering + 1>>]
      BY <1>4 DEF Tamper
    <2>3. snapshot'[f][1] > MaxEdits
      BY <2>2, BoundsAssumption DEF TypeOK
    <2>4. \A g \in File \ {f} : snapshot'[g] = snapshot[g]
      BY <2>2 DEF TypeOK
    <2>5. result # "material"
      BY <2>1 DEF Kept, Judging
    <2>. QED
      BY <1>0, <2>1, <2>3, <2>4, <2>5 DEF Judged, Judging
  <1>5. CASE ~(WriteSnapshot \/ Validate \/ Recapture \/ Tamper)
    <2>1. snapshot' = snapshot /\ judged' = judged
      BY <1>5, Changes
    <2>2. /\ pc' = "judge" => pc = "judge"
          /\ pc' = "recapture" => pc = "recapture"
      BY <1>0, <1>5, Moves
    <2>3. TakeFile => pc' \notin Judging /\ pc \notin {"clean", "release", "done"} /\ result' = result
      BY DEF TakeFile, At, Goto, Judging, endVars
    <2>4. captured' = captured \/ TakeFile
      BY Changes
    <2>5. result' = "material" => result = "material"
      BY <1>5, Changes DEF CaptureFails
    <2>6. pc \in {"clean", "release", "done"} => pc' \in {"clean", "release", "done"}
      BY <1>0, Moves DEF Stages, Copied, CopyChunk, CheckDigest, Scanned, Inspected, TakeFile, Extract, StatFile,
         OpenFile, ReadChunk, StatHandle, WriteSnapshot, Validate, At
    <2>7. CASE TakeFile
      BY <2>3, <2>5, <2>7 DEF Judged, Judging
    <2>8. CASE captured' = captured
      BY <1>0, <2>1, <2>2, <2>5, <2>6, <2>8 DEF Judged, Judging
    <2>. QED
      BY <2>4, <2>7, <2>8
  <1>. QED
    BY <1>1, <1>2, <1>3, <1>4, <1>5

\* Nothing has been read, judged or kept at the start.
LEMMA StagesInit == Init => Reading /\ Whole /\ Judged /\ Kept
  BY StampBounds, BoundsAssumption
     DEF Init, Reading, Whole, Judged, Kept, Capturing, Copied, Judging, NothingPrivateStays, At

\* The parts of the invariant about the directory and the copy hold together.
THEOREM IntakeStages == Spec => [](TypeOK /\ Copying /\ Reading /\ Whole /\ Judged /\ Kept)
<1>1. Init => TypeOK /\ Copying /\ Reading /\ Whole /\ Judged /\ Kept
  BY TypesInit, StagesInit
<1>2. TypeOK /\ Copying /\ Reading /\ Whole /\ Judged /\ Kept /\ [Next]_vars
        => (TypeOK /\ Copying /\ Reading /\ Whole /\ Judged /\ Kept)'
  BY TypesStep, ReadingInv, WholeStep, JudgedStep
<1> QED
  BY <1>1, <1>2, PTL DEF Spec

\* Every variable of the intake has its type.
THEOREM IntakeTypes == Spec => []TypeOK
  BY IntakeStages, PTL

\* No private directory stays behind unmentioned: the cleanups of
\* readValidatedPack, installPack and materializeArchive.
THEOREM PrivateGone == Spec => []NothingPrivateStays
<1>1. Kept => NothingPrivateStays
  BY DEF Kept
<1> QED
  BY IntakeStages, <1>1, PTL

\* An install works with the bytes that were judged: readBoundedRegularFile and
\* readValidatedPack, whoever edits SOURCE or the copy meanwhile.
THEOREM MaterialJudged == Spec => []MaterialIsWhatWasJudged
<1>1. ASSUME Whole, Judged, Kept
      PROVE  MaterialIsWhatWasJudged
  <2> SUFFICES ASSUME answer = "material"
               PROVE  /\ \A f \in File : captured[f] # None /\ captured[f][1] = captured[f][2]
                      /\ judged = captured
                      /\ frozen \/ reference \in Pinned => \A f \in File : captured[f] = Original
    BY DEF MaterialIsWhatWasJudged
  <2>1. result = "material"
    BY <1>1 DEF Kept
  <2>2. /\ \A f \in File : captured[f] # None
        /\ judged = captured
        /\ frozen => \A f \in File : captured[f] = Original
    BY <1>1, <2>1 DEF Judged
  <2>3. ASSUME NEW f \in File
        PROVE  captured[f][1] = captured[f][2] /\ (reference \in Pinned => captured[f] = Original)
    <3>1. PICK s \in 0 .. MaxEdits : captured[f] = <<s, s>> /\ (reference \in Pinned => s = 0)
      BY <1>1, <2>2 DEF Whole
    <3> QED
      BY <3>1 DEF Original
  <2> QED
    BY <2>2, <2>3
<1> QED
  BY IntakeStages, <1>1, PTL

-----------------------------------------------------------------------------
(* The scanner *)

\* Products of natural numbers, for the lengths of blocks.
LEMMA Products ==
    ASSUME NEW B \in Nat \ {0}, NEW x \in Nat, NEW y \in Nat
    PROVE  /\ x * B \in Nat
           /\ (x + y) * B = x * B + y * B
           /\ (x + 1) * B = x * B + B
           /\ x <= y => x * B <= y * B
           /\ 0 * B = 0 /\ 1 * B = B
  OBVIOUS
\* The whole blocks of x units, and what is left.
LEMMA WholeBlocks ==
    ASSUME NEW B \in Nat \ {0}, NEW x \in Nat
    PROVE  /\ x \div B \in Nat
           /\ (x \div B) * B <= x
           /\ x < (x \div B) * B + B
  OBVIOUS
\* A function on the first n numbers is a sequence of n elements.
LEMMA FunctionIsSequence ==
    ASSUME NEW S, NEW n \in Nat, NEW f \in [1 .. n -> S]
    PROVE  f \in Seq(S) /\ Len(f) = n
  OBVIOUS
\* The units of a block, one after the other.
LEMMA Units ==
    ASSUME NEW k \in Nat \ {0}
    PROVE  /\ UnitsOf(k) \in Seq(Nat) /\ Len(UnitsOf(k)) = BlockUnits
           /\ \A i \in 1 .. BlockUnits : UnitsOf(k)[i] = (k - 1) * BlockUnits + i
  <1>1. BlockUnits \in Nat \ {0} /\ k - 1 \in Nat
    BY BlockUnitsAssumption
  <1>2. PICK b \in Nat : b = (k - 1) * BlockUnits
    BY <1>1, Products
  <1>3. UnitsOf(k) = [i \in 1 .. BlockUnits |-> b + i]
    BY <1>2 DEF UnitsOf
  <1>4. [i \in 1 .. BlockUnits |-> b + i] \in [1 .. BlockUnits -> Nat]
    BY <1>1, <1>2
  <1>. QED
    BY <1>1, <1>2, <1>3, <1>4, FunctionIsSequence

\* A stretch of units that follow one another.
LEMMA Stretch ==
    ASSUME NEW s \in Seq(Nat), NEW C \in Nat, Follows(s, C),
           NEW lo \in Nat \ {0}, NEW hi \in Nat, lo <= hi + 1, hi <= Len(s),
           NEW a \in Nat, a + 1 = C + lo
    PROVE  /\ SubSeq(s, lo, hi) \in Seq(Nat) /\ Len(SubSeq(s, lo, hi)) = hi - lo + 1
           /\ Follows(SubSeq(s, lo, hi), a)
  <1> DEFINE part == SubSeq(s, lo, hi)
  <1>1. \A i \in lo .. hi : s[i] = C + i /\ s[i] \in Nat
    BY DEF Follows
  <1>2. /\ part \in Seq(Nat)
        /\ Len(part) = IF lo <= hi THEN hi - lo + 1 ELSE 0
        /\ \A i \in 1 .. hi - lo + 1 : part[i] = s[lo + i - 1]
    BY <1>1, SubSeqProperties
  <1>3. ASSUME NEW i \in 1 .. hi - lo + 1 PROVE part[i] = a + i
    <2>1. lo + i - 1 \in lo .. hi
      OBVIOUS
    <2>2. part[i] = C + (lo + i - 1)
      BY <1>1, <1>2, <2>1
    <2>. QED
      BY <2>2
  <1>4. Len(part) = hi - lo + 1
    BY <1>2
  <1>. QED
    BY <1>2, <1>3, <1>4 DEF Follows

\* Units that follow one another are joined to units that follow one another.
LEMMA Joined ==
    ASSUME NEW s \in Seq(Nat), NEW t \in Seq(Nat), NEW a \in Nat, NEW c \in Nat,
           Follows(s, a), Follows(t, c), c = a + Len(s)
    PROVE  /\ s \o t \in Seq(Nat) /\ Len(s \o t) = Len(s) + Len(t)
           /\ Follows(s \o t, a)
  <1>1. Len(s) \in Nat /\ Len(t) \in Nat
    BY LenProperties
  <1>2. /\ s \o t \in Seq(Nat) /\ Len(s \o t) = Len(s) + Len(t)
        /\ \A i \in 1 .. Len(s) + Len(t) : (s \o t)[i] = IF i <= Len(s) THEN s[i] ELSE t[i - Len(s)]
    BY ConcatProperties
  <1>3. ASSUME NEW i \in 1 .. Len(s) + Len(t) PROVE (s \o t)[i] = a + i
    <2>1. CASE i <= Len(s)
      BY <1>1, <1>2, <2>1 DEF Follows
    <2>2. CASE i > Len(s)
      <3>1. i - Len(s) \in 1 .. Len(t)
        BY <1>1, <2>2
      <3>2. t[i - Len(s)] = a + Len(s) + (i - Len(s))
        BY <3>1 DEF Follows
      <3>. QED
        BY <1>1, <1>2, <2>2, <3>2
    <2>3. i <= Len(s) \/ i > Len(s)
      BY <1>1
    <2>. QED
      BY <2>1, <2>2, <2>3
  <1>. QED
    BY <1>2, <1>3 DEF Follows

\* A block of units that follow one another, from a block's first on, is that block.
LEMMA IsUnits ==
    ASSUME NEW k \in Nat \ {0}, NEW s \in Seq(Nat), Len(s) = BlockUnits,
           NEW a \in Nat, a = (k - 1) * BlockUnits, Follows(s, a)
    PROVE  s = UnitsOf(k)
  <1>1. /\ UnitsOf(k) \in Seq(Nat) /\ Len(UnitsOf(k)) = BlockUnits
        /\ \A i \in 1 .. BlockUnits : UnitsOf(k)[i] = (k - 1) * BlockUnits + i
    BY Units
  <1>2. \A i \in 1 .. Len(s) : s[i] = UnitsOf(k)[i]
    BY <1>1 DEF Follows
  <1>. QED
    BY <1>1, <1>2, SeqEqual

\* A chunk that comes after C units has q whole blocks from an offset on, where x blocks end;
\* block k of them is block j of the stream.
Splits(chunk, C, x, offset, q, k, j) ==
    /\ chunk \in Seq(Nat) /\ C \in Nat /\ Follows(chunk, C)
    /\ x \in Nat /\ offset \in Nat /\ C + offset = x * BlockUnits
    /\ q \in Nat /\ offset + q * BlockUnits <= Len(chunk) /\ k \in 1 .. q /\ j = x + k

\* Block k of a chunk, from an offset on.
Part(chunk, offset, k) ==
    SubSeq(chunk, offset + (k - 1) * BlockUnits + 1, offset + k * BlockUnits)

\* The whole blocks of a chunk are the next blocks of the stream.
LEMMA WholePart ==
    ASSUME NEW chunk, NEW C, NEW x, NEW offset, NEW q, NEW k, NEW j,
           Splits(chunk, C, x, offset, q, k, j)
    PROVE  Part(chunk, offset, k) \in Seq(Nat) /\ Part(chunk, offset, k) = UnitsOf(j)
  <1>b. PICK block : block = Part(chunk, offset, k) /\ block = SubSeq(chunk, offset + (k - 1) * BlockUnits + 1, offset + k * BlockUnits)
    BY DEF Part
  <1>0. /\ chunk \in Seq(Nat) /\ C \in Nat /\ Follows(chunk, C)
        /\ x \in Nat /\ offset \in Nat /\ C + offset = x * BlockUnits
        /\ q \in Nat /\ offset + q * BlockUnits <= Len(chunk) /\ k \in 1 .. q /\ j = x + k
    BY DEF Splits
  <1>1. BlockUnits \in Nat \ {0} /\ k - 1 \in Nat /\ k \in Nat /\ k <= q
    BY <1>0, BlockUnitsAssumption
  <1>2. PICK b \in Nat : b = (k - 1) * BlockUnits
    BY <1>1, Products
  <1>3. PICK e \in Nat : e = q * BlockUnits
    BY <1>0, <1>1, Products
  <1>4. k * BlockUnits = b + BlockUnits
    <2>1. ((k - 1) + 1) * BlockUnits = (k - 1) * BlockUnits + BlockUnits
      BY <1>1, Products
    <2>2. (k - 1) + 1 = k
      BY <1>1
    <2>. QED
      BY <1>2, <2>1, <2>2
  <1>5. b + BlockUnits <= e
    <2>1. k * BlockUnits <= q * BlockUnits
      BY <1>0, <1>1, Products
    <2>. QED
      BY <1>3, <1>4, <2>1
  <1>6. PICK u \in Nat : u = x * BlockUnits
    BY <1>0, <1>1, Products
  <1>7. (x + (k - 1)) * BlockUnits = u + b
    BY <1>0, <1>1, <1>2, <1>6, Products
  <1>8. PICK lo \in Nat \ {0} : lo = offset + b + 1
    BY <1>0
  <1>9. PICK hi \in Nat : hi = offset + b + BlockUnits
    BY <1>0, <1>1
  <1>10. block = SubSeq(chunk, lo, hi)
    <2>1. lo = offset + (k - 1) * BlockUnits + 1
      BY <1>2, <1>8
    <2>2. hi = offset + k * BlockUnits
      <3>1. offset + (b + BlockUnits) = offset + b + BlockUnits
        BY <1>0, <1>1
      <3>. QED
        BY <1>4, <1>9, <3>1
    <2>. QED
      BY <1>b, <2>1, <2>2, Zenon
  <1>11. /\ lo <= hi + 1 /\ hi - lo + 1 = BlockUnits
    BY <1>0, <1>1, <1>8, <1>9
  <1>12. hi <= Len(chunk)
    <2>1. offset + e <= Len(chunk)
      BY <1>0, <1>3
    <2>2. Len(chunk) \in Nat
      BY <1>0, LenProperties
    <2>. QED
      BY <1>0, <1>1, <1>5, <1>9, <2>1, <2>2
  <1>13. PICK a \in Nat : a = u + b
    OBVIOUS
  <1>14. a + 1 = C + lo
    <2>1. C + offset = u
      BY <1>0, <1>6
    <2>. QED
      BY <1>0, <1>8, <1>13, <2>1
  <1>15. block \in Seq(Nat) /\ Len(block) = hi - lo + 1 /\ Follows(block, a)
    <2>1. chunk \in Seq(Nat) /\ C \in Nat /\ Follows(chunk, C) /\ lo <= hi + 1
      BY <1>0, <1>11
    <2>2. /\ SubSeq(chunk, lo, hi) \in Seq(Nat) /\ Len(SubSeq(chunk, lo, hi)) = hi - lo + 1
          /\ Follows(SubSeq(chunk, lo, hi), a)
      BY <1>12, <1>14, <2>1, Stretch
    <2>. QED
      BY <1>10, <2>2
  <1>16. PICK i \in Nat \ {0} : i = x + k /\ i = j
    BY <1>0, <1>1
  <1>17. a = (i - 1) * BlockUnits
    <2>1. i - 1 = x + (k - 1)
      BY <1>0, <1>1, <1>16
    <2>. QED
      BY <1>7, <1>13, <2>1
  <1>18. block = UnitsOf(i)
    BY <1>11, <1>15, <1>17, IsUnits
  <1>. QED
    BY <1>b, <1>15, <1>16, <1>18, Zenon

\* A chunk has the units that the tail t lacks to be the block after x blocks.
Closes(chunk, t, x, b, need) ==
    /\ x \in Nat /\ b \in Nat /\ b = x * BlockUnits
    /\ t \in Seq(Nat) /\ Follows(t, b)
    /\ chunk \in Seq(Nat) /\ Follows(chunk, b + Len(t))
    /\ need \in Nat \ {0} /\ need <= Len(chunk) /\ Len(t) + need = BlockUnits

\* A block is closed with the first units of a chunk.
LEMMA ClosedBlock ==
    ASSUME NEW chunk, NEW t, NEW x, NEW b, NEW need, Closes(chunk, t, x, b, need)
    PROVE  t \o SubSeq(chunk, 1, need) \in Seq(Nat) /\ t \o SubSeq(chunk, 1, need) = UnitsOf(x + 1)
  <1> DEFINE top == SubSeq(chunk, 1, need)
  <1>0. /\ x \in Nat /\ b \in Nat /\ b = x * BlockUnits
        /\ t \in Seq(Nat) /\ Follows(t, b)
        /\ chunk \in Seq(Nat) /\ Follows(chunk, b + Len(t))
        /\ need \in Nat \ {0} /\ need <= Len(chunk) /\ Len(t) + need = BlockUnits
    BY DEF Closes
  <1>a. PICK C \in Nat : C = b + Len(t) /\ Follows(chunk, C)
    BY <1>0, LenProperties
  <1>1. PICK lo \in Nat \ {0} : lo = 1
    OBVIOUS
  <1>2. top = SubSeq(chunk, lo, need) /\ lo <= need + 1 /\ C + 1 = C + lo /\ need - lo + 1 = need
    BY <1>0, <1>a, <1>1
  <1>3. top \in Seq(Nat) /\ Len(top) = need - lo + 1 /\ Follows(top, C)
    <2>1. /\ SubSeq(chunk, lo, need) \in Seq(Nat) /\ Len(SubSeq(chunk, lo, need)) = need - lo + 1
          /\ Follows(SubSeq(chunk, lo, need), C)
      BY <1>0, <1>a, <1>2, Stretch
    <2>. QED
      BY <1>2, <2>1
  <1>4. /\ t \o top \in Seq(Nat) /\ Len(t \o top) = Len(t) + Len(top)
        /\ Follows(t \o top, b)
    BY <1>0, <1>a, <1>3, Joined
  <1>5. Len(t \o top) = BlockUnits
    BY <1>0, <1>2, <1>3, <1>4
  <1>6. PICK j \in Nat \ {0} : j = x + 1 /\ x = j - 1
    BY <1>0
  <1>7. t \o top = UnitsOf(j)
    BY <1>0, <1>4, <1>5, <1>6, IsUnits
  <1>. QED
    BY <1>4, <1>6, <1>7

\* Blocks that follow one another are joined to blocks that follow one another.
LEMMA Followed ==
    ASSUME NEW s \in Seq(Seq(Nat)), NEW t \in Seq(Seq(Nat)),
           \A k \in 1 .. Len(s) : s[k] = UnitsOf(k),
           \A k \in 1 .. Len(t) : t[k] = UnitsOf(Len(s) + k)
    PROVE  /\ s \o t \in Seq(Seq(Nat)) /\ Len(s \o t) = Len(s) + Len(t)
           /\ \A k \in 1 .. Len(s) + Len(t) : (s \o t)[k] = UnitsOf(k)
  <1>1. Len(s) \in Nat /\ Len(t) \in Nat
    BY LenProperties
  <1>2. /\ s \o t \in Seq(Seq(Nat)) /\ Len(s \o t) = Len(s) + Len(t)
        /\ \A k \in 1 .. Len(s) + Len(t) : (s \o t)[k] = IF k <= Len(s) THEN s[k] ELSE t[k - Len(s)]
    BY ConcatProperties
  <1>3. ASSUME NEW k \in 1 .. Len(s) + Len(t) PROVE (s \o t)[k] = UnitsOf(k)
    <2>1. CASE k <= Len(s)
      BY <1>1, <1>2, <2>1
    <2>2. CASE k > Len(s)
      <3>1. PICK j \in 1 .. Len(t) : j = k - Len(s)
        BY <1>1, <2>2
      <3>2. (s \o t)[k] = t[j] /\ Len(s) + j = k
        BY <1>1, <1>2, <2>2, <3>1
      <3>3. t[j] = UnitsOf(Len(s) + j)
        OBVIOUS
      <3>. QED
        BY <3>2, <3>3
    <2>3. k <= Len(s) \/ k > Len(s)
      BY <1>1
    <2>. QED
      BY <2>1, <2>2, <2>3
  <1>. QED
    BY <1>2, <1>3

\* A chunk of any size goes to the blocks of the stream and to the units that wait.
LEMMA AssembledStep == Assembled /\ [Next]_vars => Assembled'
  <1> SUFFICES ASSUME Assembled, [Next]_vars PROVE Assembled'
    OBVIOUS
  <1>1. archive' = archive
    BY Changes
  <1>2. CASE UNCHANGED <<consumed, tail, seen>>
    BY <1>1, <1>2 DEF Assembled, StreamLength
  <1>3. CASE Scan
    <2> DEFINE B == BlockUnits
               m == Len(tail)
               S == Len(seen)
    <2>1. /\ B \in Nat \ {0} /\ m \in Nat /\ S \in Nat /\ m < B
          /\ seen \in Seq(Seq(Nat)) /\ tail \in Seq(Nat)
          /\ consumed = S * B + m /\ S * B \in Nat /\ consumed \in Nat
          /\ \A k \in 1 .. S : seen[k] = UnitsOf(k)
          /\ Follows(tail, S * B)
      BY BlockUnitsAssumption, LenProperties, Products DEF Assembled
    <2>1a. B \in Nat \ {0} /\ m \in Nat /\ m < B
      BY <2>1
    <2>2. PICK n \in 1 .. MaxChunk :
          LET chunk == [i \in 1 .. n |-> consumed + i]
              needed == BlockUnits - Len(tail)
              offset == IF tail = <<>> THEN 0 ELSE needed
              closed == IF tail = <<>> THEN <<>> ELSE << tail \o SubSeq(chunk, 1, needed) >>
              full == (n - offset) \div BlockUnits
              whole == [k \in 1 .. full |->
                          SubSeq(chunk, offset + (k - 1) * BlockUnits + 1, offset + k * BlockUnits)]
          IN /\ consumed + n <= StreamLength
             /\ consumed' = consumed + n
             /\ IF tail # <<>> /\ n < needed
                THEN tail' = tail \o chunk /\ UNCHANGED seen
                ELSE tail' = NextTail(chunk, offset, full) /\ seen' = seen \o closed \o whole
      BY <1>3 DEF Scan, ScanChunk
    <2> DEFINE chunk == [i \in 1 .. n |-> consumed + i]
               needed == B - m
               offset == IF tail = <<>> THEN 0 ELSE needed
               closed == IF tail = <<>> THEN <<>> ELSE << tail \o SubSeq(chunk, 1, needed) >>
               full == (n - offset) \div B
               whole == [k \in 1 .. full |-> SubSeq(chunk, offset + (k - 1) * B + 1, offset + k * B)]
    <2>3. n \in Nat \ {0} /\ chunk \in Seq(Nat) /\ Len(chunk) = n /\ Follows(chunk, consumed)
      <3>1. n \in Nat \ {0} /\ consumed \in Nat
        BY <2>1, MaxChunkAssumption
      <3>2. chunk \in [1 .. n -> Nat]
        BY <3>1
      <3>3. chunk \in Seq(Nat) /\ Len(chunk) = n
        BY <3>1, <3>2, FunctionIsSequence
      <3>4. Follows(chunk, consumed)
        BY <3>3 DEF Follows
      <3>. QED
        BY <3>1, <3>3, <3>4
    <2>e. /\ chunk = [i \in 1 .. n |-> consumed + i]
          /\ offset = IF tail = <<>> THEN 0 ELSE B - m
          /\ closed = IF tail = <<>> THEN <<>> ELSE << tail \o SubSeq(chunk, 1, B - m) >>
          /\ full = (n - offset) \div B
      OBVIOUS
    <2>f. whole = [k \in 1 .. full |-> SubSeq(chunk, offset + (k - 1) * B + 1, offset + k * B)]
      OBVIOUS
    <2>4. consumed' = consumed + n /\ consumed' <= StreamLength'
      BY <1>1, <2>2 DEF StreamLength
    <2>5. CASE tail # <<>> /\ n < needed
      <3>1. tail' = tail \o chunk /\ seen' = seen
        BY <2>2, <2>5
      <3>2. PICK b \in Nat : b = S * B
        BY <2>1
      <3>3. consumed = b + Len(tail) /\ Follows(tail, b)
        BY <2>1, <3>2
      <3>4. tail' \in Seq(Nat) /\ Len(tail') = m + n /\ Follows(tail', b)
        <4> HIDE DEF chunk
        <4>1. /\ tail \o chunk \in Seq(Nat) /\ Len(tail \o chunk) = Len(tail) + Len(chunk)
              /\ Follows(tail \o chunk, b)
          BY <2>1, <2>3, <3>3, Joined
        <4>. QED
          BY <2>3, <3>1, <4>1, Zenon
      <3>5. m + n < B /\ consumed + n = b + (m + n)
        BY <2>1, <2>3, <2>5, <3>2
      <3>. QED
        BY <1>1, <2>1, <2>4, <3>1, <3>2, <3>4, <3>5 DEF Assembled
    <2>6. CASE ~(tail # <<>> /\ n < needed)
      <3>1. /\ tail' = SubSeq(chunk, offset + full * B + 1, n)
            /\ seen' = seen \o closed \o whole
            /\ tail = <<>> \/ B - m <= n
        <4>1. tail' = NextTail(chunk, offset, full) /\ seen' = seen \o closed \o whole
          BY <2>2, <2>6, Zenon
        <4>2. tail' = SubSeq(chunk, offset + full * B + 1, Len(chunk))
          BY <4>1 DEF NextTail
        <4>3. tail = <<>> \/ B - m <= n
          BY <2>1a, <2>3, <2>6
        <4>. QED
          BY <2>3, <4>1, <4>2, <4>3, Zenon
      <3> HIDE DEF chunk, needed, offset, closed, full, whole
      <3>2. PICK b \in Nat : b = S * B
        BY <2>1
      <3>3. PICK c \in {0, 1} : c = IF tail = <<>> THEN 0 ELSE 1
        OBVIOUS
      <3>4. c * B \in Nat /\ offset \in 0 .. n /\ offset + m = c * B
        <4>1. CASE tail = <<>>
          <5>1. m = 0 /\ c = 0 /\ offset = 0 /\ c * B = 0
            BY <2>1, <2>e, <3>3, <4>1, Products
          <5>. QED
            BY <2>3, <5>1
        <4>2. CASE tail # <<>>
          <5>1. c = 1 /\ offset = B - m /\ c * B = B /\ B - m <= n
            BY <2>1, <2>e, <3>1, <3>3, <4>2, Products
          <5>. QED
            BY <2>1, <2>3, <5>1
        <4>. QED
          BY <4>1, <4>2
      <3>5. PICK x \in Nat : x = S + c
        BY <2>1
      <3>6. x * B = b + c * B /\ consumed + offset = x * B
        <4>1. x * B = S * B + c * B
          BY <2>1, <3>5, Products
        <4>2. PICK d \in Nat : d = c * B
          BY <3>4
        <4>3. PICK o \in Nat : o = offset
          BY <2>3, <3>4
        <4>4. consumed = b + m /\ o + m = d
          BY <2>1, <3>2, <3>4, <4>2, <4>3
        <4>5. consumed + o = b + d
          BY <2>1a, <3>2, <4>2, <4>3, <4>4
        <4>. QED
          BY <3>2, <4>1, <4>2, <4>3, <4>5, Zenon
      <3>7. full \in Nat /\ full * B <= n - offset /\ n - offset < full * B + B
        <4>1. PICK w \in Nat : w = n - offset
          BY <2>3, <3>4
        <4>. QED
          BY <2>1, <2>e, <4>1, WholeBlocks
      <3>8. whole \in Seq(Seq(Nat)) /\ Len(whole) = full /\ \A k \in 1 .. full : whole[k] = UnitsOf(x + k)
        <4>1. n \in Nat /\ consumed \in Nat
          BY <2>1, <2>3
        <4>. QED
          <5>1. consumed + offset = x * BlockUnits /\ offset + full * BlockUnits <= Len(chunk)
            <6>1. PICK p \in Nat : p = full * BlockUnits
              BY <2>1a, <3>7, Products
            <6>2. p <= n - offset
              BY <3>7, <6>1
            <6>3. offset + p <= Len(chunk)
              BY <2>3, <3>4, <6>2
            <6>. QED
              BY <3>6, <6>1, <6>3
          <5>2. chunk \in Seq(Nat) /\ Follows(chunk, consumed)
            BY <2>3
          <5>3. offset \in Nat /\ full \in Nat /\ x \in Nat
            BY <3>4, <3>7
          <5>4. \A k \in 1 .. full : whole[k] \in Seq(Nat) /\ whole[k] = UnitsOf(x + k)
            <6>1. ASSUME NEW k \in 1 .. full
                  PROVE  whole[k] \in Seq(Nat) /\ whole[k] = UnitsOf(x + k)
              <7>1. PICK block : block = whole[k]
                OBVIOUS
              <7>2. block = SubSeq(chunk, offset + (k - 1) * BlockUnits + 1, offset + k * BlockUnits)
                BY <2>f, <7>1
              <7>3. PICK j : j = x + k
                OBVIOUS
              <7>4. Splits(chunk, consumed, x, offset, full, k, j)
                BY <4>1, <5>1, <5>2, <5>3, <7>3 DEF Splits
              <7>5. block \in Seq(Nat) /\ block = UnitsOf(x + k)
                <8>1. Part(chunk, offset, k) \in Seq(Nat) /\ Part(chunk, offset, k) = UnitsOf(j)
                  BY <7>4, WholePart, Zenon
                <8>. QED
                  BY <7>2, <7>3, <8>1, Zenon DEF Part
              <7>. QED
                BY <7>1, <7>5
            <6>. QED
              BY <6>1
          <5>5. whole \in [1 .. full -> Seq(Nat)]
            BY <2>f, <5>4
          <5>. QED
            BY <5>3, <5>4, <5>5, FunctionIsSequence
      <3>9. closed \in Seq(Seq(Nat)) /\ Len(closed) = c /\ \A k \in 1 .. c : closed[k] = UnitsOf(S + k)
        <4>1. CASE tail = <<>>
          BY <2>e, <3>3, <4>1
        <4>2. CASE tail # <<>>
          <5>1. PICK need \in Nat \ {0} : need = B - m
            BY <2>1a
          <5>2. need <= n /\ Len(tail) + need = B
            BY <2>1, <3>1, <4>2, <5>1
          <5>3. PICK top : top = SubSeq(chunk, 1, need)
            OBVIOUS
          <5>4. tail \o top \in Seq(Nat) /\ tail \o top = UnitsOf(S + 1)
            <6>1. /\ consumed \in Nat /\ S \in Nat /\ tail \in Seq(Nat) /\ chunk \in Seq(Nat)
                  /\ need <= Len(chunk) /\ Len(tail) + need = BlockUnits
                  /\ b = S * BlockUnits /\ consumed = b + Len(tail)
                  /\ Follows(chunk, consumed) /\ Follows(tail, b)
              BY <2>1, <2>3, <3>2, <5>2
            <6>2. Closes(chunk, tail, S, b, need)
              BY <6>1 DEF Closes
            <6>. QED
              <7>1. tail \o SubSeq(chunk, 1, need) \in Seq(Nat) /\ tail \o SubSeq(chunk, 1, need) = UnitsOf(S + 1)
                BY <6>2, ClosedBlock, Zenon
              <7>. QED
                BY <5>3, <7>1, Zenon
          <5>5. closed = << tail \o top >> /\ c = 1
            BY <2>e, <3>3, <4>2, <5>1, <5>3
          <5>. QED
            BY <5>4, <5>5
        <4>. QED
          BY <4>1, <4>2
      <3>10. PICK all : all = seen \o closed
        OBVIOUS
      <3>11. all \in Seq(Seq(Nat)) /\ Len(all) = x /\ \A k \in 1 .. x : all[k] = UnitsOf(k)
        BY <2>1, <3>5, <3>9, <3>10, Followed
      <3>12. seen' \in Seq(Seq(Nat)) /\ Len(seen') = x + full /\ \A k \in 1 .. x + full : seen'[k] = UnitsOf(k)
        <4>1. \A k \in 1 .. Len(whole) : whole[k] = UnitsOf(Len(all) + k)
          BY <3>8, <3>11
        <4>2. \A k \in 1 .. Len(all) : all[k] = UnitsOf(k)
          BY <3>11
        <4>3. /\ all \o whole \in Seq(Seq(Nat)) /\ Len(all \o whole) = Len(all) + Len(whole)
              /\ \A k \in 1 .. Len(all) + Len(whole) : (all \o whole)[k] = UnitsOf(k)
          BY <3>8, <3>11, <4>1, <4>2, Followed, Zenon
        <4>. QED
          BY <3>1, <3>8, <3>10, <3>11, <4>3, Zenon
      <3>13. PICK p \in Nat : p = full * B
        BY <2>1, <3>7, Products
      <3>14. (x + full) * B = consumed + offset + p
        BY <2>1, <3>6, <3>7, <3>13, Products
      <3>15. PICK from \in Nat : from = offset + p
        BY <3>4, <3>13
      <3>16. from <= n /\ n - from < B /\ tail' = SubSeq(chunk, from + 1, n)
        BY <2>1, <2>3, <3>1, <3>4, <3>7, <3>13, <3>15
      <3>17. tail' \in Seq(Nat) /\ Len(tail') = n - from /\ Follows(tail', consumed + from)
        <4>1. PICK lo \in Nat \ {0} : lo = from + 1
          OBVIOUS
        <4>2. PICK a \in Nat : a = consumed + from
          BY <2>1
        <4>3. /\ chunk \in Seq(Nat) /\ consumed \in Nat /\ n \in Nat /\ Follows(chunk, consumed)
              /\ lo <= n + 1 /\ n <= Len(chunk) /\ a + 1 = consumed + lo /\ n - lo + 1 = n - from
          BY <2>1, <2>3, <3>16, <4>1, <4>2
        <4>4. /\ SubSeq(chunk, lo, n) \in Seq(Nat) /\ Len(SubSeq(chunk, lo, n)) = n - lo + 1
              /\ Follows(SubSeq(chunk, lo, n), a)
          BY <4>3, Stretch
        <4>. QED
          BY <3>16, <4>1, <4>2, <4>3, <4>4
      <3>18. consumed + from = (x + full) * B
        <4>1. PICK w : w = (x + full) * B
          OBVIOUS
        <4>2. PICK o \in Nat : o = offset
          BY <3>4
        <4>3. PICK u \in Nat : u = consumed
          BY <2>1
        <4>4. w = u + o + p /\ from = o + p
          BY <3>14, <3>15, <4>1, <4>2, <4>3
        <4>5. w = u + from
          BY <4>4
        <4>. QED
          BY <4>1, <4>3, <4>5
      <3>19. consumed' = (x + full) * B + Len(tail')
        <4>1. PICK u \in Nat : u = consumed
          BY <2>1
        <4>2. n \in Nat /\ from <= n /\ Len(tail') = n - from /\ consumed' = u + n
          BY <2>3, <2>4, <3>16, <3>17, <4>1
        <4>3. consumed' = (u + from) + Len(tail')
          BY <4>2
        <4>. QED
          BY <3>18, <4>1, <4>3
      <3>20. Follows(tail', (x + full) * B)
        BY <3>17, <3>18
      <3>. QED
        BY <1>1, <2>4, <3>12, <3>16, <3>17, <3>19, <3>20 DEF Assembled
    <2>. QED
      BY <2>5, <2>6
  <1>. QED
    BY <1>2, <1>3, Changes

\* Blocks and what is left of them determine the length of a stream.
LEMMA Quotient ==
    ASSUME NEW B \in Nat \ {0}, NEW x \in Nat, NEW y \in Nat, NEW r \in 0 .. B - 1, x * B = y * B + r
    PROVE  x = y /\ r = 0
  <1>1. x * B \in Nat /\ y * B \in Nat
    BY Products
  <1>2. ~(x < y)
    <2>1. x < y => (x + 1) * B <= y * B
      <3>1. x + 1 \in Nat /\ (x < y => x + 1 <= y)
        OBVIOUS
      <3>. QED
        BY <3>1, Products
    <2>2. (x + 1) * B = x * B + B
      BY Products
    <2>. QED
      BY <1>1, <2>1, <2>2
  <1>3. ~(y < x)
    <2>1. y < x => (y + 1) * B <= x * B
      <3>1. y + 1 \in Nat /\ (y < x => y + 1 <= x)
        OBVIOUS
      <3>. QED
        BY <3>1, Products
    <2>2. (y + 1) * B = y * B + B
      BY Products
    <2>. QED
      BY <1>1, <2>1, <2>2
  <1>4. x = y
    BY <1>2, <1>3
  <1>. QED
    BY <1>1, <1>4

\* No two blocks have the same units.
LEMMA UnitsDiffer ==
    ASSUME NEW j \in Nat \ {0}, NEW k \in Nat \ {0}, UnitsOf(j) = UnitsOf(k)
    PROVE  j = k
  <1>1. BlockUnits \in Nat \ {0} /\ 1 \in 1 .. BlockUnits /\ j - 1 \in Nat /\ k - 1 \in Nat
    BY BlockUnitsAssumption
  <1>2. PICK a \in Nat : a = (j - 1) * BlockUnits
    BY <1>1, Products
  <1>3. PICK b \in Nat : b = (k - 1) * BlockUnits
    BY <1>1, Products
  <1>4. UnitsOf(j)[1] = a + 1 /\ UnitsOf(k)[1] = b + 1
    BY <1>1, <1>2, <1>3, Units
  <1>5. a = b
    BY <1>4
  <1>6. PICK x \in Nat : x = j - 1
    BY <1>1
  <1>7. PICK y \in Nat : y = k - 1
    BY <1>1
  <1>8. x * BlockUnits = y * BlockUnits + 0
    BY <1>2, <1>3, <1>5, <1>6, <1>7
  <1>9. 0 \in 0 .. BlockUnits - 1
    BY <1>1
  <1>10. x = y
    BY <1>1, <1>8, <1>9, Quotient
  <1>. QED
    BY <1>6, <1>7, <1>10

\* The scanner tells the kinds of the blocks it has put together.
LEMMA KindsRead ==
    ASSUME Assembled, Len(seen) = Len(archive.blocks)
    PROVE  [k \in DOMAIN seen |-> KindOf(seen[k])] = archive.blocks
  <1>1. /\ archive.blocks \in Seq(BlockKind) /\ seen \in Seq(Seq(Nat))
        /\ \A k \in 1 .. Len(seen) : seen[k] = UnitsOf(k)
    BY ArchivesAssumption DEF Assembled
  <1>2. DOMAIN seen = DOMAIN archive.blocks /\ DOMAIN archive.blocks = 1 .. Len(seen) /\ Len(seen) \in Nat
    BY <1>1
  <1>3. ASSUME NEW k \in DOMAIN seen PROVE KindOf(seen[k]) = archive.blocks[k]
    <2>1. k \in Nat \ {0} /\ seen[k] = UnitsOf(k) /\ k \in DOMAIN archive.blocks
      BY <1>1, <1>2
    <2>2. \A j \in DOMAIN archive.blocks : j \in Nat \ {0}
      BY <1>2
    <2>3. \A j \in DOMAIN archive.blocks : seen[k] = UnitsOf(j) <=> j = k
      BY <2>1, <2>2, UnitsDiffer
    <2>4. (CHOOSE j \in DOMAIN archive.blocks : seen[k] = UnitsOf(j)) = k
      BY <2>1, <2>3
    <2>. QED
      BY <2>1, <2>4 DEF KindOf
  <1>4. archive.blocks = [k \in DOMAIN archive.blocks |-> archive.blocks[k]]
    BY <1>1
  <1>. QED
    BY <1>2, <1>3, <1>4, Zenon

\* A scan that ends well has read every block of the archive.
LEMMA ScanComplete ==
    ASSUME Assembled, ScanEnds, HeadersSafe
    PROVE  archive.loose = 0 /\ Remaining(archive.blocks) = 0
  <1>1. tail = <<>> /\ DataLeft = 0 /\ consumed = StreamLength
    BY DEF ScanEnds, HeadersSafe
  <1>2. /\ archive.blocks \in Seq(BlockKind) /\ archive.loose \in 0 .. BlockUnits - 1
        /\ seen \in Seq(Seq(Nat)) /\ BlockUnits \in Nat \ {0}
    BY ArchivesAssumption, BlockUnitsAssumption DEF Assembled
  <1>3. PICK x \in Nat : x = Len(seen)
    BY <1>2
  <1>4. PICK y \in Nat : y = Len(archive.blocks)
    BY <1>2
  <1>5. x * BlockUnits = y * BlockUnits + archive.loose
    <2>1. x * BlockUnits \in Nat /\ Len(tail) = 0
      BY <1>1, <1>2, Products
    <2>2. consumed = x * BlockUnits + Len(tail)
      BY <1>3 DEF Assembled
    <2>. QED
      BY <1>1, <1>4, <2>1, <2>2 DEF StreamLength
  <1>6. x = y /\ archive.loose = 0
    BY <1>2, <1>5, Quotient
  <1>7. [k \in DOMAIN seen |-> KindOf(seen[k])] = archive.blocks
    BY <1>3, <1>4, <1>6, KindsRead
  <1>. QED
    BY <1>1, <1>6, <1>7, Zenon DEF DataLeft

\* The entries are looked at once the scan has ended well, and extracted once all were.
LEMMA ScreenedStep == TypeOK /\ Assembled /\ Screened /\ [Next]_vars => Screened'
  <1> SUFFICES ASSUME TypeOK, Assembled, Screened, [Next]_vars PROVE Screened'
    OBVIOUS
  <1>0. pc \in Stages
    BY DEF TypeOK
  <1>1. archive' = archive
    BY Changes
  <1>2. CASE Scanned
    <2>1. pc' = "entries" => archive.loose = 0 /\ Remaining(archive.blocks) = 0
      BY <1>2, ScanComplete DEF Scanned, Goto
    <2>2. pc' # "extract"
      BY <1>2 DEF Scanned, Goto
    <2>. QED
      BY <1>1, <2>1, <2>2 DEF Screened
  <1>3. CASE Inspected
    BY <1>1, <1>3 DEF Screened, Inspected, At, Goto, EntriesEnd, archiveVars
  <1>4. CASE ~Scanned /\ ~Inspected
    <2>1. /\ pc' = "entries" => pc = "entries"
          /\ pc' = "extract" => pc = "extract"
      BY <1>0, <1>4, Moves
    <2>2. pc = "extract" => admitted' = admitted
      BY Changes DEF AdmitEntry, At
    <2>. QED
      BY <1>1, <2>1, <2>2 DEF Screened, EntriesEnd
  <1>. QED
    BY <1>2, <1>3, <1>4

-----------------------------------------------------------------------------
(* The entries *)

\* A range that starts at one has one end.
LEMMA Ranges ==
    ASSUME NEW n \in Nat, NEW m \in Nat, 1 .. n = 1 .. m
    PROVE  n = m
  <1>1. \A i \in Nat \ {0} : i <= n <=> i <= m
    <2>1. \A i \in Nat \ {0} : (i \in 1 .. n <=> i <= n) /\ (i \in 1 .. m <=> i <= m)
      OBVIOUS
    <2>. QED
      BY <2>1
  <1>. QED
    BY <1>1

\* What lies above a path, and how its names are compared.
LEMMA Paths ==
    ASSUME NEW path \in Seq(Segment)
    PROVE  /\ Canonical(path) \in Seq(Segment) /\ Len(Canonical(path)) = Len(path)
           /\ path \notin Above(path)
           /\ \A p, q \in UpTo(path) : Canonical(p) = Canonical(q) => p = q
  <1>1. Len(path) \in Nat /\ DOMAIN path = 1 .. Len(path)
    OBVIOUS
  <1>2. Canonical(path) \in Seq(Segment) /\ Len(Canonical(path)) = Len(path)
    <2>1. Canonical(path) = [i \in 1 .. Len(path) |-> IF path[i] = "A" THEN "a" ELSE path[i]]
      BY <1>1 DEF Canonical
    <2>2. \A i \in 1 .. Len(path) : (IF path[i] = "A" THEN "a" ELSE path[i]) \in Segment
      BY <1>1 DEF Segment
    <2>3. Canonical(path) \in [1 .. Len(path) -> Segment]
      BY <2>1, <2>2
    <2>. QED
      BY <1>1, <2>3, FunctionIsSequence
  <1>3. ASSUME NEW i \in 1 .. Len(path) - 1
        PROVE  SubSeq(path, 1, i) \in Seq(Segment) /\ Len(SubSeq(path, 1, i)) = i
    <2>1. 1 \in Int /\ i \in Int /\ 1 <= i /\ i - 1 + 1 = i
      OBVIOUS
    <2>2. \A j \in 1 .. i : path[j] \in Segment
      BY <1>1
    <2>. QED
      BY <2>1, <2>2, SubSeqProperties
  <1>4. path \notin Above(path)
    <2> SUFFICES ASSUME NEW i \in 1 .. Len(path) - 1, path = SubSeq(path, 1, i) PROVE FALSE
      BY DEF Above
    <2>. QED
      BY <1>1, <1>3
  <1>5. PICK l \in Nat : l = Len(path) /\ path = SubSeq(path, 1, l) /\ DOMAIN path = 1 .. l
    <2>1. SubSeq(path, 1, Len(path)) = path
      BY <1>1, SubSeqProperties
    <2>. QED
      BY <1>1, <2>1
  <1>6. ASSUME NEW p \in UpTo(path) PROVE \E n \in 0 .. l : DOMAIN p = 1 .. n /\ p = SubSeq(path, 1, n)
    <2>1. CASE p = path
      <3>1. l \in 0 .. l
        OBVIOUS
      <3>. QED
        BY <1>5, <2>1, <3>1, Zenon
    <2>2. CASE p # path
      <3>1. PICK i \in 1 .. Len(path) - 1 : p = SubSeq(path, 1, i)
        BY <2>2 DEF UpTo, Above
      <3>2. DOMAIN p = 1 .. i /\ i \in 0 .. l
        BY <1>3, <1>5, <3>1
      <3>. QED
        BY <3>1, <3>2
    <2>. QED
      BY <2>1, <2>2
  <1>7. ASSUME NEW p \in UpTo(path), NEW q \in UpTo(path), Canonical(p) = Canonical(q)
        PROVE  p = q
    <2>1. DOMAIN p = DOMAIN q
      BY <1>7 DEF Canonical
    <2>2. PICK n \in 0 .. l : DOMAIN p = 1 .. n /\ p = SubSeq(path, 1, n)
      BY <1>6
    <2>3. PICK m \in 0 .. l : DOMAIN q = 1 .. m /\ q = SubSeq(path, 1, m)
      BY <1>6
    <2>4. n \in Nat /\ m \in Nat /\ 1 .. n = 1 .. m
      <3>1. n \in Nat /\ m \in Nat
        OBVIOUS
      <3>2. 1 .. n = 1 .. m
        BY <2>1, <2>2, <2>3, Zenon
      <3>. QED
        BY <3>1, <3>2
    <2>5. n = m
      BY <2>4, Ranges
    <2>. QED
      BY <2>2, <2>3, <2>5
  <1>. QED
    BY <1>2, <1>4, <1>7

\* An entry that collides with nothing can be added to a tree.
LEMMA TreeGrows ==
    ASSUME Treelike(deployed), NEW e, e.path \in Seq(Segment), ~Collides(e)
    PROVE  /\ Treelike(deployed \cup {e})
           /\ e \notin deployed
  <1>1. ASSUME NEW d \in deployed
        PROVE  /\ \A p \in UpTo(d.path), q \in UpTo(e.path) : Canonical(p) = Canonical(q) => p = q
               /\ Canonical(d.path) # Canonical(e.path)
               /\ d.type = "file" => Canonical(d.path) \notin Above(Canonical(e.path))
               /\ e.type = "file" => Canonical(e.path) \notin Above(Canonical(d.path))
    <2>1. ASSUME NEW p \in UpTo(d.path), NEW q \in UpTo(e.path), Canonical(p) = Canonical(q)
          PROVE  p = q
      <3>1. p \in Spellings
        BY DEF Spellings
      <3>. QED
        BY <2>1, <3>1 DEF Collides
    <2>2. Canonical(d.path) \in Terminals /\ (d.type = "file" => Canonical(d.path) \in CanonicalFiles)
      BY DEF Terminals, CanonicalFiles
    <2>3. Above(Canonical(d.path)) \subseteq Parents
      BY DEF Parents
    <2>. QED
      BY <2>1, <2>2, <2>3 DEF Collides
  <1>2. e \notin deployed
    BY <1>1
  <1>3. /\ \A p, q \in UpTo(e.path) : Canonical(p) = Canonical(q) => p = q
        /\ Canonical(e.path) \notin Above(Canonical(e.path))
    <2>1. Canonical(e.path) \in Seq(Segment)
      BY Paths
    <2>. QED
      BY <2>1, Paths
  <1>4. ASSUME NEW d \in deployed \cup {e}, NEW f \in deployed \cup {e}
        PROVE  /\ \A p \in UpTo(d.path), q \in UpTo(f.path) : Canonical(p) = Canonical(q) => p = q
               /\ d # f => d.path # f.path
               /\ d.type = "file" => Canonical(d.path) \notin Above(Canonical(f.path))
    <2>1. CASE d \in deployed /\ f \in deployed
      BY <2>1 DEF Treelike
    <2>2. CASE d \in deployed /\ f = e
      BY <1>1, <2>2
    <2>3. CASE d = e /\ f \in deployed
      BY <1>1, <2>3
    <2>4. CASE d = e /\ f = e
      BY <1>3, <2>4
    <2>. QED
      BY <2>1, <2>2, <2>3, <2>4
  <1>. QED
    BY <1>2, <1>4 DEF Treelike

\* An entry of a tree collides with none of the others.
LEMMA TreeHasRoom ==
    ASSUME NEW S, deployed \subseteq S, Treelike(S), NEW e \in S, e \notin deployed
    PROVE  ~Collides(e)
  <1>1. ASSUME NEW p \in UpTo(e.path), NEW q \in Spellings, p # q, Canonical(p) = Canonical(q) PROVE FALSE
    <2>1. PICK d \in deployed : q \in UpTo(d.path)
      BY DEF Spellings
    <2>. QED
      BY <1>1, <2>1 DEF Treelike
  <1>2. ASSUME NEW x \in Above(Canonical(e.path)) \cap CanonicalFiles PROVE FALSE
    <2>1. PICK d \in deployed : d.type = "file" /\ x = Canonical(d.path)
      BY DEF CanonicalFiles
    <2>. QED
      BY <1>2, <2>1 DEF Treelike
  <1>3. ASSUME Canonical(e.path) \in Terminals PROVE FALSE
    <2>1. PICK d \in deployed : Canonical(e.path) = Canonical(d.path)
      BY <1>3 DEF Terminals
    <2>2. d.path \in UpTo(d.path) /\ e.path \in UpTo(e.path)
      BY DEF UpTo
    <2>3. d.path = e.path
      BY <2>1, <2>2 DEF Treelike
    <2>. QED
      BY <2>1, <2>3 DEF Treelike
  <1>4. ASSUME e.type = "file", Canonical(e.path) \in Parents PROVE FALSE
    <2>1. PICK d \in deployed : Canonical(e.path) \in Above(Canonical(d.path))
      BY <1>4 DEF Parents
    <2>. QED
      BY <1>4, <2>1 DEF Treelike
  <1>. QED
    BY <1>1, <1>2, <1>3, <1>4 DEF Collides

\* The entries admitted so far are a tree, the next one included.
LEMMA AdmittedStep == Assembled /\ Admitted /\ [Next]_vars => Admitted'
  <1> SUFFICES ASSUME Assembled, Admitted, [Next]_vars PROVE Admitted'
    OBVIOUS
  <1> DEFINE Taken(n) == {i \in 1 .. n : archive.entries[i].type # "link"}
  <1>1. archive' = archive
    BY Changes
  <1>2. /\ admitted \in 0 .. Len(archive.entries)
        /\ deployed = {archive.entries[i] : i \in Taken(admitted)}
        /\ Treelike(deployed)
        /\ \A i, j \in Taken(admitted) : i # j => archive.entries[i] # archive.entries[j]
    BY DEF Admitted
  <1>3. CASE admitted' = admitted /\ deployed' = deployed
    BY <1>1, <1>2, <1>3 DEF Admitted, Treelike
  <1>4. CASE AdmitEntry
    <2>1. /\ archive.entries \in Seq(Entry) /\ Len(archive.entries) \in Nat
          /\ admitted # Len(archive.entries) /\ admitted' = admitted + 1
      BY <1>4, ArchivesAssumption DEF Assembled, AdmitEntry, Admit, EntriesEnd
    <2>2. admitted' \in 0 .. Len(archive.entries) /\ admitted' \in DOMAIN archive.entries
      BY <1>2, <2>1
    <2>3. PICK e : e = NextEntry /\ e = archive.entries[admitted']
      BY <2>1 DEF NextEntry
    <2>4. e.path \in Seq(Segment)
      <3>1. e \in Entry
        <4>1. PICK k \in DOMAIN archive.entries : k = admitted'
          BY <2>2
        <4>2. archive.entries[k] \in Entry
          BY <2>1
        <4>. QED
          BY <2>3, <4>1, <4>2
      <3>. QED
        BY <3>1 DEF Entry
    <2>5. \A i \in 1 .. admitted' : i \in 1 .. admitted \/ i = admitted'
      BY <1>2, <2>1
    <2>6. 1 .. admitted \subseteq 1 .. admitted' /\ admitted' \in 1 .. admitted'
      BY <1>2, <2>1
    <2>7. CASE e.type = "link"
      <3>1. Taken(admitted') = Taken(admitted)
        BY <2>3, <2>5, <2>6, <2>7
      <3>2. deployed' = deployed
        BY <1>4, <2>3, <2>7 DEF AdmitEntry, Admit
      <3>3. /\ admitted' \in 0 .. Len(archive.entries)
            /\ deployed' = {archive.entries[i] : i \in Taken(admitted')}
            /\ Treelike(deployed')
            /\ \A i, j \in Taken(admitted') : i # j => archive.entries[i] # archive.entries[j]
        BY <1>2, <2>2, <3>1, <3>2
      <3>. QED
        BY <1>1, <3>3 DEF Admitted, Treelike
    <2>8. CASE e.type # "link"
      <3>1. deployed' = deployed \cup {e} /\ ~Collides(e)
        BY <1>4, <2>3, <2>8 DEF AdmitEntry, Admit
      <3>2. Treelike(deployed \cup {e}) /\ e \notin deployed
        BY <1>2, <2>4, <3>1, TreeGrows
      <3>3. Taken(admitted') = Taken(admitted) \cup {admitted'}
        BY <2>3, <2>5, <2>6, <2>8
      <3>4. deployed' = {archive.entries[i] : i \in Taken(admitted')}
        BY <1>2, <2>3, <3>1, <3>3
      <3>5. \A i \in Taken(admitted) : archive.entries[i] # e
        BY <1>2, <3>2
      <3>6. \A i, j \in Taken(admitted') : i # j => archive.entries[i] # archive.entries[j]
        BY <1>2, <2>3, <3>3, <3>5
      <3>7. Treelike(deployed')
        BY <3>1, <3>2
      <3>. QED
        BY <1>1, <2>2, <3>4, <3>6, <3>7 DEF Admitted, Treelike
    <2>. QED
      BY <2>7, <2>8
  <1>. QED
    BY <1>3, <1>4, Changes

\* Nothing has been scanned or admitted at the start.
LEMMA ArchiveStart == Init => Assembled /\ Admitted /\ Screened
  <1> SUFFICES ASSUME Init PROVE Assembled /\ Admitted /\ Screened
    OBVIOUS
  <1>1. /\ archive \in Archives /\ consumed = 0 /\ tail = <<>> /\ seen = <<>>
        /\ admitted = 0 /\ deployed = {} /\ pc = "parse"
    BY DEF Init, ArchiveInit
  <1>2. /\ archive.blocks \in Seq(BlockKind) /\ archive.entries \in Seq(Entry)
        /\ archive.loose \in 0 .. BlockUnits - 1 /\ BlockUnits \in Nat \ {0}
    BY <1>1, ArchivesAssumption, BlockUnitsAssumption
  <1>3. Assembled
    <2>1. Len(archive.blocks) \in Nat /\ Len(tail) = 0 /\ Len(seen) = 0
      BY <1>1, <1>2
    <2>2. Len(archive.blocks) * BlockUnits \in Nat /\ 0 * BlockUnits = 0
      BY <1>2, <2>1, Products
    <2>3. 0 <= StreamLength
      BY <1>2, <2>2 DEF StreamLength
    <2>4. Follows(tail, Len(seen) * BlockUnits)
      BY <2>1 DEF Follows
    <2>5. seen \in Seq(Seq(Nat)) /\ tail \in Seq(Nat) /\ \A k \in 1 .. Len(seen) : seen[k] = UnitsOf(k)
      BY <1>1, <2>1
    <2>. QED
      BY <1>1, <1>2, <2>1, <2>2, <2>3, <2>4, <2>5 DEF Assembled
  <1>4. Admitted
    <2>1. 0 \in 0 .. Len(archive.entries) /\ 1 .. 0 = {}
      BY <1>2
    <2>. QED
      BY <1>1, <2>1 DEF Admitted, Treelike
  <1>5. Screened
    BY <1>1 DEF Screened
  <1>. QED
    BY <1>3, <1>4, <1>5

\* The parts of the invariant about the archive hold together.
THEOREM ArchiveStages == Spec => [](TypeOK /\ Assembled /\ Admitted /\ Screened)
<1>1. Init => Assembled /\ Admitted /\ Screened
  BY ArchiveStart
<1>2. TypeOK /\ Assembled /\ Admitted /\ Screened /\ [Next]_vars => (Assembled /\ Admitted /\ Screened)'
  BY AssembledStep, AdmittedStep, ScreenedStep
<1> QED
  BY <1>1, <1>2, IntakeTypes, PTL DEF Spec

\* What is extracted was put together right and is safe, and nothing safe is refused: the
\* block scanner and the admission of entries in adapters/source-archive.ts.
THEOREM ArchiveRead == Spec => []ArchiveIsReadRight
<1>1. ASSUME Assembled, Admitted, Screened
      PROVE  ArchiveIsReadRight
  <2> DEFINE Taken(n) == {i \in 1 .. n : archive.entries[i].type # "link"}
  <2>1. archive.entries \in Seq(Entry) /\ DOMAIN archive.entries = 1 .. Len(archive.entries)
        /\ Len(archive.entries) \in Nat
    BY <1>1, ArchivesAssumption DEF Assembled
  <2>2. /\ admitted \in 0 .. Len(archive.entries)
        /\ deployed = {archive.entries[i] : i \in Taken(admitted)}
        /\ Treelike(deployed)
        /\ \A i, j \in Taken(admitted) : i # j => archive.entries[i] # archive.entries[j]
    BY <1>1 DEF Admitted
  <2>3. \A k \in DOMAIN seen : seen[k] = UnitsOf(k)
    <3>1. seen \in Seq(Seq(Nat)) /\ \A k \in 1 .. Len(seen) : seen[k] = UnitsOf(k)
      BY <1>1 DEF Assembled
    <3>. QED
      BY <3>1
  <2>4. ASSUME At("extract")
        PROVE  archive.loose = 0 /\ Remaining(archive.blocks) = 0 /\ Extractable
    <3>1. archive.loose = 0 /\ Remaining(archive.blocks) = 0 /\ admitted = Len(archive.entries)
      BY <1>1, <2>4 DEF Screened, At, EntriesEnd
    <3>2. Taken(admitted) = {i \in DOMAIN archive.entries : archive.entries[i].type # "link"}
      BY <2>1, <3>1
    <3>3. Extractable
      BY <2>2, <3>2 DEF Extractable
    <3>. QED
      BY <3>1, <3>3
  <2>5. ASSUME Extractable, ~EntriesEnd, NextEntry.type # "link"
        PROVE  ~Collides(NextEntry)
    <3> DEFINE all == {i \in DOMAIN archive.entries : archive.entries[i].type # "link"}
               S == {archive.entries[i] : i \in all}
    <3>1. /\ Treelike(S)
          /\ \A i, j \in all : i # j => archive.entries[i] # archive.entries[j]
      BY <2>5 DEF Extractable
    <3>2. PICK next \in 1 .. Len(archive.entries) : next = admitted + 1 /\ next \notin 1 .. admitted
      BY <2>1, <2>2, <2>5 DEF EntriesEnd
    <3>3. next \in all /\ NextEntry = archive.entries[next]
      BY <2>1, <2>5, <3>2 DEF NextEntry
    <3>4. Taken(admitted) \subseteq all /\ next \notin Taken(admitted)
      BY <2>1, <2>2, <3>2
    <3>5. deployed \subseteq S /\ NextEntry \in S
      BY <2>2, <3>3, <3>4
    <3>6. NextEntry \notin deployed
      BY <2>2, <3>1, <3>3, <3>4
    <3> HIDE DEF S
    <3>. QED
      BY <3>1, <3>5, <3>6, TreeHasRoom
  <2>. QED
    BY <2>3, <2>4, <2>5 DEF ArchiveIsReadRight
<1> QED
  BY ArchiveStages, <1>1, PTL

=============================================================================
