------------------------- MODULE SettingsLockProofs -------------------------
(***************************************************************************)
(* Proofs about SettingsLock, for any number of writers, any PIDs, inodes, *)
(* delays and bounds.                                                      *)
(***************************************************************************)
EXTENDS SettingsLock, TLAPS

-----------------------------------------------------------------------------
(* Types *)

\* Every edit of a document is a document.
LEMMA EditedType ==
    ASSUME NEW p \in Writers, NEW planned0 \in Document, NEW doc \in Document
    PROVE  Edited(p, planned0, doc) \in Document
<1>1. Choice[p] \in Stamp
  BY DEF Stamp
<1>2. Missing \in Document
  BY DEF Missing, Document, Stamp
<1>3. [planned0 EXCEPT !.selected = Choice[p], !.rest = Choice[p]] \in Document
  BY <1>1 DEF Document
<1>4. [doc EXCEPT !.selected = Choice[p]] \in Document
  BY <1>1 DEF Document
<1>5. [doc EXCEPT !.selected = Choice[p], !.rest = Choice[p]] \in Document
  BY <1>1 DEF Document
<1>6. Kind[p] \in {"cas", "move", "select", "merge"}
  BY KindAssumption
<1>7. QED
  BY <1>2, <1>3, <1>4, <1>5, <1>6 DEF Edited

\* The initial state is of type.
LEMMA TypeInit == Init => TypeOK
<1>1. Initial \in Document /\ Missing \in Document
  BY DEF Initial, Missing, Document, Stamp
<1>2. NoLock \in LockFile
  BY DEF NoLock, LockFile, Owners
<1>3. QED
  BY <1>1, <1>2, LockAssumption DEF Init, TypeOK, PCs, Answers

\* A failing call keeps the variables it changes in their types.
LEMMA FailsType ==
    ASSUME TypeOK, NEW p \in Writers, NEW there \in PCs, Fails(p, there)
    PROVE  /\ pc' \in [Writers -> PCs] /\ answer' \in [Writers -> Answers]
           /\ faults' \in 0 .. MaxFaults
           /\ crashes' \in 0 .. MaxCrashes /\ intrusions' \in 0 .. MaxIntrusions
  BY LockAssumption DEF TypeOK, Fails, Goto, Reply, Answers

\* Signing keeps the lock file a lock file.
LEMMA SignedType ==
    ASSUME TypeOK, NEW p \in Writers
    PROVE  SignedLock(p) \in LockFile
<1>1. Pid[p] \in Owners
  BY DEF Owners
<1>2. QED
  BY <1>1 DEF TypeOK, SignedLock, LockFile

\* The steps that wait for the lock keep the types.
LEMMA AcquireType ==
    ASSUME TypeOK, NEW p \in Writers, Acquire(p)
    PROVE  TypeOK'
<1> USE DEF Goto, Reply, At, PCs, Acquiring, Creating, docVars, holdVars, clockVars, envVars
<1>1. CASE Create(p)
  <2>1. PICK i \in FreeInodes :
           /\ lock' = [ino |-> i, owner |-> "empty", maker |-> p]
           /\ identity' = [identity EXCEPT ![p] = i]
    BY <1>1 DEF Create
  <2>2. i \in Inodes
    BY DEF FreeInodes
  <2>3. lock' \in LockFile
    BY <2>1, <2>2 DEF LockFile, Owners
  <2>4. QED
    BY <1>1, <2>1, <2>2, <2>3, LockAssumption DEF Create, TypeOK
<1>2. CASE FindTaken(p)
  BY <1>2 DEF FindTaken, TypeOK
<1>3. CASE Refuse(p)
  BY <1>3, LockAssumption DEF Refuse, TypeOK, Ended, Answers
<1>4. CASE TimeOut(p)
  BY <1>4 DEF TimeOut, TypeOK, Ended, Answers
<1>5. CASE Sleep(p)
  <2>1. (IF 2 * delay[p] < MaxDelay THEN 2 * delay[p] ELSE MaxDelay) \in 0 .. MaxDelay
    BY LockAssumption DEF TypeOK
  <2>2. QED
    BY <1>5, <2>1 DEF Sleep, TypeOK
<1>6. CASE Wake(p)
  BY <1>6 DEF Wake, TypeOK
<1>7. CASE Identify(p)
  BY <1>7, FailsType DEF Identify, TypeOK
<1>8. CASE Reopen(p)
  BY <1>8, FailsType DEF Reopen, TypeOK, Answers, Releasing
<1>9. CASE Sign(p)
  <2>1. lock' \in LockFile
    BY <1>9, SignedType DEF Sign, TypeOK
  <2>2. QED
    BY <1>9, <2>1, FailsType DEF Sign, TypeOK, Holding, Releasing
<1>10. QED
  BY <1>1, <1>2, <1>3, <1>4, <1>5, <1>6, <1>7, <1>8, <1>9 DEF Acquire

\* The steps of the operation keep the types.
LEMMA EditType ==
    ASSUME TypeOK, NEW p \in Writers, Edit(p)
    PROVE  TypeOK'
<1> USE DEF Goto, Reply, At, PCs, Holding, Releasing, Answers,
            docVars, holdVars, clockVars, envVars
<1>1. CASE Read(p)
  BY <1>1 DEF Read, TypeOK
<1>2. CASE FindDifferent(p)
  BY <1>2 DEF FindDifferent, TypeOK
<1>3. CASE CannotEdit(p)
  BY <1>3, LockAssumption DEF CannotEdit, TypeOK
<1>4. ASSUME Replace(p)
      PROVE  settings' \in Document
             /\ fate' \in [Writers -> {"idle", "open", "changed", "declined"}]
  BY <1>4, EditedType DEF Replace, TypeOK
<1>5. CASE Write(p)
  BY <1>4, <1>5 DEF Write, TypeOK
<1>6. CASE NothingToMove(p)
  BY <1>6 DEF NothingToMove, TypeOK
<1>7. CASE WriteUnacknowledged(p)
  BY <1>4, <1>7, FailsType DEF WriteUnacknowledged, TypeOK
<1>8. QED
  BY <1>1, <1>2, <1>3, <1>5, <1>6, <1>7 DEF Edit

\* The steps of the release keep the types.
LEMMA ReleaseType ==
    ASSUME TypeOK, NEW p \in Writers, Release(p)
    PROVE  TypeOK'
<1> USE DEF Goto, At, PCs, Releasing, Ended, docVars, holdVars, clockVars, envVars
<1>1. CASE Verify(p)
  BY <1>1, FailsType DEF Verify, TypeOK
<1>2. CASE Payload(p)
  BY <1>2, FailsType DEF Payload, TypeOK
<1>3. CASE Recheck(p)
  BY <1>3, FailsType DEF Recheck, TypeOK
<1>4. CASE Remove(p)
  <2>1. NoLock \in LockFile
    BY DEF NoLock, LockFile, Owners
  <2>2. QED
    BY <1>4, <2>1, FailsType DEF Remove, TypeOK
<1>5. CASE Close(p)
  BY <1>5, FailsType DEF Close, TypeOK
<1>6. QED
  BY <1>1, <1>2, <1>3, <1>4, <1>5 DEF Release

\* So do planning and the environment.
LEMMA OtherType ==
    ASSUME TypeOK,
           (\E p \in Writers : Plan(p) \/ Crash(p)) \/ Tick \/ RemoveOrphan \/ Intrude
    PROVE  TypeOK'
<1> USE DEF Goto, At, PCs, docVars, holdVars, clockVars, envVars
<1>1. NoLock \in LockFile
  BY DEF NoLock, LockFile, Owners
<1>2. ASSUME NEW p \in Writers, Plan(p) PROVE TypeOK'
  BY <1>2, LockAssumption DEF Plan, TypeOK, Acquiring
<1>3. ASSUME NEW p \in Writers, Crash(p) PROVE TypeOK'
  BY <1>3, LockAssumption DEF Crash, TypeOK, Ended
<1>4. CASE Tick
  <2>1. left' \in [Writers -> 0 .. Timeout] /\ wait' \in [Writers -> 0 .. MaxDelay]
    BY <1>4, LockAssumption DEF Tick, TypeOK
  <2>2. QED
    BY <1>4, <2>1 DEF Tick, TypeOK
<1>5. CASE RemoveOrphan
  BY <1>1, <1>5 DEF RemoveOrphan, TypeOK
<1>6. CASE Intrude
  <2>1. lock' \in LockFile
    BY <1>1, <1>6 DEF Intrude, TypeOK, LockFile, FreeInodes
  <2>2. QED
    BY <1>6, <2>1, LockAssumption DEF Intrude, TypeOK
<1>7. QED
  BY <1>2, <1>3, <1>4, <1>5, <1>6

\* Every step keeps the types.
LEMMA TypeStep == TypeOK /\ [Next]_vars => TypeOK'
<1>1. SUFFICES ASSUME TypeOK, [Next]_vars PROVE TypeOK'
  OBVIOUS
<1>2. CASE UNCHANGED vars
  BY <1>1, <1>2 DEF vars, TypeOK
<1>3. ASSUME NEW p \in Writers, Step(p) PROVE TypeOK'
  BY <1>1, <1>3, AcquireType, EditType, ReleaseType DEF Step
<1>4. QED
  BY <1>1, <1>2, <1>3, OtherType DEF Next

\* Every variable of the lock protocol keeps its type.
THEOREM LockTypeCorrect == Spec => []TypeOK
  BY TypeInit, TypeStep, PTL DEF Spec

-----------------------------------------------------------------------------
(* Whose file a writer may take away, with any tampering *)

Owning == Creating \cup Holding \cup Releasing
Guarding == Owning \cup {"close"}

\* The open handles are those of the writers between creation and close; they keep the
\* inodes of their files apart from each other and from files made later.
IdentityInv ==
    /\ \A p \in Writers : p \in guards <=> pc[p] \in Guarding
    /\ \A p, q \in guards : p # q => identity[p] # identity[q]
    /\ \A p \in guards : identity[p] # 0
    /\ \A p \in guards : lock.ino = identity[p] => lock.maker = p

\* Nothing has been created yet.
LEMMA IdentityInit == Init => IdentityInv
  BY DEF Init, IdentityInv, Guarding, Owning, Creating, Holding, Releasing

\* A step of p that stays on its side of the creation and leaves files and handles alone.
Stays(p) ==
    /\ \E there \in PCs : Goto(p, there) /\ (there \in Guarding <=> pc[p] \in Guarding)
    /\ lock'.ino = lock.ino /\ lock'.maker = lock.maker
    /\ UNCHANGED holdVars

\* Such a step keeps the invariant.
LEMMA StaysIdentity ==
    ASSUME TypeOK, IdentityInv, NEW p \in Writers, Stays(p)
    PROVE  IdentityInv'
  BY DEF Stays, TypeOK, IdentityInv, Goto, holdVars

\* Signing changes the text of the lock file only.
LEMMA SignedFields ==
    ASSUME TypeOK, NEW p \in Writers
    PROVE  SignedLock(p).ino = lock.ino /\ SignedLock(p).maker = lock.maker
  BY DEF SignedLock, TypeOK, LockFile

\* Every step of p stays, but creation, removal and close.
LEMMA StepStays ==
    ASSUME TypeOK, NEW p \in Writers, Step(p), ~Create(p), ~Remove(p), ~Close(p)
    PROVE  Stays(p)
<1> USE DEF Stays, Guarding, Owning, PCs, Acquiring, Creating, Holding, Releasing, Ended,
            At, holdVars
<1>1. CASE FindTaken(p) \/ Refuse(p) \/ TimeOut(p) \/ Sleep(p) \/ Wake(p)
  BY <1>1 DEF FindTaken, Refuse, TimeOut, Sleep, Wake, Goto
<1>2. CASE Identify(p) \/ Reopen(p)
  BY <1>2 DEF Identify, Reopen, Fails, Goto
<1>3. CASE Sign(p)
  BY <1>3, SignedFields DEF Sign, Fails, Goto
<1>4. CASE Edit(p)
  BY <1>4 DEF Edit, Read, FindDifferent, CannotEdit, Write, NothingToMove,
              WriteUnacknowledged, Fails, Goto
<1>5. CASE Verify(p) \/ Payload(p) \/ Recheck(p)
  BY <1>5 DEF Verify, Payload, Recheck, Fails, Goto
<1>6. QED
  BY <1>1, <1>2, <1>3, <1>4, <1>5 DEF Step, Acquire, Release

\* Every step keeps the open handles apart.
LEMMA IdentityStep == TypeOK /\ IdentityInv /\ [Next]_vars => IdentityInv'
<1>1. SUFFICES ASSUME TypeOK, IdentityInv, [Next]_vars PROVE IdentityInv'
  OBVIOUS
<1> USE <1>1 DEF Guarding, Owning, Acquiring, Creating, Holding, Releasing, Ended, At, Goto
<1>2. CASE UNCHANGED vars
  BY <1>2 DEF vars, IdentityInv
<1>3. ASSUME NEW p \in Writers, Create(p) PROVE IdentityInv'
  <2>1. PICK i \in FreeInodes :
           /\ lock' = [ino |-> i, owner |-> "empty", maker |-> p]
           /\ identity' = [identity EXCEPT ![p] = i]
    BY <1>3 DEF Create
  <2>2. i # 0 /\ \A q \in guards : identity[q] # i
    BY LockAssumption DEF FreeInodes
  <2>3. p \notin guards
    BY <1>3 DEF Create, IdentityInv
  <2>4. guards' = guards \cup {p} /\ pc' = [pc EXCEPT ![p] = "identify"]
    BY <1>3 DEF Create
  <2>5. identity'[p] = i /\ \A q \in guards : identity'[q] = identity[q]
    BY <2>1, <2>3 DEF TypeOK
  <2>6. lock'.ino = i /\ lock'.maker = p
    BY <2>1
  <2>7. \A q \in Writers : q \in guards' <=> pc'[q] \in Guarding
    BY <2>4 DEF IdentityInv, TypeOK
  <2>8. \A q, r \in guards' : q # r => identity'[q] # identity'[r]
    BY <2>2, <2>3, <2>4, <2>5 DEF IdentityInv
  <2>9. \A q \in guards' : identity'[q] # 0
    BY <2>2, <2>4, <2>5 DEF IdentityInv
  <2>10. \A q \in guards' : lock'.ino = identity'[q] => lock'.maker = q
    BY <2>2, <2>4, <2>5, <2>6
  <2>11. QED
    BY <2>7, <2>8, <2>9, <2>10 DEF IdentityInv
<1>4. ASSUME NEW p \in Writers, Remove(p) PROVE IdentityInv'
  <2>1. lock' = lock \/ lock'.ino = 0
    BY <1>4 DEF Remove, NoLock
  <2>2. pc' = [pc EXCEPT ![p] = "close"] /\ UNCHANGED <<identity, guards>>
    BY <1>4 DEF Remove, Fails, holdVars
  <2>3. QED
    BY <1>4, <2>1, <2>2 DEF Remove, IdentityInv, TypeOK
<1>5. ASSUME NEW p \in Writers, Close(p) \/ Crash(p) PROVE IdentityInv'
  <2>1. guards' = guards \ {p} /\ identity' = [identity EXCEPT ![p] = 0] /\ lock' = lock
    BY <1>5 DEF Close, Crash
  <2>2. pc' = [pc EXCEPT ![p] = "done"] \/ pc' = [pc EXCEPT ![p] = "crashed"]
    BY <1>5 DEF Close, Crash, Fails
  <2>3. QED
    BY <2>1, <2>2 DEF IdentityInv, TypeOK
<1>6. ASSUME NEW p \in Writers, Plan(p) PROVE IdentityInv'
  <2>1. Stays(p)
    BY <1>6 DEF Plan, Stays, PCs
  <2>2. QED
    BY <1>6, <2>1, StaysIdentity
<1>7. CASE Tick
  BY <1>7 DEF Tick, IdentityInv, holdVars
<1>8. CASE RemoveOrphan
  <2>1. lock'.ino = 0 /\ UNCHANGED <<pc, identity, guards>>
    BY <1>8 DEF RemoveOrphan, NoLock, holdVars
  <2>2. QED
    BY <2>1 DEF IdentityInv
<1>9. CASE Intrude
  <2>1. UNCHANGED <<pc, identity, guards>>
    BY <1>9 DEF Intrude, holdVars
  <2>2. \/ lock' = NoLock
        \/ \E i \in FreeInodes, t \in Owners :
              lock' = [ino |-> i, owner |-> t, maker |-> "outsider"]
        \/ \E t \in Owners : lock' = [lock EXCEPT !.owner = t]
    BY <1>9 DEF Intrude
  <2>3. CASE lock' = NoLock
    BY <2>1, <2>3 DEF IdentityInv, NoLock
  <2>4. ASSUME NEW i \in FreeInodes, NEW t \in Owners,
               lock' = [ino |-> i, owner |-> t, maker |-> "outsider"]
        PROVE  IdentityInv'
    BY <2>1, <2>4 DEF IdentityInv, FreeInodes
  <2>5. ASSUME NEW t \in Owners, lock' = [lock EXCEPT !.owner = t]
        PROVE  IdentityInv'
    BY <2>1, <2>5 DEF IdentityInv, TypeOK, LockFile
  <2>6. QED
    BY <2>2, <2>3, <2>4, <2>5
<1>10. ASSUME NEW p \in Writers, Step(p) PROVE IdentityInv'
  BY <1>3, <1>4, <1>5, <1>10, StepStays, StaysIdentity
<1>11. QED
  BY <1>2, <1>5, <1>6, <1>7, <1>8, <1>9, <1>10 DEF Next

\* A writer that is about to remove a lock file has just found that it is its own.
LEMMA RecheckFindsOwn ==
    ASSUME TypeOK, IdentityInv, [Next]_vars,
           NEW p \in Writers, At(p, "recheck"), pc'[p] = "remove"
    PROVE  lock.maker = p
<1> USE DEF At, Goto
<1>1. p \in guards
  BY DEF IdentityInv, Guarding, Owning, Releasing
<1>2. pc' # pc
  BY DEF TypeOK
<1>3. ~(Tick \/ RemoveOrphan \/ Intrude \/ UNCHANGED vars)
  BY <1>2 DEF Tick, RemoveOrphan, Intrude, vars
<1>4. PICK q \in Writers : Plan(q) \/ Step(q) \/ Crash(q)
  BY <1>3 DEF Next
<1>5. PICK there \in PCs : pc' = [pc EXCEPT ![q] = there]
  <2>1. CASE Plan(q) \/ Crash(q) \/ Create(q) \/ Remove(q) \/ Close(q)
    BY <2>1 DEF Plan, Crash, Create, Remove, Close, Fails, PCs, Acquiring, Creating, Ended
  <2>2. CASE Stays(q)
    BY <2>2 DEF Stays
  <2>3. QED
    BY <1>4, <2>1, <2>2, StepStays
<1>6. q = p /\ there = "remove"
  BY <1>5 DEF TypeOK
<1>7. Recheck(p)
  <2>1. ~(Plan(p) \/ Crash(p) \/ Acquire(p) \/ Edit(p))
    BY <1>5, <1>6 DEF Plan, Crash, Acquire, Create, FindTaken, Refuse, TimeOut, Sleep,
       Wake, Identify, Reopen, Sign, Edit, Read, FindDifferent, CannotEdit, Write,
       NothingToMove, WriteUnacknowledged, Holding, TypeOK
  <2>2. ~(Verify(p) \/ Payload(p) \/ Remove(p) \/ Close(p))
    BY DEF Verify, Payload, Remove, Close
  <2>3. QED
    BY <1>4, <1>6, <2>1, <2>2 DEF Step, Release
<1>8. SameIdentity(p)
  BY <1>6, <1>7 DEF Recheck, Fails, TypeOK
<1>9. QED
  BY <1>1, <1>8 DEF SameIdentity, IdentityInv

\* Whatever happens to the lock files from outside, and however inodes and PIDs repeat, a
\* writer decides to remove only the file it created.
THEOREM RemovesOwnFile == Spec => DecidesOnItsOwnFile
<1>1. TypeOK /\ IdentityInv /\ [Next]_vars =>
         [\A p \in Writers : At(p, "recheck") /\ pc'[p] = "remove" => lock.maker = p]_vars
  BY RecheckFindsOwn
<1>2. QED
  BY <1>1, TypeInit, TypeStep, IdentityInit, IdentityStep, PTL DEF Spec, DecidesOnItsOwnFile

-----------------------------------------------------------------------------
(* One writer at a time, when nobody tampers with live lock files *)

\* The lock file is the owner's, under its inode, and under its PID once it is signed; the
\* document an owner is about to replace is the one it read and may change; who has not got
\* the lock, or has answered cleanly, has no file there.
HoldInv ==
    intrusions = 0 =>
        /\ \A p \in Writers : pc[p] \in Owning =>
              lock.maker = p /\ lock.ino = identity[p] /\ lock # NoLock
        /\ \A p \in Writers : pc[p] \in Holding \cup {"verify", "payload"} =>
              lock.owner = Pid[p]
        /\ \A p \in Writers : pc[p] = "write" =>
              read[p] = settings /\ ~Declines(p, planned[p], read[p])
        /\ \A p \in Writers : lock.maker = p => pc[p] \notin {"idle"} \cup Acquiring
        /\ \A p \in Writers : pc[p] \in {"close", "done"} /\ answer[p] # "io" =>
              lock.maker # p

\* Nobody holds the lock at first.
LEMMA HoldInit == Init => HoldInv
  BY LockAssumption
     DEF Init, HoldInv, NoLock, Owning, Acquiring, Creating, Holding, Releasing

\* A file with the identity of an owner is the file of the owner, and there.
LEMMA OwnerIdentity ==
    ASSUME HoldInv, intrusions = 0, NEW p \in Writers, pc[p] \in Owning
    PROVE  SameIdentity(p)
  BY DEF HoldInv, SameIdentity

\* Two owners are one.
LEMMA OneOwner ==
    ASSUME HoldInv, intrusions = 0,
           NEW p \in Writers, NEW q \in Writers, pc[p] \in Owning, pc[q] \in Owning
    PROVE  p = q
  BY DEF HoldInv

\* While p waits or has failed, nothing of the lock changes hands.
LEMMA HoldWaiting ==
    ASSUME TypeOK, HoldInv, intrusions = 0, NEW p \in Writers,
           FindTaken(p) \/ Refuse(p) \/ TimeOut(p) \/ Sleep(p) \/ Wake(p) \/ Plan(p)
    PROVE  HoldInv'
<1>1. /\ pc[p] \in {"idle"} \cup Acquiring
      /\ pc' = [pc EXCEPT ![p] = pc'[p]]
      /\ pc'[p] \in Acquiring \cup {"done"}
  BY DEF FindTaken, Refuse, TimeOut, Sleep, Wake, Plan, At, Goto, Acquiring, TypeOK
<1>2. UNCHANGED <<settings, read, lock, identity, intrusions>>
  BY DEF FindTaken, Refuse, TimeOut, Sleep, Wake, Plan, docVars, holdVars, envVars
<1>3. \A q \in Writers : q # p => answer'[q] = answer[q] /\ planned'[q] = planned[q]
  BY DEF FindTaken, Refuse, TimeOut, Sleep, Wake, Plan, docVars, Reply, TypeOK
<1>4. \A q \in Writers : q # p => pc'[q] = pc[q]
  BY <1>1 DEF TypeOK
<1>5. lock.maker # p /\ pc'[p] \notin Owning \cup {"idle"}
  BY <1>1 DEF HoldInv, Owning, Acquiring, Creating, Holding, Releasing
<1>6. pc'[p] \notin Holding \cup {"verify", "payload", "write"}
  BY <1>5 DEF Owning, Releasing, Holding
<1>7. QED
  BY <1>2, <1>3, <1>4, <1>5, <1>6 DEF HoldInv

\* A lock file that comes into being is its creator's.
LEMMA HoldCreate ==
    ASSUME TypeOK, HoldInv, intrusions = 0, NEW p \in Writers, Create(p)
    PROVE  HoldInv'
<1>1. PICK i \in FreeInodes :
         /\ lock' = [ino |-> i, owner |-> "empty", maker |-> p]
         /\ identity' = [identity EXCEPT ![p] = i]
  BY DEF Create
<1>2. /\ UNCHANGED <<settings, planned, read, answer, intrusions>>
      /\ pc' = [pc EXCEPT ![p] = "identify"]
  BY DEF Create, docVars, envVars, Goto
<1>3. \A q \in Writers : pc[q] \notin Owning
  BY DEF Create, HoldInv
<1>4. \A q \in Writers : q # p => pc'[q] = pc[q]
  BY <1>2 DEF TypeOK
<1>5. pc'[p] = "identify" /\ identity'[p] = i /\ lock'.ino = i /\ lock'.maker = p
  BY <1>1, <1>2 DEF TypeOK
<1>6. lock' # NoLock
  BY <1>5, LockAssumption DEF FreeInodes, NoLock
<1>7. QED
  BY <1>2, <1>3, <1>4, <1>5, <1>6
     DEF HoldInv, Owning, Acquiring, Creating, Holding, Releasing

\* The creator identifies, opens again and signs its file, or gives up with an I/O failure.
LEMMA HoldSign ==
    ASSUME TypeOK, HoldInv, intrusions = 0, NEW p \in Writers,
           Identify(p) \/ Reopen(p) \/ Sign(p)
    PROVE  HoldInv'
<1>1. pc[p] \in Owning /\ pc[p] \in Creating
  BY DEF Identify, Reopen, Sign, At, Owning, Creating
<1>2. UNCHANGED <<settings, planned, read, identity, intrusions>>
  BY DEF Identify, Reopen, Sign, Fails, docVars, holdVars, envVars
<1>3. /\ pc' = [pc EXCEPT ![p] = pc'[p]]
      /\ \/ pc'[p] \in {"reopen", "sign", "read"}
         \/ pc'[p] \in {"recheck", "close"} /\ answer'[p] = "io"
  <2>1. \A there \in {"recheck", "close"} : Fails(p, there) =>
           pc' = [pc EXCEPT ![p] = there] /\ pc'[p] = there /\ answer'[p] = "io"
    BY DEF Fails, Goto, Reply, TypeOK
  <2>2. CASE Identify(p)
    BY <2>1, <2>2 DEF Identify, Goto, TypeOK
  <2>3. CASE Reopen(p)
    BY <2>1, <2>3 DEF Reopen, Goto, Reply, TypeOK
  <2>4. CASE Sign(p)
    BY <2>1, <2>4 DEF Sign, Goto, TypeOK
  <2>5. QED
    BY <2>2, <2>3, <2>4
<1>4. \A q \in Writers : q # p => answer'[q] = answer[q]
  BY DEF Identify, Reopen, Sign, Fails, Reply, TypeOK, envVars
<1>5. \A q \in Writers : q # p => pc'[q] = pc[q]
  BY <1>3 DEF TypeOK
<1>6. lock' = lock \/ lock' = SignedLock(p)
  BY DEF Identify, Reopen, Sign
<1>7. lock'.ino = lock.ino /\ lock'.maker = lock.maker /\ (lock # NoLock => lock' # NoLock)
  <2>1. SignedLock(p) # NoLock \/ lock = NoLock
    BY <1>1, OwnerIdentity, SignedFields, LockAssumption DEF HoldInv, NoLock
  <2>2. QED
    BY <1>6, <2>1, SignedFields
<1>8. pc'[p] = "read" => lock'.owner = Pid[p]
  <2>1. pc'[p] = "read" => lock' = SignedLock(p)
    BY DEF Identify, Reopen, Sign, Fails, Goto, TypeOK
  <2>2. SignedLock(p).owner = Pid[p]
    BY <1>1, OwnerIdentity DEF SignedLock, TypeOK, LockFile
  <2>3. QED
    BY <2>1, <2>2
<1>9. \A q \in Writers : pc[q] \in Owning => q = p
  BY <1>1, OneOwner
<1>10. lock.maker = p
  BY <1>1 DEF HoldInv
<1>11. QED
  BY <1>1, <1>2, <1>3, <1>4, <1>5, <1>7, <1>8, <1>9, <1>10
     DEF HoldInv, Owning, Acquiring, Creating, Holding, Releasing

\* The owner reads, compares and writes: nobody else is at it.
LEMMA HoldEdit ==
    ASSUME TypeOK, HoldInv, intrusions = 0, NEW p \in Writers, Edit(p)
    PROVE  HoldInv'
<1> USE DEF Edit, Read, FindDifferent, CannotEdit, Write, NothingToMove,
            WriteUnacknowledged, Fails, Goto, At
<1>1. pc[p] \in Owning /\ pc[p] \in Holding
  BY DEF Owning, Holding
<1>2. UNCHANGED <<planned, lock, identity, intrusions>>
  BY DEF docVars, holdVars, envVars
<1>3. pc' = [pc EXCEPT ![p] = pc'[p]] /\ pc'[p] \in {"write", "verify"}
  BY DEF TypeOK
<1>4. \A q \in Writers : q # p => pc'[q] = pc[q] /\ answer'[q] = answer[q]
  BY <1>3 DEF TypeOK, Reply
<1>5. pc'[p] = "write" =>
         settings' = settings /\ read'[p] = settings /\ ~Declines(p, planned[p], settings)
  BY DEF TypeOK
<1>6. \A q \in Writers : pc[q] \in Owning => q = p
  BY <1>1, OneOwner
<1>7. \A q \in Writers : pc'[q] = "write" => q = p
  BY <1>4, <1>6 DEF Owning, Holding
<1>8. QED
  BY <1>1, <1>2, <1>3, <1>4, <1>5, <1>6, <1>7
     DEF HoldInv, Owning, Acquiring, Creating, Holding, Releasing

\* The owner takes its file away; only an I/O failure stops it.
LEMMA HoldRelease ==
    ASSUME TypeOK, HoldInv, intrusions = 0, NEW p \in Writers, Release(p)
    PROVE  HoldInv'
<1> USE DEF Release, Verify, Payload, Recheck, Remove, Close, Fails, Goto, At
<1>1. pc[p] \in {"verify", "payload", "recheck", "remove", "close"}
  OBVIOUS
<1>2. UNCHANGED <<settings, planned, read, intrusions>>
  BY DEF docVars, envVars
<1>3. /\ pc' = [pc EXCEPT ![p] = pc'[p]]
      /\ pc'[p] \in {"payload", "recheck", "remove", "close", "done"}
  BY DEF TypeOK
<1>4. \A q \in Writers : q # p => pc'[q] = pc[q] /\ answer'[q] = answer[q]
  BY <1>3 DEF TypeOK, Reply, envVars
<1>5. /\ \A q \in Writers : q # p => identity'[q] = identity[q]
      /\ pc'[p] # "done" => identity'[p] = identity[p]
  BY <1>3 DEF TypeOK, holdVars
<1>6. lock' = lock \/ lock' = NoLock
  OBVIOUS
<1>7. pc[p] \in Owning <=> pc[p] # "close"
  BY <1>1 DEF Owning, Creating, Holding, Releasing
<1>8. lock' # lock => pc[p] = "remove"
  OBVIOUS
<1>9. pc[p] # "close" /\ pc'[p] = "close" => lock' = NoLock \/ answer'[p] = "io"
  <2>1. CASE pc[p] = "verify"
    BY <1>7, <2>1, OwnerIdentity DEF TypeOK, Reply
  <2>2. CASE pc[p] = "payload"
    <3>1. lock.owner = Pid[p]
      BY <2>2 DEF HoldInv
    <3>2. QED
      BY <2>2, <3>1 DEF TypeOK, Reply
  <2>3. CASE pc[p] = "recheck"
    BY <1>7, <2>3, OwnerIdentity DEF TypeOK, Reply
  <2>4. CASE pc[p] = "remove"
    BY <2>4 DEF TypeOK, Reply
  <2>5. QED
    BY <1>1, <2>1, <2>2, <2>3, <2>4
<1>10. pc[p] = "close" => pc'[p] = "done" /\ (answer'[p] = answer[p] \/ answer'[p] = "io")
  BY DEF TypeOK, Reply
<1>11. \A q \in Writers : pc[p] # "close" /\ pc[q] \in Owning => q = p
  BY <1>7, OneOwner
<1>12. pc'[p] = "done" => pc[p] = "close"
  BY DEF TypeOK
<1>13. pc[p] # "close" /\ pc'[p] # "close" => lock' = lock
  BY DEF TypeOK
<1>14. \A q \in Writers : pc'[q] \in Owning =>
          lock'.maker = q /\ lock'.ino = identity'[q] /\ lock' # NoLock
  BY <1>1, <1>3, <1>4, <1>5, <1>7, <1>8, <1>10, <1>11, <1>12, <1>13
     DEF HoldInv, Owning, Creating, Holding, Releasing
<1>15. \A q \in Writers : pc'[q] \in Holding \cup {"verify", "payload"} =>
          lock'.owner = Pid[q]
  <2>1. pc'[p] = "payload" => pc[p] = "verify" /\ lock' = lock
    BY DEF TypeOK
  <2>2. QED
    BY <1>3, <1>4, <1>7, <1>8, <1>11, <2>1 DEF HoldInv, Owning, Holding, Releasing
<1>16. \A q \in Writers : pc'[q] = "write" =>
          read'[q] = settings' /\ ~Declines(q, planned'[q], read'[q])
  BY <1>2, <1>3, <1>4 DEF HoldInv
<1>17. \A q \in Writers : lock'.maker = q => pc'[q] \notin {"idle"} \cup Acquiring
  BY <1>3, <1>4, <1>6, LockAssumption DEF HoldInv, NoLock, Acquiring
<1>18. \A q \in Writers : pc'[q] \in {"close", "done"} /\ answer'[q] # "io" =>
          lock'.maker # q
  BY <1>3, <1>4, <1>6, <1>9, <1>10, <1>12, LockAssumption DEF HoldInv, NoLock
<1>19. QED
  BY <1>14, <1>15, <1>16, <1>17, <1>18 DEF HoldInv

\* A death leaves the lock file to nobody, an orphan taken away was nobody's, and a change
\* from outside ends what is promised.
LEMMA HoldOther ==
    ASSUME TypeOK, HoldInv, intrusions' = 0,
           (\E p \in Writers : Crash(p)) \/ Tick \/ RemoveOrphan \/ Intrude \/ UNCHANGED vars
    PROVE  HoldInv'
<1>1. ~Intrude
  BY DEF Intrude, TypeOK
<1>2. ASSUME NEW p \in Writers, Crash(p) PROVE HoldInv'
  <2>1. /\ pc' = [pc EXCEPT ![p] = "crashed"]
        /\ identity' = [identity EXCEPT ![p] = 0]
        /\ UNCHANGED <<settings, planned, read, lock, answer, intrusions>>
    BY <1>2 DEF Crash, Goto, docVars
  <2>2. /\ pc'[p] = "crashed"
        /\ \A q \in Writers : q # p => pc'[q] = pc[q] /\ identity'[q] = identity[q]
    BY <2>1 DEF TypeOK
  <2>3. QED
    BY <2>1, <2>2 DEF HoldInv, Owning, Acquiring, Creating, Holding, Releasing
<1>3. CASE Tick
  BY <1>3 DEF Tick, HoldInv, docVars, holdVars, envVars
<1>4. CASE RemoveOrphan
  <2>1. /\ lock' = NoLock
        /\ UNCHANGED <<settings, planned, read, pc, answer, identity, intrusions>>
    BY <1>4 DEF RemoveOrphan, docVars, holdVars, envVars
  <2>2. \A p \in Writers : pc[p] \notin Owning
    <3>1. SUFFICES ASSUME NEW p \in Writers, pc[p] \in Owning PROVE FALSE
      OBVIOUS
    <3>2. lock.maker = p
      BY <2>1, <3>1 DEF HoldInv
    <3>3. pc[p] \in Ended
      BY <1>4, <3>2, LockAssumption DEF RemoveOrphan
    <3>4. QED
      BY <3>1, <3>3 DEF Owning, Creating, Holding, Releasing, Ended
  <2>3. QED
    BY <2>1, <2>2, LockAssumption DEF HoldInv, NoLock, Owning, Holding, Releasing
<1>5. CASE UNCHANGED vars
  BY <1>5 DEF vars, HoldInv
<1>6. QED
  BY <1>1, <1>2, <1>3, <1>4, <1>5

\* Every step keeps the lock in one hand.
LEMMA HoldStep == TypeOK /\ HoldInv /\ [Next]_vars => HoldInv'
<1>1. SUFFICES ASSUME TypeOK, HoldInv, [Next]_vars, intrusions' = 0 PROVE HoldInv'
  BY DEF HoldInv
<1>2. ASSUME NEW p \in Writers, Plan(p) \/ Step(p) PROVE HoldInv'
  <2>1. intrusions = 0
    BY <1>1, <1>2 DEF Plan, Step, Acquire, Edit, Release, Create, FindTaken, Refuse,
       TimeOut, Sleep, Wake, Identify, Reopen, Sign, Read, FindDifferent, CannotEdit, Write,
       NothingToMove, WriteUnacknowledged, Verify, Payload, Recheck, Remove, Close, Fails,
       envVars
  <2>2. QED
    BY <1>1, <1>2, <2>1, HoldWaiting, HoldCreate, HoldSign, HoldEdit, HoldRelease
       DEF Step, Acquire
<1>3. QED
  BY <1>1, <1>2, HoldOther DEF Next

\* The invariant holds in every reachable state.
LEMMA AlwaysHeld == Spec => []HoldInv
  BY TypeInit, TypeStep, HoldInit, HoldStep, PTL DEF Spec

\* Two writers are never at their operation at once.
THEOREM OneWriterAtATime == Spec => []MutualExclusion
<1>1. HoldInv => MutualExclusion
  BY DEF HoldInv, MutualExclusion, Owning
<1>2. QED
  BY <1>1, AlwaysHeld, PTL

\* The document a writer replaces is the document it read and compared.
THEOREM WritesWhatItRead == Spec => []ReadIsFresh
<1>1. HoldInv => ReadIsFresh
  BY DEF HoldInv, ReadIsFresh, At
<1>2. QED
  BY <1>1, AlwaysHeld, PTL

\* A lock file stays behind only where the answer is an I/O failure or the process died.
THEOREM CleanAnswersLeaveNothing == Spec => []LeavesNothingBehind
<1>1. HoldInv => LeavesNothingBehind
  BY DEF HoldInv, LeavesNothingBehind, At
<1>2. QED
  BY <1>1, AlwaysHeld, PTL

-----------------------------------------------------------------------------
(* The edits are serial *)

\* The answer on its way to the caller of p tells what became of the edit of p.
Told(p) ==
    /\ fate[p] # "idle" /\ answer[p] # "none"
    /\ answer[p] = "changed" => fate[p] = "changed"
    /\ answer[p] = "declined" => fate[p] = "declined"
    /\ answer[p] \in {"refused", "timeout"} => fate[p] = "open"

\* The edit is open until the operation ends, and from then on there is a true answer.
FateInv ==
    \A p \in Writers :
        /\ pc[p] = "idle" => fate[p] = "idle" /\ answer[p] = "none"
        /\ pc[p] \in Acquiring \cup Creating \cup Holding =>
              fate[p] = "open" /\ answer[p] = "none"
        /\ pc[p] \in Releasing \cup {"close", "done"} => Told(p)

\* Nothing has been planned yet.
LEMMA FateInit == Init => FateInv
  BY DEF Init, FateInv, Acquiring, Creating, Holding, Releasing

\* A step is about one writer, whose program counter it moves.
LEMMA OnlyOneMoves ==
    ASSUME TypeOK, NEW p \in Writers, Plan(p) \/ Step(p) \/ Crash(p)
    PROVE  /\ pc' = [pc EXCEPT ![p] = pc'[p]]
           /\ \A q \in Writers : q # p =>
                 pc'[q] = pc[q] /\ answer'[q] = answer[q] /\ fate'[q] = fate[q]
<1> USE DEF Goto, Reply, TypeOK, At, docVars, envVars, Fails
<1>1. CASE Plan(p) \/ Crash(p)
  BY <1>1 DEF Plan, Crash
<1>2. CASE Create(p) \/ FindTaken(p) \/ Refuse(p) \/ TimeOut(p) \/ Sleep(p) \/ Wake(p)
  BY <1>2 DEF Create, FindTaken, Refuse, TimeOut, Sleep, Wake
<1>3. CASE Identify(p) \/ Reopen(p) \/ Sign(p)
  BY <1>3 DEF Identify, Reopen, Sign
<1>4. CASE Read(p) \/ FindDifferent(p) \/ CannotEdit(p)
  BY <1>4 DEF Read, FindDifferent, CannotEdit
<1>5. CASE Write(p) \/ NothingToMove(p) \/ WriteUnacknowledged(p)
  BY <1>5 DEF Write, NothingToMove, WriteUnacknowledged, Replace
<1>6. CASE Release(p)
  BY <1>6 DEF Release, Verify, Payload, Recheck, Remove, Close
<1>7. QED
  BY <1>1, <1>2, <1>3, <1>4, <1>5, <1>6 DEF Step, Acquire, Edit

\* The fate and the answer of the writer that moves.
LEMMA MoverTold ==
    ASSUME TypeOK, FateInv, NEW p \in Writers, Plan(p) \/ Step(p) \/ Crash(p)
    PROVE  /\ pc'[p] # "idle"
           /\ pc'[p] \in Acquiring \cup Creating \cup Holding =>
                 fate'[p] = "open" /\ answer'[p] = "none"
           /\ pc'[p] \in Releasing \cup {"close", "done"} => Told(p)'
<1> USE DEF Acquiring, Creating, Holding, Releasing, At, Goto, Reply, TypeOK, docVars,
            envVars, Fails, Told
<1>1. CASE Plan(p) \/ Crash(p)
  BY <1>1 DEF Plan, Crash, FateInv, Ended
<1>2. CASE Create(p) \/ FindTaken(p) \/ Refuse(p) \/ TimeOut(p) \/ Sleep(p) \/ Wake(p)
  BY <1>2 DEF Create, FindTaken, Refuse, TimeOut, Sleep, Wake, FateInv
<1>3. CASE Identify(p) \/ Reopen(p) \/ Sign(p)
  BY <1>3 DEF Identify, Reopen, Sign, FateInv
<1>4. CASE Read(p) \/ FindDifferent(p) \/ CannotEdit(p)
  BY <1>4 DEF Read, FindDifferent, CannotEdit, FateInv
<1>5. CASE Write(p) \/ NothingToMove(p) \/ WriteUnacknowledged(p)
  BY <1>5 DEF Write, NothingToMove, WriteUnacknowledged, Replace, FateInv
<1>6. CASE Verify(p) \/ Payload(p) \/ Recheck(p)
  BY <1>6 DEF Verify, Payload, Recheck, FateInv
<1>7. CASE Remove(p) \/ Close(p)
  BY <1>7 DEF Remove, Close, FateInv
<1>8. QED
  BY <1>1, <1>2, <1>3, <1>4, <1>5, <1>6, <1>7 DEF Step, Acquire, Edit, Release

\* Every step keeps the answers true.
LEMMA FateStep == TypeOK /\ FateInv /\ [Next]_vars => FateInv'
<1>1. SUFFICES ASSUME TypeOK, FateInv, [Next]_vars PROVE FateInv'
  OBVIOUS
<1>2. CASE UNCHANGED <<pc, fate, answer>>
  BY <1>1, <1>2 DEF FateInv, Told
<1>3. ASSUME NEW p \in Writers, Plan(p) \/ Step(p) \/ Crash(p) PROVE FateInv'
  BY <1>1, <1>3, OnlyOneMoves, MoverTold DEF FateInv, Told
<1>4. Tick \/ RemoveOrphan \/ Intrude \/ UNCHANGED vars => UNCHANGED <<pc, fate, answer>>
  BY DEF Tick, RemoveOrphan, Intrude, vars, docVars
<1>5. QED
  BY <1>1, <1>2, <1>3, <1>4 DEF Next

\* What the caller sees changes when a call returns, and only then.
LEMMA ReturnedStep ==
    ASSUME TypeOK, NEW p \in Writers, pc[p] # "done", Plan(p) \/ Step(p) \/ Crash(p)
    PROVE  /\ Returned[p] = "none"
           /\ pc'[p] # "done" => Returned' = Returned
           /\ pc'[p] = "done" => Returned' = [Returned EXCEPT ![p] = answer'[p]]
  BY OnlyOneMoves DEF Returned, At, TypeOK

\* Planning is planning.
LEMMA PlanIsSerial ==
    ASSUME TypeOK, FateInv, NEW p \in Writers, Plan(p)
    PROVE  Serial!Plan(p)
<1>1. pc'[p] # "done" /\ pc[p] # "done"
  BY DEF Plan, At, Goto, TypeOK
<1>2. Returned' = Returned
  BY <1>1, ReturnedStep
<1>3. QED
  BY <1>2 DEF Plan, Serial!Plan, FateInv, At, SomethingToMove, Serial!SomethingToMove,
              Missing, Serial!Missing

\* The rename changes the document that was read, which is the document of the moment.
LEMMA WriteIsSerial ==
    ASSUME TypeOK, HoldInv, FateInv, intrusions = 0, NEW p \in Writers,
           Write(p) \/ WriteUnacknowledged(p)
    PROVE  Serial!Change(p)
<1>1. pc[p] = "write" /\ pc'[p] = "verify" /\ Step(p)
  BY DEF Write, WriteUnacknowledged, At, Goto, Fails, TypeOK, Step, Edit
<1>2. Returned' = Returned /\ Returned[p] = "none"
  BY <1>1, ReturnedStep
<1>3. read[p] = settings /\ ~Declines(p, planned[p], settings)
  BY <1>1 DEF HoldInv
<1>4. fate[p] = "open"
  BY <1>1 DEF FateInv, Holding
<1>5. Replace(p) /\ UNCHANGED planned
  BY DEF Write, WriteUnacknowledged
<1>6. QED
  BY <1>2, <1>3, <1>4, <1>5
     DEF Serial!Change, Replace, Declines, Serial!Declines, Edited, Serial!Edited,
         Missing, Serial!Missing

\* A comparison under the lock declines at the moment of the read.
LEMMA DeclineIsSerial ==
    ASSUME TypeOK, FateInv, NEW p \in Writers, FindDifferent(p)
    PROVE  Serial!Decline(p)
<1>1. pc[p] = "read" /\ pc'[p] = "verify" /\ Step(p)
  BY DEF FindDifferent, At, Goto, TypeOK, Step, Edit
<1>2. Returned' = Returned /\ Returned[p] = "none"
  BY <1>1, ReturnedStep
<1>3. fate[p] = "open"
  BY <1>1 DEF FateInv, Holding
<1>4. QED
  BY <1>2, <1>3 DEF FindDifferent, Serial!Decline, Declines, Serial!Declines

\* A call that returns answers what became of its edit.
LEMMA ReturnIsSerial ==
    ASSUME TypeOK, FateInv, NEW p \in Writers, Refuse(p) \/ TimeOut(p) \/ Close(p)
    PROVE  Serial!Next
<1>1. pc[p] # "done" /\ pc'[p] = "done" /\ Step(p)
  BY DEF Refuse, TimeOut, Close, At, Goto, Fails, TypeOK, Step, Acquire, Release
<1>2. Returned' = [Returned EXCEPT ![p] = answer'[p]] /\ Returned[p] = "none"
  BY <1>1, ReturnedStep
<1>3. UNCHANGED <<settings, planned, fate>>
  BY DEF Refuse, TimeOut, Close, docVars
<1>4. Told(p)'
  BY <1>1, MoverTold
<1>5. answer'[p] \in Serial!Answers \ {"none"}
  <2>1. answer' \in [Writers -> Answers]
    <3>1. TypeOK'
      BY <1>1, TypeStep DEF Next
    <3>2. QED
      BY <3>1 DEF TypeOK
  <2>2. QED
    BY <1>4, <2>1 DEF Answers, Serial!Answers, Told
<1>6. Serial!Answer(p, answer'[p])
  BY <1>2, <1>3, <1>4 DEF Serial!Answer, Serial!Truthful, Told
<1>7. QED
  BY <1>5, <1>6 DEF Serial!Next

\* The other steps of a writer are not seen from outside.
LEMMA OtherStepsStutter ==
    ASSUME TypeOK, NEW p \in Writers, Step(p) \/ Crash(p),
           ~(Write(p) \/ WriteUnacknowledged(p) \/ FindDifferent(p)),
           ~(Refuse(p) \/ TimeOut(p) \/ Close(p))
    PROVE  UNCHANGED Serial!vars
<1> USE DEF At, Goto, Fails, docVars
<1>1. pc[p] # "done" /\ pc'[p] # "done" /\ UNCHANGED <<settings, planned, fate>>
  <2>1. CASE Crash(p)
    BY <2>1 DEF Crash, Ended, TypeOK
  <2>2. CASE Acquire(p)
    BY <2>2 DEF Acquire, Create, FindTaken, Sleep, Wake, Identify, Reopen, Sign, TypeOK
  <2>3. CASE Edit(p)
    BY <2>3 DEF Edit, Read, CannotEdit, NothingToMove, Holding, TypeOK
  <2>4. CASE Release(p)
    BY <2>4 DEF Release, Verify, Payload, Recheck, Remove, TypeOK
  <2>5. QED
    BY <2>1, <2>2, <2>3, <2>4 DEF Step
<1>2. Returned' = Returned
  BY <1>1, ReturnedStep
<1>3. QED
  BY <1>1, <1>2 DEF Serial!vars

\* Every step is a step of the serial document, or none.
LEMMA StepIsSerial ==
    TypeOK /\ HoldInv /\ FateInv /\ intrusions = 0 /\ [Next]_vars
        => [Serial!Next]_(Serial!vars)
<1>1. SUFFICES ASSUME TypeOK, HoldInv, FateInv, intrusions = 0, [Next]_vars
               PROVE  [Serial!Next]_(Serial!vars)
  OBVIOUS
<1>2. ASSUME NEW p \in Writers, Plan(p) PROVE Serial!Next
  BY <1>1, <1>2, PlanIsSerial DEF Serial!Next
<1>3. ASSUME NEW p \in Writers, Write(p) \/ WriteUnacknowledged(p) PROVE Serial!Next
  BY <1>1, <1>3, WriteIsSerial DEF Serial!Next
<1>4. ASSUME NEW p \in Writers, FindDifferent(p) PROVE Serial!Next
  BY <1>1, <1>4, DeclineIsSerial DEF Serial!Next
<1>5. ASSUME NEW p \in Writers, Step(p) \/ Crash(p)
      PROVE  [Serial!Next]_(Serial!vars)
  BY <1>1, <1>3, <1>4, <1>5, ReturnIsSerial, OtherStepsStutter
<1>6. Tick \/ RemoveOrphan \/ Intrude \/ UNCHANGED vars => UNCHANGED Serial!vars
  BY DEF Tick, RemoveOrphan, Intrude, vars, docVars, Serial!vars, Returned, At
<1>7. QED
  BY <1>1, <1>2, <1>5, <1>6 DEF Next

\* Without tampering, the lock-file protocol makes the edits of settings.yaml serial: each
\* takes effect at one moment on the document of that moment or not at all, and every
\* answer is true.
THEOREM EditsAreSerial == MaxIntrusions = 0 => (Spec => ImplementsSerial)
<1>1. SUFFICES ASSUME MaxIntrusions = 0 PROVE Spec => ImplementsSerial
  OBVIOUS
<1>2. Init => Serial!Init
  BY DEF Init, Serial!Init, Returned, At, Initial, Serial!Initial, Missing, Serial!Missing
<1>3. TypeOK => intrusions = 0
  BY <1>1 DEF TypeOK
<1>4. QED
  BY <1>2, <1>3, TypeInit, TypeStep, HoldInit, HoldStep, FateInit, FateStep, StepIsSerial, PTL
     DEF Spec, ImplementsSerial, Serial!Spec
=============================================================================
