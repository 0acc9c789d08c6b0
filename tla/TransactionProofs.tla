-------------------------- MODULE TransactionProofs --------------------------
(* Theorems about Transaction, for any paths, any bounds and any interleaving. *)
EXTENDS Transaction, SequenceTheorems, WellFoundedInduction, TLAPS

-----------------------------------------------------------------------------
(* Lemmas about the data *)

\* The stamps an object can have.
LEMMA StampFacts ==
    /\ Stamp \subseteq Int
    /\ {Before, Gone, Foreign, Partial} \subseteq Stamp
    /\ \A n \in 1 .. MaxActions : n \in Stamp
    /\ Absent \in Object /\ Original \in Object /\ Alien \in Object
  BY BoundsAssumption
     DEF Stamp, Before, Gone, Foreign, Partial, Object, Absent, Original, Alien

\* What an action makes is an object.
LEMMA MadeIsObject ==
    ASSUME NEW n \in 1 .. MaxActions
    PROVE  Made(n) \in Object
  BY StampFacts DEF Made, Object

\* The fields of an object are stamps.
LEMMA ObjectFacts ==
    ASSUME NEW o \in Object
    PROVE  o.id \in Stamp /\ o.data \in Stamp
  BY DEF Object

\* An object whose bytes were overwritten is an object.
LEMMA ObjectExcept ==
    ASSUME NEW o \in Object, NEW d \in Stamp
    PROVE  [o EXCEPT !.data = d] \in Object
  BY DEF Object

\* A new journal entry is well formed.
LEMMA EntryIsAction ==
    ASSUME NEW kind \in {"create", "replace", "write"}, NEW p \in Path, NEW mark \in Marks,
           NEW o \in Object, NEW had \in BOOLEAN
    PROVE  Entry(kind, p, mark, o, had) \in Action
  BY ObjectFacts DEF Entry, Action, Phases

\* The fields of a journal entry, and the amendments the engine makes to one.
LEMMA ActionFacts ==
    ASSUME NEW a \in Action
    PROVE  /\ a.path \in Path /\ a.mark \in Marks /\ a.phase \in Phases
           /\ a.id \in Stamp /\ a.data \in Stamp /\ a.had \in BOOLEAN
           /\ \A m \in Marks : [a EXCEPT !.mark = m] \in Action
           /\ \A ph \in Phases : [a EXCEPT !.phase = ph] \in Action
           /\ \A m \in Marks, i \in Stamp : [a EXCEPT !.mark = m, !.id = i] \in Action
  BY DEF Action

\* An interval from 1 determines its upper end.
LEMMA SameInterval ==
    ASSUME NEW m \in Nat, NEW n \in Nat, 1 .. m = 1 .. n
    PROVE  m = n
  <1>1. SUFFICES ASSUME m # n PROVE FALSE
    OBVIOUS
  <1>2. CASE m < n
    <2>1. n \in 1 .. n /\ n \notin 1 .. m
      BY <1>2
    <2>. QED
      BY <2>1
  <1>3. CASE n < m
    <2>1. m \in 1 .. m /\ m \notin 1 .. n
      BY <1>3
    <2>. QED
      BY <2>1
  <1>. QED
    BY <1>1, <1>2, <1>3

\* A journal entry is replaced by another one.
LEMMA AmendedJournal ==
    ASSUME NEW as \in Seq(Action), NEW i \in 1 .. Len(as), NEW a \in Action
    PROVE  /\ [as EXCEPT ![i] = a] \in Seq(Action)
           /\ Len([as EXCEPT ![i] = a]) = Len(as)
           /\ \A j \in 1 .. Len(as) : [as EXCEPT ![i] = a][j] = IF j = i THEN a ELSE as[j]
  <1>1. as \in [1 .. Len(as) -> Action] /\ DOMAIN as = 1 .. Len(as) /\ Len(as) \in Nat
    BY LenProperties
  <1>2. [as EXCEPT ![i] = a] \in [1 .. Len(as) -> Action]
    BY <1>1
  <1>3. [as EXCEPT ![i] = a] \in Seq(Action)
    BY <1>1, <1>2, SeqDef
  <1>4. DOMAIN [as EXCEPT ![i] = a] = 1 .. Len([as EXCEPT ![i] = a])
    BY <1>3, LenProperties
  <1>5. Len([as EXCEPT ![i] = a]) \in Nat
    BY <1>3, LenProperties
  <1>6. 1 .. Len([as EXCEPT ![i] = a]) = 1 .. Len(as)
    BY <1>1, <1>2, <1>4
  <1>7. Len([as EXCEPT ![i] = a]) = Len(as)
    BY <1>1, <1>5, <1>6, SameInterval
  <1>. QED
    BY <1>1, <1>3, <1>7

\* A new entry comes last and leaves the others alone.
LEMMA AppendedJournal ==
    ASSUME NEW as \in Seq(Action), NEW a \in Action
    PROVE  /\ Append(as, a) \in Seq(Action)
           /\ Len(Append(as, a)) = Len(as) + 1
           /\ \A j \in 1 .. Len(as) : Append(as, a)[j] = as[j]
           /\ Append(as, a)[Len(as) + 1] = a
  <1>1. Append(as, a) \in Seq(Action)
    BY AppendProperties
  <1>2. Len(Append(as, a)) = Len(as) + 1
    OBVIOUS
  <1>3. ASSUME NEW j \in 1 .. Len(as)
        PROVE  Append(as, a)[j] = as[j]
    OBVIOUS
  <1>4. Append(as, a)[Len(as) + 1] = a
    BY AppendProperties
  <1>. QED
    BY <1>1, <1>2, <1>3, <1>4

\* The journal on disk after a write that succeeded or failed.
LEMMA PersistType ==
    ASSUME NEW s \in States, NEW as \in Seq(Action), disk \in Journal,
           faults \in 0 .. MaxFaults, Persist(s, as) \/ PersistFails(s, as)
    PROVE  disk' \in Journal /\ faults' \in 0 .. MaxFaults
  <1>1. [state |-> s, actions |-> as] \in Journal
    BY DEF Journal
  <1>2. disk' \in Journal
    BY <1>1 DEF Persist, PersistFails
  <1>3. faults' = faults \/ (faults < MaxFaults /\ faults' = faults + 1)
    BY DEF Persist, PersistFails
  <1>4. faults' \in 0 .. MaxFaults
    BY <1>3, BoundsAssumption
  <1>. QED
    BY <1>2, <1>4

\* The task at hand is well formed.
LEMMA HeadTask ==
    ASSUME todo \in Seq(Task), todo # <<>>
    PROVE  /\ Head(todo) \in Task /\ Here \in Path
           /\ Head(todo).expect \in Object
           /\ Tail(todo) \in Seq(Task)
  <1>1. Head(todo) \in Task /\ Tail(todo) \in Seq(Task)
    BY HeadTailProperties
  <1>. QED
    BY <1>1 DEF Task, Here

\* The exit codes.
LEMMA ExitFacts ==
    /\ NoExit \in Exits /\ Conflict \in Exits /\ VerifyFailure \in Exits
    /\ ManualRecovery \in Exits /\ Contract \in Exits /\ Security \in Exits
    /\ Internal \in Exits
  BY DEF Exits

\* A call of a single task.
LEMMA OneTask ==
    ASSUME NEW t \in Task
    PROVE  <<t>> \in Seq(Task) /\ Len(<<t>>) = 1 /\ <<t>> # <<>>
  OBVIOUS

\* A call makes sure of the directories above its path.
LEMMA EnsuresLength ==
    ASSUME NEW p \in Path
    PROVE  /\ Len(Parents[p]) \in Nat
           /\ Ensures(p) \in Seq(Task) /\ Len(Ensures(p)) = Len(Parents[p])
  <1>1. /\ Parents[p] \in Seq(StateDirs) /\ Len(Parents[p]) \in Nat
        /\ \A k \in 1 .. Len(Parents[p]) : Parents[p][k] \in Path
    BY ParentsAssumption, ElementOfSeq, LenProperties DEF Path
  <1>2. Ensures(p) \in [1 .. Len(Parents[p]) -> Task]
    BY <1>1, StampFacts DEF Ensures, Task
  <1>3. Ensures(p) \in Seq(Task)
    BY <1>1, <1>2, SeqDef
  <1>4. /\ Len(Ensures(p)) \in Nat
        /\ 1 .. Len(Ensures(p)) = 1 .. Len(Parents[p])
    BY <1>2, <1>3, LenProperties
  <1>5. Len(Ensures(p)) = Len(Parents[p])
    BY <1>1, <1>4, SameInterval
  <1>. QED
    BY <1>1, <1>3, <1>5

\* The directories above a path, and the path itself.
LEMMA EnsuresType ==
    ASSUME NEW p \in Path, NEW t \in Task
    PROVE  /\ Len(Parents[p]) \in Nat
           /\ Append(Ensures(p), t) \in Seq(Task)
           /\ Len(Append(Ensures(p), t)) = 1 + Len(Parents[p])
           /\ Append(Ensures(p), t) # <<>>
  BY EnsuresLength, AppendProperties

-----------------------------------------------------------------------------
(* Type correctness *)

\* The journal has room for the actions of the call under way.
Room ==
    /\ pc = "plan" => N + Len(todo) <= MaxActions
    /\ pc \in InAction => N + Len(todo) <= MaxActions + 1

TypeInv == TypeOK /\ Room

\* What a step leaves alone, and the types of what it may change.
Steady == UNCHANGED <<lock, cursor, result, foreign, pre, touched, live>>

Shape ==
    /\ home' \in [Path -> Object] /\ backup' \in [1 .. MaxActions -> Slots]
    /\ state' \in States /\ actions' \in Seq(Action) /\ Len(actions') <= MaxActions
    /\ disk' \in Journal /\ faults' \in 0 .. MaxFaults

\* A call that throws ends the context call and is remembered.
LEMMA ThrowKeepsType ==
    ASSUME TypeInv, NEW exit \in Exits, NEW phys \in BOOLEAN, Throw(exit, phys), Steady, Shape
    PROVE  TypeInv'
  BY DEF TypeInv, TypeOK, Room, Throw, Steady, Shape, PCs, InAction, InUndo

\* An action goes on with its next step.
LEMMA GotoKeepsType ==
    ASSUME TypeInv, NEW label \in InAction, Goto(label), Steady, Shape,
           todo # <<>>, Len(actions') > 0, Len(actions') + Len(todo) <= MaxActions + 1
    PROVE  TypeInv'
  BY DEF TypeInv, TypeOK, Room, Goto, failVars, Steady, Shape, PCs, InAction, InUndo, N

\* An action is sealed and the next task of the call comes up.
LEMMA NextTaskKeepsType ==
    ASSUME TypeInv, pc \in InAction, NextTask, Steady, Shape, Len(actions') = N
    PROVE  TypeInv'
  <1>1. /\ todo \in Seq(Task) /\ todo # <<>>
        /\ Tail(todo) \in Seq(Task) /\ Len(Tail(todo)) = Len(todo) - 1
        /\ Len(todo) \in Nat /\ N \in Nat
    BY HeadTailProperties, LenProperties DEF TypeInv, TypeOK, N
  <1>2. /\ todo' = Tail(todo) /\ UNCHANGED failVars
        /\ pc' = "operate" \/ (pc' = "plan" /\ Tail(todo) # <<>>)
    BY DEF NextTask
  <1>3. N + Len(todo) <= MaxActions + 1
    BY DEF TypeInv, Room
  <1>4. TypeOK'
    BY <1>1, <1>2 DEF TypeInv, TypeOK, failVars, Steady, Shape, PCs, InAction, InUndo
  <1>5. Room'
    BY <1>1, <1>2, <1>3, BoundsAssumption DEF Room, InAction, N
  <1>. QED
    BY <1>4, <1>5 DEF TypeInv

\* A failing call is within the bound on faults.
LEMMA FaultType ==
    ASSUME TypeInv, Fault
    PROVE  faults' \in 0 .. MaxFaults
  BY BoundsAssumption DEF TypeInv, TypeOK, Fault

\* The journal grows by one entry, which is announced.
LEMMA AnnounceKeepsType ==
    ASSUME TypeInv, pc = "plan", NEW entry \in Action, Announce(entry), Steady,
           home' \in [Path -> Object], backup' \in [1 .. MaxActions -> Slots]
    PROVE  TypeInv'
  <1>1. /\ todo # <<>> /\ Len(todo) \in Nat \ {0} /\ N \in Nat /\ N + Len(todo) <= MaxActions
        /\ disk \in Journal /\ faults \in 0 .. MaxFaults /\ state \in States
        /\ actions \in Seq(Action)
    BY EmptySeq DEF TypeInv, TypeOK, Room, N
  <1>2. /\ actions' = Append(actions, entry) /\ state' = state
        /\ Append(actions, entry) \in Seq(Action) /\ Len(actions') = N + 1
    BY <1>1, AppendedJournal DEF Announce, N
  <1>3. disk' \in Journal /\ faults' \in 0 .. MaxFaults
    BY <1>1, <1>2, PersistType DEF Announce
  <1>4. Shape
    BY <1>1, <1>2, <1>3, BoundsAssumption DEF Shape
  <1>5. Goto("mutate") \/ Throw(Internal, FALSE)
    BY DEF Announce
  <1>6. "mutate" \in InAction
    BY DEF InAction
  <1>7. Len(actions') > 0 /\ Len(actions') + Len(todo) <= MaxActions + 1
    BY <1>1, <1>2, BoundsAssumption
  <1>8. CASE Goto("mutate")
    BY <1>1, <1>4, <1>6, <1>7, <1>8, GotoKeepsType
  <1>9. CASE Throw(Internal, FALSE)
    BY <1>4, <1>9, ExitFacts, ThrowKeepsType
  <1>. QED
    BY <1>5, <1>8, <1>9

\* The last entry is amended: the types of the journal.
LEMMA AmendShape ==
    ASSUME TypeInv, pc \in InAction, NEW entry \in Action,
           actions' = [actions EXCEPT ![N] = entry], state' = state,
           Persist(state, actions') \/ PersistFails(state, actions'),
           home' \in [Path -> Object], backup' \in [1 .. MaxActions -> Slots]
    PROVE  Shape /\ Len(actions') = N
  <1>1. /\ actions \in Seq(Action) /\ N \in 1 .. Len(actions) /\ Len(actions) <= MaxActions
        /\ disk \in Journal /\ faults \in 0 .. MaxFaults /\ state \in States
    BY LenProperties DEF TypeInv, TypeOK, N
  <1>2. actions' \in Seq(Action) /\ Len(actions') = N
    BY <1>1, AmendedJournal DEF N
  <1>3. disk' \in Journal /\ faults' \in 0 .. MaxFaults
    BY <1>1, <1>2, PersistType
  <1>. QED
    BY <1>1, <1>2, <1>3 DEF Shape, N

\* A context call starts, or is refused.
LEMMA CallsKeepType ==
    ASSUME TypeInv, NEW p \in Path, NEW expect \in Object,
           \/ CallCreate(p) \/ CallWriteState(p) \/ CallRemove(p, expect)
           \/ CallDocument(p, expect) \/ CallStaleCurrent(p, expect)
    PROVE  TypeInv'
  <1>. DEFINE Begun(t) == /\ Start(t) /\ MayCall(Len(t))
                          /\ t \in Seq(Task) /\ t # <<>>
  <1>1. ASSUME NEW t, Begun(t) PROVE TypeInv'
    BY <1>1 DEF TypeInv, TypeOK, Room, Start, MayCall, N, journalVars, failVars, envVars, PCs,
                InAction, InUndo
  <1>2. CASE CallCreate(p)
    <2>1. [op |-> "create", path |-> p, expect |-> Absent] \in Task
      BY StampFacts DEF Task
    <2>. QED
      BY <1>1, <1>2, <2>1, OneTask DEF CallCreate
  <1>3. CASE CallWriteState(p)
    <2>1. [op |-> "store", path |-> p, expect |-> Absent] \in Task
      BY StampFacts DEF Task
    <2>. QED
      BY <1>1, <1>3, <2>1, EnsuresType DEF CallWriteState
  <1>4. CASE CallRemove(p, expect)
    <2>1. [op |-> "remove", path |-> p, expect |-> expect] \in Task
      BY DEF Task
    <2>. QED
      BY <1>1, <1>4, <2>1, OneTask DEF CallRemove
  <1>5. CASE CallDocument(p, expect)
    <2>1. [op |-> "document", path |-> p, expect |-> expect] \in Task
      BY DEF Task
    <2>. QED
      BY <1>1, <1>5, <2>1, EnsuresType DEF CallDocument
  <1>6. CASE CallStaleCurrent(p, expect)
    BY <1>6, ExitFacts, ThrowKeepsType
       DEF CallStaleCurrent, journalVars, envVars, Steady, Shape, TypeInv, TypeOK
  <1>. QED
    BY <1>2, <1>3, <1>4, <1>5, <1>6

\* The planning of an action.
LEMMA PlansKeepType ==
    ASSUME TypeInv, Plan
    PROVE  TypeInv'
  <1>0. pc = "plan"
    BY DEF Plan, PlanRefused, PlanCreate, PlanRemove, PlanRemoveRefused, PlanDocument,
           PlanDocumentRefused
  <1>1. /\ pc = "plan" /\ todo \in Seq(Task) /\ todo # <<>> /\ N + Len(todo) <= MaxActions
        /\ N \in Nat /\ Len(todo) \in Nat \ {0}
        /\ home \in [Path -> Object] /\ backup \in [1 .. MaxActions -> Slots]
    BY <1>0, EmptySeq, LenProperties DEF TypeInv, TypeOK, Room, N
  <1>2. /\ Here \in Path /\ Head(todo).expect \in Object /\ home[Here] \in Object
        /\ N + 1 \in 1 .. MaxActions
    BY <1>1, HeadTask, BoundsAssumption
  <1>4. CASE PlanRefused
    BY <1>4, FaultType, ExitFacts, ThrowKeepsType
       DEF PlanRefused, journalVars, envVars, Steady, Shape, TypeInv, TypeOK
  <1>5. CASE PlanCreate
    <2>1. Entry("create", Here, "pending", [id |-> Gone, data |-> N + 1], FALSE) \in Action
      <3>1. [id |-> Gone, data |-> N + 1] \in Object
        BY <1>2, StampFacts DEF Object
      <3>. QED
        BY <1>2, <3>1, EntryIsAction DEF Marks
    <2>. QED
      BY <1>1, <1>5, <2>1, AnnounceKeepsType DEF PlanCreate, envVars, Steady
  <1>6. CASE PlanRemove
    <2>1. Entry("replace", Here, "none", home[Here], TRUE) \in Action
      BY <1>2, EntryIsAction DEF Marks
    <2>. QED
      BY <1>1, <1>6, <2>1, AnnounceKeepsType DEF PlanRemove, envVars, Steady
  <1>7. CASE PlanRemoveRefused
    BY <1>7, ExitFacts, ThrowKeepsType
       DEF PlanRemoveRefused, journalVars, envVars, Steady, Shape, TypeInv, TypeOK
  <1>8. CASE PlanDocument
    <2>. DEFINE original == OriginalDocument(Here, Head(todo).expect)
    <2>1. original \in Object
      BY <1>2 DEF OriginalDocument
    <2>2. Entry("write", Here, "pending", Made(N + 1), original # Absent) \in Action
      BY <1>2, EntryIsAction, MadeIsObject DEF Marks
    <2>3. backup' \in [1 .. MaxActions -> Slots]
      BY <1>1, <1>2, <1>8, <2>1 DEF PlanDocument, Slots
    <2>. QED
      BY <1>1, <1>8, <2>2, <2>3, AnnounceKeepsType DEF PlanDocument, envVars, Steady
  <1>9. CASE PlanDocumentRefused
    BY <1>9, ExitFacts, ThrowKeepsType
       DEF PlanDocumentRefused, journalVars, envVars, Steady, Shape, TypeInv, TypeOK
  <1>. QED
    BY <1>4, <1>5, <1>6, <1>7, <1>8, <1>9 DEF Plan

\* Where an action is under way.
LEMMA UnderWay ==
    ASSUME TypeInv, pc \in InAction
    PROVE  /\ todo \in Seq(Task) /\ todo # <<>> /\ Here \in Path /\ Head(todo).expect \in Object
           /\ N \in 1 .. MaxActions /\ N \in Stamp /\ N + Len(todo) <= MaxActions + 1
           /\ N \in 1 .. Len(actions) /\ actions \in Seq(Action) /\ Len(actions) <= MaxActions
           /\ Len(actions) > 0 /\ actions[N] \in Action /\ backup[N] \in Slots
           /\ home \in [Path -> Object] /\ home[Here] \in Object
           /\ backup \in [1 .. MaxActions -> Slots]
  <1>1. /\ todo \in Seq(Task) /\ todo # <<>> /\ N + Len(todo) <= MaxActions + 1
        /\ actions \in Seq(Action) /\ N = Len(actions) /\ Len(actions) \in Nat
        /\ Len(actions) > 0 /\ N <= MaxActions
        /\ home \in [Path -> Object] /\ backup \in [1 .. MaxActions -> Slots]
    BY LenProperties DEF TypeInv, TypeOK, Room, N
  <1>2. N \in 1 .. MaxActions /\ N \in 1 .. Len(actions)
    BY <1>1, BoundsAssumption
  <1>3. actions[N] \in Action /\ backup[N] \in Slots /\ N \in Stamp
    BY <1>1, <1>2, ElementOfSeq, StampFacts
  <1>. QED
    BY <1>1, <1>2, <1>3, HeadTask

\* A backup slot is filled or emptied.
LEMMA SlotsExcept ==
    ASSUME NEW b \in [1 .. MaxActions -> Slots], NEW i \in 1 .. MaxActions, NEW o \in Object
    PROVE  /\ [b EXCEPT ![i].old = o] \in [1 .. MaxActions -> Slots]
           /\ [b EXCEPT ![i].new = o] \in [1 .. MaxActions -> Slots]
           /\ b[i].old \in Object /\ b[i].new \in Object /\ b[i].orig \in Object
  BY DEF Slots

\* mkdir and exclusive writes.
LEMMA CreatesKeepType ==
    ASSUME TypeInv, CreateHappens \/ CreateTaken \/ CreateFails
    PROVE  TypeInv'
  <1>1. pc \in InAction
    BY DEF CreateHappens, CreateTaken, CreateFails, Creating, InAction
  <1>2. CASE CreateHappens
    <2>1. home' \in [Path -> Object]
      BY <1>1, <1>2, UnderWay, StampFacts DEF CreateHappens, Object
    <2>2. Shape
      BY <2>1, <1>1, <1>2, UnderWay DEF CreateHappens, journalVars, Shape, TypeInv, TypeOK
    <2>3. "record" \in InAction /\ actions' = actions
      BY <1>2 DEF InAction, CreateHappens, journalVars
    <2>. QED
      BY <1>1, <1>2, <2>2, <2>3, UnderWay, GotoKeepsType DEF CreateHappens, envVars, Steady, N
  <1>3. CASE CreateTaken
    <2>. DEFINE taken == [actions[N] EXCEPT !.mark = "not-owned"]
    <2>1. taken \in Action /\ [taken EXCEPT !.phase = "applied"] \in Action
      <3>1. taken \in Action
        BY <1>1, UnderWay, ActionFacts DEF Marks
      <3>. QED
        BY <3>1, ActionFacts DEF Phases
    <2>2. /\ home' = home /\ backup' = backup /\ Steady
          /\ \/ Amend(taken, Throw(Conflict, FALSE))
             \/ Amend([taken EXCEPT !.phase = "applied"], NextTask)
      BY <1>3 DEF CreateTaken, envVars, Steady
    <2>3. Shape /\ Len(actions') = N
      BY <1>1, <2>1, <2>2, UnderWay, AmendShape DEF Amend
    <2>4. Throw(Conflict, FALSE) \/ Throw(Internal, FALSE) \/ NextTask
      BY <2>2 DEF Amend
    <2>. QED
      BY <1>1, <2>2, <2>3, <2>4, ThrowKeepsType, NextTaskKeepsType, ExitFacts
  <1>4. CASE CreateFails
    <2>1. [home EXCEPT ![Here] = [id |-> N, data |-> Partial]] \in [Path -> Object]
      BY <1>1, UnderWay, StampFacts DEF Object
    <2>2. Shape
      BY <1>1, <1>4, <2>1, FaultType, UnderWay
         DEF CreateFails, journalVars, Shape, TypeInv, TypeOK
    <2>. QED
      BY <1>4, <2>2, ThrowKeepsType, ExitFacts DEF CreateFails, envVars, Steady
  <1>. QED
    BY <1>2, <1>3, <1>4

\* Moves into the backup.
LEMMA RemovesKeepType ==
    ASSUME TypeInv,
           RemoveChecked \/ RemoveStale \/ MoveAside \/ MoveAsideGone \/ MoveAsideFails
    PROVE  TypeInv'
  <1>1. pc \in InAction
    BY DEF RemoveChecked, RemoveStale, MoveAside, MoveAsideGone, MoveAsideFails, Removing, InAction
  <1>2. ASSUME RenameAside
        PROVE  home' \in [Path -> Object] /\ backup' \in [1 .. MaxActions -> Slots]
    BY <1>1, <1>2, UnderWay, SlotsExcept, StampFacts DEF RenameAside
  <1>3. CASE RemoveChecked
    <2>1. Shape /\ "move" \in InAction /\ actions' = actions
      BY <1>3 DEF RemoveChecked, journalVars, Shape, TypeInv, TypeOK, InAction
    <2>. QED
      BY <1>1, <1>3, <2>1, UnderWay, GotoKeepsType DEF RemoveChecked, envVars, Steady, N
  <1>4. CASE RemoveStale
    BY <1>4, ThrowKeepsType, ExitFacts
       DEF RemoveStale, journalVars, envVars, Steady, Shape, TypeInv, TypeOK
  <1>5. CASE MoveAside
    <2>1. Shape /\ "seal" \in InAction /\ actions' = actions
      BY <1>2, <1>5 DEF MoveAside, journalVars, Shape, TypeInv, TypeOK, InAction
    <2>2. Goto("seal") \/ Throw(Contract, FALSE)
      BY <1>5 DEF MoveAside
    <2>. QED
      BY <1>1, <1>5, <2>1, <2>2, UnderWay, GotoKeepsType, ThrowKeepsType, ExitFacts
         DEF MoveAside, envVars, Steady, N
  <1>6. CASE MoveAsideGone
    BY <1>6, ThrowKeepsType, ExitFacts
       DEF MoveAsideGone, journalVars, envVars, Steady, Shape, TypeInv, TypeOK
  <1>7. CASE MoveAsideFails
    <2>1. Shape
      BY <1>2, <1>7, FaultType DEF MoveAsideFails, journalVars, Shape, TypeInv, TypeOK
    <2>2. Throw(Internal, FALSE) \/ Throw(Internal, TRUE)
      BY <1>7 DEF MoveAsideFails
    <2>. QED
      BY <1>7, <2>1, <2>2, ThrowKeepsType, ExitFacts DEF MoveAsideFails, envVars, Steady
  <1>. QED
    BY <1>3, <1>4, <1>5, <1>6, <1>7

\* Compare-and-swap of a document.
LEMMA WritesKeepType ==
    ASSUME TypeInv, DocumentSwapped \/ DocumentStale \/ DocumentFails \/ SettingsLockTimeout
    PROVE  TypeInv'
  <1>1. pc \in InAction
    BY DEF DocumentSwapped, DocumentStale, DocumentFails, SettingsLockTimeout, Writing, InAction
  <1>2. Swapped \in [Path -> Object]
    BY <1>1, UnderWay, MadeIsObject DEF Swapped
  <1>3. CASE DocumentSwapped
    <2>1. Shape /\ "record" \in InAction /\ actions' = actions
      BY <1>2, <1>3 DEF DocumentSwapped, journalVars, Shape, TypeInv, TypeOK, InAction
    <2>. QED
      BY <1>1, <1>3, <2>1, UnderWay, GotoKeepsType DEF DocumentSwapped, envVars, Steady, N
  <1>4. CASE DocumentStale
    <2>. DEFINE entry == [actions[N] EXCEPT !.mark = "not-written"]
    <2>1. entry \in Action
      BY <1>1, UnderWay, ActionFacts DEF Marks
    <2>2. home' = home /\ backup' = backup /\ Steady /\ Amend(entry, Throw(Contract, FALSE))
      BY <1>4 DEF DocumentStale, envVars, Steady
    <2>3. Shape
      BY <1>1, <2>1, <2>2, UnderWay, AmendShape DEF Amend
    <2>4. Throw(Contract, FALSE) \/ Throw(Internal, FALSE)
      BY <2>2 DEF Amend
    <2>. QED
      BY <2>2, <2>3, <2>4, ThrowKeepsType, ExitFacts
  <1>5. CASE DocumentFails
    <2>1. Shape
      BY <1>2, <1>5, FaultType DEF DocumentFails, journalVars, Shape, TypeInv, TypeOK
    <2>. QED
      BY <1>5, <2>1, ThrowKeepsType, ExitFacts DEF DocumentFails, envVars, Steady
  <1>6. CASE SettingsLockTimeout
    BY <1>6, ThrowKeepsType, ExitFacts
       DEF SettingsLockTimeout, journalVars, envVars, Steady, Shape, TypeInv, TypeOK
  <1>. QED
    BY <1>3, <1>4, <1>5, <1>6

\* Recording, filling and sealing an action.
LEMMA RecordsKeepType ==
    ASSUME TypeInv, Record
    PROVE  TypeInv'
  <1>1. pc \in InAction
    BY DEF Record, RecordCreated, RecordLost, RecordWritten, Apply, ApplyFails, Seal, InAction
  <1>2. ASSUME NEW entry \in Action, NEW label \in InAction, Amend(entry, Goto(label)),
               UNCHANGED <<home, backup, lock, cursor, result, envVars>>
        PROVE  TypeInv'
    <2>1. Shape /\ Len(actions') = N
      BY <1>1, <1>2, UnderWay, AmendShape DEF Amend
    <2>2. Goto(label) \/ Throw(Internal, FALSE)
      BY <1>2 DEF Amend
    <2>3. Steady
      BY <1>2 DEF Steady, envVars
    <2>. QED
      BY <1>1, <2>1, <2>2, <2>3, UnderWay, GotoKeepsType, ThrowKeepsType, ExitFacts DEF N
  <1>3. CASE RecordCreated
    <2>. DEFINE entry == [actions[N] EXCEPT !.mark = "owned", !.id = home[Here].id]
    <2>1. entry \in Action
      BY <1>1, UnderWay, ActionFacts, ObjectFacts DEF Marks
    <2>2. "apply" \in InAction /\ "seal" \in InAction
      BY DEF InAction
    <2>3. /\ \/ Amend(entry, Goto("apply"))
             \/ Amend(entry, Goto("seal"))
          /\ UNCHANGED <<home, backup, lock, cursor, result, envVars>>
      BY <1>3 DEF RecordCreated
    <2>. QED
      BY <1>2, <2>1, <2>2, <2>3
  <1>4. CASE RecordLost
    BY <1>4, ThrowKeepsType, ExitFacts
       DEF RecordLost, journalVars, envVars, Steady, Shape, TypeInv, TypeOK
  <1>5. CASE RecordWritten
    <2>1. [actions[N] EXCEPT !.mark = "written"] \in Action
      BY <1>1, UnderWay, ActionFacts DEF Marks
    <2>2. "seal" \in InAction
      BY DEF InAction
    <2>. QED
      BY <1>2, <1>5, <2>1, <2>2 DEF RecordWritten
  <1>6. Filled \in [Path -> Object]
    BY <1>1, UnderWay, ObjectFacts, ObjectExcept DEF Filled
  <1>7. CASE Apply
    <2>1. Shape /\ "seal" \in InAction /\ actions' = actions
      BY <1>6, <1>7 DEF Apply, journalVars, Shape, TypeInv, TypeOK, InAction
    <2>. QED
      BY <1>1, <1>7, <2>1, UnderWay, GotoKeepsType DEF Apply, envVars, Steady, N
  <1>8. CASE ApplyFails
    <2>1. Shape
      BY <1>6, <1>8, FaultType DEF ApplyFails, journalVars, Shape, TypeInv, TypeOK
    <2>. QED
      BY <1>8, <2>1, ThrowKeepsType, ExitFacts DEF ApplyFails, envVars, Steady
  <1>9. CASE Seal
    <2>. DEFINE entry == [actions[N] EXCEPT !.phase = "applied"]
    <2>1. entry \in Action
      BY <1>1, UnderWay, ActionFacts DEF Phases
    <2>2. home' = home /\ backup' = backup /\ Steady /\ Amend(entry, NextTask)
      BY <1>9 DEF Seal, envVars, Steady
    <2>3. Shape /\ Len(actions') = N
      BY <1>1, <2>1, <2>2, UnderWay, AmendShape DEF Amend
    <2>4. NextTask \/ Throw(Internal, FALSE)
      BY <2>2 DEF Amend
    <2>. QED
      BY <1>1, <2>2, <2>3, <2>4, NextTaskKeepsType, ThrowKeepsType, ExitFacts
  <1>. QED
    BY <1>3, <1>4, <1>5, <1>7, <1>8, <1>9 DEF Record

\* The commit, or the start of a rollback.
LEMMA FinishKeepsType ==
    ASSUME TypeInv, Finish \/ StartRollback
    PROVE  TypeInv'
  <1>1. /\ disk \in Journal /\ faults \in 0 .. MaxFaults /\ actions \in Seq(Action)
        /\ "committed" \in States /\ "rolling-back" \in States
        /\ N \in Nat /\ N <= MaxActions
    BY LenProperties DEF TypeInv, TypeOK, States, N
  <1>2. CASE Commit
    <2>1. disk' \in Journal /\ faults' \in 0 .. MaxFaults
      BY <1>1, <1>2, PersistType DEF Commit
    <2>2. Goto("release") \/ BeginRollback(Internal)
      BY <1>2 DEF Commit
    <2>. QED
      BY <1>1, <1>2, <2>1, <2>2, ExitFacts
         DEF Commit, Goto, BeginRollback, failVars, envVars, TypeInv, TypeOK, Room, PCs,
             InAction, InUndo
  <1>3. CASE Abort
    BY <1>3, ExitFacts
       DEF Abort, BeginRollback, journalVars, envVars, TypeInv, TypeOK, Room, PCs, InAction, InUndo
  <1>4. CASE AbortAfterFailure
    BY <1>4, ExitFacts
       DEF AbortAfterFailure, BeginRollback, journalVars, envVars, TypeInv, TypeOK, Room, PCs,
           InAction, InUndo
  <1>5. CASE StartRollback
    <2>1. disk' \in Journal /\ faults' \in 0 .. MaxFaults
      BY <1>1, <1>5, PersistType DEF StartRollback
    <2>2. /\ cursor' \in 0 .. MaxActions /\ cursor' = Len(actions)
          /\ pc' = "end-rollback" \/ (pc' = "undo" /\ cursor' \in 1 .. Len(actions))
      BY <1>1, <1>5, BoundsAssumption DEF StartRollback, N
    <2>3. manual' \in BOOLEAN
      BY <1>5 DEF StartRollback, TypeInv, TypeOK
    <2>. QED
      BY <1>1, <1>5, <2>1, <2>2, <2>3
         DEF StartRollback, envVars, TypeInv, TypeOK, Room, PCs, InAction, InUndo
  <1>. QED
    BY <1>2, <1>3, <1>4, <1>5 DEF Finish

\* Where an action is being undone.
LEMMA Undoes ==
    ASSUME TypeInv, pc \in InUndo
    PROVE  /\ cursor \in 1 .. Len(actions) /\ cursor \in 1 .. MaxActions /\ cursor \in Stamp
           /\ actions \in Seq(Action) /\ Len(actions) <= MaxActions
           /\ Undone \in Action /\ Undone.path \in Path /\ backup[cursor] \in Slots
           /\ home \in [Path -> Object] /\ home[Undone.path] \in Object
           /\ backup \in [1 .. MaxActions -> Slots]
  <1>1. /\ cursor \in 1 .. Len(actions) /\ actions \in Seq(Action)
        /\ Len(actions) \in Nat /\ Len(actions) <= MaxActions
        /\ home \in [Path -> Object] /\ backup \in [1 .. MaxActions -> Slots]
    BY LenProperties DEF TypeInv, TypeOK
  <1>2. cursor \in 1 .. MaxActions
    BY <1>1, BoundsAssumption
  <1>3. Undone \in Action /\ cursor \in Stamp
    BY <1>1, <1>2, ElementOfSeq, StampFacts DEF Undone
  <1>. QED
    BY <1>1, <1>2, <1>3, ActionFacts

\* Rollback goes on with the next action, or ends.
LEMMA NextUndoType ==
    ASSUME TypeInv, pc \in InUndo, NextUndo
    PROVE  /\ cursor' \in 0 .. MaxActions
           /\ pc' = "end-rollback" \/ (pc' = "undo" /\ cursor' \in 1 .. Len(actions))
  <1>1. cursor \in 1 .. Len(actions) /\ cursor \in 1 .. MaxActions /\ Len(actions) \in Nat
    BY Undoes, LenProperties
  <1>. QED
    BY <1>1, BoundsAssumption DEF NextUndo

\* An undo that succeeded or failed, whatever it did to DSH_HOME.
LEMMA UndoKeepsType ==
    ASSUME TypeInv, pc \in InUndo, UndoDone \/ UndoImpossible,
           home' \in [Path -> Object], backup' \in [1 .. MaxActions -> Slots],
           faults' \in 0 .. MaxFaults, UNCHANGED <<lock, result, foreign, pre, touched, live>>
    PROVE  TypeInv'
  <1>1. ASSUME NEW ph \in Phases, actions' = [actions EXCEPT ![cursor].phase = ph]
        PROVE  actions' \in Seq(Action) /\ Len(actions') = Len(actions)
    <2>1. [actions[cursor] EXCEPT !.phase = ph] \in Action
      BY <1>1, Undoes, ActionFacts DEF Undone
    <2>2. actions' = [actions EXCEPT ![cursor] = [actions[cursor] EXCEPT !.phase = ph]]
      BY <1>1
    <2>. QED
      BY <2>1, <2>2, Undoes, AmendedJournal
  <1>2. CASE UndoDone
    <2>1. actions' \in Seq(Action) /\ Len(actions') = Len(actions)
      BY <1>1, <1>2 DEF UndoDone, Phases
    <2>. QED
      BY <1>2, <2>1, Undoes
         DEF UndoDone, failVars, TypeInv, TypeOK, Room, PCs, InAction, InUndo
  <1>3. CASE UndoImpossible
    <2>1. actions' \in Seq(Action) /\ Len(actions') = Len(actions)
      BY <1>1, <1>3 DEF UndoImpossible, Phases
    <2>2. /\ cursor' \in 0 .. MaxActions
          /\ pc' = "end-rollback" \/ (pc' = "undo" /\ cursor' \in 1 .. Len(actions))
      BY <1>3, NextUndoType DEF UndoImpossible
    <2>. QED
      BY <1>3, <2>1, <2>2
         DEF UndoImpossible, TypeInv, TypeOK, Room, PCs, InAction, InUndo
  <1>. QED
    BY <1>2, <1>3

UndoActions ==
    \/ UndoNothing \/ UndoUnresolved \/ UndoFails \/ UndoCreateChecked \/ UndoCreateMove
    \/ UndoCreateGone \/ UndoWrite \/ UndoWriteStale \/ UndoWriteUnacknowledged
    \/ UndoReplaceChecked \/ UndoReplaceImpossible \/ UndoReplaceMove \/ UndoMoveStuck

\* The undo steps.
LEMMA UndosKeepType ==
    ASSUME TypeInv, UndoActions
    PROVE  TypeInv'
  <1>1. pc \in InUndo
    BY DEF UndoActions, UndoNothing, UndoUnresolved, UndoFails, UndoCreateChecked,
           UndoCreateMove, UndoCreateGone, UndoWrite, UndoWriteStale, UndoWriteUnacknowledged,
           UndoReplaceChecked, UndoReplaceImpossible, UndoReplaceMove, UndoMoveStuck,
           Undoing, InUndo
  <1>2. /\ home \in [Path -> Object] /\ backup \in [1 .. MaxActions -> Slots]
        /\ faults \in 0 .. MaxFaults
    BY DEF TypeInv, TypeOK
  <1>3. ASSUME UNCHANGED <<home, backup, lock, result, envVars>>, UndoDone \/ UndoImpossible,
               UNCHANGED faults \/ Fault
        PROVE  TypeInv'
    <2>1. faults' \in 0 .. MaxFaults
      BY <1>2, <1>3, FaultType
    <2>. QED
      BY <1>1, <1>2, <1>3, <2>1, UndoKeepsType DEF envVars
  <1>4. ASSUME UNCHANGED <<home, backup, state, disk, lock, result, faults, envVars>>,
               Goto("undo-move"), UNCHANGED <<actions, cursor>>
        PROVE  TypeInv'
    BY <1>1, <1>4 DEF Goto, failVars, envVars, TypeInv, TypeOK, Room, PCs, InAction, InUndo
  <1>5. CASE UndoNothing \/ UndoUnresolved \/ UndoFails \/ UndoCreateGone \/ UndoWriteStale
             \/ UndoReplaceImpossible
    BY <1>3, <1>5
       DEF UndoNothing, UndoUnresolved, UndoFails, UndoCreateGone, UndoWriteStale,
           UndoReplaceImpossible
  <1>6. CASE UndoCreateChecked
    <2>1. /\ UNCHANGED <<home, backup, state, disk, lock, result, faults, envVars>>
          /\ \/ Goto("undo-move") /\ UNCHANGED <<actions, cursor>>
             \/ UndoImpossible
      BY <1>6 DEF UndoCreateChecked
    <2>. QED
      BY <1>3, <1>4, <2>1
  <1>7. CASE UndoReplaceChecked
    BY <1>4, <1>7 DEF UndoReplaceChecked, journalVars
  <1>. DEFINE moved == [q \in Path |-> IF q \in Taken(Undone.path) THEN Absent ELSE home[q]]
  <1>8. /\ moved \in [Path -> Object]
        /\ [backup EXCEPT ![cursor].new = Carried(Undone.path)] \in [1 .. MaxActions -> Slots]
    <2>1. moved \in [Path -> Object]
      BY <1>2, StampFacts
    <2>2. Carried(Undone.path) \in Object
      BY <1>1, Undoes, ObjectExcept, StampFacts DEF Carried
    <2>. QED
      BY <1>1, <2>1, <2>2, Undoes, SlotsExcept
  <1>9. CASE UndoCreateMove
    <2>1. UndoDone \/ UndoImpossible
      BY <1>9 DEF UndoCreateMove
    <2>. QED
      BY <1>1, <1>2, <1>8, <1>9, <2>1, UndoKeepsType DEF UndoCreateMove, envVars
  <1>10. ASSUME PutBack(Undone.path)
         PROVE  home' \in [Path -> Object] /\ backup' \in [1 .. MaxActions -> Slots]
    <2>1. [id |-> cursor, data |-> backup[cursor].orig.data] \in Object
      BY <1>1, Undoes, SlotsExcept, ObjectFacts DEF Object
    <2>2. Undone.path \in Path /\ cursor \in 1 .. MaxActions /\ home[Undone.path] \in Object
          /\ Absent \in Object
      BY <1>1, Undoes, StampFacts
    <2>3. /\ [home EXCEPT ![Undone.path] = [id |-> cursor, data |-> backup[cursor].orig.data]]
                \in [Path -> Object]
          /\ [home EXCEPT ![Undone.path] = Absent] \in [Path -> Object]
      BY <1>2, <2>1, <2>2
    <2>4. [backup EXCEPT ![cursor].new = home[Undone.path]] \in [1 .. MaxActions -> Slots]
      BY <1>1, <2>2, Undoes, SlotsExcept
    <2>. QED
      BY <1>2, <1>10, <2>3, <2>4 DEF PutBack
  <1>11. CASE UndoWrite
    BY <1>1, <1>2, <1>10, <1>11, UndoKeepsType DEF UndoWrite, envVars
  <1>12. CASE UndoWriteUnacknowledged
    BY <1>1, <1>10, <1>12, FaultType, UndoKeepsType DEF UndoWriteUnacknowledged, envVars
  <1>13. /\ [home EXCEPT ![Undone.path] = backup[cursor].old] \in [Path -> Object]
         /\ [backup EXCEPT ![cursor].old = Absent] \in [1 .. MaxActions -> Slots]
    BY <1>1, Undoes, SlotsExcept, StampFacts
  <1>14. CASE UndoReplaceMove
    BY <1>1, <1>2, <1>13, <1>14, UndoKeepsType DEF UndoReplaceMove, envVars
  <1>15. CASE UndoMoveStuck
    <2>1. home' \in [Path -> Object] /\ backup' \in [1 .. MaxActions -> Slots]
      BY <1>8, <1>13, <1>15 DEF UndoMoveStuck
    <2>. QED
      BY <1>1, <1>15, <2>1, FaultType, UndoKeepsType DEF UndoMoveStuck, envVars
  <1>. QED
    BY <1>5, <1>6, <1>7, <1>9, <1>11, <1>12, <1>14, <1>15 DEF UndoActions

\* The end of an undo, of the rollback, of the transaction.
LEMMA EndsKeepType ==
    ASSUME TypeInv, UndoPersist \/ EndRollback \/ Release \/ ReleaseFails
    PROVE  TypeInv'
  <1>1. /\ disk \in Journal /\ faults \in 0 .. MaxFaults /\ actions \in Seq(Action)
        /\ state \in States
        /\ "rolled-back" \in States /\ "rollback-failed" \in States
    BY DEF TypeInv, TypeOK, States
  <1>2. CASE UndoPersist
    <2>1. disk' \in Journal /\ faults' \in 0 .. MaxFaults
      BY <1>1, <1>2, PersistType DEF UndoPersist
    <2>2. /\ cursor' \in 0 .. MaxActions
          /\ pc' = "end-rollback" \/ (pc' = "undo" /\ cursor' \in 1 .. Len(actions))
      BY <1>2, NextUndoType DEF UndoPersist, InUndo
    <2>3. manual' \in BOOLEAN
      BY <1>2 DEF UndoPersist, TypeInv, TypeOK
    <2>. QED
      BY <1>2, <2>1, <2>2, <2>3
         DEF UndoPersist, envVars, TypeInv, TypeOK, Room, PCs, InAction, InUndo
  <1>3. CASE EndRollback
    <2>. DEFINE outcome == IF manual THEN "rollback-failed" ELSE "rolled-back"
    <2>1. outcome \in States
      BY <1>1
    <2>2. disk' \in Journal /\ faults' \in 0 .. MaxFaults
      BY <1>1, <1>3, <2>1, PersistType DEF EndRollback
    <2>3. manual' \in BOOLEAN /\ state' \in States
      BY <1>1, <1>3, <2>1 DEF EndRollback, TypeInv, TypeOK
    <2>. QED
      BY <1>3, <2>2, <2>3
         DEF EndRollback, envVars, TypeInv, TypeOK, Room, PCs, InAction, InUndo
  <1>4. CASE Release
    <2>1. \E status \in {"committed", "rolled-back", "rollback-failed"}, exit \in Exits :
             Return(status, exit)
      BY <1>4, ExitFacts DEF Release, TypeInv, TypeOK
    <2>. QED
      BY <1>4, <2>1
         DEF Release, Return, journalVars, failVars, envVars, TypeInv, TypeOK, Room, PCs,
             InAction, InUndo
  <1>5. CASE ReleaseFails
    <2>1. /\ \E status \in {"committed", "rolled-back", "rollback-failed"}, exit \in Exits :
                Return(status, exit)
          /\ state' \in States /\ manual' \in BOOLEAN
      BY <1>1, <1>5, ExitFacts DEF ReleaseFails, TypeInv, TypeOK
    <2>2. disk' = disk \/ disk' = [state |-> "rollback-failed", actions |-> actions]
      BY <1>5 DEF ReleaseFails
    <2>3. disk' \in Journal
      BY <1>1, <2>2 DEF Journal
    <2>4. /\ faults < MaxFaults
          /\ faults' = faults + 1 \/ (faults + 1 < MaxFaults /\ faults' = faults + 2)
      BY <1>5 DEF ReleaseFails
    <2>5. faults' \in 0 .. MaxFaults
      BY <1>1, <2>4, BoundsAssumption
    <2>. QED
      BY <1>5, <2>1, <2>3, <2>5
         DEF ReleaseFails, Return, envVars, TypeInv, TypeOK, Room, PCs, InAction, InUndo
  <1>. QED
    BY <1>2, <1>3, <1>4, <1>5

\* A crash, and writes by somebody else.
LEMMA EnvironmentKeepsType ==
    ASSUME TypeInv, Environment
    PROVE  TypeInv'
  <1>1. CASE Crash
    BY <1>1 DEF Crash, journalVars, failVars, envVars, TypeInv, TypeOK, Room, PCs, InAction, InUndo
  <1>2. ASSUME NEW p \in Path, NEW object \in Object, ForeignStep(p, object)
        PROVE  TypeInv'
    <2>1. home' \in [Path -> Object] /\ foreign' \in 0 .. MaxForeign
      BY <1>2, BoundsAssumption DEF ForeignStep, TypeInv, TypeOK
    <2>. QED
      BY <1>2, <2>1 DEF ForeignStep, journalVars, failVars, TypeInv, TypeOK, Room, N
  <1>3. ASSUME NEW p \in Path, ForeignWrite(p) \/ ForeignEdit(p) \/ ForeignRemove(p)
        PROVE  TypeInv'
    <2>1. home[p] \in Object /\ [home[p] EXCEPT !.data = Foreign] \in Object
      BY ObjectExcept, StampFacts DEF TypeInv, TypeOK
    <2>. QED
      BY <1>2, <1>3, <2>1, StampFacts DEF ForeignWrite, ForeignEdit, ForeignRemove
  <1>. QED
    BY <1>1, <1>3 DEF Environment

\* What a caller holds as the expected object is an object.
LEMMA SnapshotsAreObjects ==
    ASSUME TypeInv, NEW p \in Path
    PROVE  Snapshots(p) \subseteq Object
  BY StampFacts DEF Snapshots, TypeInv, TypeOK

\* Every step keeps the types and the room in the journal.
LEMMA TypeInvInductive == TypeInv /\ [Next]_vars => TypeInv'
  <1>1. SUFFICES ASSUME TypeInv, [Next]_vars
                 PROVE  TypeInv'
    OBVIOUS
  <1>2. CASE Call
    BY <1>1, <1>2, CallsKeepType, SnapshotsAreObjects, StampFacts DEF Call
  <1>3. CASE Plan
    BY <1>1, <1>3, PlansKeepType
  <1>4. CASE Mutate
    BY <1>1, <1>4, CreatesKeepType, RemovesKeepType, WritesKeepType DEF Mutate
  <1>5. CASE Record
    BY <1>1, <1>5, RecordsKeepType
  <1>6. CASE Finish \/ Undo \/ Release \/ ReleaseFails
    BY <1>1, <1>6, FinishKeepsType, UndosKeepType, EndsKeepType DEF Undo, UndoActions
  <1>7. CASE Environment
    BY <1>1, <1>7, EnvironmentKeepsType
  <1>8. CASE UNCHANGED vars
    BY <1>1, <1>8
       DEF vars, TypeInv, TypeOK, Room, N
  <1>. QED
    BY <1>1, <1>2, <1>3, <1>4, <1>5, <1>6, <1>7, <1>8 DEF Next, Engine

\* They hold when the journal is published.
LEMMA InitType == Init => TypeInv
  <1>1. SUFFICES ASSUME Init PROVE TypeInv
    OBVIOUS
  <1>2. <<>> \in Seq(Action) /\ <<>> \in Seq(Task) /\ Len(<<>>) = 0
    BY EmptySeq
  <1>3. /\ home \in [Path -> Object] /\ pre \in [Path -> {Absent, Original}]
        /\ backup \in [1 .. MaxActions -> Slots]
    BY <1>1, StampFacts DEF Init, EmptySlots, Slots
  <1>4. disk \in Journal /\ state \in States
    BY <1>1, <1>2 DEF Init, Journal, States
  <1>5. /\ cursor \in 0 .. MaxActions /\ Len(actions) <= MaxActions
        /\ faults \in 0 .. MaxFaults /\ foreign \in 0 .. MaxForeign
    BY <1>1, <1>2, BoundsAssumption DEF Init
  <1>6. /\ pc \in PCs /\ pc \notin {"plan"} \cup InAction \cup InUndo
        /\ touched \in SUBSET Path /\ live \in SUBSET Path
    BY <1>1 DEF Init, PCs, InAction, InUndo
  <1>7. /\ result \in [status: {"none", "committed", "rolled-back", "rollback-failed"},
                        exit: Exits]
        /\ failure \in Exits /\ cause \in Exits
    BY <1>1, ExitFacts DEF Init, NoResult
  <1>8. /\ lock \in {"held", "free", "stranded"} /\ physical \in BOOLEAN /\ manual \in BOOLEAN
        /\ actions \in Seq(Action) /\ todo \in Seq(Task)
    BY <1>1, <1>2 DEF Init
  <1>. QED
    BY <1>3, <1>4, <1>5, <1>6, <1>7, <1>8 DEF TypeInv, TypeOK, Room

\* Every variable keeps its type, the journal never outgrows its bound, and an action or an
\* undo always has a journal entry to work on (transaction.ts, transaction-actions.ts,
\* transaction-rollback.ts).
THEOREM TypeCorrect == Spec => []TypeOK
  <1>1. TypeInv => TypeOK
    BY DEF TypeInv
  <1>. QED
    BY <1>1, InitType, TypeInvInductive, PTL DEF Spec

-----------------------------------------------------------------------------
(* A failure is sticky *)

\* A function on an interval from 1 is a sequence.
LEMMA FunctionIsSeq ==
    ASSUME NEW S, NEW n \in Nat, NEW f \in [1 .. n -> S]
    PROVE  f \in Seq(S)
  BY SeqDef

\* Amending an entry keeps the length of the journal, whatever is written.
LEMMA AmendedLength ==
    ASSUME NEW as \in Seq(Action), NEW i \in 1 .. Len(as), NEW a
    PROVE  Len([as EXCEPT ![i] = a]) = Len(as)
  <1>1. as \in [1 .. Len(as) -> Action] /\ Len(as) \in Nat
    BY LenProperties
  <1>. DEFINE T == Action \cup {a}
  <1>2. [as EXCEPT ![i] = a] \in [1 .. Len(as) -> T]
    BY <1>1
  <1>. HIDE DEF T
  <1>3. [as EXCEPT ![i] = a] \in Seq(T)
    BY <1>1, <1>2, FunctionIsSeq
  <1>4. /\ DOMAIN [as EXCEPT ![i] = a] = 1 .. Len([as EXCEPT ![i] = a])
        /\ Len([as EXCEPT ![i] = a]) \in Nat
    BY <1>3, LenProperties
  <1>5. DOMAIN [as EXCEPT ![i] = a] = 1 .. Len(as)
    BY <1>2
  <1>. QED
    BY <1>1, <1>4, <1>5, SameInterval

\* The journal grows in the planning of an action only.
LEMMA OnlyPlansAnnounce ==
    ASSUME TypeInv, [Next]_vars, pc # "plan"
    PROVE  Len(actions') = Len(actions)
  <1>1. ASSUME NEW a, actions' = [actions EXCEPT ![N] = a], pc \in InAction
        PROVE  Len(actions') = Len(actions)
    <2>1. N \in 1 .. Len(actions) /\ actions \in Seq(Action)
      BY <1>1, UnderWay
    <2>. QED
      BY <1>1, <2>1, AmendedLength
  <1>2. ASSUME UndoDone \/ UndoImpossible, pc \in InUndo
        PROVE  Len(actions') = Len(actions)
    <2>1. cursor \in 1 .. Len(actions) /\ actions \in Seq(Action)
      BY <1>2, Undoes
    <2>2. \E ph : actions' = [actions EXCEPT ![cursor] = [actions[cursor] EXCEPT !.phase = ph]]
      BY <1>2 DEF UndoDone, UndoImpossible
    <2>. QED
      BY <2>1, <2>2, AmendedLength
  <1>3. CASE Call \/ Environment \/ UNCHANGED vars
    BY <1>3
       DEF Call, CallCreate, CallWriteState, CallRemove, CallDocument, CallStaleCurrent, Start,
           Environment, Crash, ForeignWrite, ForeignEdit, ForeignRemove, ForeignStep,
           journalVars, vars
  <1>4. ~Plan
    BY DEF Plan, PlanRefused, PlanCreate, PlanRemove, PlanRemoveRefused, PlanDocument,
           PlanDocumentRefused
  <1>5. CASE Mutate
    <2>1. pc \in InAction
      BY <1>5
         DEF Mutate, CreateHappens, CreateTaken, CreateFails, Creating, RemoveChecked, RemoveStale,
             Removing, MoveAside, MoveAsideGone, MoveAsideFails, DocumentSwapped, DocumentStale,
             DocumentFails, SettingsLockTimeout, Writing, InAction
    <2>2. UNCHANGED actions \/ \E a : actions' = [actions EXCEPT ![N] = a]
      BY <1>5
         DEF Mutate, CreateHappens, CreateTaken, CreateFails, RemoveChecked, RemoveStale,
             MoveAside, MoveAsideGone, MoveAsideFails, DocumentSwapped, DocumentStale,
             DocumentFails, SettingsLockTimeout, Amend, journalVars
    <2>. QED
      BY <1>1, <2>1, <2>2
  <1>6. CASE Record
    <2>1. pc \in InAction
      BY <1>6
         DEF Record, RecordCreated, RecordLost, RecordWritten, Apply, ApplyFails, Seal, InAction
    <2>2. UNCHANGED actions \/ \E a : actions' = [actions EXCEPT ![N] = a]
      BY <1>6
         DEF Record, RecordCreated, RecordLost, RecordWritten, Apply, ApplyFails, Seal, Amend,
             journalVars
    <2>. QED
      BY <1>1, <2>1, <2>2
  <1>7. CASE Finish \/ Release \/ ReleaseFails \/ StartRollback \/ UndoPersist \/ EndRollback
    BY <1>7
       DEF Finish, Commit, Abort, AbortAfterFailure, Release, ReleaseFails, StartRollback,
           UndoPersist, EndRollback, journalVars
  <1>8. CASE UndoActions
    <2>1. pc \in InUndo
      BY <1>8
         DEF UndoActions, UndoNothing, UndoUnresolved, UndoFails, UndoCreateChecked,
             UndoCreateMove, UndoCreateGone, UndoWrite, UndoWriteStale,
             UndoWriteUnacknowledged, UndoReplaceChecked, UndoReplaceImpossible,
             UndoReplaceMove, UndoMoveStuck, Undoing, InUndo
    <2>2. UNCHANGED actions \/ UndoDone \/ UndoImpossible
      BY <1>8
         DEF UndoActions, UndoNothing, UndoUnresolved, UndoFails, UndoCreateChecked,
             UndoCreateMove, UndoCreateGone, UndoWrite, UndoWriteStale,
             UndoWriteUnacknowledged, UndoReplaceChecked, UndoReplaceImpossible,
             UndoReplaceMove, UndoMoveStuck, journalVars
    <2>. QED
      BY <1>2, <2>1, <2>2
  <1>. QED
    BY <1>3, <1>4, <1>5, <1>6, <1>7, <1>8 DEF Next, Engine, Undo, UndoActions

\* No action is begun or under way once a call has failed.
Quiet == pc \in {"plan"} \cup InAction => failure = NoExit

\* Every step keeps Quiet: a call that throws is over, and none begins after it.
LEMMA QuietInductive ==
    ASSUME Quiet, [Next]_vars
    PROVE  Quiet'
  <1>1. ASSUME \/ NextTask /\ pc \in InAction
               \/ \E label : Goto(label) /\ (label \in InAction => pc \in {"plan"} \cup InAction)
                                         /\ label # "plan"
               \/ \E exit, phys : Throw(exit, phys)
        PROVE  Quiet'
    BY <1>1 DEF NextTask, Goto, Throw, failVars, Quiet, InAction
  <1>2. CASE Call
    BY <1>2, <1>1
       DEF Call, CallCreate, CallWriteState, CallRemove, CallDocument, CallStaleCurrent, Start,
           MayCall, Quiet, InAction, failVars
  <1>3. CASE Plan
    BY <1>3, <1>1
       DEF Plan, PlanRefused, PlanCreate, PlanRemove, PlanRemoveRefused, PlanDocument,
           PlanDocumentRefused, Announce, InAction
  <1>4. CASE Mutate
    BY <1>4, <1>1
       DEF Mutate, CreateHappens, CreateTaken, CreateFails, Creating, RemoveChecked, RemoveStale,
           Removing, MoveAside, MoveAsideGone, MoveAsideFails, DocumentSwapped, DocumentStale,
           DocumentFails, SettingsLockTimeout, Writing, Amend, InAction
  <1>5. CASE Record
    <2>1. pc \in InAction
      BY <1>5
         DEF Record, RecordCreated, RecordLost, RecordWritten, Apply, ApplyFails, Seal, InAction
    <2>2. \/ NextTask
          \/ \E label \in InAction : Goto(label)
          \/ \E exit, phys : Throw(exit, phys)
      BY <1>5
         DEF Record, RecordCreated, RecordLost, RecordWritten, Apply, ApplyFails, Seal, Amend,
             InAction
    <2>3. "plan" \notin InAction
      BY DEF InAction
    <2>. QED
      BY <1>1, <2>1, <2>2, <2>3
  <1>6. CASE Finish \/ Release \/ ReleaseFails \/ Environment
    BY <1>6
       DEF Finish, Commit, Abort, AbortAfterFailure, BeginRollback, Goto, Release, ReleaseFails,
           Return, Environment, Crash, ForeignWrite, ForeignEdit, ForeignRemove, ForeignStep,
           failVars, Quiet, InAction
  <1>7. CASE Undo
    <2>1. pc' \notin {"plan"} \cup InAction
      BY <1>7
         DEF Undo, StartRollback, UndoNothing, UndoUnresolved, UndoFails, UndoCreateChecked,
             UndoCreateMove, UndoCreateGone, UndoWrite, UndoWriteStale,
             UndoWriteUnacknowledged, UndoReplaceChecked, UndoReplaceImpossible,
             UndoReplaceMove, UndoMoveStuck, UndoPersist, EndRollback, UndoDone, UndoImpossible,
             NextUndo, Goto, InAction
    <2>. QED
      BY <2>1 DEF Quiet, InAction
  <1>8. CASE UNCHANGED vars
    BY <1>8 DEF vars, Quiet, InAction
  <1>. QED
    BY <1>2, <1>3, <1>4, <1>5, <1>6, <1>7, <1>8 DEF Next, Engine

\* Once a context call has failed nothing more is journaled, so nothing more is mutated
\* (transaction.ts, serializeAction).
THEOREM FailureSticks == Spec => FailureIsSticky
  <1>1. Init => TypeInv /\ Quiet
    BY InitType DEF Init, Quiet, InAction
  <1>2. TypeInv /\ Quiet /\ [Next]_vars => (TypeInv /\ Quiet)'
    BY TypeInvInductive, QuietInductive
  <1>3. TypeInv /\ Quiet /\ [Next]_vars => [failure # NoExit => Len(actions') = Len(actions)]_vars
    BY OnlyPlansAnnounce DEF Quiet, InAction
  <1>. QED
    BY <1>1, <1>2, <1>3, PTL DEF Spec, FailureIsSticky

-----------------------------------------------------------------------------
(* The write-ahead rule: the inductive invariant *)

\* What journal.json names is what the journal in memory names, up to its last entries.
Prefix ==
    /\ Len(disk.actions) <= N
    /\ \A i \in 1 .. Len(disk.actions) : disk.actions[i].path = actions[i].path

\* An action is performed only when its entry is on disk.
Announced == pc \in InAction => Len(disk.actions) = N /\ actions[N].path = Here

\* An entry that is not on disk has done nothing, and neither has one still to come.
Idle ==
    /\ \A i \in 1 .. N : i > Len(disk.actions) =>
          actions[i].mark \in {"pending", "none"} /\ backup[i].old = Absent
    /\ \A i \in 1 .. MaxActions : i > N => backup[i].old = Absent

\* The second half of a move undoes an action that took effect.
Moving ==
    pc = "undo-move" =>
        \/ Undone.kind = "create" /\ Undone.mark = "owned"
        \/ Undone.kind = "replace" /\ backup[cursor].old # Absent

\* State directories are created, never removed or written ...
DirTasks ==
    pc \in {"plan"} \cup InAction =>
        \A k \in 1 .. Len(todo) : todo[k].path \in StateDirs => todo[k].op = "ensure"

\* ... and the transaction owns only those that were not there before.
DirActions ==
    \A i \in 1 .. N : actions[i].path \in StateDirs =>
        /\ actions[i].kind = "create"
        /\ actions[i].mark = "owned" => pre[actions[i].path] = Absent

DirMade ==
    /\ pc = "record" /\ Here \in StateDirs => pre[Here] = Absent
    /\ pc = "move" => Here \notin StateDirs

DirsStay == \A d \in StateDirs : pre[d] # Absent => home[d] # Absent

JournalInv == Prefix /\ Idle /\ DirActions
StepInv == Announced /\ Moving /\ DirTasks /\ DirMade
HomeInv == DirsStay /\ Possible(pre) /\ WriteAhead

WriteAheadInv == TypeInv /\ JournalInv /\ StepInv /\ HomeInv

-----------------------------------------------------------------------------
(* What a step has to keep *)

\* Entries keep their path and kind; only an entry on disk gets a new mark, and only the
\* action of such an entry gets a backup.
KeepsJournal ==
    /\ Len(actions') = N
    /\ \A i \in 1 .. N :
          /\ actions'[i].path = actions[i].path
          /\ actions'[i].kind = actions[i].kind
          /\ \/ actions'[i].mark = actions[i].mark
             \/ /\ i <= Len(disk.actions)
                /\ actions'[i].mark = "owned" /\ actions[i].path \in StateDirs =>
                      pre[actions[i].path] = Absent
    /\ disk' = disk \/ disk'.actions = actions'
    /\ \A i \in 1 .. MaxActions :
          backup'[i].old \in {backup[i].old, Absent} \/ i <= Len(disk.actions)
    /\ UNCHANGED pre

\* Only paths of the journal on disk change, or they become as before.
KeepsHome ==
    /\ touched \subseteq touched'
    /\ \A q \in Path : \/ q \in touched' \/ home'[q] = home[q] \/ q \in Named
                       \/ Same(q, home'[q], pre[q])
    /\ \A d \in StateDirs : home'[d] = home[d] \/ home'[d] # Absent \/ pre[d] = Absent

\* Lengths and entries of both journals.
LEMMA JournalFacts ==
    ASSUME TypeInv
    PROVE  /\ actions \in Seq(Action) /\ disk.actions \in Seq(Action)
           /\ N \in Nat /\ N = Len(actions) /\ Len(disk.actions) \in Nat /\ N <= MaxActions
           /\ MaxActions \in Nat
           /\ \A i \in 1 .. N : i \in 1 .. MaxActions /\ actions[i] \in Action
  <1>1. /\ actions \in Seq(Action) /\ disk.actions \in Seq(Action) /\ N = Len(actions)
        /\ N <= MaxActions
    BY DEF TypeInv, TypeOK, Journal, N
  <1>2. N \in Nat /\ Len(disk.actions) \in Nat
    BY <1>1, LenProperties
  <1>3. \A i \in 1 .. N : i \in 1 .. MaxActions /\ actions[i] \in Action
    BY <1>1, <1>2, ElementOfSeq, BoundsAssumption
  <1>. QED
    BY <1>1, <1>2, <1>3, BoundsAssumption

\* What the journal on disk names, it goes on naming.
LEMMA NamedGrows ==
    ASSUME TypeInv, TypeInv', Prefix, N <= Len(actions'),
           \A i \in 1 .. N : actions'[i].path = actions[i].path,
           disk' = disk \/ disk'.actions = actions'
    PROVE  Named \subseteq Named'
  <1>1. SUFFICES ASSUME NEW i \in 1 .. Len(disk.actions)
                 PROVE  disk.actions[i].path \in Named'
    BY DEF Named
  <1>2. i \in 1 .. N /\ i \in 1 .. Len(actions')
    BY <1>1, JournalFacts, LenProperties DEF Prefix, TypeInv, TypeOK
  <1>3. CASE disk' = disk
    BY <1>1, <1>3 DEF Named
  <1>4. CASE disk'.actions = actions'
    BY <1>1, <1>2, <1>4 DEF Named, Prefix
  <1>. QED
    BY <1>3, <1>4

\* Such a step keeps the two journals in accord and forgets no path.
LEMMA JournalKept ==
    ASSUME TypeInv, TypeInv', JournalInv, KeepsJournal
    PROVE  JournalInv' /\ Named \subseteq Named'
  <1>1. /\ N \in Nat /\ N' = N /\ Len(disk.actions) \in Nat /\ Len(disk.actions) <= N
        /\ MaxActions \in Nat /\ N <= MaxActions /\ Len(actions') = N
    BY JournalFacts DEF KeepsJournal, JournalInv, Prefix, N
  <1>2. Len(disk'.actions) = Len(disk.actions) \/ Len(disk'.actions) = N
    BY <1>1 DEF KeepsJournal
  <1>3. Prefix'
    BY <1>1 DEF KeepsJournal, JournalInv, Prefix
  <1>4. Idle'
    BY <1>1, <1>2 DEF KeepsJournal, JournalInv, Idle
  <1>5. DirActions'
    BY <1>1 DEF KeepsJournal, JournalInv, DirActions
  <1>6. Named \subseteq Named'
    BY <1>1, NamedGrows DEF KeepsJournal, JournalInv
  <1>. QED
    BY <1>3, <1>4, <1>5, <1>6 DEF JournalInv

\* Such a step keeps the write-ahead rule.
LEMMA HomeKept ==
    ASSUME TypeInv, HomeInv, KeepsHome, UNCHANGED pre, Named \subseteq Named'
    PROVE  HomeInv'
  <1>1. DirsStay'
    BY DEF KeepsHome, HomeInv, DirsStay
  <1>2. Possible(pre)'
    BY DEF HomeInv, Possible
  <1>3. WriteAhead'
    <2>1. SUFFICES ASSUME NEW q \in Path, q \notin touched', ~Same(q, home'[q], pre'[q])
                   PROVE  q \in Named'
      BY DEF WriteAhead, Untouched, Named
    <2>2. q \notin touched /\ (home'[q] = home[q] \/ q \in Named)
      BY <2>1 DEF KeepsHome
    <2>3. CASE home'[q] = home[q]
      BY <2>1, <2>2, <2>3 DEF HomeInv, WriteAhead, Untouched, Named
    <2>. QED
      BY <2>2, <2>3
  <1>. QED
    BY <1>1, <1>2, <1>3 DEF HomeInv

-----------------------------------------------------------------------------
(* Where a step leads *)

\* No action is under way after it.
Leaves == pc' \notin {"plan", "undo-move"} \cup InAction

\* Nothing is claimed about a step when no action is under way.
LEMMA StepLeft ==
    ASSUME Leaves
    PROVE  StepInv'
  BY DEF Leaves, StepInv, Announced, Moving, DirTasks, DirMade, InAction

\* A step of rollback or of the end, a call that throws: nothing is under way.
LEMMA Left ==
    ASSUME WriteAheadInv, TypeInv', KeepsJournal, KeepsHome, Leaves
    PROVE  WriteAheadInv'
  BY JournalKept, HomeKept, StepLeft DEF WriteAheadInv, KeepsJournal

\* A call that throws leaves no action under way.
LEMMA ThrowLeaves ==
    ASSUME NEW exit, NEW phys, Throw(exit, phys)
    PROVE  Leaves
  BY DEF Throw, Leaves, InAction

\* An action goes on.
LEMMA GoesOn ==
    ASSUME WriteAheadInv, TypeInv', pc \in InAction, KeepsJournal, KeepsHome,
           NEW label \in InAction, Goto(label),
           label = "record" /\ Here \in StateDirs => pre[Here] = Absent,
           label = "move" => Here \notin StateDirs
    PROVE  WriteAheadInv'
  <1>1. JournalInv' /\ HomeInv'
    BY JournalKept, HomeKept DEF WriteAheadInv, KeepsJournal
  <1>2. pc' = label /\ todo' = todo /\ pc' # "undo-move"
    BY DEF Goto, InAction
  <1>3. Announced'
    <2>1. Len(disk.actions) = N /\ actions[N].path = Here /\ N \in 1 .. N
      BY UnderWay DEF WriteAheadInv, StepInv, Announced, N
    <2>2. N' = N /\ actions'[N].path = actions[N].path /\ Len(disk'.actions) = N
      BY <2>1 DEF KeepsJournal, N
    <2>. QED
      BY <1>2, <2>1, <2>2 DEF Announced, Here
  <1>4. DirTasks'
    BY <1>2 DEF WriteAheadInv, StepInv, DirTasks
  <1>5. Moving' /\ DirMade'
    BY <1>2 DEF Moving, DirMade, Here, KeepsJournal
  <1>. QED
    BY <1>1, <1>3, <1>4, <1>5 DEF WriteAheadInv, StepInv

\* An action is over, the next task of its call comes up.
LEMMA ComesUp ==
    ASSUME WriteAheadInv, TypeInv', pc \in InAction, KeepsJournal, KeepsHome, NextTask
    PROVE  WriteAheadInv'
  <1>1. JournalInv' /\ HomeInv'
    BY JournalKept, HomeKept DEF WriteAheadInv, KeepsJournal
  <1>2. /\ todo' = Tail(todo) /\ pc' \in {"operate", "plan"}
        /\ pc' \notin InAction /\ pc' \notin {"undo-move", "record", "move"}
    BY DEF NextTask, InAction
  <1>3. DirTasks'
    <2>1. /\ Len(todo) \in Nat /\ Len(Tail(todo)) = Len(todo) - 1
          /\ \A k \in 1 .. Len(Tail(todo)) : Tail(todo)[k] = todo[k + 1]
      BY UnderWay, HeadTailProperties, LenProperties DEF WriteAheadInv
    <2>. QED
      BY <1>2, <2>1 DEF WriteAheadInv, StepInv, DirTasks
  <1>. QED
    BY <1>1, <1>2, <1>3 DEF WriteAheadInv, StepInv, Announced, Moving, DirMade

\* A step that leaves the journal alone.
LEMMA JournalFrame ==
    ASSUME UNCHANGED <<actions, disk, pre>>,
           UNCHANGED backup \/ \A i \in 1 .. MaxActions :
                backup'[i].old \in {backup[i].old, Absent} \/ i <= Len(disk.actions)
    PROVE  KeepsJournal
  BY DEF KeepsJournal, N

\* A step that leaves DSH_HOME alone.
LEMMA HomeFrame ==
    ASSUME UNCHANGED <<home, touched>>
    PROVE  KeepsHome
  BY DEF KeepsHome

\* The action under way changes its own path, whose entry is on disk.
LEMMA HereIsNamed ==
    ASSUME WriteAheadInv, pc \in InAction
    PROVE  /\ Here \in Named /\ Here \in Path /\ N \in 1 .. N /\ N <= Len(disk.actions)
           /\ actions[N].path = Here
  <1>1. /\ N \in 1 .. N /\ N \in Nat /\ Len(disk.actions) = N /\ actions[N].path = Here
        /\ Here \in Path
    BY UnderWay DEF WriteAheadInv, StepInv, Announced, N
  <1>2. disk.actions[N].path = Here
    BY <1>1 DEF WriteAheadInv, JournalInv, Prefix
  <1>. QED
    BY <1>1, <1>2 DEF Named

\* It neither removes nor makes a state directory that was there before.
LEMMA HereChanges ==
    ASSUME WriteAheadInv, pc \in InAction, NEW o \in Object,
           home' = [home EXCEPT ![Here] = o], UNCHANGED touched,
           Here \in StateDirs => o # Absent
    PROVE  KeepsHome
  <1>1. home \in [Path -> Object] /\ Here \in Path /\ Here \in Named
    BY HereIsNamed DEF WriteAheadInv, TypeInv, TypeOK
  <1>. QED
    BY <1>1 DEF KeepsHome, Path

\* Of the actions on state directories only "ensure" is possible.
LEMMA OnlyEnsured ==
    ASSUME WriteAheadInv, pc \in {"plan"} \cup InAction, Here \in StateDirs
    PROVE  Head(todo).op = "ensure"
  <1>1. todo \in Seq(Task) /\ todo # <<>>
    BY DEF WriteAheadInv, TypeInv, TypeOK
  <1>2. Head(todo) = todo[1] /\ 1 \in 1 .. Len(todo)
    BY <1>1, HeadTailProperties, LenProperties, EmptySeq
  <1>. QED
    BY <1>2 DEF WriteAheadInv, StepInv, DirTasks, Here

-----------------------------------------------------------------------------
(* Calls and announcements *)

\* A context call starts, or is refused.
LEMMA CallsKeep ==
    ASSUME WriteAheadInv, TypeInv', NEW p \in Path, NEW expect \in Object,
           \/ CallCreate(p) \/ CallWriteState(p) \/ CallRemove(p, expect)
           \/ CallDocument(p, expect) \/ CallStaleCurrent(p, expect)
    PROVE  WriteAheadInv'
  <1>1. KeepsJournal /\ KeepsHome
    BY JournalFrame, HomeFrame
       DEF CallCreate, CallWriteState, CallRemove, CallDocument, CallStaleCurrent, Start,
           journalVars, envVars
  <1>2. ASSUME NEW t, Start(t),
               \A k \in 1 .. Len(t) : t[k].path \in StateDirs => t[k].op = "ensure"
        PROVE  WriteAheadInv'
    <2>1. JournalInv' /\ HomeInv'
      BY <1>1, JournalKept, HomeKept DEF WriteAheadInv, KeepsJournal
    <2>2. StepInv'
      BY <1>2 DEF Start, StepInv, Announced, Moving, DirTasks, DirMade, InAction
    <2>. QED
      BY <2>1, <2>2 DEF WriteAheadInv
  <1>3. ASSUME NEW t, t.path \notin StateDirs, Start(<<t>>)
        PROVE  WriteAheadInv'
    BY <1>2, <1>3
  <1>4. ASSUME NEW t \in Task, t.path \notin StateDirs, Start(Append(Ensures(p), t))
        PROVE  WriteAheadInv'
    <2>1. /\ Len(Parents[p]) \in Nat /\ Ensures(p) \in Seq(Task)
          /\ Len(Append(Ensures(p), t)) = 1 + Len(Parents[p])
          /\ Len(Ensures(p)) = Len(Parents[p])
      BY EnsuresLength
    <2>2. \A k \in 1 .. Len(Append(Ensures(p), t)) :
              Append(Ensures(p), t)[k] = IF k = 1 + Len(Parents[p]) THEN t ELSE Ensures(p)[k]
      BY <2>1, AppendProperties
    <2>3. \A k \in 1 .. Len(Parents[p]) : Ensures(p)[k].op = "ensure"
      BY DEF Ensures
    <2>. DEFINE ts == Append(Ensures(p), t)
    <2>4. ASSUME NEW k \in 1 .. Len(ts), ts[k].path \in StateDirs
          PROVE  ts[k].op = "ensure"
      <3>1. k = 1 + Len(Parents[p]) \/ k \in 1 .. Len(Parents[p])
        BY <2>1
      <3>2. CASE k = 1 + Len(Parents[p])
        BY <1>4, <2>2, <2>4, <3>2
      <3>3. CASE k \in 1 .. Len(Parents[p])
        <4>1. ts[k] = Ensures(p)[k]
          BY <2>1, <2>2, <3>3
        <4>. QED
          BY <2>3, <3>3, <4>1
      <3>. QED
        BY <3>1, <3>2, <3>3
    <2>. QED
      BY <1>2, <1>4, <2>4
  <1>5. CASE CallCreate(p)
    BY <1>3, <1>5, KindsAssumption DEF CallCreate
  <1>6. CASE CallWriteState(p)
    <2>1. [op |-> "store", path |-> p, expect |-> Absent] \in Task
      BY StampFacts DEF Task
    <2>. QED
      BY <1>4, <1>6, <2>1, KindsAssumption DEF CallWriteState
  <1>7. CASE CallRemove(p, expect)
    BY <1>3, <1>7, KindsAssumption DEF CallRemove, Docs
  <1>8. CASE CallDocument(p, expect)
    <2>. DEFINE t == [op |-> "document", path |-> p, expect |-> expect]
    <2>1. p \notin StateDirs /\ t \in Task
      BY <1>8, KindsAssumption DEF CallDocument, Docs, Task
    <2>. QED
      BY <1>4, <1>8, <2>1 DEF CallDocument
  <1>9. CASE CallStaleCurrent(p, expect)
    BY <1>1, <1>9, ThrowLeaves, Left DEF CallStaleCurrent
  <1>. QED
    BY <1>5, <1>6, <1>7, <1>8, <1>9

\* An action is announced: nothing has happened yet.
LEMMA Announces ==
    ASSUME WriteAheadInv, TypeInv', pc = "plan", NEW entry \in Action, Announce(entry),
           entry.path = Here, entry.mark \in {"pending", "none"},
           Here \in StateDirs => entry.kind = "create",
           UNCHANGED <<home, pre, touched>>,
           \A i \in 1 .. MaxActions : backup'[i].old = backup[i].old
    PROVE  WriteAheadInv'
  <1>1. /\ N \in Nat /\ N = Len(actions) /\ Len(disk.actions) \in Nat /\ Len(disk.actions) <= N
        /\ actions \in Seq(Action) /\ MaxActions \in Nat /\ N + 1 <= MaxActions
    <2>1. todo # <<>> /\ Len(todo) \in Nat \ {0} /\ N + Len(todo) <= MaxActions
      BY EmptySeq DEF WriteAheadInv, TypeInv, TypeOK, Room
    <2>. QED
      BY <2>1, JournalFacts DEF WriteAheadInv, JournalInv, Prefix
  <1>2. /\ actions' = Append(actions, entry) /\ Len(actions') = N + 1 /\ N' = N + 1
        /\ \A i \in 1 .. N : actions'[i] = actions[i]
        /\ actions'[N + 1] = entry
    BY <1>1, AppendedJournal DEF Announce, N
  <1>3. disk' = disk \/ disk'.actions = actions'
    <2>1. disk' = disk \/ disk' = [state |-> state, actions |-> Append(actions, entry)]
      BY DEF Announce, Persist, PersistFails
    <2>. QED
      BY <1>2, <2>1
  <1>4. Prefix'
    BY <1>1, <1>2, <1>3 DEF WriteAheadInv, JournalInv, Prefix
  <1>5. Idle'
    <2>1. ASSUME NEW i \in 1 .. N + 1, i > Len(disk'.actions)
          PROVE  actions'[i].mark \in {"pending", "none"} /\ backup'[i].old = Absent
      <3>1. CASE i = N + 1
        BY <1>1, <1>2, <3>1 DEF WriteAheadInv, JournalInv, Idle
      <3>2. CASE i \in 1 .. N
        <4>1. disk' = disk /\ actions'[i] = actions[i] /\ i \in 1 .. MaxActions
          BY <1>1, <1>2, <1>3, <2>1, <3>2
        <4>. QED
          BY <2>1, <3>2, <4>1 DEF WriteAheadInv, JournalInv, Idle
      <3>. QED
        BY <1>1, <3>1, <3>2
    <2>. QED
      BY <1>1, <1>2, <2>1 DEF WriteAheadInv, JournalInv, Idle
  <1>6. DirActions'
    <2>1. ASSUME NEW i \in 1 .. N + 1, actions'[i].path \in StateDirs
          PROVE  /\ actions'[i].kind = "create"
                 /\ actions'[i].mark = "owned" => pre[actions'[i].path] = Absent
      <3>1. CASE i = N + 1
        BY <1>2, <2>1, <3>1
      <3>2. CASE i \in 1 .. N
        BY <1>2, <2>1, <3>2 DEF WriteAheadInv, JournalInv, DirActions
      <3>. QED
        BY <1>1, <3>1, <3>2
    <2>. QED
      BY <1>2, <2>1 DEF DirActions
  <1>7. HomeInv'
    <2>1. Named \subseteq Named'
      BY <1>1, <1>2, <1>3, NamedGrows DEF WriteAheadInv, JournalInv
    <2>. QED
      BY <2>1, HomeFrame, HomeKept DEF WriteAheadInv
  <1>8. StepInv'
    <2>1. CASE Goto("mutate") /\ Persist(state, Append(actions, entry))
      <3>1. pc' = "mutate" /\ todo' = todo
        BY <2>1 DEF Goto
      <3>2. Len(disk'.actions) = N' /\ actions'[N'].path = Here'
        BY <1>2, <2>1, <3>1 DEF Persist, Here
      <3>. QED
        BY <3>1, <3>2
           DEF WriteAheadInv, StepInv, Announced, Moving, DirTasks, DirMade, InAction
    <2>2. CASE Throw(Internal, FALSE)
      BY <2>2, ThrowLeaves, StepLeft
    <2>. QED
      BY <2>1, <2>2 DEF Announce
  <1>. QED
    BY <1>4, <1>5, <1>6, <1>7, <1>8 DEF WriteAheadInv, JournalInv

\* The planning of an action.
LEMMA PlansKeep ==
    ASSUME WriteAheadInv, TypeInv', Plan
    PROVE  WriteAheadInv'
  <1>0. pc = "plan"
    BY DEF Plan, PlanRefused, PlanCreate, PlanRemove, PlanRemoveRefused, PlanDocument,
           PlanDocumentRefused
  <1>1. /\ Here \in Path /\ home[Here] \in Object /\ N + 1 \in 1 .. MaxActions
        /\ backup \in [1 .. MaxActions -> Slots]
    <2>1. /\ todo \in Seq(Task) /\ todo # <<>> /\ Len(todo) \in Nat \ {0}
          /\ N + Len(todo) <= MaxActions /\ N \in Nat /\ home \in [Path -> Object]
          /\ backup \in [1 .. MaxActions -> Slots]
      BY <1>0, EmptySeq, JournalFacts DEF WriteAheadInv, TypeInv, TypeOK, Room
    <2>. QED
      BY <2>1, HeadTask, BoundsAssumption
  <1>2. CASE PlanRefused \/ PlanRemoveRefused \/ PlanDocumentRefused
    <2>1. KeepsJournal /\ KeepsHome
      BY <1>2, JournalFrame, HomeFrame
         DEF PlanRefused, PlanRemoveRefused, PlanDocumentRefused, journalVars, envVars
    <2>2. Leaves
      BY <1>2, ThrowLeaves DEF PlanRefused, PlanRemoveRefused, PlanDocumentRefused
    <2>. QED
      BY <2>1, <2>2, Left
  <1>3. CASE PlanCreate
    <2>. DEFINE entry == Entry("create", Here, "pending", [id |-> Gone, data |-> N + 1], FALSE)
    <2>1. entry \in Action
      <3>1. [id |-> Gone, data |-> N + 1] \in Object
        BY <1>1, StampFacts DEF Object
      <3>. QED
        BY <1>1, <3>1, EntryIsAction DEF Marks
    <2>2. entry.path = Here /\ entry.mark = "pending" /\ entry.kind = "create"
      BY DEF Entry
    <2>. QED
      BY <1>0, <1>3, <2>1, <2>2, Announces DEF PlanCreate, envVars
  <1>4. CASE PlanRemove
    <2>. DEFINE entry == Entry("replace", Here, "none", home[Here], TRUE)
    <2>1. entry \in Action
      BY <1>1, EntryIsAction DEF Marks
    <2>2. entry.path = Here /\ entry.mark = "none"
      BY DEF Entry
    <2>3. Here \notin StateDirs
      BY <1>0, <1>4, OnlyEnsured DEF PlanRemove
    <2>. QED
      BY <1>0, <1>4, <2>1, <2>2, <2>3, Announces DEF PlanRemove, envVars
  <1>5. CASE PlanDocument
    <2>1. PICK had \in BOOLEAN :
             Announce(Entry("write", Here, "pending", Made(N + 1), had))
      BY <1>5 DEF PlanDocument
    <2>. DEFINE entry == Entry("write", Here, "pending", Made(N + 1), had)
    <2>2. entry \in Action
      BY <1>1, EntryIsAction, MadeIsObject DEF Marks
    <2>3. entry.path = Here /\ entry.mark = "pending"
      BY DEF Entry
    <2>4. Here \notin StateDirs
      BY <1>0, <1>5, OnlyEnsured DEF PlanDocument
    <2>5. \A i \in 1 .. MaxActions : backup'[i].old = backup[i].old
      BY <1>1, <1>5 DEF PlanDocument, Slots
    <2>6. UNCHANGED <<home, pre, touched>>
      BY <1>5 DEF PlanDocument, envVars
    <2>. HIDE DEF entry
    <2>. QED
      BY <1>0, <2>1, <2>2, <2>3, <2>4, <2>5, <2>6, Announces DEF entry
  <1>. QED
    BY <1>2, <1>3, <1>4, <1>5 DEF Plan

-----------------------------------------------------------------------------
(* The mutation and its record *)

\* The entry under way is amended: its path and kind stay.
LEMMA Amended ==
    ASSUME WriteAheadInv, TypeInv', pc \in InAction, NEW a, UNCHANGED <<backup, pre>>,
           actions' = [actions EXCEPT ![N] = a], a.path = Here, a.kind = actions[N].kind,
           a.mark = "owned" /\ Here \in StateDirs =>
               actions[N].mark = "owned" \/ pre[Here] = Absent,
           Persist(state, actions') \/ PersistFails(state, actions')
    PROVE  KeepsJournal
  <1>1. /\ N \in 1 .. N /\ N <= Len(disk.actions) /\ actions[N].path = Here
        /\ actions \in Seq(Action) /\ N = Len(actions) /\ N \in Nat
        /\ N \in 1 .. Len(actions)
    BY HereIsNamed, JournalFacts DEF WriteAheadInv
  <1>2. /\ Len(actions') = N
        /\ \A i \in 1 .. N : actions'[i] = IF i = N THEN a ELSE actions[i]
    <2>1. Len(actions') = N
      BY <1>1, AmendedLength
    <2>2. DOMAIN actions = 1 .. N
      BY <1>1
    <2>. QED
      BY <1>1, <2>1, <2>2
  <1>3. disk' = disk \/ disk'.actions = actions'
    <2>1. disk' \in {disk, [state |-> state, actions |-> actions']}
      BY DEF Persist, PersistFails
    <2>2. CASE disk' = [state |-> state, actions |-> actions']
      BY <2>2
    <2>. QED
      BY <2>1, <2>2
  <1>4. actions[N].mark = "owned" /\ Here \in StateDirs => pre[Here] = Absent
    BY <1>1 DEF WriteAheadInv, JournalInv, DirActions
  <1>. QED
    BY <1>1, <1>2, <1>3, <1>4 DEF KeepsJournal

\* mkdir and exclusive writes.
LEMMA CreatesKeep ==
    ASSUME WriteAheadInv, TypeInv', CreateHappens \/ CreateTaken \/ CreateFails
    PROVE  WriteAheadInv'
  <1>1. /\ pc \in InAction /\ "record" \in InAction
    BY DEF CreateHappens, CreateTaken, CreateFails, Creating, InAction
  <1>2. /\ N \in Stamp /\ Here \in Path /\ home \in [Path -> Object]
        /\ actions[N].path = Here /\ actions[N] \in Action
    BY <1>1, UnderWay, HereIsNamed DEF WriteAheadInv
  <1>3. /\ [id |-> N, data |-> Partial] \in Object /\ [id |-> N, data |-> N] \in Object
        /\ [id |-> N, data |-> Partial] # Absent /\ [id |-> N, data |-> N] # Absent
    <2>1. N # Gone
      BY <1>1, UnderWay, BoundsAssumption DEF Gone, WriteAheadInv
    <2>. QED
      BY <1>2, <2>1, StampFacts DEF Object, Absent
  <1>4. CASE CreateHappens
    <2>1. /\ home[Here] = Absent /\ Goto("record")
          /\ UNCHANGED <<backup, actions, disk, pre, touched>>
          /\ \E o \in {[id |-> N, data |-> Partial], [id |-> N, data |-> N]} :
                home' = [home EXCEPT ![Here] = o]
      BY <1>4 DEF CreateHappens, journalVars, envVars
    <2>2. KeepsJournal /\ KeepsHome
      BY <1>1, <1>3, <2>1, JournalFrame, HereChanges
    <2>3. Here \in StateDirs => pre[Here] = Absent
      BY <2>1 DEF WriteAheadInv, HomeInv, DirsStay
    <2>. QED
      BY <1>1, <2>1, <2>2, <2>3, GoesOn
  <1>5. CASE CreateTaken
    <2>. DEFINE taken == [actions[N] EXCEPT !.mark = "not-owned"]
    <2>1. PICK a \in {taken, [taken EXCEPT !.phase = "applied"]} :
             Amend(a, Throw(Conflict, FALSE)) \/ Amend(a, NextTask)
      BY <1>5 DEF CreateTaken
    <2>2. a.path = Here /\ a.kind = actions[N].kind /\ a.mark = "not-owned"
      BY <1>2, <2>1 DEF Action
    <2>3. UNCHANGED <<home, backup, pre, touched>>
      BY <1>5 DEF CreateTaken, envVars
    <2>4. KeepsJournal /\ KeepsHome
      BY <1>1, <2>1, <2>2, <2>3, Amended, HomeFrame DEF Amend
    <2>5. Throw(Conflict, FALSE) \/ Throw(Internal, FALSE) \/ NextTask
      BY <1>5 DEF CreateTaken, Amend
    <2>. QED
      BY <1>1, <2>4, <2>5, ThrowLeaves, Left, ComesUp
  <1>6. CASE CreateFails
    <2>1. /\ UNCHANGED <<backup, actions, disk, pre, touched>> /\ Leaves
          /\ home' = home \/ home' = [home EXCEPT ![Here] = [id |-> N, data |-> Partial]]
      BY <1>6, ThrowLeaves DEF CreateFails, journalVars, envVars
    <2>2. KeepsJournal /\ KeepsHome
      BY <1>1, <1>3, <2>1, JournalFrame, HomeFrame, HereChanges
    <2>. QED
      BY <2>1, <2>2, Left
  <1>. QED
    BY <1>4, <1>5, <1>6

\* Moves into the backup.
LEMMA RemovesKeep ==
    ASSUME WriteAheadInv, TypeInv',
           RemoveChecked \/ RemoveStale \/ MoveAside \/ MoveAsideGone \/ MoveAsideFails
    PROVE  WriteAheadInv'
  <1>1. /\ pc \in InAction /\ "move" \in InAction /\ "seal" \in InAction
    BY DEF RemoveChecked, RemoveStale, MoveAside, MoveAsideGone, MoveAsideFails, Removing, InAction
  <1>2. ASSUME pc = "move", RenameAside, UNCHANGED <<actions, disk, pre, touched>>
        PROVE  KeepsJournal /\ KeepsHome
    <2>1. KeepsJournal
      <3>1. N <= Len(disk.actions) /\ backup \in [1 .. MaxActions -> Slots]
        BY <1>1, HereIsNamed DEF WriteAheadInv, TypeInv, TypeOK
      <3>2. \A i \in 1 .. MaxActions :
               backup'[i].old \in {backup[i].old, Absent} \/ i <= Len(disk.actions)
        BY <1>2, <3>1 DEF RenameAside
      <3>. QED
        BY <1>2, <3>2, JournalFrame
    <2>2. KeepsHome
      <3>1. Here \notin StateDirs
        BY <1>2 DEF WriteAheadInv, StepInv, DirMade
      <3>. QED
        BY <1>1, <1>2, <3>1, HereChanges, StampFacts DEF RenameAside
    <2>. QED
      BY <2>1, <2>2
  <1>3. ASSUME UNCHANGED <<home, backup, actions, disk, pre, touched>>
        PROVE  KeepsJournal /\ KeepsHome
    BY <1>3, JournalFrame, HomeFrame
  <1>4. CASE RemoveChecked
    <2>1. KeepsJournal /\ KeepsHome /\ Goto("move")
      BY <1>3, <1>4 DEF RemoveChecked, journalVars, envVars
    <2>2. Here \notin StateDirs
      BY <1>1, <1>4, OnlyEnsured DEF RemoveChecked, Removing
    <2>. QED
      BY <1>1, <2>1, <2>2, GoesOn
  <1>5. CASE RemoveStale \/ MoveAsideGone
    <2>1. KeepsJournal /\ KeepsHome /\ Leaves
      BY <1>3, <1>5, ThrowLeaves DEF RemoveStale, MoveAsideGone, journalVars, envVars
    <2>. QED
      BY <2>1, Left
  <1>6. CASE MoveAside
    <2>1. KeepsJournal /\ KeepsHome
      BY <1>2, <1>6 DEF MoveAside, journalVars, envVars
    <2>2. Goto("seal") \/ Throw(Contract, FALSE)
      BY <1>6 DEF MoveAside
    <2>. QED
      BY <1>1, <2>1, <2>2, GoesOn, ThrowLeaves, Left
  <1>7. CASE MoveAsideFails
    <2>1. KeepsJournal /\ KeepsHome
      BY <1>2, <1>3, <1>7 DEF MoveAsideFails, journalVars, envVars
    <2>2. Leaves
      BY <1>7, ThrowLeaves DEF MoveAsideFails
    <2>. QED
      BY <2>1, <2>2, Left
  <1>. QED
    BY <1>4, <1>5, <1>6, <1>7

\* Compare-and-swap of a document.
LEMMA WritesKeep ==
    ASSUME WriteAheadInv, TypeInv',
           DocumentSwapped \/ DocumentStale \/ DocumentFails \/ SettingsLockTimeout
    PROVE  WriteAheadInv'
  <1>1. pc \in InAction /\ "record" \in InAction /\ Head(todo).op = "document"
    BY DEF DocumentSwapped, DocumentStale, DocumentFails, SettingsLockTimeout, Writing, InAction
  <1>2. /\ Here \notin StateDirs /\ Made(N) \in Object /\ actions[N] \in Action
        /\ actions[N].path = Here
    BY <1>1, OnlyEnsured, UnderWay, HereIsNamed, MadeIsObject DEF WriteAheadInv
  <1>3. ASSUME home' = home \/ home' = Swapped, UNCHANGED <<backup, actions, disk, pre, touched>>
        PROVE  KeepsJournal /\ KeepsHome
    BY <1>1, <1>2, <1>3, JournalFrame, HomeFrame, HereChanges DEF Swapped
  <1>4. CASE DocumentSwapped
    <2>1. KeepsJournal /\ KeepsHome /\ Goto("record")
      BY <1>3, <1>4 DEF DocumentSwapped, journalVars, envVars
    <2>. QED
      BY <1>1, <1>2, <2>1, GoesOn
  <1>5. CASE DocumentStale
    <2>. DEFINE a == [actions[N] EXCEPT !.mark = "not-written"]
    <2>1. a.path = Here /\ a.kind = actions[N].kind /\ a.mark = "not-written"
      BY <1>2 DEF Action
    <2>2. /\ UNCHANGED <<home, backup, pre, touched>> /\ Amend(a, Throw(Contract, FALSE))
      BY <1>5 DEF DocumentStale, envVars
    <2>3. KeepsJournal /\ KeepsHome
      BY <1>1, <2>1, <2>2, Amended, HomeFrame DEF Amend
    <2>4. Leaves
      BY <2>2, ThrowLeaves DEF Amend
    <2>. QED
      BY <2>3, <2>4, Left
  <1>6. CASE DocumentFails \/ SettingsLockTimeout
    <2>1. KeepsJournal /\ KeepsHome
      BY <1>3, <1>6 DEF DocumentFails, SettingsLockTimeout, journalVars, envVars
    <2>2. Leaves
      BY <1>6, ThrowLeaves DEF DocumentFails, SettingsLockTimeout
    <2>. QED
      BY <2>1, <2>2, Left
  <1>. QED
    BY <1>4, <1>5, <1>6

\* Recording, filling and sealing an action.
LEMMA RecordsKeep ==
    ASSUME WriteAheadInv, TypeInv', Record
    PROVE  WriteAheadInv'
  <1>1. /\ pc \in InAction /\ "apply" \in InAction /\ "seal" \in InAction
    BY DEF Record, RecordCreated, RecordLost, RecordWritten, Apply, ApplyFails, Seal, InAction
  <1>2. /\ actions[N] \in Action /\ actions[N].path = Here /\ Here \in Path
        /\ home \in [Path -> Object] /\ N \in Stamp
    BY <1>1, UnderWay, HereIsNamed DEF WriteAheadInv
  <1>3. CASE RecordCreated
    <2>. DEFINE a == [actions[N] EXCEPT !.mark = "owned", !.id = home[Here].id]
    <2>1. a.path = Here /\ a.kind = actions[N].kind
      BY <1>2 DEF Action
    <2>2. /\ UNCHANGED <<home, backup, pre, touched>> /\ pc = "record"
          /\ Amend(a, Goto("apply")) \/ Amend(a, Goto("seal"))
      BY <1>3 DEF RecordCreated, envVars
    <2>3. Here \in StateDirs => pre[Here] = Absent
      BY <2>2 DEF WriteAheadInv, StepInv, DirMade
    <2>4. KeepsJournal /\ KeepsHome
      BY <1>1, <2>1, <2>2, <2>3, Amended, HomeFrame DEF Amend
    <2>5. Goto("apply") \/ Goto("seal") \/ Throw(Internal, FALSE)
      BY <2>2 DEF Amend
    <2>. QED
      BY <1>1, <2>4, <2>5, GoesOn, ThrowLeaves, Left
  <1>4. CASE RecordLost
    <2>1. KeepsJournal /\ KeepsHome /\ Leaves
      BY <1>4, JournalFrame, HomeFrame, ThrowLeaves DEF RecordLost, journalVars, envVars
    <2>. QED
      BY <2>1, Left
  <1>5. CASE RecordWritten
    <2>. DEFINE a == [actions[N] EXCEPT !.mark = "written"]
    <2>1. a.path = Here /\ a.kind = actions[N].kind /\ a.mark = "written"
      BY <1>2 DEF Action
    <2>2. UNCHANGED <<home, backup, pre, touched>> /\ Amend(a, Goto("seal"))
      BY <1>5 DEF RecordWritten, envVars
    <2>3. KeepsJournal /\ KeepsHome
      BY <1>1, <2>1, <2>2, Amended, HomeFrame DEF Amend
    <2>4. Goto("seal") \/ Throw(Internal, FALSE)
      BY <2>2 DEF Amend
    <2>. QED
      BY <1>1, <2>3, <2>4, GoesOn, ThrowLeaves, Left
  <1>6. ASSUME home' = home \/ (home[Here] # Absent /\ home' = Filled),
               UNCHANGED <<backup, actions, disk, pre, touched>>
        PROVE  KeepsJournal /\ KeepsHome
    <2>1. KeepsJournal
      BY <1>6, JournalFrame
    <2>2. CASE home' = Filled /\ home[Here] # Absent
      <3>. DEFINE o == [home[Here] EXCEPT !.data = IF @ = Partial THEN N ELSE @]
      <3>1. o \in Object /\ home' = [home EXCEPT ![Here] = o]
        BY <1>2, <2>2, ObjectFacts, ObjectExcept DEF Filled
      <3>2. o # Absent
        <4>1. home[Here].data # Gone \/ home[Here].id # Gone
          BY <1>2, <2>2 DEF Object, Absent
        <4>2. o.id = home[Here].id /\ o.data = IF home[Here].data = Partial THEN N ELSE home[Here].data
          BY <1>2 DEF Object
        <4>3. N # Gone /\ Partial # Gone
          BY <1>1, UnderWay, BoundsAssumption DEF Gone, Partial, WriteAheadInv
        <4>. QED
          BY <4>1, <4>2, <4>3 DEF Absent
      <3>. HIDE DEF o
      <3>. QED
        BY <1>1, <1>6, <3>1, <3>2, HereChanges, <2>1
    <2>. QED
      BY <1>6, <2>1, <2>2, HomeFrame
  <1>7. CASE Apply
    <2>1. KeepsJournal /\ KeepsHome /\ Goto("seal")
      BY <1>6, <1>7 DEF Apply, journalVars, envVars
    <2>. QED
      BY <1>1, <2>1, GoesOn
  <1>8. CASE ApplyFails
    <2>1. KeepsJournal /\ KeepsHome
      BY <1>6, <1>8 DEF ApplyFails, journalVars, envVars
    <2>2. Leaves
      BY <1>8, ThrowLeaves DEF ApplyFails
    <2>. QED
      BY <2>1, <2>2, Left
  <1>9. CASE Seal
    <2>. DEFINE a == [actions[N] EXCEPT !.phase = "applied"]
    <2>1. a.path = Here /\ a.kind = actions[N].kind /\ a.mark = actions[N].mark
      BY <1>2 DEF Action
    <2>2. UNCHANGED <<home, backup, pre, touched>> /\ Amend(a, NextTask)
      BY <1>9 DEF Seal, envVars
    <2>3. KeepsJournal /\ KeepsHome
      BY <1>1, <2>1, <2>2, Amended, HomeFrame DEF Amend
    <2>4. NextTask \/ Throw(Internal, FALSE)
      BY <2>2 DEF Amend
    <2>. QED
      BY <1>1, <2>3, <2>4, ComesUp, ThrowLeaves, Left
  <1>. QED
    BY <1>3, <1>4, <1>5, <1>7, <1>8, <1>9 DEF Record

-----------------------------------------------------------------------------
(* The end and the rollback *)

\* The commit, the start and the end of a rollback, the release of the lock.
LEMMA EndsKeep ==
    ASSUME WriteAheadInv, TypeInv',
           Finish \/ StartRollback \/ UndoPersist \/ EndRollback \/ Release \/ ReleaseFails
    PROVE  WriteAheadInv'
  <1>1. /\ UNCHANGED <<home, backup, actions, pre, touched>>
        /\ Leaves
    BY DEF Finish, Commit, Abort, AbortAfterFailure, BeginRollback, Goto, StartRollback,
           UndoPersist, NextUndo, EndRollback, Release, ReleaseFails, Return, journalVars,
           envVars, Leaves, InAction
  <1>2. disk' = disk \/ \E s : disk' = [state |-> s, actions |-> actions]
    BY DEF Finish, Commit, Abort, AbortAfterFailure, StartRollback, UndoPersist, EndRollback,
           Release, ReleaseFails, Persist, PersistFails, journalVars
  <1>3. disk' = disk \/ disk'.actions = actions'
    BY <1>1, <1>2
  <1>4. KeepsJournal /\ KeepsHome
    BY <1>1, <1>3, HomeFrame DEF KeepsJournal, N
  <1>. QED
    BY <1>1, <1>4, Left

\* An undo amends the phase of one entry in memory, and nothing else of the journal.
LEMMA UndoAmends ==
    ASSUME WriteAheadInv, TypeInv', pc \in InUndo, UndoDone \/ UndoImpossible, UNCHANGED pre,
           \/ UNCHANGED backup
           \/ \A i \in 1 .. MaxActions :
                 backup'[i].old \in {backup[i].old, Absent} \/ i <= Len(disk.actions)
    PROVE  KeepsJournal /\ Leaves
  <1>1. Leaves
    BY DEF UndoDone, UndoImpossible, NextUndo, Leaves, InAction
  <1>2. /\ cursor \in 1 .. Len(actions) /\ N = Len(actions) /\ actions \in Seq(Action)
        /\ DOMAIN actions = 1 .. N /\ \A i \in 1 .. N : actions[i] \in Action
    BY Undoes, JournalFacts DEF WriteAheadInv
  <1>3. /\ \E ph : actions' = [actions EXCEPT ![cursor] = [actions[cursor] EXCEPT !.phase = ph]]
        /\ disk' = disk
    BY DEF UndoDone, UndoImpossible
  <1>4. Len(actions') = N
    BY <1>2, <1>3, AmendedLength
  <1>5. \A i \in 1 .. N : /\ actions'[i].path = actions[i].path
                          /\ actions'[i].kind = actions[i].kind
                          /\ actions'[i].mark = actions[i].mark
    BY <1>2, <1>3 DEF Action
  <1>6. KeepsJournal
    BY <1>3, <1>4, <1>5 DEF KeepsJournal
  <1>. QED
    BY <1>1, <1>6

\* Only an action whose entry is on disk took effect.
LEMMA EffectIsNamed ==
    ASSUME WriteAheadInv, pc \in InUndo,
           Undone.mark \notin {"pending", "none"} \/ backup[cursor].old # Absent
    PROVE  cursor <= Len(disk.actions) /\ Undone.path \in Named
  <1>1. cursor \in 1 .. N /\ N = Len(actions) /\ Len(disk.actions) \in Nat
    BY Undoes, JournalFacts DEF WriteAheadInv
  <1>2. cursor <= Len(disk.actions)
    BY <1>1 DEF WriteAheadInv, JournalInv, Idle, Undone
  <1>3. disk.actions[cursor].path = Undone.path /\ cursor \in 1 .. Len(disk.actions)
    BY <1>1, <1>2 DEF WriteAheadInv, JournalInv, Prefix, Undone
  <1>. QED
    BY <1>2, <1>3 DEF Named

\* What was made is moved away: a directory with what is in it, which was not there either.
LEMMA TakesBack ==
    ASSUME WriteAheadInv, pc \in InUndo, Undone.kind = "create", Undone.mark = "owned",
           home' = [q \in Path |-> IF q \in Taken(Undone.path) THEN Absent ELSE home[q]],
           UNCHANGED touched
    PROVE  KeepsHome
  <1>. DEFINE p == Undone.path
  <1>1. /\ cursor \in 1 .. N /\ p \in Named /\ p \in Path /\ home \in [Path -> Object]
    BY Undoes, JournalFacts, EffectIsNamed DEF WriteAheadInv
  <1>2. p \in StateDirs => pre[p] = Absent
    BY <1>1 DEF WriteAheadInv, JournalInv, DirActions, Undone
  <1>3. ASSUME NEW q \in Inside(p), p \in StateDirs
        PROVE  q \in Path /\ pre[q] = Absent
    <2>1. q \in Path /\ Parents[q] # <<>> /\ Parents[q][Len(Parents[q])] = p
      BY <1>3 DEF Inside
    <2>2. Len(Parents[q]) \in 1 .. Len(Parents[q])
      BY <2>1, ParentsAssumption, EmptySeq, LenProperties
    <2>. QED
      BY <1>2, <1>3, <2>1, <2>2 DEF WriteAheadInv, HomeInv, Possible
  <1>4. ASSUME NEW q \in Path
        PROVE  home'[q] = home[q] \/ q = p \/ (home'[q] = Absent /\ pre[q] = Absent)
    BY <1>3 DEF Taken
  <1>5. \A q \in Path : home'[q] = home[q] \/ q \in Named \/ Same(q, home'[q], pre[q])
    BY <1>1, <1>4 DEF Same
  <1>6. \A d \in StateDirs : home'[d] = home[d] \/ pre[d] = Absent
    BY <1>2, <1>4 DEF Path
  <1>. QED
    BY <1>5, <1>6 DEF KeepsHome

\* A document gets its original text back.
LEMMA PutsBack ==
    ASSUME WriteAheadInv, pc \in InUndo, Undone.kind = "write", Undone.mark = "written",
           PutBack(Undone.path), UNCHANGED touched
    PROVE  /\ KeepsHome
           /\ \A i \in 1 .. MaxActions : backup'[i].old = backup[i].old
  <1>1. /\ cursor \in 1 .. N /\ Undone.path \in Named /\ Undone.path \in Path
        /\ home \in [Path -> Object] /\ backup \in [1 .. MaxActions -> Slots]
    BY Undoes, JournalFacts, EffectIsNamed DEF WriteAheadInv
  <1>2. Undone.path \notin StateDirs
    BY <1>1 DEF WriteAheadInv, JournalInv, DirActions, Undone
  <1>3. \A q \in Path : q # Undone.path => home'[q] = home[q]
    BY <1>1 DEF PutBack
  <1>4. KeepsHome
    BY <1>1, <1>2, <1>3 DEF KeepsHome, Path
  <1>5. \A i \in 1 .. MaxActions : backup'[i].old = backup[i].old
    <2>1. \/ backup' = backup
          \/ backup' = [backup EXCEPT ![cursor].new = home[Undone.path]]
      BY DEF PutBack
    <2>. QED
      BY <1>1, <2>1 DEF Slots
  <1>. QED
    BY <1>4, <1>5

\* A preserved original goes home.
LEMMA GoesHome ==
    ASSUME WriteAheadInv, pc = "undo-move", Undone.kind = "replace",
           home' = [home EXCEPT ![Undone.path] = backup[cursor].old],
           backup' = [backup EXCEPT ![cursor].old = Absent], UNCHANGED touched
    PROVE  /\ KeepsHome
           /\ \A i \in 1 .. MaxActions : backup'[i].old \in {backup[i].old, Absent}
  <1>1. pc \in InUndo
    BY DEF InUndo
  <1>2. backup[cursor].old # Absent
    BY DEF WriteAheadInv, StepInv, Moving
  <1>3. /\ Undone.path \in Named /\ Undone.path \in Path
        /\ home \in [Path -> Object] /\ backup \in [1 .. MaxActions -> Slots]
    BY <1>1, <1>2, Undoes, EffectIsNamed DEF WriteAheadInv
  <1>4. KeepsHome
    BY <1>2, <1>3 DEF KeepsHome, Path
  <1>5. \A i \in 1 .. MaxActions : backup'[i].old \in {backup[i].old, Absent}
    BY <1>3 DEF Slots
  <1>. QED
    BY <1>4, <1>5

\* The undo steps.
LEMMA UndosKeep ==
    ASSUME WriteAheadInv, TypeInv', UndoActions
    PROVE  WriteAheadInv'
  <1>1. pc \in InUndo
    BY DEF UndoActions, UndoNothing, UndoUnresolved, UndoFails, UndoCreateChecked,
           UndoCreateMove, UndoCreateGone, UndoWrite, UndoWriteStale, UndoWriteUnacknowledged,
           UndoReplaceChecked, UndoReplaceImpossible, UndoReplaceMove, UndoMoveStuck,
           Undoing, InUndo
  <1>2. ASSUME UndoDone \/ UndoImpossible, KeepsHome, UNCHANGED pre,
               \A i \in 1 .. MaxActions : backup'[i].old \in {backup[i].old, Absent}
        PROVE  WriteAheadInv'
    BY <1>1, <1>2, UndoAmends, Left
  <1>3. ASSUME UndoDone \/ UndoImpossible, UNCHANGED <<home, backup, envVars>>
        PROVE  WriteAheadInv'
    BY <1>1, <1>3, UndoAmends, HomeFrame, Left DEF envVars
  <1>4. ASSUME Goto("undo-move"), UNCHANGED <<home, backup, actions, disk, cursor, envVars>>,
               \/ Undone.kind = "create" /\ Undone.mark = "owned"
               \/ Undone.kind = "replace" /\ backup[cursor].old # Absent
        PROVE  WriteAheadInv'
    <2>1. JournalInv' /\ HomeInv'
      BY <1>4, JournalFrame, HomeFrame, JournalKept, HomeKept DEF WriteAheadInv, envVars
    <2>2. StepInv'
      BY <1>4 DEF Goto, StepInv, Announced, Moving, DirTasks, DirMade, InAction, Undone
    <2>. QED
      BY <2>1, <2>2 DEF WriteAheadInv
  <1>5. CASE UndoNothing \/ UndoUnresolved \/ UndoFails \/ UndoCreateGone \/ UndoWriteStale
             \/ UndoReplaceImpossible
    BY <1>3, <1>5
       DEF UndoNothing, UndoUnresolved, UndoFails, UndoCreateGone, UndoWriteStale,
           UndoReplaceImpossible
  <1>6. CASE UndoCreateChecked
    <2>1. \/ /\ Goto("undo-move") /\ UNCHANGED <<home, backup, actions, disk, cursor, envVars>>
             /\ Undone.kind = "create" /\ Undone.mark = "owned"
          \/ UndoImpossible /\ UNCHANGED <<home, backup, envVars>>
      BY <1>6 DEF UndoCreateChecked, Undoing
    <2>. QED
      BY <1>3, <1>4, <2>1
  <1>7. CASE UndoReplaceChecked
    BY <1>4, <1>7 DEF UndoReplaceChecked, Undoing, journalVars
  <1>8. ASSUME pc = "undo-move", Undone.kind = "create", UndoDone \/ UndoImpossible,
               backup' = [backup EXCEPT ![cursor].new = Carried(Undone.path)],
               home' = [q \in Path |-> IF q \in Taken(Undone.path) THEN Absent ELSE home[q]],
               UNCHANGED envVars
        PROVE  WriteAheadInv'
    <2>1. KeepsHome
      BY <1>1, <1>8, TakesBack DEF WriteAheadInv, StepInv, Moving, envVars
    <2>2. \A i \in 1 .. MaxActions : backup'[i].old = backup[i].old
      BY <1>8 DEF WriteAheadInv, TypeInv, TypeOK, Slots
    <2>. QED
      BY <1>2, <1>8, <2>1, <2>2 DEF envVars
  <1>9. ASSUME pc = "undo-move", Undone.kind = "replace", UndoDone \/ UndoImpossible,
               home' = [home EXCEPT ![Undone.path] = backup[cursor].old],
               backup' = [backup EXCEPT ![cursor].old = Absent], UNCHANGED envVars
        PROVE  WriteAheadInv'
    BY <1>2, <1>9, GoesHome DEF envVars
  <1>10. CASE UndoCreateMove
    BY <1>8, <1>10 DEF UndoCreateMove
  <1>11. CASE UndoReplaceMove
    BY <1>9, <1>11 DEF UndoReplaceMove
  <1>12. CASE UndoMoveStuck
    <2>1. Undone.kind \in {"create", "replace"}
      BY <1>12 DEF UndoMoveStuck, WriteAheadInv, StepInv, Moving
    <2>. QED
      BY <1>8, <1>9, <1>12, <2>1 DEF UndoMoveStuck
  <1>13. CASE UndoWrite \/ UndoWriteUnacknowledged
    <2>1. /\ Undone.kind = "write" /\ Undone.mark = "written" /\ PutBack(Undone.path)
          /\ UndoDone \/ UndoImpossible
          /\ UNCHANGED <<pre, touched>>
      BY <1>13 DEF UndoWrite, UndoWriteUnacknowledged, Undoing, envVars
    <2>. QED
      BY <1>1, <1>2, <2>1, PutsBack
  <1>. QED
    BY <1>5, <1>6, <1>7, <1>10, <1>11, <1>12, <1>13 DEF UndoActions

-----------------------------------------------------------------------------
(* Somebody else, and the theorem *)

\* A crash, and writes by somebody else.
LEMMA EnvironmentKeeps ==
    ASSUME WriteAheadInv, TypeInv', Environment
    PROVE  WriteAheadInv'
  <1>1. CASE Crash
    <2>1. KeepsJournal /\ KeepsHome /\ Leaves
      BY <1>1, JournalFrame, HomeFrame DEF Crash, journalVars, envVars, Leaves, InAction
    <2>. QED
      BY <2>1, Left
  <1>2. ASSUME NEW p \in Path, NEW object, ForeignStep(p, object)
        PROVE  WriteAheadInv'
    <2>1. KeepsHome
      <3>1. /\ touched' = touched \cup {p} /\ p \notin StateDirs
            /\ \A q \in Path : q # p => home'[q] = home[q]
        BY <1>2 DEF ForeignStep, WriteAheadInv, TypeInv, TypeOK
      <3>. QED
        BY <3>1 DEF KeepsHome, Path
    <2>2. /\ UNCHANGED <<backup, actions, disk, pre, pc, todo, cursor>>
      BY <1>2 DEF ForeignStep, journalVars
    <2>3. JournalInv' /\ HomeInv'
      BY <2>1, <2>2, JournalFrame, JournalKept, HomeKept DEF WriteAheadInv
    <2>4. StepInv'
      BY <2>2 DEF WriteAheadInv, StepInv, Announced, Moving, DirTasks, DirMade, N, Here, Undone
    <2>. QED
      BY <2>3, <2>4 DEF WriteAheadInv
  <1>3. CASE \E p \in Path : ForeignWrite(p) \/ ForeignEdit(p) \/ ForeignRemove(p)
    BY <1>2, <1>3 DEF ForeignWrite, ForeignEdit, ForeignRemove
  <1>. QED
    BY <1>1, <1>3 DEF Environment

\* Every step keeps the invariant.
LEMMA WriteAheadInductive == WriteAheadInv /\ [Next]_vars => WriteAheadInv'
  <1>1. SUFFICES ASSUME WriteAheadInv, [Next]_vars
                 PROVE  WriteAheadInv'
    OBVIOUS
  <1>2. TypeInv'
    BY <1>1, TypeInvInductive DEF WriteAheadInv
  <1>3. CASE Call
    <2>1. \A p \in Path : Snapshots(p) \subseteq Object /\ Absent \in Object
      BY <1>1, SnapshotsAreObjects, StampFacts DEF WriteAheadInv
    <2>. QED
      BY <1>1, <1>2, <1>3, <2>1, CallsKeep DEF Call
  <1>4. CASE Plan
    BY <1>1, <1>2, <1>4, PlansKeep
  <1>5. CASE Mutate
    BY <1>1, <1>2, <1>5, CreatesKeep, RemovesKeep, WritesKeep DEF Mutate
  <1>6. CASE Record
    BY <1>1, <1>2, <1>6, RecordsKeep
  <1>7. CASE Finish \/ Undo \/ Release \/ ReleaseFails
    BY <1>1, <1>2, <1>7, EndsKeep, UndosKeep DEF Undo, UndoActions
  <1>8. CASE Environment
    BY <1>1, <1>2, <1>8, EnvironmentKeeps
  <1>9. CASE UNCHANGED vars
    BY <1>1, <1>2, <1>9
       DEF vars, WriteAheadInv, JournalInv, Prefix, Idle, DirActions, StepInv, Announced, Moving,
           DirTasks, DirMade, HomeInv, DirsStay, Possible, WriteAhead, Untouched, N, Here, Undone
  <1>. QED
    BY <1>1, <1>3, <1>4, <1>5, <1>6, <1>7, <1>8, <1>9 DEF Next, Engine

\* It holds when the journal is published.
LEMMA WriteAheadInit == Init => WriteAheadInv
  <1>1. SUFFICES ASSUME Init PROVE WriteAheadInv
    OBVIOUS
  <1>2. TypeInv
    BY <1>1, InitType
  <1>3. /\ actions = <<>> /\ disk.actions = <<>> /\ N = 0 /\ Len(disk.actions) = 0
        /\ pc = "operate" /\ pre = home /\ Possible(pre)
    BY <1>1 DEF Init, N
  <1>4. \A i \in 1 .. MaxActions : backup[i].old = Absent
    BY <1>1 DEF Init, EmptySlots
  <1>5. JournalInv
    BY <1>3, <1>4 DEF JournalInv, Prefix, Idle, DirActions
  <1>6. StepInv
    BY <1>3 DEF StepInv, Announced, Moving, DirTasks, DirMade, InAction
  <1>7. HomeInv
    BY <1>3 DEF HomeInv, DirsStay, WriteAhead, Untouched, Same
  <1>. QED
    BY <1>2, <1>5, <1>6, <1>7 DEF WriteAheadInv

\* Whatever differs from before the transaction, and was not touched by anybody else, is named
\* by journal.json at every moment a crash may come (transaction.ts, transaction-actions.ts:
\* each entry is persisted before its mutation; transaction-rollback.ts undoes nothing else).
THEOREM WritesAhead == Spec => []WriteAhead
  <1>1. WriteAheadInv => WriteAhead
    BY DEF WriteAheadInv, HomeInv
  <1>. QED
    BY <1>1, WriteAheadInit, WriteAheadInductive, PTL DEF Spec

-----------------------------------------------------------------------------
(* What a step does to the journal in memory *)

Adds(entry) ==
    /\ N' = N + 1
    /\ actions'[N + 1] = entry
    /\ \A i \in 1 .. N : actions'[i] = actions[i]

Sets(n, entry) ==
    /\ N' = N
    /\ n \in 1 .. N
    /\ \A i \in 1 .. N : actions'[i] = IF i = n THEN entry ELSE actions[i]

\* An announcement appends its entry.
LEMMA AnnounceAdds ==
    ASSUME TypeInv, NEW entry \in Action, Announce(entry)
    PROVE  Adds(entry)
  BY JournalFacts, AppendedJournal DEF Announce, Adds, N

\* The last entry is amended.
LEMMA AmendSets ==
    ASSUME TypeInv, pc \in InAction, NEW entry \in Action,
           actions' = [actions EXCEPT ![N] = entry]
    PROVE  Sets(N, entry)
  <1>1. N \in 1 .. Len(actions) /\ actions \in Seq(Action) /\ N = Len(actions)
    BY UnderWay DEF N
  <1>. QED
    BY <1>1, AmendedJournal DEF Sets, N

\* The phase of the entry at the cursor is amended.
LEMMA PhaseSets ==
    ASSUME TypeInv, pc \in InUndo, NEW phase \in Phases,
           actions' = [actions EXCEPT ![cursor].phase = phase]
    PROVE  Sets(cursor, [Undone EXCEPT !.phase = phase])
  <1>1. /\ cursor \in 1 .. Len(actions) /\ actions \in Seq(Action) /\ N = Len(actions)
        /\ Undone \in Action
    BY Undoes DEF N
  <1>2. [Undone EXCEPT !.phase = phase] \in Action
    BY <1>1, ActionFacts
  <1>3. actions' = [actions EXCEPT ![cursor] = [Undone EXCEPT !.phase = phase]]
    BY DEF Undone
  <1>. QED
    BY <1>1, <1>2, <1>3, AmendedJournal DEF Sets, N

-----------------------------------------------------------------------------
(* The phases and marks of the journal, the report *)

\* An action still to be undone.
Due(a) == a.phase \in {"planned", "applied"}

Forward == {"operate", "plan", "begin-rollback"} \cup InAction

\* Rollback works from the last action to the first, and passes every one once.
Phased ==
    /\ pc \in Forward => \A i \in 1 .. N : Due(actions[i])
    /\ pc \in {"undo", "undo-move"} => \A i \in 1 .. N : Due(actions[i]) <=> i <= cursor
    /\ pc = "undo-persist" => \A i \in 1 .. N : Due(actions[i]) <=> i < cursor
    /\ pc = "end-rollback" => \A i \in 1 .. N : ~Due(actions[i])
    /\ pc \in {"release", "done"} =>
          \A i \in 1 .. N : Due(actions[i]) <=> state = "committed"
    /\ ~manual => \A i \in 1 .. N : actions[i].phase # "rollback-failed"
    /\ pc \in Forward \ {"begin-rollback"} => ~manual

\* The report says what the journal on disk says, unless a person has to look.
Reported ==
    /\ pc \in InUndo \cup {"end-rollback"} => state = "rolling-back"
    /\ pc = "release" => state \in {"committed", "rolled-back", "rollback-failed"}
    /\ pc \in {"release", "done"} /\ state \in {"committed", "rolled-back"} =>
          disk = [state |-> state, actions |-> actions]
    /\ pc \in {"release", "done"} /\ state = "rolled-back" => ~manual
    /\ pc # "done" => result = NoResult
    /\ pc = "done" =>
          /\ result.status # "none"
          /\ result.exit # ManualRecovery => lock = "free" /\ result.status # "rollback-failed"
          /\ result.status # "rollback-failed" => result.status = state

MarksOf(kind) ==
    CASE kind = "create" -> {"pending", "owned", "not-owned"}
      [] kind = "replace" -> {"none"}
      [] OTHER -> {"pending", "written", "not-written"}

\* Only the last action can be one of which it is not known whether it took effect.
Entries ==
    \A i \in 1 .. N :
        /\ actions[i].mark \in MarksOf(actions[i].kind)
        /\ actions[i].mark = "pending" => i = N
        /\ actions[i].kind # "replace" => actions[i].data = i

KindOf(op) ==
    CASE op \in {"create", "ensure", "store"} -> "create"
      [] op = "remove" -> "replace"
      [] OTHER -> "write"

\* The action under way.
AtHand ==
    pc \in InAction =>
        /\ actions[N].phase = "planned"
        /\ actions[N].kind = KindOf(Head(todo).op)
        /\ pc \in {"mutate", "record"} => actions[N].mark \in {"pending", "none"}
        /\ pc = "move" => actions[N].kind = "replace"
        /\ pc = "record" => actions[N].kind # "replace"
        /\ pc = "apply" => Head(todo).op = "create" /\ actions[N].mark = "owned"
        /\ pc = "seal" => actions[N].mark \in {"owned", "written", "none"}
        /\ pc \in {"mutate", "move"} => backup[N].old = Absent

Sealed(m) == \A i \in 1 .. m : actions[i].phase = "applied" /\ actions[i].mark # "pending"

\* As long as no call has failed, every earlier action is settled.
Settling ==
    /\ pc \in InAction => Sealed(N - 1)
    /\ pc \in {"operate", "plan"} /\ failure = NoExit => Sealed(N)
    /\ pc \in {"release", "done"} /\ state = "committed" => Sealed(N)

LedgerInv == Quiet /\ Phased /\ Reported /\ Entries /\ AtHand /\ Settling

\* What an action may make of its own entry.
Fits(a) ==
    /\ Due(a)
    /\ a.kind = actions[N].kind /\ a.data = actions[N].data
    /\ a.mark \in MarksOf(a.kind)

\* A call that throws.
LEMMA LedgerThrows ==
    ASSUME TypeInv, LedgerInv, pc \in {"operate", "plan"} \cup InAction,
           NEW exit, NEW phys, Throw(exit, phys), exit # NoExit, UNCHANGED result,
           UNCHANGED actions \/ \E a : Sets(N, a) /\ Fits(a)
    PROVE  LedgerInv'
  <1>1. pc' = "operate" /\ failure' # NoExit /\ pc' \notin InAction /\ ~manual /\ manual' = manual
        /\ pc \in Forward
    BY DEF Throw, InAction, LedgerInv, Phased, Forward
  <1>2. /\ \A i \in 1 .. N : Due(actions[i])
        /\ N \in Nat
    BY <1>1, JournalFacts DEF LedgerInv, Phased
  <1>3. /\ N' = N /\ \A i \in 1 .. N : Due(actions'[i])
        /\ Entries'
    <2>1. CASE UNCHANGED actions
      BY <1>2, <2>1 DEF LedgerInv, Entries, N
    <2>2. CASE \E a : Sets(N, a) /\ Fits(a)
      BY <1>2, <2>2 DEF LedgerInv, Entries, Sets, Fits
    <2>. QED
      BY <2>1, <2>2
  <1>4. Phased'
    BY <1>1, <1>3 DEF Phased, Due, Forward
  <1>5. Quiet' /\ AtHand' /\ Settling' /\ Reported'
    BY <1>1 DEF Quiet, AtHand, Settling, Reported, LedgerInv, InAction, InUndo
  <1>. QED
    BY <1>3, <1>4, <1>5 DEF LedgerInv

\* An action goes on.
LEMMA LedgerGoes ==
    ASSUME TypeInv, LedgerInv, pc \in InAction, NEW label \in InAction, Goto(label),
           UNCHANGED result, label \notin {"mutate", "plan"},
           \/ UNCHANGED actions
           \/ \E a : Sets(N, a) /\ Fits(a) /\ a.phase = "planned",
           label = "move" => actions[N].kind = "replace" /\ backup'[N].old = Absent,
           label = "record" => actions[N].kind # "replace" /\ actions'[N].mark = "pending",
           label = "apply" => Head(todo).op = "create" /\ actions'[N].mark = "owned",
           label = "seal" => actions'[N].mark \in {"owned", "written", "none"}
    PROVE  LedgerInv'
  <1>1. /\ pc' = label /\ UNCHANGED <<todo, failure, manual>> /\ ~manual
        /\ pc \in Forward /\ pc' \in Forward
    BY DEF Goto, failVars, InAction, LedgerInv, Phased, Forward
  <1>2. /\ \A i \in 1 .. N : Due(actions[i])
        /\ N \in 1 .. N /\ N \in Nat
    BY <1>1, UnderWay, JournalFacts DEF LedgerInv, Phased
  <1>3. /\ N' = N /\ \A i \in 1 .. N : Due(actions'[i])
        /\ Entries' /\ actions'[N].phase = "planned" /\ actions'[N].kind = actions[N].kind
        /\ \A i \in 1 .. N - 1 : actions'[i] = actions[i]
    <2>1. CASE UNCHANGED actions
      BY <1>2, <2>1 DEF LedgerInv, Entries, N, AtHand
    <2>2. CASE \E a : Sets(N, a) /\ Fits(a) /\ a.phase = "planned"
      BY <1>2, <2>2 DEF LedgerInv, Entries, Sets, Fits
    <2>. QED
      BY <2>1, <2>2
  <1>4. Phased'
    BY <1>1, <1>3 DEF Phased, Due, Forward, InAction
  <1>5. Quiet' /\ Settling' /\ Reported'
    BY <1>1, <1>3 DEF Quiet, Settling, Sealed, Reported, LedgerInv, InAction, InUndo
  <1>6. AtHand'
    BY <1>1, <1>3 DEF AtHand, LedgerInv, InAction
  <1>. QED
    BY <1>3, <1>4, <1>5, <1>6 DEF LedgerInv

\* An action is settled, and the next task of its call comes up.
LEMMA LedgerComesUp ==
    ASSUME TypeInv, LedgerInv, pc \in InAction, NextTask, UNCHANGED result,
           NEW a, Sets(N, a), Fits(a), a.phase = "applied", a.mark # "pending"
    PROVE  LedgerInv'
  <1>1. /\ pc' \in {"operate", "plan"} /\ pc' \notin InAction /\ pc' \in Forward
        /\ UNCHANGED <<failure, manual>> /\ ~manual /\ pc \in Forward
    BY DEF NextTask, failVars, InAction, LedgerInv, Phased, Forward
  <1>2. /\ \A i \in 1 .. N : Due(actions[i])
        /\ N \in 1 .. N /\ N \in Nat /\ failure = NoExit
    BY <1>1, UnderWay, JournalFacts DEF LedgerInv, Phased, Quiet
  <1>3. /\ N' = N /\ \A i \in 1 .. N : Due(actions'[i])
        /\ Entries'
    BY <1>2 DEF LedgerInv, Entries, Sets, Fits
  <1>4. Sealed(N)'
    BY <1>2 DEF Sealed, LedgerInv, Settling, Sets
  <1>5. Phased'
    BY <1>1, <1>3 DEF Phased, Due, Forward, InAction
  <1>6. Quiet' /\ AtHand' /\ Settling' /\ Reported'
    BY <1>1, <1>2, <1>4 DEF Quiet, AtHand, Settling, Reported, LedgerInv, InAction, InUndo
  <1>. QED
    BY <1>3, <1>5, <1>6 DEF LedgerInv

\* An action is announced.
LEMMA LedgerAnnounces ==
    ASSUME WriteAheadInv, LedgerInv, pc = "plan", NEW entry \in Action, Announce(entry),
           UNCHANGED result, entry.phase = "planned", entry.mark \in {"pending", "none"},
           entry.mark \in MarksOf(entry.kind), entry.kind = KindOf(Head(todo).op),
           entry.kind # "replace" => entry.data = N + 1,
           backup'[N + 1].old = Absent
    PROVE  LedgerInv'
  <1>1. Adds(entry) /\ N \in Nat /\ ~manual /\ failure = NoExit
    BY AnnounceAdds, JournalFacts DEF WriteAheadInv, LedgerInv, Phased, Forward, Quiet, InAction
  <1>2. /\ \A i \in 1 .. N : Due(actions[i])
        /\ Sealed(N)
    BY <1>1 DEF LedgerInv, Phased, Forward, Settling
  <1>3. /\ N' = N + 1 /\ actions'[N + 1] = entry
        /\ \A i \in 1 .. N : actions'[i] = actions[i]
        /\ \A i \in 1 .. N + 1 : i \in 1 .. N \/ i = N + 1
    BY <1>1 DEF Adds
  <1>4. Entries'
    BY <1>2, <1>3 DEF Entries, LedgerInv, Sealed
  <1>5. \A i \in 1 .. N + 1 : Due(actions'[i])
    BY <1>2, <1>3 DEF Due
  <1>6. CASE Goto("mutate")
    <2>1. pc' = "mutate" /\ UNCHANGED <<todo, failure, manual>>
      BY <1>6 DEF Goto, failVars
    <2>2. Phased'
      BY <1>1, <1>3, <1>5, <2>1 DEF Phased, Due, Forward, InAction
    <2>3. /\ N' - 1 = N
          /\ \A i \in 1 .. N' - 1 : actions'[i].phase = "applied" /\ actions'[i].mark # "pending"
      BY <1>2, <1>1, <1>3 DEF Sealed
    <2>4. Quiet' /\ AtHand' /\ Settling' /\ Reported'
      BY <1>1, <1>3, <2>1, <2>3
         DEF Quiet, AtHand, Settling, Sealed, Reported, LedgerInv, InAction, InUndo
    <2>. QED
      BY <1>4, <2>2, <2>4 DEF LedgerInv
  <1>7. CASE Throw(Internal, FALSE)
    <2>1. pc' = "operate" /\ failure' # NoExit /\ UNCHANGED manual
      BY <1>7 DEF Throw, Internal, NoExit
    <2>2. Phased'
      BY <1>1, <1>3, <1>5, <2>1 DEF Phased, Due, Forward, InAction
    <2>3. Quiet' /\ AtHand' /\ Settling' /\ Reported'
      BY <2>1 DEF Quiet, AtHand, Settling, Reported, LedgerInv, InAction, InUndo
    <2>. QED
      BY <1>4, <2>2, <2>3 DEF LedgerInv
  <1>. QED
    BY <1>6, <1>7 DEF Announce

\* The failures a call can throw are failures.
LEMMA ExitsDiffer ==
    /\ NoExit \notin {Conflict, VerifyFailure, ManualRecovery, Contract, Security, Internal}
    /\ ManualRecovery # NoExit
  BY DEF NoExit, Conflict, VerifyFailure, ManualRecovery, Contract, Security, Internal

\* A context call starts, or is refused.
LEMMA LedgerCalls ==
    ASSUME WriteAheadInv, LedgerInv, NEW p \in Path, NEW expect \in Object,
           \/ CallCreate(p) \/ CallWriteState(p) \/ CallRemove(p, expect)
           \/ CallDocument(p, expect) \/ CallStaleCurrent(p, expect)
    PROVE  LedgerInv'
  <1>1. CASE CallStaleCurrent(p, expect)
    BY <1>1, LedgerThrows, ExitsDiffer DEF WriteAheadInv, CallStaleCurrent, MayCall, journalVars
  <1>2. CASE ~CallStaleCurrent(p, expect)
    <2>1. /\ pc = "operate" /\ failure = NoExit /\ pc' = "plan"
          /\ UNCHANGED <<actions, disk, state, failure, manual, result, lock>>
      BY <1>2
         DEF CallCreate, CallWriteState, CallRemove, CallDocument, Start, MayCall, journalVars,
             failVars
    <2>2. Phased'
      BY <2>1 DEF LedgerInv, Phased, Due, Forward, InAction, N
    <2>3. Quiet' /\ AtHand' /\ Settling' /\ Reported' /\ Entries'
      BY <2>1
         DEF Quiet, AtHand, Settling, Sealed, Reported, Entries, LedgerInv, InAction, InUndo, N
    <2>. QED
      BY <2>2, <2>3 DEF LedgerInv
  <1>. QED
    BY <1>1, <1>2

\* The planning of an action.
LEMMA LedgerPlans ==
    ASSUME WriteAheadInv, LedgerInv, Plan
    PROVE  LedgerInv'
  <1>0. pc = "plan"
    BY DEF Plan, PlanRefused, PlanCreate, PlanRemove, PlanRemoveRefused, PlanDocument,
           PlanDocumentRefused
  <1>1. /\ Here \in Path /\ home[Here] \in Object /\ N + 1 \in 1 .. MaxActions /\ N \in Nat
        /\ backup \in [1 .. MaxActions -> Slots] /\ backup[N + 1].old = Absent
        /\ Head(todo).op \in {"create", "ensure", "store", "remove", "document"}
    <2>1. /\ todo \in Seq(Task) /\ todo # <<>> /\ Len(todo) \in Nat \ {0}
          /\ N + Len(todo) <= MaxActions /\ N \in Nat /\ home \in [Path -> Object]
          /\ backup \in [1 .. MaxActions -> Slots]
      BY <1>0, EmptySeq, JournalFacts DEF WriteAheadInv, TypeInv, TypeOK, Room
    <2>2. N + 1 \in 1 .. MaxActions /\ Head(todo) \in Task
      BY <2>1, HeadTask, BoundsAssumption
    <2>. QED
      BY <2>1, <2>2, HeadTask DEF Task, WriteAheadInv, JournalInv, Idle
  <1>2. CASE PlanRefused \/ PlanRemoveRefused \/ PlanDocumentRefused
    <2>1. /\ UNCHANGED <<actions, result>>
          /\ \E exit \in {Conflict, Contract, Security, Internal}, phys \in BOOLEAN :
                Throw(exit, phys)
      BY <1>2 DEF PlanRefused, PlanRemoveRefused, PlanDocumentRefused, journalVars
    <2>. QED
      BY <1>0, <2>1, LedgerThrows, ExitsDiffer DEF WriteAheadInv
  <1>3. CASE PlanCreate
    <2>. DEFINE entry == Entry("create", Here, "pending", [id |-> Gone, data |-> N + 1], FALSE)
    <2>1. entry \in Action
      <3>1. [id |-> Gone, data |-> N + 1] \in Object
        BY <1>1, StampFacts DEF Object
      <3>. QED
        BY <1>1, <3>1, EntryIsAction DEF Marks
    <2>2. /\ entry.phase = "planned" /\ entry.mark = "pending" /\ entry.kind = "create"
          /\ entry.data = N + 1
      BY DEF Entry
    <2>3. /\ KindOf(Head(todo).op) = "create" /\ UNCHANGED <<result, backup>>
          /\ Announce(entry)
      BY <1>3 DEF PlanCreate, KindOf
    <2>. HIDE DEF entry
    <2>. QED
      BY <1>0, <1>1, <2>1, <2>2, <2>3, LedgerAnnounces DEF MarksOf
  <1>4. CASE PlanRemove
    <2>. DEFINE entry == Entry("replace", Here, "none", home[Here], TRUE)
    <2>1. entry \in Action
      BY <1>1, EntryIsAction DEF Marks
    <2>2. entry.phase = "planned" /\ entry.mark = "none" /\ entry.kind = "replace"
      BY DEF Entry
    <2>3. /\ KindOf(Head(todo).op) = "replace" /\ UNCHANGED <<result, backup>>
          /\ Announce(entry)
      BY <1>4 DEF PlanRemove, KindOf
    <2>. HIDE DEF entry
    <2>. QED
      BY <1>0, <1>1, <2>1, <2>2, <2>3, LedgerAnnounces DEF MarksOf
  <1>5. CASE PlanDocument
    <2>1. PICK had \in BOOLEAN :
             Announce(Entry("write", Here, "pending", Made(N + 1), had))
      BY <1>5 DEF PlanDocument
    <2>. DEFINE entry == Entry("write", Here, "pending", Made(N + 1), had)
    <2>2. entry \in Action
      BY <1>1, EntryIsAction, MadeIsObject DEF Marks
    <2>3. /\ entry.phase = "planned" /\ entry.mark = "pending" /\ entry.kind = "write"
          /\ entry.data = N + 1
      BY DEF Entry, Made
    <2>4. /\ KindOf(Head(todo).op) = "write" /\ UNCHANGED result
          /\ backup'[N + 1].old = Absent
      BY <1>1, <1>5 DEF PlanDocument, KindOf, Slots
    <2>. HIDE DEF entry
    <2>. QED
      BY <1>0, <1>1, <2>1, <2>2, <2>3, <2>4, LedgerAnnounces DEF MarksOf, entry
  <1>. QED
    BY <1>2, <1>3, <1>4, <1>5 DEF Plan

\* The mutation of DSH_HOME.
LEMMA LedgerMutates ==
    ASSUME WriteAheadInv, LedgerInv, Mutate
    PROVE  LedgerInv'
  <1>1. pc \in InAction /\ pc \in {"mutate", "move"} /\ "record" \in InAction
        /\ "move" \in InAction /\ "seal" \in InAction
    BY DEF Mutate, CreateHappens, CreateTaken, CreateFails, Creating, RemoveChecked, RemoveStale,
           Removing, MoveAside, MoveAsideGone, MoveAsideFails, DocumentSwapped, DocumentStale,
           DocumentFails, SettingsLockTimeout, Writing, InAction
  <1>2. /\ actions[N] \in Action /\ Due(actions[N]) /\ actions[N].phase = "planned"
        /\ actions[N].kind = KindOf(Head(todo).op)
        /\ actions[N].mark \in MarksOf(actions[N].kind)
        /\ pc = "mutate" => actions[N].mark \in {"pending", "none"}
        /\ pc = "move" => actions[N].kind = "replace"
        /\ backup[N].old = Absent
    BY <1>1, UnderWay DEF WriteAheadInv, LedgerInv, AtHand, Entries, Due, N
  <1>3. ASSUME NEW exit \in {Conflict, Contract, Internal}, NEW phys \in BOOLEAN,
               Throw(exit, phys), UNCHANGED <<actions, result>>
        PROVE  LedgerInv'
    BY <1>1, <1>3, LedgerThrows, ExitsDiffer DEF WriteAheadInv
  <1>4. ASSUME NEW m \in Marks, NEW phase \in {"planned", "applied"}, NEW a,
               a = [actions[N] EXCEPT !.mark = m] \/ a = [actions[N] EXCEPT !.mark = m, !.phase = phase],
               actions' = [actions EXCEPT ![N] = a],
               m \in MarksOf(actions[N].kind)
        PROVE  Sets(N, a) /\ Fits(a) /\ a.mark = m
    <2>1. a \in Action /\ Fits(a) /\ a.mark = m
      BY <1>2, <1>4 DEF Action, Fits, Due, Phases
    <2>. QED
      BY <1>1, <1>4, <2>1, AmendSets DEF WriteAheadInv
  <1>5. CASE CreateHappens \/ DocumentSwapped
    <2>1. Goto("record") /\ UNCHANGED <<actions, result>> /\ pc = "mutate"
          /\ Head(todo).op # "remove"
      BY <1>5 DEF CreateHappens, Creating, DocumentSwapped, Writing, journalVars
    <2>2. actions[N].kind # "replace" /\ actions[N].mark = "pending"
      BY <1>2, <2>1 DEF KindOf, MarksOf
    <2>. QED
      BY <1>1, <2>1, <2>2, LedgerGoes DEF WriteAheadInv
  <1>6. CASE CreateTaken
    <2>1. /\ actions[N].kind = "create" /\ UNCHANGED result
      BY <1>2, <1>6 DEF CreateTaken, Creating, KindOf
    <2>2. "not-owned" \in MarksOf(actions[N].kind) /\ "not-owned" \in Marks
      BY <2>1 DEF MarksOf, Marks
    <2>. DEFINE a == [actions[N] EXCEPT !.mark = "not-owned"]
                b == [a EXCEPT !.phase = "applied"]
    <2>3. CASE Amend(a, Throw(Conflict, FALSE))
      BY <1>1, <1>4, <2>1, <2>2, <2>3, LedgerThrows, ExitsDiffer DEF Amend, WriteAheadInv
    <2>4. CASE Amend(b, NextTask)
      <3>1. b = [actions[N] EXCEPT !.mark = "not-owned", !.phase = "applied"]
        OBVIOUS
      <3>2. b.phase = "applied"
        BY <1>2 DEF Action
      <3>3. Sets(N, b) /\ Fits(b) /\ b.mark = "not-owned"
        BY <1>4, <2>2, <2>4, <3>1 DEF Amend
      <3>. HIDE DEF b
      <3>. QED
        BY <1>1, <2>1, <2>4, <3>2, <3>3, LedgerThrows, LedgerComesUp, ExitsDiffer
           DEF Amend, WriteAheadInv
    <2>. QED
      BY <1>6, <2>3, <2>4 DEF CreateTaken
  <1>7. CASE CreateFails \/ RemoveStale \/ MoveAsideGone \/ MoveAsideFails \/ DocumentFails
             \/ SettingsLockTimeout
    <2>1. /\ UNCHANGED <<actions, result>>
          /\ \E exit \in {Conflict, Contract, Internal}, phys \in BOOLEAN : Throw(exit, phys)
      BY <1>7
         DEF CreateFails, RemoveStale, MoveAsideGone, MoveAsideFails, DocumentFails,
             SettingsLockTimeout, journalVars
    <2>. QED
      BY <1>3, <2>1
  <1>8. CASE RemoveChecked
    <2>1. /\ Goto("move") /\ UNCHANGED <<actions, result, backup>>
          /\ actions[N].kind = "replace"
      BY <1>2, <1>8 DEF RemoveChecked, Removing, KindOf, journalVars
    <2>. QED
      BY <1>1, <1>2, <2>1, LedgerGoes DEF WriteAheadInv
  <1>9. CASE MoveAside
    <2>1. UNCHANGED actions /\ UNCHANGED result /\ pc = "move"
      BY <1>9 DEF MoveAside, journalVars
    <2>2. actions[N].mark = "none" /\ actions'[N].mark = "none"
      BY <1>2, <2>1 DEF MarksOf
    <2>3. CASE Goto("seal")
      BY <1>1, <2>1, <2>2, <2>3, LedgerGoes DEF WriteAheadInv
    <2>4. CASE Throw(Contract, FALSE)
      BY <1>3, <2>1, <2>4
    <2>. QED
      BY <1>9, <2>3, <2>4 DEF MoveAside
  <1>10. CASE DocumentStale
    <2>1. actions[N].kind = "write" /\ UNCHANGED result
      BY <1>2, <1>10 DEF DocumentStale, Writing, KindOf
    <2>2. "not-written" \in MarksOf(actions[N].kind) /\ "not-written" \in Marks
      BY <2>1 DEF MarksOf, Marks
    <2>. DEFINE a == [actions[N] EXCEPT !.mark = "not-written"]
    <2>3. Amend(a, Throw(Contract, FALSE))
      BY <1>10 DEF DocumentStale
    <2>. QED
      BY <1>1, <1>4, <2>1, <2>2, <2>3, LedgerThrows, ExitsDiffer DEF Amend, WriteAheadInv
  <1>. QED
    BY <1>5, <1>6, <1>7, <1>8, <1>9, <1>10 DEF Mutate

\* Ownership is recorded, the artifact filled, the action sealed.
LEMMA LedgerRecords ==
    ASSUME WriteAheadInv, LedgerInv, Record
    PROVE  LedgerInv'
  <1>1. /\ pc \in InAction /\ pc \in {"record", "apply", "seal"}
        /\ "apply" \in InAction /\ "seal" \in InAction
    BY DEF Record, RecordCreated, RecordLost, RecordWritten, Apply, ApplyFails, Seal, InAction
  <1>2. /\ actions[N] \in Action /\ actions[N].phase = "planned"
        /\ actions[N].kind = KindOf(Head(todo).op)
        /\ actions[N].mark \in MarksOf(actions[N].kind)
        /\ pc = "apply" => actions[N].mark = "owned"
        /\ pc = "seal" => actions[N].mark \in {"owned", "written", "none"}
        /\ home[Here] \in Object
    BY <1>1, UnderWay DEF WriteAheadInv, LedgerInv, AtHand, Entries, N
  <1>3. CASE RecordLost \/ ApplyFails
    <2>1. /\ UNCHANGED <<actions, result>>
          /\ \E exit \in {VerifyFailure, Internal} : Throw(exit, FALSE)
      BY <1>3 DEF RecordLost, ApplyFails, journalVars
    <2>. QED
      BY <1>1, <2>1, LedgerThrows, ExitsDiffer DEF WriteAheadInv
  <1>4. CASE RecordCreated
    <2>. DEFINE a == [actions[N] EXCEPT !.mark = "owned", !.id = home[Here].id]
    <2>1. /\ actions[N].kind = "create" /\ UNCHANGED result
          /\ actions' = [actions EXCEPT ![N] = a]
          /\ \/ Goto("apply") /\ Head(todo).op = "create"
             \/ Goto("seal")
             \/ Throw(Internal, FALSE)
      BY <1>2, <1>4 DEF RecordCreated, Amend, KindOf
    <2>2. a \in Action
      BY <1>2, ActionFacts, ObjectFacts DEF Marks
    <2>3. /\ a.phase = "planned" /\ a.mark = "owned" /\ a.kind = actions[N].kind
          /\ a.data = actions[N].data
      BY <1>2 DEF Action
    <2>4. Fits(a)
      BY <2>1, <2>3 DEF Fits, Due, MarksOf
    <2>5. Sets(N, a)
      BY <1>1, <2>1, <2>2, AmendSets DEF WriteAheadInv
    <2>6. actions'[N].mark = "owned"
      BY <2>3, <2>5 DEF Sets
    <2>. HIDE DEF a
    <2>. QED
      BY <1>1, <2>1, <2>3, <2>4, <2>5, <2>6, LedgerThrows, LedgerGoes, ExitsDiffer DEF WriteAheadInv
  <1>5. CASE RecordWritten
    <2>. DEFINE a == [actions[N] EXCEPT !.mark = "written"]
    <2>1. /\ actions[N].kind = "write" /\ UNCHANGED result
          /\ actions' = [actions EXCEPT ![N] = a]
          /\ Goto("seal") \/ Throw(Internal, FALSE)
      BY <1>2, <1>5 DEF RecordWritten, Amend, KindOf
    <2>2. /\ a \in Action /\ Fits(a) /\ a.phase = "planned" /\ a.mark = "written"
      BY <1>2, <2>1 DEF Action, Fits, Due, MarksOf, Marks
    <2>3. Sets(N, a)
      BY <1>1, <2>1, <2>2, AmendSets DEF WriteAheadInv
    <2>4. actions'[N].mark = "written"
      BY <2>2, <2>3 DEF Sets
    <2>. HIDE DEF a
    <2>. QED
      BY <1>1, <2>1, <2>2, <2>3, <2>4, LedgerThrows, LedgerGoes, ExitsDiffer DEF WriteAheadInv
  <1>6. CASE Apply
    <2>1. UNCHANGED <<actions, result>> /\ Goto("seal") /\ actions[N].mark = "owned"
      BY <1>2, <1>6 DEF Apply, journalVars
    <2>2. actions'[N].mark = "owned"
      BY <2>1
    <2>. QED
      BY <1>1, <2>1, <2>2, LedgerGoes DEF WriteAheadInv
  <1>7. CASE Seal
    <2>. DEFINE a == [actions[N] EXCEPT !.phase = "applied"]
    <2>1. /\ pc = "seal" /\ UNCHANGED result /\ actions' = [actions EXCEPT ![N] = a]
          /\ NextTask \/ Throw(Internal, FALSE)
      BY <1>7 DEF Seal, Amend
    <2>2. /\ a \in Action /\ Fits(a) /\ a.phase = "applied" /\ a.mark # "pending"
      BY <1>2, <2>1 DEF Action, Fits, Due, Phases
    <2>3. Sets(N, a)
      BY <1>1, <2>1, <2>2, AmendSets DEF WriteAheadInv
    <2>. HIDE DEF a
    <2>. QED
      BY <1>1, <2>1, <2>2, <2>3, LedgerThrows, LedgerComesUp, ExitsDiffer DEF WriteAheadInv
  <1>. QED
    BY <1>3, <1>4, <1>5, <1>6, <1>7 DEF Record

\* The operation ends, rollback begins and ends, the lock is released.
LEMMA LedgerEnds ==
    ASSUME WriteAheadInv, LedgerInv,
           Finish \/ StartRollback \/ EndRollback \/ Release \/ ReleaseFails
    PROVE  LedgerInv'
  <1>1. UNCHANGED actions /\ N' = N /\ N \in Nat
    BY JournalFacts DEF Finish, Commit, Abort, AbortAfterFailure, StartRollback, EndRollback, Release, ReleaseFails,
           journalVars, N, WriteAheadInv
  <1>2. Entries'
    BY <1>1 DEF LedgerInv, Entries
  <1>3. pc' \notin {"plan"} \cup InAction
    BY DEF Finish, Commit, Abort, AbortAfterFailure, BeginRollback, StartRollback, EndRollback,
           Release, ReleaseFails, Return, Goto, InAction
  <1>4. Quiet' /\ AtHand'
    BY <1>3 DEF Quiet, AtHand, InAction
  <1>5. CASE Commit
    <2>1. /\ pc = "operate" /\ failure = NoExit /\ state' = "committed" /\ UNCHANGED result
          /\ \/ /\ disk' = [state |-> "committed", actions |-> actions]
                /\ pc' = "release" /\ UNCHANGED manual
             \/ pc' = "begin-rollback"
      BY <1>5 DEF Commit, Persist, BeginRollback, Goto, failVars
    <2>2. /\ Sealed(N) /\ ~manual /\ result = NoResult /\ \A i \in 1 .. N : Due(actions[i])
      BY <2>1 DEF LedgerInv, Settling, Phased, Reported, Forward, InAction
    <2>3. Phased'
      BY <1>1, <2>1, <2>2 DEF Phased, Due, Forward, InAction
    <2>4. Reported' /\ Settling'
      BY <1>1, <2>1, <2>2 DEF Reported, Settling, Sealed, InAction, InUndo
    <2>. QED
      BY <1>2, <1>4, <2>3, <2>4 DEF LedgerInv
  <1>6. CASE Abort \/ AbortAfterFailure
    <2>1. /\ pc = "operate" /\ pc' = "begin-rollback" /\ UNCHANGED <<state, disk, result>>
      BY <1>6 DEF Abort, AbortAfterFailure, BeginRollback, journalVars
    <2>2. Phased' /\ Reported' /\ Settling'
      BY <1>1, <2>1
         DEF LedgerInv, Phased, Reported, Settling, Due, Forward, InAction, InUndo
    <2>. QED
      BY <1>2, <1>4, <2>2 DEF LedgerInv
  <1>7. CASE StartRollback
    <2>1. /\ pc = "begin-rollback" /\ state' = "rolling-back" /\ cursor' = N
          /\ pc' = IF N = 0 THEN "end-rollback" ELSE "undo"
          /\ manual' = manual \/ manual' = TRUE
          /\ UNCHANGED result
      BY <1>7 DEF StartRollback
    <2>2. /\ \A i \in 1 .. N : Due(actions[i])
          /\ result = NoResult
      BY <2>1 DEF LedgerInv, Phased, Reported, Forward
    <2>3. Phased'
      BY <1>1, <2>1, <2>2 DEF Phased, Due, Forward, InAction
    <2>4. Reported' /\ Settling'
      BY <1>1, <2>1, <2>2 DEF Reported, Settling, InAction, InUndo
    <2>. QED
      BY <1>2, <1>4, <2>3, <2>4 DEF LedgerInv
  <1>8. CASE EndRollback
    <2>1. /\ pc = "end-rollback" /\ pc' = "release" /\ UNCHANGED result
          /\ \/ /\ state' = IF manual THEN "rollback-failed" ELSE "rolled-back"
                /\ disk' = [state |-> state', actions |-> actions] /\ UNCHANGED manual
             \/ state' = "rollback-failed" /\ manual' = TRUE
      BY <1>8 DEF EndRollback, Persist
    <2>2. /\ \A i \in 1 .. N : ~Due(actions[i])
          /\ result = NoResult
          /\ ~manual => \A i \in 1 .. N : actions[i].phase # "rollback-failed"
      BY <2>1 DEF LedgerInv, Phased, Reported, Forward
    <2>3. Phased'
      BY <1>1, <2>1, <2>2 DEF Phased, Due, Forward, InAction
    <2>4. Reported' /\ Settling'
      BY <1>1, <2>1, <2>2 DEF Reported, Settling, InAction, InUndo
    <2>. QED
      BY <1>2, <1>4, <2>3, <2>4 DEF LedgerInv
  <1>9. CASE Release \/ ReleaseFails
    <2>1. /\ pc = "release" /\ pc' = "done"
          /\ \/ /\ lock' = "free" /\ UNCHANGED <<state, disk, manual>>
                /\ \/ state = "committed" /\ result'.status = "committed"
                   \/ state = "rolled-back" /\ result'.status = "rolled-back"
                   \/ /\ state \notin {"committed", "rolled-back"}
                      /\ result' = [status |-> "rollback-failed", exit |-> ManualRecovery]
             \/ /\ state = "committed" /\ UNCHANGED <<state, disk, manual>>
                /\ result' = [status |-> "committed", exit |-> ManualRecovery]
             \/ /\ state # "committed" /\ state' = "rollback-failed" /\ manual' = TRUE
                /\ result' = [status |-> "rollback-failed", exit |-> ManualRecovery]
      BY <1>9 DEF Release, ReleaseFails, Return, journalVars, failVars
    <2>2. Phased'
      BY <1>1, <2>1 DEF LedgerInv, Phased, Due, Forward, InAction
    <2>3. Settling'
      BY <1>1, <2>1 DEF LedgerInv, Settling, Sealed, InAction
    <2>4. Reported'
      BY <1>1, <2>1 DEF LedgerInv, Reported, InAction, InUndo
    <2>. QED
      BY <1>2, <1>4, <2>2, <2>3, <2>4 DEF LedgerInv
  <1>. QED
    BY <1>5, <1>6, <1>7, <1>8, <1>9 DEF Finish

\* Undo steps, whatever they do to DSH_HOME.
LEMMA LedgerUndoes ==
    ASSUME WriteAheadInv, LedgerInv, pc \in {"undo", "undo-move"}, UNCHANGED result,
           \/ UndoDone
           \/ UndoImpossible
           \/ Goto("undo-move") /\ UNCHANGED <<actions, cursor, state, disk>>
    PROVE  LedgerInv'
  <1>1. /\ cursor \in 1 .. N /\ N \in Nat /\ Undone \in Action /\ Undone = actions[cursor]
        /\ state = "rolling-back" /\ result = NoResult /\ pc \in InUndo
        /\ \A i \in 1 .. N : Due(actions[i]) <=> i <= cursor
        /\ ~manual => \A i \in 1 .. N : actions[i].phase # "rollback-failed"
    BY Undoes, JournalFacts DEF WriteAheadInv, LedgerInv, Phased, Reported, InUndo, N, Undone
  <1>2. /\ pc' \notin {"plan"} \cup InAction \cup {"operate", "release", "done"}
        /\ pc' \in {"undo", "undo-move", "undo-persist", "end-rollback"}
        /\ UNCHANGED state
    BY DEF UndoDone, UndoImpossible, NextUndo, Goto, InAction
  <1>3. Quiet' /\ AtHand' /\ Settling' /\ Reported'
    BY <1>1, <1>2 DEF Quiet, AtHand, Settling, Reported, InAction, InUndo
  <1>4. ASSUME NEW phase \in Phases, actions' = [actions EXCEPT ![cursor].phase = phase]
        PROVE  /\ N' = N /\ Entries' /\ actions'[cursor].phase = phase
               /\ \A i \in 1 .. N : i # cursor => actions'[i] = actions[i]
    <2>. DEFINE a == [Undone EXCEPT !.phase = phase]
    <2>1. Sets(cursor, a)
      BY <1>1, <1>4, PhaseSets DEF WriteAheadInv
    <2>2. /\ a.phase = phase /\ a.mark = Undone.mark /\ a.kind = Undone.kind
          /\ a.data = Undone.data
      BY <1>1 DEF Action
    <2>. HIDE DEF a
    <2>3. Entries'
      BY <1>1, <2>1, <2>2 DEF LedgerInv, Entries, Sets
    <2>. QED
      BY <1>1, <2>1, <2>2, <2>3 DEF Sets
  <1>5. CASE UndoDone
    <2>1. /\ actions' = [actions EXCEPT ![cursor].phase = "rolled-back"]
          /\ pc' = "undo-persist" /\ UNCHANGED cursor /\ UNCHANGED manual
      BY <1>5 DEF UndoDone, failVars
    <2>2. /\ N' = N /\ Entries' /\ actions'[cursor].phase = "rolled-back"
          /\ \A i \in 1 .. N : i # cursor => actions'[i] = actions[i]
      BY <1>4, <2>1 DEF Phases
    <2>3. \A i \in 1 .. N : Due(actions'[i]) <=> i < cursor
      BY <1>1, <2>2 DEF Due
    <2>4. Phased'
      BY <1>1, <2>1, <2>2, <2>3 DEF Phased, Due, Forward, InAction
    <2>. QED
      BY <1>3, <2>2, <2>4 DEF LedgerInv
  <1>6. CASE UndoImpossible
    <2>1. /\ actions' = [actions EXCEPT ![cursor].phase = "rollback-failed"]
          /\ manual' = TRUE /\ cursor' = cursor - 1
          /\ pc' = IF cursor = 1 THEN "end-rollback" ELSE "undo"
      BY <1>6 DEF UndoImpossible, NextUndo
    <2>2. /\ N' = N /\ Entries' /\ actions'[cursor].phase = "rollback-failed"
          /\ \A i \in 1 .. N : i # cursor => actions'[i] = actions[i]
      BY <1>4, <2>1 DEF Phases
    <2>3. \A i \in 1 .. N : Due(actions'[i]) <=> i < cursor
      BY <1>1, <2>2 DEF Due
    <2>4. Phased'
      BY <1>1, <2>1, <2>2, <2>3 DEF Phased, Due, Forward, InAction
    <2>. QED
      BY <1>3, <2>2, <2>4 DEF LedgerInv
  <1>7. CASE Goto("undo-move") /\ UNCHANGED <<actions, cursor, state, disk>>
    <2>1. pc' = "undo-move" /\ UNCHANGED <<actions, cursor, manual>>
      BY <1>7 DEF Goto, failVars
    <2>2. Phased' /\ Entries'
      BY <1>1, <2>1 DEF LedgerInv, Phased, Entries, Due, Forward, InAction, N
    <2>. QED
      BY <1>3, <2>2 DEF LedgerInv
  <1>. QED
    BY <1>5, <1>6, <1>7

\* What an undo step does besides.
LEMMA UndoSteps ==
    ASSUME UndoActions
    PROVE  /\ pc \in {"undo", "undo-move"} /\ UNCHANGED <<result, lock, pre, touched, live>>
           /\ \/ UndoDone
              \/ UndoImpossible
              \/ /\ Goto("undo-move") /\ UNCHANGED <<actions, cursor, state, disk>>
                 /\ UNCHANGED <<home, backup>>
  <1>1. pc \in {"undo", "undo-move"}
    BY DEF UndoActions, UndoNothing, UndoUnresolved, UndoFails, UndoCreateChecked, UndoCreateMove,
           UndoCreateGone, UndoWrite, UndoWriteStale, UndoWriteUnacknowledged,
           UndoReplaceChecked, UndoReplaceImpossible, UndoReplaceMove, UndoMoveStuck, Undoing
  <1>2. UNCHANGED <<result, lock, pre, touched, live>>
    BY DEF UndoActions, UndoNothing, UndoUnresolved, UndoFails, UndoCreateChecked, UndoCreateMove,
           UndoCreateGone, UndoWrite, UndoWriteStale, UndoWriteUnacknowledged,
           UndoReplaceChecked, UndoReplaceImpossible, UndoReplaceMove, UndoMoveStuck, envVars
  <1>3. \/ UndoDone
        \/ UndoImpossible
        \/ /\ Goto("undo-move") /\ UNCHANGED <<actions, cursor, state, disk>>
           /\ UNCHANGED <<home, backup>>
    BY DEF UndoActions, UndoNothing, UndoUnresolved, UndoFails, UndoCreateChecked, UndoCreateMove,
           UndoCreateGone, UndoWrite, UndoWriteStale, UndoWriteUnacknowledged,
           UndoReplaceChecked, UndoReplaceImpossible, UndoReplaceMove, UndoMoveStuck, journalVars
  <1>. QED
    BY <1>1, <1>2, <1>3

\* The phase of an action undone is persisted.
LEMMA LedgerPersists ==
    ASSUME WriteAheadInv, LedgerInv, UndoPersist
    PROVE  LedgerInv'
  <1>1. /\ pc = "undo-persist" /\ UNCHANGED <<actions, state, result>>
        /\ cursor \in 1 .. N /\ N \in Nat /\ N' = N
        /\ manual' = manual \/ manual' = TRUE
        /\ cursor' = cursor - 1
        /\ pc' = IF cursor = 1 THEN "end-rollback" ELSE "undo"
    BY Undoes, JournalFacts DEF UndoPersist, NextUndo, WriteAheadInv, N, InUndo
  <1>2. /\ \A i \in 1 .. N : Due(actions[i]) <=> i < cursor
        /\ ~manual => \A i \in 1 .. N : actions[i].phase # "rollback-failed"
        /\ state = "rolling-back" /\ result = NoResult
    BY <1>1 DEF LedgerInv, Phased, Reported, InUndo
  <1>3. Phased'
    BY <1>1, <1>2 DEF Phased, Due, Forward, InAction
  <1>4. Quiet' /\ AtHand' /\ Settling' /\ Reported' /\ Entries'
    BY <1>1, <1>2
       DEF LedgerInv, Quiet, AtHand, Settling, Reported, Entries, InAction, InUndo
  <1>. QED
    BY <1>3, <1>4 DEF LedgerInv

\* A crash, and somebody else.
LEMMA LedgerEnvironment ==
    ASSUME LedgerInv, Environment
    PROVE  LedgerInv'
  <1>1. CASE Crash
    <2>1. pc' = "crashed" /\ UNCHANGED <<actions, state, disk, manual, result>> /\ N' = N
          /\ pc # "done"
      BY <1>1 DEF Crash, journalVars, failVars, N, Running
    <2>. QED
      BY <2>1
         DEF LedgerInv, Quiet, Phased, Reported, Entries, AtHand, Settling, Due, Forward, InAction,
             InUndo
  <1>2. CASE \E p \in Path : ForeignWrite(p) \/ ForeignEdit(p) \/ ForeignRemove(p)
    <2>1. UNCHANGED <<backup, actions, state, disk, lock, pc, todo, failure, manual, cursor,
                      result>>
      BY <1>2 DEF ForeignWrite, ForeignEdit, ForeignRemove, ForeignStep, journalVars, failVars
    <2>. QED
      BY <2>1
         DEF LedgerInv, Quiet, Phased, Reported, Entries, AtHand, Settling, Sealed, Due, N
  <1>. QED
    BY <1>1, <1>2 DEF Environment

\* Every step keeps the ledger in order.
LEMMA LedgerInductive == WriteAheadInv /\ LedgerInv /\ [Next]_vars => LedgerInv'
  <1>1. SUFFICES ASSUME WriteAheadInv, LedgerInv, [Next]_vars
                 PROVE  LedgerInv'
    OBVIOUS
  <1>2. CASE Call
    <2>1. \A p \in Path : Snapshots(p) \subseteq Object /\ Absent \in Object
      BY <1>1, SnapshotsAreObjects, StampFacts DEF WriteAheadInv
    <2>. QED
      BY <1>1, <1>2, <2>1, LedgerCalls DEF Call
  <1>3. CASE UndoActions
    BY <1>1, <1>3, UndoSteps, LedgerUndoes
  <1>4. CASE UNCHANGED vars
    BY <1>1, <1>4
       DEF vars, LedgerInv, Quiet, Phased, Reported, Entries, AtHand, Settling, Sealed, Due, N
  <1>5. CASE Undo
    BY <1>1, <1>3, <1>5, LedgerEnds, LedgerPersists DEF Undo, UndoActions
  <1>. QED
    BY <1>1, <1>2, <1>4, <1>5, LedgerPlans, LedgerMutates, LedgerRecords, LedgerEnds,
       LedgerEnvironment DEF Next, Engine

\* It is in order when the journal is published.
LEMMA LedgerInit == Init => LedgerInv
  BY DEF Init, LedgerInv, Quiet, Phased, Reported, Entries, AtHand, Settling, Sealed, Forward, N,
         InAction, InUndo

\* A run that returns any exit code but 25 has released the lock, and journal.json says what it
\* reported (transaction.ts, runTransaction; README: never retry blindly after 25).
THEOREM CleanExits == Spec => []CleanExitIsSettled
  <1>1. WriteAheadInv /\ LedgerInv => CleanExitIsSettled
    <2>1. SUFFICES ASSUME WriteAheadInv, LedgerInv, pc = "done", result.exit # ManualRecovery
                   PROVE  /\ lock = "free"
                          /\ disk = [state |-> result.status, actions |-> actions]
                          /\ \A i \in 1 .. N : actions[i].phase # "rollback-failed"
      BY DEF CleanExitIsSettled
    <2>2. lock = "free" /\ result.status = state /\ result.status \notin {"none", "rollback-failed"}
      BY <2>1 DEF LedgerInv, Reported
    <2>3. state \in {"committed", "rolled-back"}
      <3>1. result.status \in {"none", "committed", "rolled-back", "rollback-failed"}
        BY <2>1 DEF WriteAheadInv, TypeInv, TypeOK
      <3>. QED
        BY <2>2, <3>1
    <2>4. disk = [state |-> result.status, actions |-> actions]
      BY <2>1, <2>2, <2>3 DEF LedgerInv, Reported
    <2>5. \A i \in 1 .. N : actions[i].phase # "rollback-failed"
      BY <2>1, <2>3 DEF LedgerInv, Phased, Reported, Due
    <2>. QED
      BY <2>2, <2>4, <2>5
  <1>. QED
    BY <1>1, WriteAheadInit, WriteAheadInductive, LedgerInit, LedgerInductive, PTL DEF Spec

-----------------------------------------------------------------------------
(* What a step leaves of the entries *)

\* Besides its mark, its phase and its identity an entry is final.
Kin(a, b) == a.kind = b.kind /\ a.path = b.path /\ a.data = b.data /\ a.had = b.had

EntriesStay == N' = N /\ \A i \in 1 .. N : Kin(actions'[i], actions[i])

\* The entries only the planning of an action adds to.
LEMMA EntriesOnlyAmended ==
    ASSUME TypeInv, [Next]_vars, pc # "plan"
    PROVE  EntriesStay
  <1>1. ASSUME NEW a \in Action, Kin(a, actions[N]), actions' = [actions EXCEPT ![N] = a],
               pc \in InAction
        PROVE  EntriesStay
    BY <1>1, AmendSets DEF EntriesStay, Sets, Kin
  <1>2. ASSUME UNCHANGED actions
        PROVE  EntriesStay
    BY <1>2 DEF EntriesStay, Kin, N
  <1>3. CASE Call \/ Environment \/ UNCHANGED vars
    BY <1>2, <1>3
       DEF Call, CallCreate, CallWriteState, CallRemove, CallDocument, CallStaleCurrent, Start,
           Environment, Crash, ForeignWrite, ForeignEdit, ForeignRemove, ForeignStep,
           journalVars, vars
  <1>4. ~Plan
    BY DEF Plan, PlanRefused, PlanCreate, PlanRemove, PlanRemoveRefused, PlanDocument,
           PlanDocumentRefused
  <1>5. CASE Mutate
    <2>1. pc \in InAction
      BY <1>5
         DEF Mutate, CreateHappens, CreateTaken, CreateFails, Creating, RemoveChecked, RemoveStale,
             Removing, MoveAside, MoveAsideGone, MoveAsideFails, DocumentSwapped, DocumentStale,
             DocumentFails, SettingsLockTimeout, Writing, InAction
    <2>2. \/ UNCHANGED actions
          \/ \E m \in Marks, phase \in Phases :
                actions' = [actions EXCEPT ![N] =
                                [[actions[N] EXCEPT !.mark = m] EXCEPT !.phase = phase]]
          \/ \E m \in Marks : actions' = [actions EXCEPT ![N] = [actions[N] EXCEPT !.mark = m]]
      BY <1>5
         DEF Mutate, CreateHappens, CreateTaken, CreateFails, RemoveChecked, RemoveStale,
             MoveAside, MoveAsideGone, MoveAsideFails, DocumentSwapped, DocumentStale,
             DocumentFails, SettingsLockTimeout, Amend, journalVars, Marks, Phases
    <2>3. ASSUME NEW m \in Marks, NEW phase \in Phases
          PROVE  /\ [[actions[N] EXCEPT !.mark = m] EXCEPT !.phase = phase] \in Action
                 /\ [actions[N] EXCEPT !.mark = m] \in Action
                 /\ Kin([[actions[N] EXCEPT !.mark = m] EXCEPT !.phase = phase], actions[N])
                 /\ Kin([actions[N] EXCEPT !.mark = m], actions[N])
      <3>1. actions[N] \in Action
        BY <2>1, UnderWay
      <3>. QED
        BY <3>1 DEF Action, Kin
    <2>4. CASE UNCHANGED actions
      BY <1>2, <2>4
    <2>5. CASE \E m \in Marks : actions' = [actions EXCEPT ![N] = [actions[N] EXCEPT !.mark = m]]
      BY <1>1, <2>1, <2>3, <2>5 DEF Phases
    <2>6. CASE \E m \in Marks, phase \in Phases :
                actions' = [actions EXCEPT ![N] =
                                [[actions[N] EXCEPT !.mark = m] EXCEPT !.phase = phase]]
      BY <1>1, <2>1, <2>3, <2>6
    <2>. QED
      BY <2>2, <2>4, <2>5, <2>6
  <1>6. CASE Record
    <2>1. pc \in InAction
      BY <1>6
         DEF Record, RecordCreated, RecordLost, RecordWritten, Apply, ApplyFails, Seal, InAction
    <2>2. actions[N] \in Action /\ home[Here].id \in Stamp
      BY <2>1, UnderWay, ObjectFacts
    <2>3. CASE RecordCreated
      <3>. DEFINE a == [actions[N] EXCEPT !.mark = "owned", !.id = home[Here].id]
      <3>1. a \in Action
        BY <2>2, ActionFacts DEF Marks
      <3>2. Kin(a, actions[N])
        BY <2>2 DEF Action, Kin
      <3>. QED
        BY <1>1, <2>1, <2>3, <3>1, <3>2 DEF RecordCreated, Amend
    <2>4. CASE RecordWritten \/ Seal
      <3>1. PICK a \in {[actions[N] EXCEPT !.mark = "written"],
                        [actions[N] EXCEPT !.phase = "applied"]} :
               actions' = [actions EXCEPT ![N] = a]
        BY <2>4 DEF RecordWritten, Seal, Amend
      <3>2. a \in Action /\ Kin(a, actions[N])
        BY <2>2, <3>1 DEF Action, Kin, Marks, Phases
      <3>. QED
        BY <1>1, <2>1, <3>1, <3>2
    <2>5. CASE RecordLost \/ Apply \/ ApplyFails
      BY <1>2, <2>5 DEF RecordLost, Apply, ApplyFails, journalVars
    <2>. QED
      BY <1>6, <2>3, <2>4, <2>5 DEF Record
  <1>7. CASE Finish \/ Release \/ ReleaseFails \/ StartRollback \/ UndoPersist \/ EndRollback
    BY <1>2, <1>7
       DEF Finish, Commit, Abort, AbortAfterFailure, Release, ReleaseFails, StartRollback,
           UndoPersist, EndRollback, journalVars
  <1>8. CASE UndoActions
    <2>1. /\ pc \in InUndo
          /\ \/ UNCHANGED actions
             \/ \E phase \in Phases : actions' = [actions EXCEPT ![cursor].phase = phase]
      BY <1>8, UndoSteps DEF InUndo, UndoDone, UndoImpossible, Phases
    <2>2. ASSUME NEW phase \in Phases, actions' = [actions EXCEPT ![cursor].phase = phase]
          PROVE  EntriesStay
      <3>1. Sets(cursor, [Undone EXCEPT !.phase = phase]) /\ Undone \in Action
        BY <2>1, <2>2, PhaseSets, Undoes
      <3>2. Kin([Undone EXCEPT !.phase = phase], actions[cursor])
        BY <3>1 DEF Action, Kin, Undone
      <3>. QED
        BY <3>1, <3>2 DEF EntriesStay, Sets, Kin
    <2>. QED
      BY <1>2, <2>1, <2>2
  <1>. QED
    BY <1>3, <1>4, <1>5, <1>6, <1>7, <1>8 DEF Next, Engine, Undo, UndoActions

-----------------------------------------------------------------------------
(* Identities and saved documents *)

Reach == {"plan"} \cup InAction

\* Nothing below DSH_HOME is made by an action that has not been performed.
Fresh ==
    /\ \A p \in Path : home[p].id <= N
    /\ \A i \in 1 .. MaxActions : backup[i].old.id <= N
    /\ pc \in {"mutate", "move"} => \A p \in Path : home[p].id < N

\* What is recorded as owned is what the action made, unless somebody else was there.
Own == pc = "record" /\ Here \notin touched => home[Here].id = N

\* Documents are written, nothing else is; one that was there before has its text saved.
Papers ==
    /\ pc \in Reach => \A k \in 1 .. Len(todo) : todo[k].op = "document" => todo[k].path \in Docs
    /\ \A i \in 1 .. N : actions[i].kind = "write" =>
          /\ actions[i].path \in Docs
          /\ actions[i].had <=> backup[i].orig # Absent

\* The text that is saved is the text the write replaces.
Saved ==
    pc = "mutate" /\ Head(todo).op = "document" =>
        /\ Here \in Current => backup[N].orig = Head(todo).expect
        /\ Here \in Settings =>
              /\ Head(todo).expect # Absent => backup[N].orig.data = Head(todo).expect.data
              /\ Here \notin touched => backup[N].orig = home[Here]

CraftInv == Fresh /\ Own /\ Papers /\ Saved

\* Where an action is announced, its task is about a document only if it writes one.
LEMMA HereIsPaper ==
    ASSUME TypeInv, CraftInv, pc \in Reach, Head(todo).op = "document"
    PROVE  Here \in Docs
  <1>1. todo \in Seq(Task) /\ todo # <<>>
    BY DEF TypeInv, TypeOK, Reach
  <1>2. Head(todo) = todo[1] /\ 1 \in 1 .. Len(todo)
    BY <1>1, HeadTailProperties, LenProperties, EmptySeq
  <1>. QED
    BY <1>2 DEF CraftInv, Papers, Here

\* A step that neither announces nor begins an action.
LEMMA CraftOn ==
    ASSUME TypeInv, CraftInv, EntriesStay, touched \subseteq touched',
           \A p \in Path : home'[p].id <= N,
           \A i \in 1 .. MaxActions : backup'[i].old.id <= N /\ backup'[i].orig = backup[i].orig,
           pc' \in Reach => pc \in Reach /\ (todo' = todo \/ (todo' = Tail(todo) /\ todo # <<>>)),
           pc' # "mutate",
           pc' = "move" => pc = "mutate" /\ UNCHANGED home,
           pc' = "record" => todo' = todo /\ (Here \notin touched' => home'[Here].id = N)
    PROVE  CraftInv'
  <1>1. /\ N' = N /\ N \in Nat /\ N <= MaxActions /\ MaxActions \in Nat
        /\ todo \in Seq(Task)
    BY JournalFacts DEF EntriesStay, TypeInv, TypeOK
  <1>2. Fresh'
    BY <1>1 DEF CraftInv, Fresh
  <1>3. Own'
    BY <1>1 DEF Own, Here
  <1>4. pc' \in Reach => \A k \in 1 .. Len(todo') : todo'[k].op = "document" => todo'[k].path \in Docs
    <2>1. CASE pc' \in Reach /\ todo' = todo
      BY <2>1 DEF CraftInv, Papers
    <2>2. CASE pc' \in Reach /\ todo' = Tail(todo) /\ todo # <<>>
      <3>1. /\ Len(todo) \in Nat /\ Len(Tail(todo)) = Len(todo) - 1
            /\ \A k \in 1 .. Len(Tail(todo)) : Tail(todo)[k] = todo[k + 1]
        BY <1>1, <2>2, HeadTailProperties, LenProperties
      <3>2. ASSUME NEW k \in 1 .. Len(todo'), todo'[k].op = "document"
            PROVE  todo'[k].path \in Docs
        <4>1. k \in 1 .. Len(Tail(todo)) /\ todo'[k] = Tail(todo)[k]
          BY <2>2, <3>2
        <4>2. k + 1 \in 1 .. Len(todo) /\ todo'[k] = todo[k + 1]
          BY <3>1, <4>1
        <4>3. pc \in Reach
          BY <2>2
        <4>. QED
          BY <3>2, <4>2, <4>3 DEF CraftInv, Papers
      <3>. QED
        BY <3>2
    <2>. QED
      BY <2>1, <2>2
  <1>5. Papers'
    BY <1>1, <1>4 DEF CraftInv, Papers, EntriesStay, Kin
  <1>. QED
    BY <1>2, <1>3, <1>5 DEF CraftInv, Saved

\* The stamps of an object are numbers, and nothing absent or foreign is made by an action.
LEMMA StampsCount ==
    ASSUME TypeInv
    PROVE  /\ N \in Nat /\ \A p \in Path : home[p].id \in Int /\ home[p] \in Object
           /\ \A i \in 1 .. MaxActions : backup[i].old.id \in Int /\ backup[i] \in Slots
           /\ Absent.id = -1 /\ Absent.data = -1 /\ Alien.id = -2 /\ Alien.data = -2
           /\ -1 <= N /\ -2 <= N
  <1>1. N \in Nat /\ home \in [Path -> Object] /\ backup \in [1 .. MaxActions -> Slots]
    BY JournalFacts DEF TypeInv, TypeOK
  <1>2. \A p \in Path : home[p].id \in Int /\ home[p] \in Object
    BY <1>1, ObjectFacts, StampFacts
  <1>3. \A i \in 1 .. MaxActions : backup[i].old.id \in Int /\ backup[i] \in Slots
    BY <1>1, StampFacts DEF Slots, Object
  <1>. QED
    BY <1>1, <1>2, <1>3 DEF Absent, Alien, Gone, Foreign

\* A context call starts, or is refused.
LEMMA CraftCalls ==
    ASSUME WriteAheadInv, CraftInv, NEW p \in Path, NEW expect \in Object,
           \/ CallCreate(p) \/ CallWriteState(p) \/ CallRemove(p, expect)
           \/ CallDocument(p, expect) \/ CallStaleCurrent(p, expect)
    PROVE  CraftInv'
  <1>1. /\ UNCHANGED <<home, backup, actions, touched>> /\ N' = N
        /\ pc = "operate" /\ pc' \in {"operate", "plan"}
        /\ pc' = "operate" \/ Start(todo')
    BY DEF CallCreate, CallWriteState, CallRemove, CallDocument, CallStaleCurrent, Start, MayCall,
           Throw, journalVars, envVars, N
  <1>2. ASSUME NEW t, todo' = t,
               \A k \in 1 .. Len(t) : t[k].op = "document" => t[k].path \in Docs
        PROVE  CraftInv'
    BY <1>1, <1>2 DEF CraftInv, Fresh, Own, Papers, Saved, Reach
  <1>3. ASSUME NEW t, t.op = "document" => t.path \in Docs, todo' = <<t>>
        PROVE  CraftInv'
    BY <1>2, <1>3
  <1>4. ASSUME NEW t \in Task, t.op = "document" => t.path \in Docs, todo' = Append(Ensures(p), t)
        PROVE  CraftInv'
    <2>1. /\ Len(Parents[p]) \in Nat /\ Ensures(p) \in Seq(Task)
          /\ Len(Append(Ensures(p), t)) = 1 + Len(Parents[p])
          /\ Len(Ensures(p)) = Len(Parents[p])
      BY EnsuresLength
    <2>2. \A k \in 1 .. Len(Append(Ensures(p), t)) :
              Append(Ensures(p), t)[k] = IF k = 1 + Len(Parents[p]) THEN t ELSE Ensures(p)[k]
      BY <2>1, AppendProperties
    <2>3. \A k \in 1 .. Len(Parents[p]) : Ensures(p)[k].op = "ensure"
      BY DEF Ensures
    <2>. DEFINE ts == Append(Ensures(p), t)
    <2>4. ASSUME NEW k \in 1 .. Len(ts), ts[k].op = "document"
          PROVE  ts[k].path \in Docs
      <3>1. k = 1 + Len(Parents[p]) \/ k \in 1 .. Len(Parents[p])
        BY <2>1
      <3>2. ts[k] = t \/ ts[k].op = "ensure"
        BY <2>1, <2>2, <2>3, <3>1
      <3>. QED
        BY <1>4, <2>4, <3>2
    <2>. QED
      BY <1>2, <1>4, <2>4
  <1>5. CASE CallCreate(p)
    BY <1>3, <1>5 DEF CallCreate, Start
  <1>6. CASE CallWriteState(p)
    <2>1. [op |-> "store", path |-> p, expect |-> Absent] \in Task
      BY StampFacts DEF Task
    <2>. QED
      BY <1>4, <1>6, <2>1 DEF CallWriteState, Start
  <1>7. CASE CallRemove(p, expect)
    BY <1>3, <1>7 DEF CallRemove, Start
  <1>8. CASE CallDocument(p, expect)
    <2>. DEFINE t == [op |-> "document", path |-> p, expect |-> expect]
    <2>1. p \in Docs /\ t \in Task
      BY <1>8 DEF CallDocument, Task
    <2>. QED
      BY <1>4, <1>8, <2>1 DEF CallDocument, Start
  <1>9. CASE CallStaleCurrent(p, expect)
    <2>1. pc' = "operate"
      BY <1>9 DEF CallStaleCurrent, Throw
    <2>. QED
      BY <1>1, <2>1 DEF CraftInv, Fresh, Own, Papers, Saved, Reach, InAction
  <1>. QED
    BY <1>5, <1>6, <1>7, <1>8, <1>9

\* An action is announced: its text is saved, and it has made nothing.
LEMMA CraftAnnounces ==
    ASSUME WriteAheadInv, CraftInv, pc = "plan", NEW entry \in Action, Announce(entry),
           entry.path = Here, UNCHANGED <<home, touched>>,
           \A i \in 1 .. MaxActions : backup'[i].old = backup[i].old,
           \A i \in 1 .. N : backup'[i].orig = backup[i].orig,
           entry.kind = "write" => Here \in Docs /\ (entry.had <=> backup'[N + 1].orig # Absent),
           Head(todo).op = "document" =>
              /\ Here \in Current => backup'[N + 1].orig = Head(todo).expect
              /\ Here \in Settings =>
                    /\ Head(todo).expect # Absent =>
                          backup'[N + 1].orig.data = Head(todo).expect.data
                    /\ backup'[N + 1].orig = home[Here]
    PROVE  CraftInv'
  <1>1. /\ Adds(entry) /\ N \in Nat /\ N' = N + 1
        /\ \A p \in Path : home[p].id \in Int
        /\ \A i \in 1 .. MaxActions : backup[i].old.id \in Int
    BY AnnounceAdds, StampsCount DEF WriteAheadInv, Adds
  <1>2. pc' = "operate" \/ (pc' = "mutate" /\ UNCHANGED todo)
    BY DEF Announce, Goto, Throw
  <1>3. Fresh'
    BY <1>1, <1>2 DEF CraftInv, Fresh
  <1>4. Own'
    BY <1>2 DEF Own
  <1>5. Papers'
    <2>1. \A i \in 1 .. N + 1 : i \in 1 .. N \/ i = N + 1
      BY <1>1
    <2>. QED
      BY <1>1, <1>2, <2>1 DEF CraftInv, Papers, Adds, Reach, InAction
  <1>6. Saved'
    BY <1>1, <1>2 DEF Saved, Here
  <1>. QED
    BY <1>3, <1>4, <1>5, <1>6 DEF CraftInv

\* The planning of an action.
LEMMA CraftPlans ==
    ASSUME WriteAheadInv, CraftInv, Plan
    PROVE  CraftInv'
  <1>0. pc = "plan" /\ pc \in Reach
    BY DEF Plan, PlanRefused, PlanCreate, PlanRemove, PlanRemoveRefused, PlanDocument,
           PlanDocumentRefused, Reach
  <1>1. /\ Here \in Path /\ home[Here] \in Object /\ N + 1 \in 1 .. MaxActions /\ N \in Nat
        /\ backup \in [1 .. MaxActions -> Slots] /\ Head(todo).expect \in Object
    <2>1. /\ todo \in Seq(Task) /\ todo # <<>> /\ Len(todo) \in Nat \ {0}
          /\ N + Len(todo) <= MaxActions /\ N \in Nat /\ home \in [Path -> Object]
          /\ backup \in [1 .. MaxActions -> Slots]
      BY <1>0, EmptySeq, JournalFacts DEF WriteAheadInv, TypeInv, TypeOK, Room
    <2>. QED
      BY <2>1, HeadTask, BoundsAssumption
  <1>2. CASE PlanRefused \/ PlanRemoveRefused \/ PlanDocumentRefused
    <2>1. /\ UNCHANGED <<home, backup, actions, touched>> /\ N' = N /\ pc' = "operate"
      BY <1>2 DEF PlanRefused, PlanRemoveRefused, PlanDocumentRefused, Throw, journalVars, envVars,
                  N
    <2>. QED
      BY <2>1 DEF CraftInv, Fresh, Own, Papers, Saved, Reach, InAction
  <1>3. CASE PlanCreate
    <2>. DEFINE entry == Entry("create", Here, "pending", [id |-> Gone, data |-> N + 1], FALSE)
    <2>1. entry \in Action
      <3>1. [id |-> Gone, data |-> N + 1] \in Object
        BY <1>1, StampFacts DEF Object
      <3>. QED
        BY <1>1, <3>1, EntryIsAction DEF Marks
    <2>2. entry.path = Here /\ entry.kind = "create"
      BY DEF Entry
    <2>3. /\ Head(todo).op # "document" /\ UNCHANGED <<home, backup, touched>>
          /\ Announce(entry)
      BY <1>3 DEF PlanCreate, envVars
    <2>. HIDE DEF entry
    <2>. QED
      BY <1>0, <2>1, <2>2, <2>3, CraftAnnounces
  <1>4. CASE PlanRemove
    <2>. DEFINE entry == Entry("replace", Here, "none", home[Here], TRUE)
    <2>1. entry \in Action
      BY <1>1, EntryIsAction DEF Marks
    <2>2. entry.path = Here /\ entry.kind = "replace"
      BY DEF Entry
    <2>3. /\ Head(todo).op # "document" /\ UNCHANGED <<home, backup, touched>>
          /\ Announce(entry)
      BY <1>4 DEF PlanRemove, envVars
    <2>. HIDE DEF entry
    <2>. QED
      BY <1>0, <2>1, <2>2, <2>3, CraftAnnounces
  <1>5. CASE PlanDocument
    <2>. DEFINE orig == OriginalDocument(Here, Head(todo).expect)
                entry == Entry("write", Here, "pending", Made(N + 1), orig # Absent)
    <2>1. entry \in Action
      BY <1>1, EntryIsAction, MadeIsObject DEF Marks
    <2>2. entry.path = Here /\ entry.kind = "write" /\ (entry.had <=> orig # Absent)
      BY DEF Entry
    <2>3. /\ Head(todo).op = "document" /\ UNCHANGED <<home, touched>>
          /\ Announce(entry) /\ backup' = [backup EXCEPT ![N + 1].orig = orig]
          /\ ~DocumentChanged(Here, Head(todo).expect)
      BY <1>5 DEF PlanDocument, envVars
    <2>4. /\ \A i \in 1 .. MaxActions : backup'[i].old = backup[i].old
          /\ \A i \in 1 .. N : backup'[i].orig = backup[i].orig
          /\ backup'[N + 1].orig = orig
      BY <1>1, <2>3 DEF Slots
    <2>5. Here \in Docs
      BY <1>0, <2>3, HereIsPaper DEF WriteAheadInv
    <2>6. /\ Here \in Current => orig = Head(todo).expect
          /\ Here \in Settings =>
                /\ orig = home[Here]
                /\ Head(todo).expect # Absent => orig.data = Head(todo).expect.data
      BY <2>3, KindsAssumption DEF OriginalDocument, DocumentChanged
    <2>. HIDE DEF entry, orig
    <2>. QED
      BY <1>0, <2>1, <2>2, <2>3, <2>4, <2>5, <2>6, CraftAnnounces
  <1>. QED
    BY <1>2, <1>3, <1>4, <1>5 DEF Plan

\* The mutation and its record.
LEMMA CraftActs ==
    ASSUME WriteAheadInv, LedgerInv, CraftInv, EntriesStay, Mutate \/ Record
    PROVE  CraftInv'
  <1>1. pc \in InAction /\ pc \in Reach /\ UNCHANGED touched
    BY DEF Mutate, CreateHappens, CreateTaken, CreateFails, Creating, RemoveChecked, RemoveStale,
           Removing, MoveAside, MoveAsideGone, MoveAsideFails, DocumentSwapped, DocumentStale,
           DocumentFails, SettingsLockTimeout, Writing, InAction, Record, RecordCreated,
           RecordLost, RecordWritten, Apply, ApplyFails, Seal, envVars, Reach
  <1>2. /\ home \in [Path -> Object] /\ Here \in Path /\ N \in 1 .. MaxActions /\ N \in Nat
        /\ backup \in [1 .. MaxActions -> Slots] /\ todo # <<>>
        /\ \A p \in Path : home[p].id <= N
        /\ \A i \in 1 .. MaxActions : backup[i].old.id <= N
        /\ Absent.id <= N
    BY <1>1, UnderWay, StampsCount DEF WriteAheadInv, CraftInv, Fresh
  <1>3. pc' # "mutate"
    BY DEF Mutate, CreateHappens, CreateTaken, CreateFails, RemoveChecked, RemoveStale,
           MoveAside, MoveAsideGone, MoveAsideFails, DocumentSwapped, DocumentStale,
           DocumentFails, SettingsLockTimeout, Record, RecordCreated,
           RecordLost, RecordWritten, Apply, ApplyFails, Seal, Amend, Goto, Throw, NextTask
  <1>4. pc' \in Reach => todo' = todo \/ todo' = Tail(todo)
    BY DEF Mutate, CreateHappens, CreateTaken, CreateFails, RemoveChecked, RemoveStale,
           MoveAside, MoveAsideGone, MoveAsideFails, DocumentSwapped, DocumentStale,
           DocumentFails, SettingsLockTimeout, Record, RecordCreated,
           RecordLost, RecordWritten, Apply, ApplyFails, Seal, Amend, Goto, Throw, NextTask,
           Reach, InAction
  <1>5. pc' = "move" => pc = "mutate" /\ UNCHANGED home
    BY DEF Mutate, CreateHappens, CreateTaken, CreateFails, RemoveChecked, RemoveStale,
           MoveAside, MoveAsideGone, MoveAsideFails, DocumentSwapped, DocumentStale,
           DocumentFails, SettingsLockTimeout, Record, RecordCreated, Removing,
           RecordLost, RecordWritten, Apply, ApplyFails, Seal, Amend, Goto, Throw, NextTask
  <1>6. pc' = "record" => CreateHappens \/ DocumentSwapped
    BY DEF Mutate, CreateTaken, CreateFails, RemoveChecked, RemoveStale,
           MoveAside, MoveAsideGone, MoveAsideFails, DocumentStale,
           DocumentFails, SettingsLockTimeout, Record, RecordCreated,
           RecordLost, RecordWritten, Apply, ApplyFails, Seal, Amend, Goto, Throw, NextTask
  <1>7. pc' = "record" => todo' = todo /\ home'[Here].id = N
    BY <1>2, <1>6 DEF CreateHappens, DocumentSwapped, Swapped, Made, Goto
  <1>8. \/ UNCHANGED home
        \/ \E o : home' = [home EXCEPT ![Here] = o] /\ o.id \in {N, home[Here].id, Absent.id}
    <2>1. CASE Mutate
      BY <2>1
         DEF Mutate, CreateHappens, CreateTaken, CreateFails, RemoveChecked, RemoveStale,
             MoveAside, MoveAsideGone, MoveAsideFails, DocumentSwapped, DocumentStale,
             DocumentFails, SettingsLockTimeout, Swapped, Made, RenameAside
    <2>2. CASE Apply \/ ApplyFails
      <3>1. \/ UNCHANGED home
            \/ home' = [home EXCEPT ![Here].data = IF @ = Partial THEN N ELSE @]
        BY <2>2 DEF Apply, ApplyFails, Filled
      <3>2. home[Here] \in Object
        BY <1>2
      <3>3. \A d : [home[Here] EXCEPT !.data = d].id = home[Here].id
        BY <3>2 DEF Object
      <3>. QED
        BY <3>1, <3>3
    <2>3. CASE RecordCreated \/ RecordLost \/ RecordWritten \/ Seal
      BY <2>3 DEF RecordCreated, RecordLost, RecordWritten, Seal
    <2>. QED
      BY <2>1, <2>2, <2>3 DEF Record
  <1>9. \A p \in Path : home'[p].id <= N
    BY <1>2, <1>8
  <1>10. \A i \in 1 .. MaxActions : backup'[i].old.id <= N /\ backup'[i].orig = backup[i].orig
    <2>1. UNCHANGED backup \/ backup' = [backup EXCEPT ![N].old = home[Here]]
      BY DEF Mutate, CreateHappens, CreateTaken, CreateFails, RemoveChecked, RemoveStale,
             MoveAside, MoveAsideGone, MoveAsideFails, DocumentSwapped, DocumentStale,
             DocumentFails, SettingsLockTimeout, RenameAside, Record, RecordCreated,
             RecordLost, RecordWritten, Apply, ApplyFails, Seal
    <2>. QED
      BY <1>2, <2>1 DEF Slots
  <1>. QED
    BY <1>1, <1>2, <1>3, <1>4, <1>5, <1>7, <1>9, <1>10, CraftOn DEF WriteAheadInv

\* The end of the operation and the rollback.
LEMMA CraftUndoes ==
    ASSUME WriteAheadInv, LedgerInv, CraftInv, EntriesStay,
           Finish \/ Undo \/ Release \/ ReleaseFails \/ Crash
    PROVE  CraftInv'
  <1>1. UNCHANGED touched
    BY DEF Finish, Commit, Abort, AbortAfterFailure, Undo, StartRollback, UndoPersist, EndRollback,
           UndoNothing, UndoUnresolved, UndoFails, UndoCreateChecked, UndoCreateMove,
           UndoCreateGone, UndoWrite, UndoWriteStale, UndoWriteUnacknowledged,
           UndoReplaceChecked, UndoReplaceImpossible, UndoReplaceMove, UndoMoveStuck,
           Release, ReleaseFails, Crash, envVars
  <1>2. pc' \notin Reach
    BY UndoSteps
       DEF Finish, Commit, Abort, AbortAfterFailure, BeginRollback, Goto, Undo, UndoActions,
           StartRollback, UndoPersist, NextUndo, EndRollback, UndoDone, UndoImpossible,
           Release, ReleaseFails, Return, Crash, Reach, InAction
  <1>3. /\ home \in [Path -> Object] /\ N \in Nat /\ backup \in [1 .. MaxActions -> Slots]
        /\ \A p \in Path : home[p].id <= N
        /\ \A i \in 1 .. MaxActions : backup[i].old.id <= N
        /\ Absent.id <= N
    BY StampsCount DEF WriteAheadInv, CraftInv, Fresh, TypeInv, TypeOK
  <1>4. /\ \A p \in Path : home'[p].id <= N
        /\ \A i \in 1 .. MaxActions : backup'[i].old.id <= N /\ backup'[i].orig = backup[i].orig
    <2>1. CASE UNCHANGED <<home, backup>>
      BY <1>3, <2>1
    <2>2. CASE UndoActions
      <3>1. cursor \in 1 .. N /\ cursor \in 1 .. MaxActions /\ Undone.path \in Path
        BY <2>2, UndoSteps, Undoes DEF WriteAheadInv, InUndo, N
      <3>2. CASE UndoCreateMove \/ (UndoMoveStuck /\ Undone.kind = "create")
        <4>1. /\ backup' = [backup EXCEPT ![cursor].new = Carried(Undone.path)]
              /\ home' = [q \in Path |-> IF q \in Taken(Undone.path) THEN Absent ELSE home[q]]
          BY <3>2 DEF UndoCreateMove, UndoMoveStuck
        <4>. QED
          BY <1>3, <3>1, <4>1 DEF Slots
      <3>3. CASE UndoReplaceMove \/ (UndoMoveStuck /\ Undone.kind # "create")
        <4>1. /\ backup' = [backup EXCEPT ![cursor].old = Absent]
              /\ home' = [home EXCEPT ![Undone.path] = backup[cursor].old]
          BY <3>3 DEF UndoReplaceMove, UndoMoveStuck
        <4>. QED
          BY <1>3, <3>1, <4>1 DEF Slots
      <3>4. CASE UndoWrite \/ UndoWriteUnacknowledged
        <4>1. /\ \/ UNCHANGED backup
                 \/ backup' = [backup EXCEPT ![cursor].new = home[Undone.path]]
              /\ \E o : home' = [home EXCEPT ![Undone.path] = o] /\ o.id \in {cursor, Absent.id}
          BY <3>4 DEF UndoWrite, UndoWriteUnacknowledged, PutBack
        <4>2. \A p \in Path : home'[p].id <= N
          BY <1>3, <3>1, <4>1
        <4>3. CASE UNCHANGED backup
          BY <1>3, <4>2, <4>3
        <4>4. CASE backup' = [backup EXCEPT ![cursor].new = home[Undone.path]]
          BY <1>3, <3>1, <4>2, <4>4 DEF Slots
        <4>. QED
          BY <4>1, <4>3, <4>4
      <3>5. CASE UndoNothing \/ UndoUnresolved \/ UndoFails \/ UndoCreateChecked
                 \/ UndoCreateGone \/ UndoWriteStale \/ UndoReplaceChecked \/ UndoReplaceImpossible
        <4>1. UNCHANGED <<home, backup>>
          BY <3>5
             DEF UndoNothing, UndoUnresolved, UndoFails, UndoCreateChecked, UndoCreateGone,
                 UndoWriteStale, UndoReplaceChecked, UndoReplaceImpossible
        <4>. QED
          BY <2>1, <4>1
      <3>. QED
        BY <2>2, <3>2, <3>3, <3>4, <3>5 DEF UndoActions
    <2>3. UNCHANGED <<home, backup>> \/ UndoActions
      BY DEF Finish, Commit, Abort, AbortAfterFailure, Undo, StartRollback, UndoPersist, EndRollback,
             UndoActions, Release, ReleaseFails, Crash
    <2>. QED
      BY <2>1, <2>2, <2>3
  <1>. QED
    BY <1>1, <1>2, <1>4, CraftOn DEF WriteAheadInv, Reach, InAction

\* Somebody else makes nothing that could be taken for the work of an action.
LEMMA CraftForeign ==
    ASSUME WriteAheadInv, CraftInv, NEW p \in Path,
           ForeignWrite(p) \/ ForeignEdit(p) \/ ForeignRemove(p)
    PROVE  CraftInv'
  <1>1. PICK object \in {Alien, [home[p] EXCEPT !.data = Foreign], Absent} : ForeignStep(p, object)
    BY DEF ForeignWrite, ForeignEdit, ForeignRemove
  <1>2. /\ UNCHANGED <<backup, actions, pc, todo>> /\ N' = N /\ touched' = touched \cup {p}
        /\ home' = [home EXCEPT ![p] = object]
    BY <1>1 DEF ForeignStep, journalVars, N
  <1>3. /\ N \in Nat /\ home \in [Path -> Object]
        /\ \A q \in Path : home[q].id \in Int /\ home[q] \in Object
        /\ Absent.id = -1 /\ Alien.id = -2
    BY StampsCount DEF WriteAheadInv, TypeInv, TypeOK
  <1>4. object.id \in {-1, -2, home[p].id}
    BY <1>1, <1>3 DEF Object
  <1>5. \A q \in Path : /\ q # p => home'[q] = home[q]
                        /\ home'[q].id \in {-1, -2, home[q].id}
    BY <1>2, <1>3, <1>4
  <1>6. pc \in {"mutate", "move"} => N \in Nat \ {0}
    BY UnderWay, BoundsAssumption DEF WriteAheadInv, InAction
  <1>7. Fresh'
    BY <1>2, <1>3, <1>5, <1>6 DEF CraftInv, Fresh
  <1>8. pc \in InAction => Here \in Path
    BY UnderWay DEF WriteAheadInv
  <1>9. Own' /\ Papers' /\ Saved'
    BY <1>2, <1>5, <1>8 DEF CraftInv, Own, Papers, Saved, Here, InAction
  <1>. QED
    BY <1>7, <1>9 DEF CraftInv

\* Every step keeps them.
LEMMA CraftInductive == WriteAheadInv /\ LedgerInv /\ CraftInv /\ [Next]_vars => CraftInv'
  <1>1. SUFFICES ASSUME WriteAheadInv, LedgerInv, CraftInv, [Next]_vars
                 PROVE  CraftInv'
    OBVIOUS
  <1>2. pc # "plan" => EntriesStay
    BY <1>1, EntriesOnlyAmended DEF WriteAheadInv
  <1>3. CASE Call
    <2>1. \A p \in Path : Snapshots(p) \subseteq Object /\ Absent \in Object
      BY <1>1, SnapshotsAreObjects, StampFacts DEF WriteAheadInv
    <2>. QED
      BY <1>1, <1>3, <2>1, CraftCalls DEF Call
  <1>4. CASE Mutate \/ Record
    <2>1. pc # "plan"
      BY <1>4
         DEF Mutate, CreateHappens, CreateTaken, CreateFails, Creating, RemoveChecked, RemoveStale,
           Removing, MoveAside, MoveAsideGone, MoveAsideFails, DocumentSwapped, DocumentStale,
           DocumentFails, SettingsLockTimeout, Writing, InAction, Record, RecordCreated,
           RecordLost, RecordWritten, Apply, ApplyFails, Seal
    <2>. QED
      BY <1>1, <1>2, <1>4, <2>1, CraftActs
  <1>5. CASE Finish \/ Undo \/ Release \/ ReleaseFails \/ Crash
    <2>1. CASE Crash
      <3>1. EntriesStay
        BY <2>1 DEF Crash, journalVars, EntriesStay, Kin, N
      <3>. QED
        BY <1>1, <2>1, <3>1, CraftUndoes
    <2>2. CASE Finish \/ Undo \/ Release \/ ReleaseFails
      <3>1. pc # "plan"
        BY <2>2, UndoSteps
           DEF Finish, Commit, Abort, AbortAfterFailure, Undo, UndoActions, StartRollback,
               UndoPersist, EndRollback, Release, ReleaseFails
      <3>. QED
        BY <1>1, <1>2, <2>2, <3>1, CraftUndoes
    <2>. QED
      BY <1>5, <2>1, <2>2
  <1>6. CASE UNCHANGED vars
    BY <1>1, <1>6 DEF vars, CraftInv, Fresh, Own, Papers, Saved, N, Here
  <1>. QED
    BY <1>1, <1>3, <1>4, <1>5, <1>6, CraftPlans, CraftForeign DEF Next, Engine, Environment

\* They hold when the journal is published.
LEMMA CraftInit == Init => CraftInv
  <1>1. SUFFICES ASSUME Init PROVE CraftInv
    OBVIOUS
  <1>2. home \in [Path -> {Absent, Original}] /\ N = 0 /\ pc = "operate"
    BY <1>1 DEF Init, N
  <1>3. Fresh
    BY <1>1, <1>2 DEF Init, Fresh, Absent, Original, Gone, Before, EmptySlots
  <1>. QED
    BY <1>2, <1>3 DEF CraftInv, Own, Papers, Saved, Reach, InAction

-----------------------------------------------------------------------------
(* Which actions stand, and what undoing them brings back *)

\* The action took effect and rollback has not passed it.
Stands(i) ==
    /\ Due(actions[i])
    /\ \/ actions[i].mark \in {"owned", "written"}
       \/ actions[i].mark = "pending" /\ home[actions[i].path].id = i
       \/ actions[i].kind = "replace" /\ backup[i].old # Absent

NoneStands(p, m) == \A i \in 1 .. m : actions[i].path = p => ~Stands(i)

\* What undoing an action leaves at its path.
Earlier(i) ==
    CASE actions[i].kind = "create" -> Absent
      [] actions[i].kind = "replace" -> backup[i].old
      [] OTHER -> backup[i].orig

\* Undoing the actions on a path that stand, from the last to the first, brings back what was
\* there before the transaction.
Rewinds(p) ==
    /\ NoneStands(p, N) => Same(p, home[p], pre[p])
    /\ \A i \in 1 .. N :
          actions[i].path = p /\ Stands(i) /\ NoneStands(p, i - 1) => Same(p, Earlier(i), pre[p])

\* Whatever rollback failed at, an original is where it was, or in the backup of the first
\* action on its path.
Holds(i, p) ==
    /\ actions[i].path = p
    /\ \/ /\ actions[i].kind = "write" /\ i <= Len(disk.actions)
          /\ Same(p, backup[i].orig, pre[p])
       \/ /\ actions[i].kind = "replace" /\ NoneStands(p, i - 1)
          /\ Same(p, backup[i].old, pre[p])

Keeps(p) ==
    pre[p] # Absent =>
        \/ NoneStands(p, N) /\ Same(p, home[p], pre[p])
        \/ \E i \in 1 .. N : Holds(i, p)

RewindInv ==
    \A p \in Untouched : /\ manual \/ Rewinds(p)
                         /\ Keeps(p)

-----------------------------------------------------------------------------
(* What a step does to a path *)

\* The journal on disk and in memory only grow.
Grows ==
    /\ N <= N' /\ Len(disk.actions) <= Len(disk'.actions)
    /\ \A i \in 1 .. N : /\ actions'[i].path = actions[i].path
                         /\ actions'[i].kind = actions[i].kind

Rests(p) ==
    /\ home'[p] = home[p] \/ (p \in Named /\ ~NoneStands(p, N))
    /\ \A i \in 1 .. N : actions[i].path = p =>
          /\ Stands(i)' <=> Stands(i)
          /\ backup'[i].old = backup[i].old /\ backup'[i].orig = backup[i].orig
    /\ \A i \in N + 1 .. N' : actions'[i].path = p => ~Stands(i)'

\* The action under way takes effect.
Effect(p) ==
    /\ ~manual /\ N' = N /\ N \in 1 .. N /\ actions[N].path = p /\ N <= Len(disk.actions)
    /\ actions[N].kind = "replace" => backup[N].old = Absent
    /\ ~Stands(N) /\ Stands(N)' /\ Same(p, Earlier(N)', home[p])
    /\ \A i \in 1 .. N : actions[i].path = p =>
          /\ i # N => (Stands(i)' <=> Stands(i)) /\ backup'[i].old = backup[i].old
          /\ backup'[i].orig = backup[i].orig

\* The action at the cursor is undone.
TakenBack(p) ==
    /\ N' = N /\ cursor \in 1 .. N /\ actions[cursor].path = p
    /\ Stands(cursor) /\ Same(p, home'[p], Earlier(cursor)) /\ p \in Named
    /\ \A i \in 1 .. N : actions[i].path = p =>
          /\ i < cursor => (Stands(i)' <=> Stands(i)) /\ backup'[i].old = backup[i].old
          /\ i = cursor => ~Stands(i)'
          /\ i > cursor => ~Stands(i) /\ ~Stands(i)'
          /\ backup'[i].orig = backup[i].orig

\* The action at the cursor is left to a person.
Given(p) ==
    /\ manual' /\ N' = N /\ home'[p] = home[p]
    /\ \A i \in 1 .. N : actions[i].path = p =>
          /\ Stands(i)' => Stands(i)
          /\ backup'[i].old = backup[i].old /\ backup'[i].orig = backup[i].orig

\* A directory is moved away with what was not there before either.
Swept(p) == manual' /\ pre[p] = Absent /\ home'[p] = Absent

Shaped(p) == Rests(p) \/ Effect(p) \/ TakenBack(p) \/ Given(p) \/ Swept(p)

\* The relation of rollback is an equivalence.
LEMMA SameFacts ==
    ASSUME NEW p, NEW a, NEW b, NEW c
    PROVE  /\ Same(p, a, a)
           /\ Same(p, a, b) => Same(p, b, a)
           /\ Same(p, a, b) /\ Same(p, b, c) => Same(p, a, c)
  BY DEF Same

\* Nothing can be the same as an original.
LEMMA NotAbsent ==
    ASSUME NEW p, NEW o \in {Absent, Original}, Same(p, Absent, o)
    PROVE  o = Absent
  BY DEF Same, Absent, Original, Gone, Before

\* What stands below an action, and what undoing it leaves, is what it was.
LEMMA StandsStill ==
    ASSUME NEW p, NEW m \in Nat, m <= N, N \in Nat, Grows,
           \A i \in 1 .. m : actions[i].path = p => (Stands(i)' <=> Stands(i))
    PROVE  NoneStands(p, m)' <=> NoneStands(p, m)
  <1>1. \A i \in 1 .. m : actions'[i].path = actions[i].path
    BY DEF Grows
  <1>. QED
    BY <1>1 DEF NoneStands

\* What an action found stays with it.
LEMMA EarlierStill ==
    ASSUME NEW p, NEW i \in 1 .. N, Grows, backup'[i].old = backup[i].old,
           backup'[i].orig = backup[i].orig
    PROVE  Earlier(i)' = Earlier(i)
  BY DEF Grows, Earlier

\* A step of any of these shapes keeps what undoing brings back.
LEMMA PathRewinds ==
    ASSUME NEW p \in Path, N \in Nat, N' \in Nat, Grows, UNCHANGED pre, ~manual', Rewinds(p),
           Shaped(p)
    PROVE  Rewinds(p)'
  <1>1. CASE Rests(p)
    <2>1. ASSUME NEW m \in Nat, m <= N
          PROVE  NoneStands(p, m)' <=> NoneStands(p, m)
      BY <1>1, <2>1, StandsStill DEF Rests
    <2>2. NoneStands(p, N)' => NoneStands(p, N)
      <3>1. ASSUME NoneStands(p, N)', NEW i \in 1 .. N, actions[i].path = p
            PROVE  ~Stands(i)
        BY <1>1, <3>1 DEF NoneStands, Grows, Rests
      <3>. QED
        BY <3>1 DEF NoneStands
    <2>3. NoneStands(p, N)' => Same(p, home[p], pre[p])'
      BY <1>1, <2>2 DEF Rests, Rewinds, Same
    <2>4. ASSUME NEW i \in 1 .. N', actions'[i].path = p, Stands(i)', NoneStands(p, i - 1)'
          PROVE  Same(p, Earlier(i)', pre'[p])
      <3>1. i \in 1 .. N
        BY <1>1, <2>4 DEF Rests
      <3>2. actions[i].path = p /\ Stands(i) /\ Earlier(i)' = Earlier(i)
        BY <1>1, <2>4, <3>1, EarlierStill DEF Rests, Grows
      <3>3. NoneStands(p, i - 1)
        <4>1. i - 1 \in Nat /\ i - 1 <= N
          BY <3>1
        <4>. QED
          BY <2>1, <2>4, <4>1
      <3>. QED
        BY <3>1, <3>2, <3>3 DEF Rewinds
    <2>. QED
      BY <2>3, <2>4 DEF Rewinds, Same
  <1>2. CASE Effect(p)
    <2>1. ~NoneStands(p, N)'
      BY <1>2 DEF Effect, NoneStands, Grows
    <2>2. ASSUME NEW i \in 1 .. N', actions'[i].path = p, Stands(i)', NoneStands(p, i - 1)'
          PROVE  Same(p, Earlier(i)', pre'[p])
      <3>1. i \in 1 .. N /\ actions[i].path = p /\ i - 1 \in Nat /\ i - 1 <= N
        BY <1>2, <2>2 DEF Effect, Grows
      <3>2. NoneStands(p, i - 1)
        <4>1. \A j \in 1 .. i - 1 : actions[j].path = p => (Stands(j)' <=> Stands(j))
          BY <1>2, <3>1 DEF Effect
        <4>. HIDE DEF Stands
        <4>. QED
          BY <2>2, <3>1, <4>1, StandsStill
      <3>3. CASE i # N
        <4>1. Stands(i) /\ Earlier(i)' = Earlier(i)
          BY <1>2, <2>2, <3>1, <3>3, EarlierStill DEF Effect
        <4>. QED
          BY <3>1, <3>2, <4>1 DEF Rewinds
      <3>4. CASE i = N
        <4>1. NoneStands(p, N)
          <5>1. \A j \in 1 .. N : j = N \/ j \in 1 .. N - 1
            OBVIOUS
          <5>. QED
            BY <1>2, <3>2, <3>4, <5>1 DEF Effect, NoneStands
        <4>2. Same(p, home[p], pre[p])
          BY <4>1 DEF Rewinds
        <4>3. Same(p, Earlier(i)', home[p])
          BY <1>2, <3>4 DEF Effect
        <4>. QED
          BY <4>2, <4>3, SameFacts
      <3>. QED
        BY <3>3, <3>4
    <2>. QED
      BY <2>1, <2>2 DEF Rewinds, Same
  <1>3. CASE TakenBack(p)
    <2>1. cursor \in 1 .. N /\ cursor - 1 \in Nat /\ cursor - 1 <= N /\ actions[cursor].path = p
          /\ Stands(cursor)
      BY <1>3 DEF TakenBack
    <2>2. NoneStands(p, N)' => NoneStands(p, cursor - 1)
      BY <1>3, <2>1 DEF NoneStands, TakenBack, Grows
    <2>3. NoneStands(p, N)' => Same(p, home[p], pre[p])'
      <3>1. NoneStands(p, N)' => Same(p, Earlier(cursor), pre[p])
        BY <2>1, <2>2 DEF Rewinds
      <3>2. NoneStands(p, N)' => Same(p, home'[p], pre[p])
        BY <1>3, <3>1, SameFacts DEF TakenBack
      <3>. QED
        BY <3>2 DEF Same
    <2>4. ASSUME NEW i \in 1 .. N', actions'[i].path = p, Stands(i)', NoneStands(p, i - 1)'
          PROVE  Same(p, Earlier(i)', pre'[p])
      <3>1. i \in 1 .. N /\ actions[i].path = p /\ i - 1 \in Nat /\ i - 1 <= N
        BY <1>3, <2>4 DEF TakenBack, Grows
      <3>2. i < cursor
        BY <1>3, <2>1, <2>4, <3>1 DEF TakenBack
      <3>3. NoneStands(p, i - 1)
        <4>1. \A j \in 1 .. i - 1 : actions[j].path = p => (Stands(j)' <=> Stands(j))
          BY <1>3, <2>1, <3>1, <3>2 DEF TakenBack
        <4>. QED
          BY <2>4, <3>1, <4>1, StandsStill
      <3>4. Stands(i) /\ Earlier(i)' = Earlier(i)
        BY <1>3, <2>4, <3>1, <3>2, EarlierStill DEF TakenBack
      <3>. QED
        BY <3>1, <3>3, <3>4 DEF Rewinds
    <2>. QED
      BY <2>3, <2>4 DEF Rewinds, Same
  <1>. QED
    BY <1>1, <1>2, <1>3 DEF Shaped, Given, Swept

\* An original goes on being in the backup of the first action on its path.
LEMMA HoldsStill ==
    ASSUME NEW p, NEW i \in 1 .. N, N \in Nat, Grows, UNCHANGED pre, Holds(i, p),
           Len(disk.actions) \in Nat, Len(disk'.actions) \in Nat,
           backup'[i].orig = backup[i].orig,
           actions[i].kind = "replace" =>
              /\ backup'[i].old = backup[i].old
              /\ \A j \in 1 .. i - 1 : actions[j].path = p /\ Stands(j)' => Stands(j)
    PROVE  Holds(i, p)'
  <1>1. /\ actions'[i].path = actions[i].path /\ actions'[i].kind = actions[i].kind
        /\ \A j \in 1 .. i - 1 : actions'[j].path = actions[j].path
    BY DEF Grows
  <1>2. CASE actions[i].kind = "write"
    BY <1>1, <1>2 DEF Holds, Grows, Same
  <1>3. CASE actions[i].kind = "replace"
    <2>1. NoneStands(p, i - 1)'
      BY <1>1, <1>3 DEF Holds, NoneStands
    <2>. QED
      BY <1>1, <1>3, <2>1 DEF Holds, Same
  <1>. QED
    BY <1>2, <1>3 DEF Holds

\* A step of any of these shapes keeps an original where it is found.
LEMMA PathKeeps ==
    ASSUME NEW p \in Path, N \in Nat, N' \in Nat, Grows, UNCHANGED pre, Keeps(p),
           Len(disk.actions) \in Nat, Len(disk'.actions) \in Nat,
           pre[p] \in {Absent, Original},
           \A i \in 1 .. N : actions[i].kind \in {"create", "replace", "write"},
           Shaped(p)
    PROVE  Keeps(p)'
  <1>1. SUFFICES ASSUME pre[p] # Absent
                 PROVE  \/ NoneStands(p, N)' /\ Same(p, home'[p], pre[p])
                        \/ \E i \in 1 .. N' : Holds(i, p)'
    BY DEF Keeps, Same
  <1>2. \/ NoneStands(p, N) /\ Same(p, home[p], pre[p])
        \/ \E i \in 1 .. N : Holds(i, p)
    BY <1>1 DEF Keeps
  <1>3. 1 .. N \subseteq 1 .. N' /\ \A i \in 1 .. N : 1 .. i - 1 \subseteq 1 .. N
    BY DEF Grows
  <1>4. CASE Rests(p) \/ Given(p)
    <2>1. /\ \A i \in 1 .. N : actions[i].path = p =>
                /\ Stands(i)' => Stands(i)
                /\ backup'[i].old = backup[i].old /\ backup'[i].orig = backup[i].orig
          /\ NoneStands(p, N) => home'[p] = home[p]
          /\ \A i \in 1 .. N' : i \in 1 .. N \/ (i \in N + 1 .. N' /\ Rests(p))
      BY <1>4 DEF Rests, Given
    <2>2. NoneStands(p, N) => NoneStands(p, N)'
      <3>1. ASSUME NoneStands(p, N), NEW i \in 1 .. N', actions'[i].path = p
            PROVE  ~Stands(i)'
        <4>1. CASE i \in 1 .. N
          BY <2>1, <3>1, <4>1 DEF NoneStands, Grows
        <4>2. CASE i \in N + 1 .. N' /\ Rests(p)
          BY <3>1, <4>2 DEF Rests
        <4>. QED
          BY <2>1, <4>1, <4>2
      <3>. QED
        BY <3>1 DEF NoneStands
    <2>3. ASSUME NEW i \in 1 .. N, Holds(i, p)
          PROVE  Holds(i, p)'
      <3>1. actions[i].path = p
        BY <2>3 DEF Holds
      <3>. QED
        BY <1>3, <2>1, <2>3, <3>1, HoldsStill
    <2>. QED
      BY <1>2, <1>3, <2>1, <2>2, <2>3
  <1>5. CASE Effect(p)
    <2>1. /\ N' = N /\ N \in 1 .. N /\ actions[N].path = p /\ N <= Len(disk.actions)
          /\ Same(p, Earlier(N)', home[p]) /\ ~Stands(N)
          /\ \A j \in 1 .. N - 1 : j \in 1 .. N /\ j # N
      BY <1>5 DEF Effect
    <2>2. CASE NoneStands(p, N) /\ Same(p, home[p], pre[p])
      <3>1. Same(p, Earlier(N)', pre[p])
        BY <2>1, <2>2, SameFacts
      <3>2. actions'[N].kind = actions[N].kind /\ actions'[N].path = p
        BY <2>1 DEF Grows
      <3>3. actions[N].kind # "create"
        <4>1. actions[N].kind = "create" => Earlier(N)' = Absent
          BY <2>1, <3>2 DEF Earlier
        <4>2. actions[N].kind = "create" => Same(p, Absent, pre[p])
          BY <3>1, <4>1
        <4>. QED
          BY <1>1, <4>2, NotAbsent
      <3>4. NoneStands(p, N - 1)'
        BY <1>5, <2>1, <2>2 DEF Effect, NoneStands, Grows
      <3>5. Holds(N, p)'
        BY <2>1, <3>1, <3>2, <3>3, <3>4 DEF Holds, Earlier, Grows, Same
      <3>. QED
        BY <2>1, <3>5
    <2>3. CASE \E i \in 1 .. N : Holds(i, p)
      <3>1. PICK i \in 1 .. N : Holds(i, p)
        BY <2>3
      <3>2. actions[i].path = p /\ backup'[i].orig = backup[i].orig
        BY <1>5, <3>1 DEF Holds, Effect
      <3>3. actions[i].kind = "replace" => i # N
        BY <1>1, <1>5, <3>1, NotAbsent DEF Effect, Holds
      <3>4. Holds(i, p)'
        BY <1>3, <1>5, <2>1, <3>1, <3>2, <3>3, HoldsStill DEF Effect
      <3>. QED
        BY <2>1, <3>4
    <2>. QED
      BY <1>2, <2>2, <2>3
  <1>6. CASE TakenBack(p)
    <2>1. /\ N' = N /\ cursor \in 1 .. N /\ actions[cursor].path = p /\ Stands(cursor)
          /\ \A i \in 1 .. N : actions[i].path = p => backup'[i].orig = backup[i].orig
      BY <1>6 DEF TakenBack
    <2>2. PICK i \in 1 .. N : Holds(i, p)
      BY <1>2, <2>1 DEF NoneStands
    <2>3. actions[i].path = p
      BY <2>2 DEF Holds
    <2>4. CASE actions[i].kind = "write"
      BY <2>1, <2>2, <2>3, <2>4, HoldsStill
    <2>5. CASE actions[i].kind = "replace" /\ i < cursor
      <3>1. /\ backup'[i].old = backup[i].old
            /\ \A j \in 1 .. i - 1 : actions[j].path = p /\ Stands(j)' => Stands(j)
        BY <1>3, <1>6, <2>1, <2>3, <2>5 DEF TakenBack
      <3>. QED
        BY <2>1, <2>2, <2>3, <3>1, HoldsStill
    <2>6. CASE actions[i].kind = "replace" /\ i = cursor
      <3>1. NoneStands(p, i - 1) /\ Same(p, Earlier(cursor), pre[p])
        BY <2>2, <2>6 DEF Holds, Earlier
      <3>2. Same(p, home'[p], pre[p])
        BY <1>6, <3>1, SameFacts DEF TakenBack
      <3>3. NoneStands(p, N)'
        <4>1. ASSUME NEW j \in 1 .. N, actions[j].path = p
              PROVE  ~Stands(j)'
          <5>1. j < cursor => ~Stands(j)
            BY <2>1, <2>6, <3>1, <4>1 DEF NoneStands
          <5>. QED
            BY <1>6, <2>1, <4>1, <5>1 DEF TakenBack
        <4>. QED
          BY <2>1, <4>1 DEF NoneStands, Grows
      <3>. QED
        BY <3>2, <3>3
    <2>7. CASE actions[i].kind = "replace" /\ i > cursor
      BY <2>1, <2>2, <2>7 DEF Holds, NoneStands
    <2>. QED
      BY <2>1, <2>2, <2>4, <2>5, <2>6, <2>7 DEF Holds
  <1>7. CASE Swept(p)
    BY <1>1, <1>7 DEF Swept
  <1>. QED
    BY <1>4, <1>5, <1>6, <1>7 DEF Shaped

-----------------------------------------------------------------------------
(* The shape of each step *)

\* The journals and the touched paths grow, and what is left to a person stays so.
LEMMA StepGrows ==
    ASSUME WriteAheadInv, WriteAheadInv', LedgerInv, [Next]_vars
    PROVE  /\ Grows /\ UNCHANGED pre /\ touched \subseteq touched' /\ (manual => manual')
           /\ N \in Nat /\ N' \in Nat /\ Len(disk.actions) \in Nat /\ Len(disk'.actions) \in Nat
           /\ disk' = disk \/ disk'.actions = actions'
           /\ \A i \in 1 .. N : actions[i].kind \in {"create", "replace", "write"}
  <1>. DEFINE Goal == /\ disk' = disk \/ disk'.actions = actions'
                      /\ UNCHANGED pre /\ touched \subseteq touched'
                      /\ ~manual \/ manual' = manual \/ manual' = TRUE
  <1>9. Goal
    <2>1. CASE Call \/ UNCHANGED vars
      <3>1. UNCHANGED <<disk, pre, touched, manual>>
        BY <2>1
           DEF Call, CallCreate, CallWriteState, CallRemove, CallDocument, CallStaleCurrent, Start,
               Throw, journalVars, failVars, envVars, vars
      <3>. QED
        BY <3>1
    <2>2. CASE Plan
      <3>1. /\ UNCHANGED <<pre, touched>>
            /\ \/ UNCHANGED <<disk, manual>>
               \/ \E entry : Announce(entry)
        BY <2>2
           DEF Plan, PlanRefused, PlanCreate, PlanRemove, PlanRemoveRefused, PlanDocument,
               PlanDocumentRefused, Throw, journalVars, envVars
      <3>. QED
        BY <3>1 DEF Announce, Persist, PersistFails, Throw, Goto, failVars
    <2>3. CASE Mutate
      BY <2>3
         DEF Mutate, CreateHappens, CreateTaken, CreateFails, RemoveChecked, RemoveStale,
             MoveAside, MoveAsideGone, MoveAsideFails, DocumentSwapped, DocumentStale,
             DocumentFails, SettingsLockTimeout, Amend, Persist, PersistFails, Throw, Goto,
             NextTask, journalVars, failVars, envVars
    <2>4. CASE Record
      BY <2>4
         DEF Record, RecordCreated, RecordLost, RecordWritten, Apply, ApplyFails, Seal, Amend,
             Persist, PersistFails, Throw, Goto, NextTask, journalVars, failVars, envVars
    <2>5. CASE Finish
      <3>1. pc = "operate" /\ ~manual
        BY <2>5
           DEF Finish, Commit, Abort, AbortAfterFailure, LedgerInv, Phased, Forward
      <3>. QED
        BY <2>5, <3>1
           DEF Finish, Commit, Abort, AbortAfterFailure, Persist, PersistFails, journalVars, envVars
    <2>6. CASE StartRollback \/ UndoPersist \/ EndRollback \/ Release \/ ReleaseFails
      BY <2>6
         DEF StartRollback, UndoPersist, EndRollback, Release, ReleaseFails, Return, Persist,
             PersistFails, journalVars, failVars, envVars
    <2>7. CASE UndoActions
      <3>1. UNCHANGED <<disk, pre, touched>> /\ (manual' = manual \/ manual' = TRUE)
        BY <2>7, UndoSteps DEF UndoDone, UndoImpossible, Goto, failVars
      <3>. QED
        BY <3>1
    <2>8. CASE Environment
      <3>1. UNCHANGED <<disk, pre, manual>> /\ touched \subseteq touched'
        <4>1. CASE Crash
          BY <4>1 DEF Crash, journalVars, failVars, envVars
        <4>2. CASE \E p, object : ForeignStep(p, object)
          BY <4>2 DEF ForeignStep, journalVars, failVars
        <4>. QED
          BY <2>8, <4>1, <4>2 DEF Environment, ForeignWrite, ForeignEdit, ForeignRemove
      <3>. QED
        BY <3>1
    <2>. HIDE DEF Goal
    <2>. QED
      BY <2>1, <2>2, <2>3, <2>4, <2>5, <2>6, <2>7, <2>8 DEF Next, Engine, Undo, UndoActions
  <1>10. /\ N \in Nat /\ N' \in Nat /\ Len(disk.actions) \in Nat /\ Len(disk'.actions) \in Nat
         /\ \A i \in 1 .. N : actions[i] \in Action
    <2>1. N \in Nat /\ Len(disk.actions) \in Nat /\ \A i \in 1 .. N : actions[i] \in Action
      BY JournalFacts DEF WriteAheadInv
    <2>2. N' \in Nat /\ Len(disk'.actions) \in Nat
      BY LenProperties DEF WriteAheadInv, TypeInv, TypeOK, Journal, N
    <2>. QED
      BY <2>1, <2>2
  <1>11. /\ N <= N'
         /\ \A i \in 1 .. N : /\ actions'[i].path = actions[i].path
                              /\ actions'[i].kind = actions[i].kind
    <2>1. CASE pc # "plan"
      BY <1>10, <2>1, EntriesOnlyAmended DEF WriteAheadInv, EntriesStay, Kin
    <2>2. CASE pc = "plan" /\ Plan
      <3>1. /\ Here \in Path /\ home[Here] \in Object /\ N + 1 \in 1 .. MaxActions
        <4>1. /\ todo \in Seq(Task) /\ todo # <<>> /\ Len(todo) \in Nat \ {0}
              /\ N + Len(todo) <= MaxActions /\ N \in Nat /\ home \in [Path -> Object]
          BY <2>2, EmptySeq, JournalFacts DEF WriteAheadInv, TypeInv, TypeOK, Room
        <4>. QED
          BY <4>1, HeadTask, BoundsAssumption
      <3>2. \/ UNCHANGED actions
            \/ \E entry \in Action : Announce(entry)
        <4>1. CASE PlanCreate
          <5>1. [id |-> Gone, data |-> N + 1] \in Object
            BY <3>1, StampFacts DEF Object
          <5>2. Entry("create", Here, "pending", [id |-> Gone, data |-> N + 1], FALSE) \in Action
            BY <3>1, <5>1, EntryIsAction DEF Marks
          <5>. QED
            BY <4>1, <5>2 DEF PlanCreate
        <4>2. CASE PlanRemove
          <5>1. Entry("replace", Here, "none", home[Here], TRUE) \in Action
            BY <3>1, EntryIsAction DEF Marks
          <5>. QED
            BY <4>2, <5>1 DEF PlanRemove
        <4>3. CASE PlanDocument
          <5>1. \A had \in BOOLEAN : Entry("write", Here, "pending", Made(N + 1), had) \in Action
            BY <3>1, EntryIsAction, MadeIsObject DEF Marks
          <5>2. \E had \in BOOLEAN : Announce(Entry("write", Here, "pending", Made(N + 1), had))
            BY <4>3 DEF PlanDocument
          <5>. QED
            BY <5>1, <5>2
        <4>4. CASE PlanRefused \/ PlanRemoveRefused \/ PlanDocumentRefused
          BY <4>4 DEF PlanRefused, PlanRemoveRefused, PlanDocumentRefused, journalVars
        <4>. QED
          BY <2>2, <4>1, <4>2, <4>3, <4>4 DEF Plan
      <3>. QED
        BY <1>10, <3>2, AnnounceAdds DEF WriteAheadInv, Adds, N
    <2>3. CASE pc = "plan" /\ ~Plan
      <3>1. Environment \/ UNCHANGED vars
        BY <2>3, UndoSteps
           DEF Next, Engine, Call, CallCreate, CallWriteState, CallRemove, CallDocument,
               CallStaleCurrent, MayCall, Mutate, CreateHappens, CreateTaken, CreateFails,
               Creating, RemoveChecked, RemoveStale, Removing, MoveAside, MoveAsideGone,
               MoveAsideFails, DocumentSwapped, DocumentStale, DocumentFails,
               SettingsLockTimeout, Writing, Record, RecordCreated, RecordLost, RecordWritten,
               Apply, ApplyFails, Seal, Finish, Commit, Abort, AbortAfterFailure, Undo,
               UndoActions, StartRollback, UndoPersist, EndRollback, Release, ReleaseFails
      <3>2. UNCHANGED actions
        BY <3>1
           DEF Environment, Crash, ForeignWrite, ForeignEdit, ForeignRemove, ForeignStep,
               journalVars, vars
      <3>. QED
        BY <1>10, <3>2 DEF N
    <2>. QED
      BY <2>1, <2>2, <2>3
  <1>12. Len(disk.actions) <= Len(disk'.actions)
    BY <1>9, <1>10, <1>11 DEF WriteAheadInv, JournalInv, Prefix, N
  <1>. QED
    BY <1>9, <1>10, <1>11, <1>12 DEF Grows, Action

\* An entry that keeps what matters goes on to stand or not, as long as what it made stays.
LEMMA RestsWhen ==
    ASSUME NEW p \in Path, EntriesStay, N \in Nat,
           home'[p] = home[p],
           \A i \in 1 .. N : actions[i].path = p =>
              /\ \/ /\ actions'[i].mark = actions[i].mark
                    /\ Due(actions'[i]) <=> Due(actions[i])
                 \/ Stands(i)' <=> Stands(i)
              /\ backup'[i].old = backup[i].old /\ backup'[i].orig = backup[i].orig
    PROVE  Rests(p)
  <1>1. ASSUME NEW i \in 1 .. N, actions[i].path = p
        PROVE  Stands(i)' <=> Stands(i)
    BY <1>1 DEF EntriesStay, Kin, Stands
  <1>2. N' = N /\ \A i \in N + 1 .. N' : FALSE
    BY DEF EntriesStay
  <1>. QED
    BY <1>1, <1>2 DEF Rests

\* An action announced does not stand yet.
LEMMA AnnounceRests ==
    ASSUME WriteAheadInv, CraftInv, NEW p \in Path, NEW entry \in Action, Announce(entry),
           entry.mark \in {"pending", "none"}, UNCHANGED home,
           entry.path \in Path,
           \A i \in 1 .. N : backup'[i].old = backup[i].old /\ backup'[i].orig = backup[i].orig,
           backup'[N + 1].old = Absent
    PROVE  Rests(p)
  <1>1. /\ Adds(entry) /\ N \in Nat /\ N' = N + 1
        /\ \A q \in Path : home[q].id \in Int /\ home[q].id <= N
    BY AnnounceAdds, StampsCount DEF WriteAheadInv, Adds, CraftInv, Fresh
  <1>2. \A i \in 1 .. N : Stands(i)' <=> Stands(i)
    BY <1>1 DEF Stands, Adds
  <1>3. ASSUME NEW i \in N + 1 .. N'
        PROVE  ~Stands(i)'
    <2>1. i = N + 1 /\ actions'[i] = entry /\ backup'[i].old = Absent
      BY <1>1, <1>3 DEF Adds
    <2>. QED
      BY <1>1, <2>1 DEF Stands
  <1>. QED
    BY <1>2, <1>3 DEF Rests

\* The planning of an action.
LEMMA PlansRest ==
    ASSUME WriteAheadInv, CraftInv, Plan, NEW p \in Path
    PROVE  Rests(p)
  <1>0. pc = "plan"
    BY DEF Plan, PlanRefused, PlanCreate, PlanRemove, PlanRemoveRefused, PlanDocument,
           PlanDocumentRefused
  <1>1. /\ Here \in Path /\ home[Here] \in Object /\ N + 1 \in 1 .. MaxActions /\ N \in Nat
        /\ backup \in [1 .. MaxActions -> Slots] /\ backup[N + 1].old = Absent
    <2>1. /\ todo \in Seq(Task) /\ todo # <<>> /\ Len(todo) \in Nat \ {0}
          /\ N + Len(todo) <= MaxActions /\ N \in Nat /\ home \in [Path -> Object]
          /\ backup \in [1 .. MaxActions -> Slots]
      BY <1>0, EmptySeq, JournalFacts DEF WriteAheadInv, TypeInv, TypeOK, Room
    <2>. QED
      BY <2>1, HeadTask, BoundsAssumption DEF WriteAheadInv, JournalInv, Idle
  <1>2. CASE PlanRefused \/ PlanRemoveRefused \/ PlanDocumentRefused
    <2>1. UNCHANGED <<actions, home, backup>>
      BY <1>2 DEF PlanRefused, PlanRemoveRefused, PlanDocumentRefused, journalVars
    <2>. QED
      BY <1>1, <2>1, RestsWhen DEF EntriesStay, Kin, N
  <1>3. CASE PlanCreate
    <2>. DEFINE entry == Entry("create", Here, "pending", [id |-> Gone, data |-> N + 1], FALSE)
    <2>1. entry \in Action
      <3>1. [id |-> Gone, data |-> N + 1] \in Object
        BY <1>1, StampFacts DEF Object
      <3>. QED
        BY <1>1, <3>1, EntryIsAction DEF Marks
    <2>2. entry.mark = "pending" /\ entry.path = Here
      BY DEF Entry
    <2>3. UNCHANGED <<home, backup>> /\ Announce(entry)
      BY <1>3 DEF PlanCreate
    <2>. HIDE DEF entry
    <2>. QED
      BY <1>1, <2>1, <2>2, <2>3, AnnounceRests
  <1>4. CASE PlanRemove
    <2>. DEFINE entry == Entry("replace", Here, "none", home[Here], TRUE)
    <2>1. entry \in Action
      BY <1>1, EntryIsAction DEF Marks
    <2>2. entry.mark = "none" /\ entry.path = Here
      BY DEF Entry
    <2>3. UNCHANGED <<home, backup>> /\ Announce(entry)
      BY <1>4 DEF PlanRemove
    <2>. HIDE DEF entry
    <2>. QED
      BY <1>1, <2>1, <2>2, <2>3, AnnounceRests
  <1>5. CASE PlanDocument
    <2>1. PICK had \in BOOLEAN :
             Announce(Entry("write", Here, "pending", Made(N + 1), had))
      BY <1>5 DEF PlanDocument
    <2>. DEFINE entry == Entry("write", Here, "pending", Made(N + 1), had)
    <2>2. entry \in Action
      BY <1>1, EntryIsAction, MadeIsObject DEF Marks
    <2>3. entry.mark = "pending" /\ entry.path = Here
      BY DEF Entry
    <2>4. /\ UNCHANGED home
          /\ \A i \in 1 .. N : backup'[i].old = backup[i].old /\ backup'[i].orig = backup[i].orig
          /\ backup'[N + 1].old = Absent
      <3>1. /\ UNCHANGED home
            /\ \E o : backup' = [backup EXCEPT ![N + 1].orig = o]
        BY <1>5 DEF PlanDocument
      <3>. QED
        BY <1>1, <3>1, JournalFacts DEF Slots, WriteAheadInv
    <2>5. Announce(entry)
      BY <2>1
    <2>. HIDE DEF entry
    <2>. QED
      BY <1>1, <2>2, <2>3, <2>4, <2>5, AnnounceRests
  <1>. QED
    BY <1>2, <1>3, <1>4, <1>5 DEF Plan

\* What is known where an action is performed.
LEMMA AtWork ==
    ASSUME WriteAheadInv, LedgerInv, pc \in InAction
    PROVE  /\ ~manual /\ N \in Nat /\ N \in 1 .. N /\ N <= Len(disk.actions)
           /\ N \in 1 .. MaxActions
           /\ actions[N].path = Here /\ Here \in Path /\ actions[N] \in Action
           /\ \A i \in 1 .. N : Due(actions[i]) /\ (actions[i].mark = "pending" => i = N)
           /\ actions[N].kind = KindOf(Head(todo).op)
           /\ actions[N].mark \in MarksOf(actions[N].kind)
           /\ home \in [Path -> Object] /\ backup \in [1 .. MaxActions -> Slots]
           /\ \A i \in 1 .. N : i \in 1 .. MaxActions
  BY UnderWay, JournalFacts
     DEF WriteAheadInv, StepInv, Announced, LedgerInv, Phased, Forward, Entries, AtHand, N, InAction

\* The object at a path is made or replaced by the action under way.
LEMMA MakesEffect ==
    ASSUME WriteAheadInv, LedgerInv, CraftInv, pc = "mutate", NEW p \in Path, p = Here,
           NEW o, home' = [home EXCEPT ![Here] = o], o.id = N, UNCHANGED <<actions, backup>>,
           \/ actions[N].kind = "create" /\ home[Here] = Absent
           \/ actions[N].kind = "write" /\ Same(Here, backup[N].orig, home[Here])
    PROVE  Effect(p)
  <1>1. pc \in InAction
    BY DEF InAction
  <1>2. /\ actions[N].mark = "pending" /\ home[Here].id < N /\ home'[Here].id = N
        /\ \A q \in Path : q # Here => home'[q] = home[q]
    BY <1>1, AtWork DEF LedgerInv, AtHand, MarksOf, CraftInv, Fresh
  <1>3. /\ N' = N /\ N \in Nat /\ N \in 1 .. N /\ actions[N].path = Here
        /\ \A i \in 1 .. N : actions[i].mark = "pending" => i = N
        /\ Due(actions[N])
        /\ ~manual /\ N <= Len(disk.actions)
    BY <1>1, AtWork DEF N
  <1>4. ~Stands(N)
    BY <1>2, <1>3 DEF Stands
  <1>5. Stands(N)'
    <2>1. actions'[N'].mark = "pending" /\ home'[actions'[N'].path].id = N' /\ Due(actions'[N'])
      BY <1>2, <1>3
    <2>. QED
      BY <2>1 DEF Stands
  <1>6. \A i \in 1 .. N : i # N => (Stands(i)' <=> Stands(i))
    BY <1>3 DEF Stands
  <1>7. Same(p, Earlier(N)', home[p])
    <2>1. CASE actions[N].kind = "create" /\ home[Here] = Absent
      BY <1>3, <2>1, SameFacts DEF Earlier
    <2>2. CASE actions[N].kind = "write" /\ Same(Here, backup[N].orig, home[Here])
      BY <1>3, <2>2 DEF Earlier
    <2>. QED
      BY <2>1, <2>2
  <1>. QED
    BY <1>3, <1>4, <1>5, <1>6, <1>7 DEF Effect

\* An artifact is moved aside.
LEMMA MovesEffect ==
    ASSUME WriteAheadInv, LedgerInv, pc = "move", NEW p \in Path, p = Here,
           RenameAside, home[Here] # Absent, UNCHANGED actions
    PROVE  Effect(p)
  <1>1. pc \in InAction
    BY DEF InAction
  <1>2. /\ actions[N].kind = "replace" /\ actions[N].mark = "none" /\ backup[N].old = Absent
    BY <1>1, AtWork DEF LedgerInv, AtHand, MarksOf
  <1>3. /\ N' = N /\ N \in Nat /\ N \in 1 .. N /\ actions[N].path = Here
        /\ \A i \in 1 .. N : actions[i].mark = "pending" => i = N
        /\ Due(actions[N]) /\ home \in [Path -> Object]
        /\ ~manual /\ N <= Len(disk.actions)
    BY <1>1, AtWork DEF N
  <1>4. /\ backup'[N].old = home[Here] /\ backup'[N].orig = backup[N].orig
        /\ \A i \in 1 .. N : /\ i # N => backup'[i] = backup[i]
                             /\ backup'[i].orig = backup[i].orig
    BY <1>1, AtWork DEF RenameAside, Slots
  <1>5. ~Stands(N) /\ Stands(N)'
    BY <1>2, <1>3, <1>4 DEF Stands
  <1>6. \A i \in 1 .. N : i # N => (Stands(i)' <=> Stands(i))
    BY <1>3, <1>4 DEF Stands
  <1>7. Same(p, Earlier(N)', home[p])
    BY <1>2, <1>3, <1>4, SameFacts DEF Earlier
  <1>. QED
    BY <1>2, <1>3, <1>4, <1>5, <1>6, <1>7 DEF Effect

\* The text a write replaces is the text that was saved.
LEMMA SwapsSaved ==
    ASSUME WriteAheadInv, CraftInv, Writing, home[Here].data = SwapExpects.data,
           Here \in Untouched
    PROVE  Same(Here, backup[N].orig, home[Here])
  <1>1. pc = "mutate" /\ pc \in Reach /\ Head(todo).op = "document"
    BY DEF Writing, Reach, InAction
  <1>2. Here \in Docs
    BY <1>1, HereIsPaper DEF WriteAheadInv
  <1>3. CASE Here \in Managed
    BY <1>2, <1>3 DEF SwapExpects, Same
  <1>4. CASE Here \in Current
    <2>1. Here \notin Managed
      BY <1>4, KindsAssumption
    <2>. QED
      BY <1>1, <1>2, <1>4, <2>1 DEF SwapExpects, Same, CraftInv, Saved
  <1>5. CASE Here \in Settings
    BY <1>1, <1>2, <1>5 DEF Same, CraftInv, Saved, Untouched
  <1>. QED
    BY <1>2, <1>3, <1>4, <1>5 DEF Docs

\* Only where it is does the mutation change anything.
LEMMA ElsewhereRests ==
    ASSUME WriteAheadInv, LedgerInv, pc \in InAction, NEW p \in Path, p # Here, EntriesStay,
           home'[p] = home[p],
           \A i \in 1 .. N : i # N => actions'[i] = actions[i] /\ backup'[i] = backup[i]
    PROVE  Rests(p)
  <1>1. N \in Nat /\ \A i \in 1 .. N : actions[i].path = p => i # N
    BY AtWork
  <1>. QED
    BY <1>1, RestsWhen

\* The mutation of DSH_HOME.
LEMMA MutateShapes ==
    ASSUME WriteAheadInv, LedgerInv, CraftInv, Mutate, NEW p \in Path, p \in Untouched
    PROVE  Shaped(p)
  <1>1. pc \in InAction /\ pc \in {"mutate", "move"}
    BY DEF Mutate, CreateHappens, CreateTaken, CreateFails, Creating, RemoveChecked, RemoveStale,
           Removing, MoveAside, MoveAsideGone, MoveAsideFails, DocumentSwapped, DocumentStale,
           DocumentFails, SettingsLockTimeout, Writing, InAction
  <1>2. /\ N \in Nat /\ N \in 1 .. N /\ actions[N] \in Action /\ actions[N].path = Here
        /\ home \in [Path -> Object] /\ backup \in [1 .. MaxActions -> Slots]
        /\ N \in 1 .. MaxActions /\ \A i \in 1 .. N : i \in 1 .. MaxActions
        /\ actions[N].kind = KindOf(Head(todo).op)
    BY <1>1, AtWork
  <1>3. EntriesStay
    BY <1>1, EntriesOnlyAmended DEF WriteAheadInv, InAction, Next, Engine
  <1>4. CASE UNCHANGED <<home, backup, actions>>
    BY <1>2, <1>3, <1>4, RestsWhen DEF Shaped
  <1>5. ASSUME NEW a \in Action, actions' = [actions EXCEPT ![N] = a],
               a.mark \in {"not-owned", "not-written"}, pc = "mutate", UNCHANGED <<home, backup>>,
               actions[N].kind # "replace"
        PROVE  Shaped(p)
    <2>1. Sets(N, a)
      BY <1>1, <1>5, AmendSets DEF WriteAheadInv
    <2>2. \A i \in 1 .. N : i # N => actions'[i] = actions[i] /\ backup'[i] = backup[i]
      BY <1>5, <2>1 DEF Sets
    <2>3. CASE p # Here
      BY <1>1, <1>3, <1>5, <2>2, <2>3, ElsewhereRests DEF Shaped
    <2>4. CASE p = Here
      <3>1. actions[N].mark = "pending" /\ home[Here].id < N
        BY <1>1, <1>2, <1>5, AtWork DEF LedgerInv, AtHand, MarksOf, CraftInv, Fresh
      <3>2. ~Stands(N)
        BY <1>2, <3>1, <1>5 DEF Stands
      <3>3. ~Stands(N)'
        <4>1. N' = N /\ actions'[N] = a /\ actions'[N].kind = actions[N].kind
          BY <1>2, <1>3, <2>1 DEF Sets, EntriesStay, Kin
        <4>. QED
          BY <4>1, <1>5 DEF Stands
      <3>4. \A i \in 1 .. N : i = N => (Stands(i)' <=> Stands(i))
        <4>1. \A i \in 1 .. N : i = N => ~Stands(i)
          BY <3>2
        <4>2. ASSUME NEW i \in 1 .. N, i = N
              PROVE  ~Stands(i)'
          <5>1. actions'[i] = a /\ actions'[i].kind = actions[i].kind
            BY <1>2, <1>3, <2>1, <4>2 DEF Sets, EntriesStay, Kin
          <5>. QED
            BY <4>2, <5>1, <1>5 DEF Stands
        <4>. QED
          BY <4>1, <4>2
      <3>5. \A i \in 1 .. N : /\ \/ /\ actions'[i].mark = actions[i].mark
                                    /\ Due(actions'[i]) <=> Due(actions[i])
                                 \/ Stands(i)' <=> Stands(i)
                              /\ backup'[i].old = backup[i].old
                              /\ backup'[i].orig = backup[i].orig
        BY <1>5, <2>2, <3>4
      <3>. QED
        BY <1>2, <1>3, <1>5, <3>5, RestsWhen DEF Shaped
    <2>. QED
      BY <2>3, <2>4
  <1>6. ASSUME pc = "mutate", NEW o, home' = [home EXCEPT ![Here] = o], o.id = N,
               UNCHANGED <<actions, backup>>,
               \/ actions[N].kind = "create" /\ home[Here] = Absent
               \/ actions[N].kind = "write" /\ (p = Here => Same(Here, backup[N].orig, home[Here]))
        PROVE  Shaped(p)
    <2>1. CASE p = Here
      BY <1>6, <2>1, MakesEffect DEF Shaped
    <2>2. CASE p # Here
      <3>1. home'[p] = home[p]
        BY <1>2, <1>6, <2>2
      <3>. QED
        BY <1>1, <1>3, <1>6, <2>2, <3>1, ElsewhereRests DEF Shaped
    <2>. QED
      BY <2>1, <2>2
  <1>7. CASE CreateHappens \/ CreateFails
    <2>1. /\ pc = "mutate" /\ actions[N].kind = "create" /\ home[Here] = Absent
          /\ UNCHANGED <<actions, backup>>
          /\ \/ UNCHANGED home
             \/ \E d : home' = [home EXCEPT ![Here] = [id |-> N, data |-> d]]
      BY <1>2, <1>7 DEF CreateHappens, CreateFails, Creating, KindOf, journalVars
    <2>2. ASSUME NEW d, home' = [home EXCEPT ![Here] = [id |-> N, data |-> d]]
          PROVE  Shaped(p)
      <3>. DEFINE o == [id |-> N, data |-> d]
      <3>1. o.id = N /\ home' = [home EXCEPT ![Here] = o]
        BY <2>2
      <3>. HIDE DEF o
      <3>. QED
        BY <1>6, <2>1, <3>1
    <2>. QED
      BY <1>4, <2>1, <2>2
  <1>8. CASE DocumentSwapped \/ DocumentFails
    <2>1. /\ pc = "mutate" /\ actions[N].kind = "write" /\ UNCHANGED <<actions, backup>>
          /\ Writing
          /\ \/ UNCHANGED home
             \/ home[Here].data = SwapExpects.data /\ home' = [home EXCEPT ![Here] = Made(N)]
      BY <1>2, <1>8 DEF DocumentSwapped, DocumentFails, Writing, KindOf, journalVars, Swapped
    <2>2. home[Here].data = SwapExpects.data /\ p = Here => Same(Here, backup[N].orig, home[Here])
      BY <2>1, SwapsSaved
    <2>3. Made(N).id = N
      BY DEF Made
    <2>. QED
      BY <1>4, <1>6, <2>1, <2>2, <2>3
  <1>9. CASE CreateTaken
    <2>1. /\ pc = "mutate" /\ actions[N].kind = "create" /\ UNCHANGED <<home, backup>>
          /\ \/ actions' = [actions EXCEPT ![N] = [actions[N] EXCEPT !.mark = "not-owned"]]
             \/ actions' = [actions EXCEPT ![N] = [[actions[N] EXCEPT !.mark = "not-owned"]
                                                      EXCEPT !.phase = "applied"]]
      BY <1>2, <1>9 DEF CreateTaken, Creating, KindOf, Amend
    <2>2. /\ [actions[N] EXCEPT !.mark = "not-owned"] \in Action
          /\ [[actions[N] EXCEPT !.mark = "not-owned"] EXCEPT !.phase = "applied"] \in Action
          /\ [actions[N] EXCEPT !.mark = "not-owned"].mark = "not-owned"
          /\ [[actions[N] EXCEPT !.mark = "not-owned"] EXCEPT !.phase = "applied"].mark = "not-owned"
      BY <1>2 DEF Action, Marks, Phases
    <2>3. CASE actions' = [actions EXCEPT ![N] = [actions[N] EXCEPT !.mark = "not-owned"]]
      BY <1>5, <2>1, <2>2, <2>3
    <2>4. CASE actions' = [actions EXCEPT ![N] = [[actions[N] EXCEPT !.mark = "not-owned"]
                                                      EXCEPT !.phase = "applied"]]
      BY <1>5, <2>1, <2>2, <2>4
    <2>. QED
      BY <2>1, <2>3, <2>4
  <1>10. CASE DocumentStale
    <2>1. /\ pc = "mutate" /\ actions[N].kind = "write" /\ UNCHANGED <<home, backup>>
          /\ actions' = [actions EXCEPT ![N] = [actions[N] EXCEPT !.mark = "not-written"]]
      BY <1>2, <1>10 DEF DocumentStale, Writing, KindOf, Amend
    <2>2. /\ [actions[N] EXCEPT !.mark = "not-written"] \in Action
          /\ [actions[N] EXCEPT !.mark = "not-written"].mark = "not-written"
      BY <1>2 DEF Action, Marks
    <2>. QED
      BY <1>5, <2>1, <2>2
  <1>11. CASE MoveAside \/ MoveAsideFails
    <2>1. /\ pc = "move" /\ home[Here] # Absent /\ UNCHANGED actions
          /\ UNCHANGED <<home, backup>> \/ RenameAside
      BY <1>11 DEF MoveAside, MoveAsideFails, journalVars
    <2>2. CASE RenameAside /\ p = Here
      BY <2>1, <2>2, MovesEffect DEF Shaped
    <2>3. CASE RenameAside /\ p # Here
      <3>1. home'[p] = home[p] /\ \A i \in 1 .. N : i # N => backup'[i] = backup[i]
        BY <1>2, <2>3 DEF RenameAside
      <3>. QED
        BY <1>1, <1>3, <2>1, <2>3, <3>1, ElsewhereRests DEF Shaped
    <2>. QED
      BY <1>4, <2>1, <2>2, <2>3
  <1>12. CASE RemoveChecked \/ RemoveStale \/ MoveAsideGone \/ SettingsLockTimeout
    <2>1. UNCHANGED <<home, backup, actions>>
      BY <1>12 DEF RemoveChecked, RemoveStale, MoveAsideGone, SettingsLockTimeout, journalVars
    <2>. QED
      BY <1>4, <2>1
  <1>. QED
    BY <1>7, <1>8, <1>9, <1>10, <1>11, <1>12 DEF Mutate

\* The record of what was made, and the filling of an artifact.
LEMMA RecordsRest ==
    ASSUME WriteAheadInv, LedgerInv, CraftInv, Record, NEW p \in Path, p \in Untouched
    PROVE  Rests(p)
  <1>1. pc \in InAction /\ pc \in {"record", "apply", "seal"}
    BY DEF Record, RecordCreated, RecordLost, RecordWritten, Apply, ApplyFails, Seal, InAction
  <1>2. /\ N \in Nat /\ N \in 1 .. N /\ actions[N] \in Action /\ actions[N].path = Here
        /\ home \in [Path -> Object] /\ Due(actions[N])
        /\ \A i \in 1 .. N : actions[i].mark = "pending" => i = N
    BY <1>1, AtWork
  <1>3. EntriesStay
    BY <1>1, EntriesOnlyAmended DEF WriteAheadInv, InAction, Next, Engine
  <1>4. CASE RecordLost
    BY <1>2, <1>3, <1>4, RestsWhen DEF RecordLost, journalVars
  <1>5. ASSUME NEW a \in Action, actions' = [actions EXCEPT ![N] = a], Due(a),
               UNCHANGED <<home, backup>>,
               \/ a.mark = actions[N].mark
               \/ a.mark \in {"owned", "written"} /\ actions[N].mark = "pending" /\ pc = "record"
        PROVE  Rests(p)
    <2>1. Sets(N, a)
      BY <1>1, <1>5, AmendSets DEF WriteAheadInv
    <2>2. \A i \in 1 .. N : i # N => actions'[i] = actions[i]
      BY <2>1 DEF Sets
    <2>3. CASE p # Here
      BY <1>1, <1>3, <1>5, <2>2, <2>3, ElsewhereRests
    <2>4. CASE p = Here
      <3>1. a.mark # actions[N].mark => home[Here].id = N
        BY <1>5, <2>4 DEF CraftInv, Own, Untouched
      <3>2. ASSUME NEW i \in 1 .. N, i = N, a.mark # actions[N].mark
            PROVE  Stands(i) /\ Stands(i)'
        <4>1. /\ actions'[i] = a
              /\ actions[i].mark = "pending" /\ home[actions[i].path].id = i /\ Due(actions[i])
          BY <1>2, <1>5, <2>1, <3>1, <3>2 DEF Sets
        <4>. QED
          BY <1>5, <3>2, <4>1 DEF Stands
      <3>3. \A i \in 1 .. N : /\ \/ /\ actions'[i].mark = actions[i].mark
                                    /\ Due(actions'[i]) <=> Due(actions[i])
                                 \/ Stands(i)' <=> Stands(i)
                              /\ backup'[i].old = backup[i].old
                              /\ backup'[i].orig = backup[i].orig
        <4>1. \A i \in 1 .. N : i = N => actions'[i] = a
          BY <2>1 DEF Sets
        <4>. QED
          BY <1>2, <1>5, <2>2, <3>2, <4>1
      <3>. QED
        BY <1>2, <1>3, <1>5, <3>3, RestsWhen
    <2>. QED
      BY <2>3, <2>4
  <1>6. CASE RecordCreated \/ RecordWritten
    <2>1. pc = "record" /\ actions[N].mark = "pending"
      <3>1. pc = "record"
        BY <1>6 DEF RecordCreated, RecordWritten
      <3>. QED
        BY <1>1, <3>1, AtWork DEF LedgerInv, AtHand, MarksOf
    <2>2. CASE RecordCreated
      <3>. DEFINE a == [actions[N] EXCEPT !.mark = "owned", !.id = home[Here].id]
      <3>1. home[Here].id \in Stamp
        BY <1>1, UnderWay, ObjectFacts DEF WriteAheadInv
      <3>2. a \in Action
        BY <1>2, <3>1, ActionFacts DEF Marks
      <3>3. a.mark = "owned" /\ a.phase = actions[N].phase
        BY <1>2 DEF Action
      <3>4. actions' = [actions EXCEPT ![N] = a] /\ UNCHANGED <<home, backup>>
        BY <2>2 DEF RecordCreated, Amend
      <3>. HIDE DEF a
      <3>. QED
        BY <1>2, <1>5, <2>1, <3>2, <3>3, <3>4 DEF Due
    <2>3. CASE RecordWritten
      <3>. DEFINE a == [actions[N] EXCEPT !.mark = "written"]
      <3>1. a \in Action /\ a.mark = "written" /\ a.phase = actions[N].phase
        BY <1>2 DEF Marks, Action
      <3>2. actions' = [actions EXCEPT ![N] = a] /\ UNCHANGED <<home, backup>>
        BY <2>3 DEF RecordWritten, Amend
      <3>. HIDE DEF a
      <3>. QED
        BY <1>2, <1>5, <2>1, <3>1, <3>2 DEF Due
    <2>. QED
      BY <1>6, <2>2, <2>3
  <1>7. CASE Seal
    <2>. DEFINE a == [actions[N] EXCEPT !.phase = "applied"]
    <2>1. a \in Action /\ a.mark = actions[N].mark /\ a.phase = "applied"
      BY <1>2 DEF Phases, Action
    <2>2. actions' = [actions EXCEPT ![N] = a] /\ UNCHANGED <<home, backup>>
      BY <1>7 DEF Seal, Amend
    <2>. HIDE DEF a
    <2>. QED
      BY <1>2, <1>5, <2>1, <2>2 DEF Due
  <1>8. CASE Apply \/ ApplyFails
    <2>1. /\ pc = "apply" /\ UNCHANGED <<actions, backup>>
          /\ UNCHANGED home \/ home' = [home EXCEPT ![Here].data = IF @ = Partial THEN N ELSE @]
      BY <1>8 DEF Apply, ApplyFails, Filled, journalVars
    <2>2. actions[N].mark = "owned"
      BY <1>1, <2>1 DEF LedgerInv, AtHand
    <2>3. CASE p # Here
      <3>1. home'[p] = home[p]
        BY <1>2, <2>1, <2>3
      <3>. QED
        BY <1>1, <1>3, <2>1, <2>3, <3>1, ElsewhereRests
    <2>4. CASE p = Here
      <3>1. ~NoneStands(p, N)
        BY <1>2, <2>2, <2>4 DEF NoneStands, Stands
      <3>2. ASSUME NEW i \in 1 .. N
            PROVE  Stands(i)' <=> Stands(i)
        <4>1. CASE i = N
          BY <1>2, <2>1, <2>2, <4>1 DEF Stands
        <4>2. CASE i # N
          BY <1>2, <2>1, <4>2 DEF Stands
        <4>. QED
          BY <4>1, <4>2
      <3>3. N' = N
        BY <1>3 DEF EntriesStay
      <3>. QED
        BY <1>2, <2>1, <3>1, <3>2, <3>3, HereIsNamed, <1>1, <2>4 DEF Rests
    <2>. QED
      BY <2>3, <2>4
  <1>. QED
    BY <1>4, <1>6, <1>7, <1>8 DEF Record

\* What is known where an action is undone.
LEMMA AtUndo ==
    ASSUME WriteAheadInv, LedgerInv, CraftInv, pc \in {"undo", "undo-move"}
    PROVE  /\ N \in Nat /\ cursor \in 1 .. N /\ cursor \in 1 .. MaxActions
           /\ Undone = actions[cursor] /\ Undone \in Action /\ Undone.path \in Path
           /\ \A i \in 1 .. N : /\ Due(actions[i]) <=> i <= cursor
                                /\ actions[i].mark = "pending" => i = N
                                /\ i \in 1 .. MaxActions
           /\ Undone.mark \in MarksOf(Undone.kind)
           /\ home \in [Path -> Object] /\ backup \in [1 .. MaxActions -> Slots]
  BY Undoes, JournalFacts
     DEF WriteAheadInv, LedgerInv, Phased, Entries, InUndo, Undone, N

\* What an undo, or its failure, does to the entries.
LEMMA UndoneEntries ==
    ASSUME WriteAheadInv, LedgerInv, CraftInv, pc \in {"undo", "undo-move"},
           UndoDone \/ UndoImpossible
    PROVE  /\ EntriesStay
           /\ \A i \in 1 .. N : i # cursor => actions'[i] = actions[i]
           /\ ~Due(actions'[cursor])
           /\ UndoImpossible => manual'
  <1>1. PICK phase \in {"rolled-back", "rollback-failed"} :
           actions' = [actions EXCEPT ![cursor].phase = phase]
    BY DEF UndoDone, UndoImpossible
  <1>2. /\ Sets(cursor, [Undone EXCEPT !.phase = phase])
        /\ Kin([Undone EXCEPT !.phase = phase], Undone)
        /\ [Undone EXCEPT !.phase = phase].phase = phase
    BY <1>1, AtUndo, PhaseSets DEF WriteAheadInv, InUndo, Phases, Kin, Action
  <1>3. EntriesStay
    BY <1>2, AtUndo DEF EntriesStay, Sets, Kin
  <1>. QED
    BY <1>2, <1>3, AtUndo DEF Sets, Due, UndoImpossible

\* An undo that does not change the path of its action.
LEMMA UndoElsewhere ==
    ASSUME WriteAheadInv, LedgerInv, CraftInv, pc \in {"undo", "undo-move"},
           UndoDone \/ UndoImpossible, NEW p \in Path, p # Undone.path, home'[p] = home[p],
           \A i \in 1 .. N : i # cursor => backup'[i] = backup[i]
    PROVE  Rests(p)
  <1>1. N \in Nat /\ \A i \in 1 .. N : actions[i].path = p => i # cursor
    BY AtUndo
  <1>. QED
    BY <1>1, UndoneEntries, RestsWhen

\* An undo of what does not stand.
LEMMA UndoOfNothing ==
    ASSUME WriteAheadInv, LedgerInv, CraftInv, pc \in {"undo", "undo-move"}, UndoDone,
           NEW p \in Path, ~Stands(cursor), UNCHANGED <<home, backup>>
    PROVE  Rests(p)
  <1>1. N \in Nat /\ cursor \in 1 .. N /\ EntriesStay /\ ~Due(actions'[cursor])
        /\ \A i \in 1 .. N : i # cursor => actions'[i] = actions[i]
    BY AtUndo, UndoneEntries
  <1>2. ASSUME NEW i \in 1 .. N, i = cursor
        PROVE  ~Stands(i) /\ ~Stands(i)'
    BY <1>1, <1>2 DEF Stands
  <1>3. \A i \in 1 .. N : \/ /\ actions'[i].mark = actions[i].mark
                             /\ Due(actions'[i]) <=> Due(actions[i])
                          \/ Stands(i)' <=> Stands(i)
    BY <1>1, <1>2
  <1>. QED
    BY <1>1, <1>3, RestsWhen

\* An undo that is given up.
LEMMA UndoGivenUp ==
    ASSUME WriteAheadInv, LedgerInv, CraftInv, pc \in {"undo", "undo-move"}, UndoImpossible,
           NEW p \in Path, UNCHANGED <<home, backup>>
    PROVE  Given(p)
  <1>1. /\ N \in Nat /\ cursor \in 1 .. N /\ EntriesStay /\ ~Due(actions'[cursor]) /\ manual'
        /\ \A i \in 1 .. N : i # cursor => actions'[i] = actions[i]
    BY AtUndo, UndoneEntries
  <1>2. ASSUME NEW i \in 1 .. N, Stands(i)'
        PROVE  Stands(i)
    <2>1. i # cursor
      BY <1>1, <1>2 DEF Stands
    <2>. QED
      BY <1>1, <1>2, <2>1 DEF Stands
  <1>. QED
    BY <1>1, <1>2 DEF Given, EntriesStay

\* An undo that brings back what its action replaced.
LEMMA UndoTakesBack ==
    ASSUME WriteAheadInv, LedgerInv, CraftInv, pc \in {"undo", "undo-move"},
           UndoDone \/ UndoImpossible, NEW p \in Path, p = Undone.path,
           \/ Undone.mark \in {"owned", "written"}
           \/ Undone.kind = "replace" /\ backup[cursor].old # Absent,
           Same(p, home'[p], Earlier(cursor)),
           \A i \in 1 .. N : /\ i # cursor => backup'[i] = backup[i]
                             /\ backup'[i].orig = backup[i].orig
    PROVE  TakenBack(p)
  <1>1. /\ N \in Nat /\ cursor \in 1 .. N /\ EntriesStay /\ ~Due(actions'[cursor])
        /\ Undone = actions[cursor]
        /\ \A i \in 1 .. N : i # cursor => actions'[i] = actions[i]
        /\ \A i \in 1 .. N : /\ Due(actions[i]) <=> i <= cursor
                             /\ actions[i].mark = "pending" => i = N
    BY AtUndo, UndoneEntries
  <1>2. Stands(cursor)
    BY <1>1 DEF Stands
  <1>3. ASSUME NEW i \in 1 .. N
        PROVE  /\ i < cursor => (Stands(i)' <=> Stands(i)) /\ backup'[i].old = backup[i].old
               /\ i = cursor => ~Stands(i)'
               /\ i > cursor => ~Stands(i) /\ ~Stands(i)'
    <2>1. CASE i < cursor
      <3>1. actions'[i] = actions[i] /\ actions[i].mark # "pending" /\ backup'[i] = backup[i]
        BY <1>1, <2>1
      <3>. QED
        BY <1>1, <2>1, <3>1 DEF Stands
    <2>2. CASE i = cursor
      BY <1>1, <2>2 DEF Stands
    <2>3. CASE i > cursor
      BY <1>1, <2>3 DEF Stands
    <2>. QED
      BY <1>1, <2>1, <2>2, <2>3
  <1>4. p \in Named
    BY <1>1, EffectIsNamed DEF InUndo
  <1>. QED
    BY <1>1, <1>2, <1>3, <1>4 DEF TakenBack, EntriesStay

\* What was made is moved away, with what is in it.
LEMMA MovedAwayShapes ==
    ASSUME WriteAheadInv, LedgerInv, CraftInv, pc = "undo-move", Undone.kind = "create",
           backup' = [backup EXCEPT ![cursor].new = Carried(Undone.path)],
           home' = [q \in Path |-> IF q \in Taken(Undone.path) THEN Absent ELSE home[q]],
           UndoImpossible \/ (UndoDone /\ Matches(Undone, home[Undone.path])),
           NEW p \in Path
    PROVE  Shaped(p)
  <1>. DEFINE d == Undone.path
  <1>1. /\ pc \in {"undo", "undo-move"} /\ cursor \in 1 .. N /\ Undone.mark = "owned"
        /\ Undone = actions[cursor] /\ cursor \in 1 .. MaxActions /\ d \in Path
        /\ \A i \in 1 .. N : i \in 1 .. MaxActions
    BY AtUndo DEF WriteAheadInv, StepInv, Moving
  <1>2. \A i \in 1 .. N : /\ i # cursor => backup'[i] = backup[i]
                          /\ backup'[i].orig = backup[i].orig
    BY <1>1, AtUndo DEF Slots
  <1>3. CASE p = d
    <2>1. home'[p] = Absent /\ Earlier(cursor) = Absent
      BY <1>1, <1>3 DEF Taken, Earlier
    <2>2. Same(p, home'[p], Earlier(cursor))
      BY <2>1, SameFacts
    <2>. QED
      BY <1>1, <1>2, <1>3, <2>2, UndoTakesBack DEF Shaped
  <1>4. CASE p # d /\ home'[p] = home[p]
    BY <1>1, <1>2, <1>4, UndoElsewhere DEF Shaped
  <1>5. CASE p # d /\ home'[p] # home[p]
    <2>1. d \in StateDirs /\ p \in Inside(d) /\ home[p] # Absent
      BY <1>5 DEF Taken
    <2>2. pre[d] = Absent
      BY <1>1, <2>1 DEF WriteAheadInv, JournalInv, DirActions
    <2>3. pre[p] = Absent
      <3>1. Parents[p] # <<>> /\ Parents[p][Len(Parents[p])] = d
        BY <2>1 DEF Inside
      <3>2. Len(Parents[p]) \in 1 .. Len(Parents[p])
        BY <3>1, ParentsAssumption, EmptySeq, LenProperties
      <3>. QED
        BY <2>2, <3>1, <3>2 DEF WriteAheadInv, HomeInv, Possible
    <2>4. ~Matches(Undone, home[d])
      <3>1. d \notin StateFiles \cup Managed
        BY <2>1, KindsAssumption DEF Docs
      <3>2. ~IsEmpty(d)
        BY <2>1 DEF IsEmpty
      <3>. QED
        BY <2>1, <3>1, <3>2 DEF Matches, ConditionHolds
    <2>5. manual'
      BY <2>4 DEF UndoImpossible
    <2>6. home'[p] = Absent
      BY <1>5
    <2>. QED
      BY <2>3, <2>5, <2>6 DEF Shaped, Swept
  <1>. QED
    BY <1>3, <1>4, <1>5

\* A document gets its text back.
LEMMA PutBackShapes ==
    ASSUME WriteAheadInv, LedgerInv, CraftInv, pc = "undo", Undone.kind = "write",
           Undone.mark = "written", PutBack(Undone.path), UndoDone \/ UndoImpossible,
           NEW p \in Path
    PROVE  Shaped(p)
  <1>1. /\ pc \in {"undo", "undo-move"} /\ cursor \in 1 .. N /\ Undone.path \in Path
        /\ Undone = actions[cursor] /\ cursor \in 1 .. MaxActions
        /\ \A i \in 1 .. N : i \in 1 .. MaxActions
        /\ home \in [Path -> Object] /\ backup \in [1 .. MaxActions -> Slots]
    BY AtUndo
  <1>2. \A i \in 1 .. N : /\ i # cursor => backup'[i] = backup[i]
                          /\ backup'[i].orig = backup[i].orig
    <2>1. \/ backup' = backup
          \/ backup' = [backup EXCEPT ![cursor].new = home[Undone.path]]
      BY DEF PutBack
    <2>2. CASE backup' = backup
      BY <2>2
    <2>3. CASE backup' = [backup EXCEPT ![cursor].new = home[Undone.path]]
      BY <1>1, <2>3 DEF Slots
    <2>. QED
      BY <2>1, <2>2, <2>3
  <1>3. /\ Undone.path \in Docs
        /\ Undone.had <=> backup[cursor].orig # Absent
    BY <1>1 DEF CraftInv, Papers
  <1>4. /\ \A q \in Path : q # Undone.path => home'[q] = home[q]
        /\ home'[Undone.path].data = backup[cursor].orig.data
    BY <1>1, <1>3 DEF PutBack
  <1>5. CASE p = Undone.path
    <2>1. Same(p, home'[p], Earlier(cursor))
      BY <1>1, <1>3, <1>4, <1>5 DEF Same, Earlier
    <2>. QED
      BY <1>1, <1>2, <1>5, <2>1, UndoTakesBack DEF Shaped
  <1>6. CASE p # Undone.path
    BY <1>1, <1>2, <1>4, <1>6, UndoElsewhere DEF Shaped
  <1>. QED
    BY <1>5, <1>6

\* A preserved original goes home.
LEMMA GoneHomeShapes ==
    ASSUME WriteAheadInv, LedgerInv, CraftInv, pc = "undo-move", Undone.kind = "replace",
           home' = [home EXCEPT ![Undone.path] = backup[cursor].old],
           backup' = [backup EXCEPT ![cursor].old = Absent],
           UndoDone \/ UndoImpossible, NEW p \in Path
    PROVE  Shaped(p)
  <1>1. /\ pc \in {"undo", "undo-move"} /\ cursor \in 1 .. N /\ Undone.path \in Path
        /\ Undone = actions[cursor] /\ cursor \in 1 .. MaxActions
        /\ \A i \in 1 .. N : i \in 1 .. MaxActions
        /\ home \in [Path -> Object] /\ backup \in [1 .. MaxActions -> Slots]
        /\ backup[cursor].old # Absent
    BY AtUndo DEF WriteAheadInv, StepInv, Moving
  <1>2. \A i \in 1 .. N : /\ i # cursor => backup'[i] = backup[i]
                          /\ backup'[i].orig = backup[i].orig
    BY <1>1 DEF Slots
  <1>3. CASE p = Undone.path
    <2>1. home'[p] = Earlier(cursor)
      BY <1>1, <1>3 DEF Earlier
    <2>2. Same(p, home'[p], Earlier(cursor))
      BY <2>1, SameFacts
    <2>. QED
      BY <1>1, <1>2, <1>3, <2>2, UndoTakesBack DEF Shaped
  <1>4. CASE p # Undone.path
    <2>1. home'[p] = home[p]
      BY <1>1, <1>4
    <2>. QED
      BY <1>1, <1>2, <1>4, <2>1, UndoElsewhere DEF Shaped
  <1>. QED
    BY <1>3, <1>4

\* The undo of an action.
LEMMA UndoShapes ==
    ASSUME WriteAheadInv, LedgerInv, CraftInv, UndoActions, NEW p \in Path
    PROVE  Shaped(p)
  <1>1. pc \in {"undo", "undo-move"}
    BY UndoSteps
  <1>2. CASE UndoCreateMove \/ (UndoMoveStuck /\ Undone.kind = "create")
    BY <1>2, MovedAwayShapes DEF UndoCreateMove, UndoMoveStuck
  <1>3. CASE UndoReplaceMove \/ (UndoMoveStuck /\ Undone.kind # "create")
    <2>1. pc = "undo-move" /\ Undone.kind = "replace"
      BY <1>3 DEF UndoReplaceMove, UndoMoveStuck, WriteAheadInv, StepInv, Moving
    <2>. QED
      BY <1>3, <2>1, GoneHomeShapes DEF UndoReplaceMove, UndoMoveStuck
  <1>4. CASE UndoWrite \/ UndoWriteUnacknowledged
    BY <1>4, PutBackShapes DEF UndoWrite, UndoWriteUnacknowledged, Undoing
  <1>5. CASE UndoNothing
    <2>1. ~Stands(cursor)
      <3>1. /\ Undone.mark \in MarksOf(Undone.kind) /\ Undone = actions[cursor]
            /\ cursor \in 1 .. N /\ N \in Nat /\ Absent.id = -1
        BY <1>1, AtUndo, StampsCount DEF WriteAheadInv
      <3>2. CASE Undone.mark \in {"not-owned", "not-written"}
        BY <3>1, <3>2 DEF Stands, MarksOf
      <3>3. CASE Undone.kind = "create" /\ Undone.mark = "pending" /\ home[Undone.path] = Absent
        BY <3>1, <3>3 DEF Stands
      <3>4. CASE Undone.kind = "replace" /\ backup[cursor].old = Absent
        BY <3>1, <3>4 DEF Stands, MarksOf
      <3>. QED
        BY <1>5, <3>2, <3>3, <3>4 DEF UndoNothing
    <2>. QED
      BY <1>1, <1>5, <2>1, UndoOfNothing DEF UndoNothing, Shaped
  <1>6. CASE UndoUnresolved \/ UndoFails \/ UndoCreateChecked \/ UndoCreateGone
             \/ UndoWriteStale \/ UndoReplaceChecked \/ UndoReplaceImpossible
    <2>1. /\ UNCHANGED <<home, backup>>
          /\ UndoImpossible \/ UNCHANGED actions
      BY <1>6
         DEF UndoUnresolved, UndoFails, UndoCreateChecked, UndoCreateGone, UndoWriteStale,
             UndoReplaceChecked, UndoReplaceImpossible, journalVars
    <2>2. CASE UndoImpossible
      BY <1>1, <2>1, <2>2, UndoGivenUp DEF Shaped
    <2>3. CASE UNCHANGED actions
      BY <1>1, <2>1, <2>3, AtUndo, RestsWhen DEF Shaped, EntriesStay, Kin, N
    <2>. QED
      BY <2>1, <2>2, <2>3
  <1>. QED
    BY <1>2, <1>3, <1>4, <1>5, <1>6 DEF UndoActions

\* Every step has one of the shapes, at every path nobody else touched.
LEMMA StepShapes ==
    ASSUME WriteAheadInv, LedgerInv, CraftInv, [Next]_vars, NEW p \in Path, p \notin touched'
    PROVE  Shaped(p)
  <1>1. N \in Nat
    BY JournalFacts DEF WriteAheadInv
  <1>2. ASSUME UNCHANGED <<actions, backup>>, home'[p] = home[p]
        PROVE  Shaped(p)
    BY <1>1, <1>2, RestsWhen DEF Shaped, EntriesStay, Kin, N
  <1>3. CASE Call \/ Finish \/ StartRollback \/ UndoPersist \/ EndRollback \/ Release
             \/ ReleaseFails \/ Crash \/ UNCHANGED vars
    <2>1. UNCHANGED <<actions, backup, home>>
      BY <1>3
         DEF Call, CallCreate, CallWriteState, CallRemove, CallDocument, CallStaleCurrent, Start,
             Finish, Commit, Abort, AbortAfterFailure, StartRollback, UndoPersist, EndRollback,
             Release, ReleaseFails, Crash, journalVars, vars
    <2>. QED
      BY <1>2, <2>1
  <1>4. CASE Plan
    BY <1>4, PlansRest DEF Shaped
  <1>5. CASE Mutate
    <2>1. UNCHANGED touched
      BY <1>5
         DEF Mutate, CreateHappens, CreateTaken, CreateFails, RemoveChecked, RemoveStale,
             MoveAside, MoveAsideGone, MoveAsideFails, DocumentSwapped, DocumentStale,
             DocumentFails, SettingsLockTimeout, envVars
    <2>. QED
      BY <1>5, <2>1, MutateShapes DEF Untouched
  <1>6. CASE Record
    <2>1. UNCHANGED touched
      BY <1>6
         DEF Record, RecordCreated, RecordLost, RecordWritten, Apply, ApplyFails, Seal, envVars
    <2>. QED
      BY <1>6, <2>1, RecordsRest DEF Untouched, Shaped
  <1>7. CASE UndoActions
    BY <1>7, UndoShapes
  <1>8. ASSUME NEW q \in Path, ForeignWrite(q) \/ ForeignEdit(q) \/ ForeignRemove(q)
        PROVE  Shaped(p)
    <2>1. PICK object : ForeignStep(q, object)
      BY <1>8 DEF ForeignWrite, ForeignEdit, ForeignRemove
    <2>2. /\ UNCHANGED <<actions, backup>> /\ p # q
          /\ home' = [home EXCEPT ![q] = object] /\ home \in [Path -> Object]
      BY <2>1 DEF ForeignStep, journalVars, WriteAheadInv, TypeInv, TypeOK
    <2>. QED
      BY <1>2, <2>2
  <1>. QED
    BY <1>3, <1>4, <1>5, <1>6, <1>7, <1>8 DEF Next, Engine, Environment, Undo, UndoActions

\* Every step keeps what undoing brings back.
LEMMA RewindInductive ==
    WriteAheadInv /\ WriteAheadInv' /\ LedgerInv /\ CraftInv /\ RewindInv /\ [Next]_vars
        => RewindInv'
  <1>1. SUFFICES ASSUME WriteAheadInv, WriteAheadInv', LedgerInv, CraftInv, RewindInv,
                        [Next]_vars, NEW p \in Path, p \notin touched'
                 PROVE  (manual \/ Rewinds(p))' /\ Keeps(p)'
    BY DEF RewindInv, Untouched
  <1>2. /\ Grows /\ UNCHANGED pre /\ touched \subseteq touched' /\ (manual => manual')
        /\ N \in Nat /\ N' \in Nat /\ Len(disk.actions) \in Nat /\ Len(disk'.actions) \in Nat
        /\ \A i \in 1 .. N : actions[i].kind \in {"create", "replace", "write"}
    BY <1>1, StepGrows
  <1>3. (manual \/ Rewinds(p)) /\ Keeps(p) /\ Shaped(p) /\ pre[p] \in {Absent, Original}
    BY <1>1, <1>2, StepShapes DEF RewindInv, Untouched, WriteAheadInv, TypeInv, TypeOK
  <1>4. Keeps(p)'
    BY <1>2, <1>3, PathKeeps
  <1>5. manual' \/ Rewinds(p)'
    BY <1>2, <1>3, PathRewinds
  <1>. QED
    BY <1>4, <1>5

\* At first nothing has changed.
LEMMA RewindInit == Init => RewindInv
  <1>1. SUFFICES ASSUME Init, NEW p \in Path
                 PROVE  Rewinds(p) /\ Keeps(p)
    BY DEF RewindInv, Untouched
  <1>2. N = 0 /\ home[p] = pre[p]
    BY <1>1 DEF Init, N
  <1>3. NoneStands(p, N) /\ Same(p, home[p], pre[p])
    BY <1>2, SameFacts DEF NoneStands
  <1>. QED
    BY <1>2, <1>3 DEF Rewinds, Keeps

\* Everything above together.
EngineInv == WriteAheadInv /\ LedgerInv /\ CraftInv /\ RewindInv

\* Together they are inductive.
LEMMA EngineInductive == EngineInv /\ [Next]_vars => EngineInv'
  BY WriteAheadInductive, LedgerInductive, CraftInductive, RewindInductive DEF EngineInv

\* They hold at first.
LEMMA EngineInit == Init => EngineInv
  BY WriteAheadInit, LedgerInit, CraftInit, RewindInit DEF EngineInv

\* A run that reports "rolled-back" has brought back every path nobody else wrote
\* (transaction-rollback.ts; README, exit 24).
LEMMA RestoredWhenReported == EngineInv => RolledBackRestores
  <1>1. SUFFICES ASSUME EngineInv, result.status = "rolled-back", NEW p \in Untouched
                 PROVE  Same(p, home[p], pre[p])
    BY DEF RolledBackRestores
  <1>2. pc = "done" /\ state = "rolled-back" /\ ~manual
    BY <1>1 DEF EngineInv, LedgerInv, Reported, NoResult
  <1>3. \A i \in 1 .. N : ~Stands(i)
    BY <1>1, <1>2 DEF EngineInv, LedgerInv, Phased, Stands
  <1>. QED
    BY <1>1, <1>2, <1>3 DEF EngineInv, RewindInv, Rewinds, NoneStands

\* Every path that a rollback reported as complete was undone is the object it was before the
\* transaction (transaction-rollback.ts, executeRollback; README, exit 24).
THEOREM RollsBack == Spec => []RolledBackRestores
  BY RestoredWhenReported, EngineInit, EngineInductive, PTL DEF Spec

\* No original is lost, whatever fails and wherever the process dies: it is in its place, or in
\* the backup of an action that journal.json names (transaction-actions.ts: moveArtifactPath
\* renames and never deletes, the old text is saved before the document is swapped).
THEOREM Recoverable == Spec => []OriginalRecoverable
  <1>1. EngineInv => OriginalRecoverable
    <2>1. SUFFICES ASSUME EngineInv, NEW p \in Untouched, pre[p] # Absent,
                          ~Same(p, home[p], pre[p])
                   PROVE  \E i \in 1 .. Len(disk.actions) :
                             /\ disk.actions[i].path = p
                             /\ Same(p, backup[i].old, pre[p]) \/ Same(p, backup[i].orig, pre[p])
      BY DEF OriginalRecoverable
    <2>2. PICK i \in 1 .. N : Holds(i, p)
      BY <2>1 DEF EngineInv, RewindInv, Keeps
    <2>3. pre[p] \in {Absent, Original} /\ N \in Nat /\ Len(disk.actions) \in Nat
      BY <2>1, JournalFacts DEF EngineInv, WriteAheadInv, TypeInv, TypeOK, Untouched
    <2>4. i <= Len(disk.actions)
      <3>1. CASE actions[i].kind = "write"
        BY <2>2, <3>1 DEF Holds
      <3>2. CASE actions[i].kind = "replace"
        <4>1. backup[i].old # Absent
          BY <2>1, <2>2, <2>3, <3>2, NotAbsent DEF Holds
        <4>. QED
          BY <2>1, <2>3, <4>1 DEF EngineInv, WriteAheadInv, JournalInv, Idle
      <3>. QED
        BY <2>2, <3>1, <3>2 DEF Holds
    <2>5. i \in 1 .. Len(disk.actions) /\ disk.actions[i].path = p
      BY <2>1, <2>2, <2>3, <2>4 DEF EngineInv, WriteAheadInv, JournalInv, Prefix, Holds
    <2>. QED
      BY <2>2, <2>5 DEF Holds
  <1>. QED
    BY <1>1, EngineInit, EngineInductive, PTL DEF Spec

\* The refinement of the atomic transaction: where it starts.
LEMMA StartsAtomic == Init => Atomic!Init
  <1>1. SUFFICES ASSUME Init PROVE Atomic!Init
    OBVIOUS
  <1>. QED
    BY <1>1, SameFacts DEF Init, Atomic!Init, Dirty, Named, Outcome, NoResult, Untouched

\* A transaction that is over stays as it is.
LEMMA OverIsOver ==
    ASSUME [Next]_vars, pc \in {"done", "crashed"}
    PROVE  UNCHANGED vars
  <1>1. ~Call /\ ~Plan /\ ~Finish /\ ~Release /\ ~ReleaseFails
    BY DEF Call, CallCreate, CallWriteState, CallRemove, CallDocument, CallStaleCurrent, MayCall,
           Plan, PlanRefused, PlanCreate, PlanRemove, PlanRemoveRefused, PlanDocument,
           PlanDocumentRefused, Finish, Commit, Abort, AbortAfterFailure, Release, ReleaseFails
  <1>2. ~Mutate
    BY DEF Mutate, CreateHappens, CreateTaken, CreateFails, Creating, RemoveChecked, RemoveStale,
           Removing, MoveAside, MoveAsideGone, MoveAsideFails, DocumentSwapped, DocumentStale,
           DocumentFails, SettingsLockTimeout, Writing
  <1>3. ~Record
    BY DEF Record, RecordCreated, RecordLost, RecordWritten, Apply, ApplyFails, Seal
  <1>4. ~Undo
    <2>1. ~UndoActions
      BY UndoSteps
    <2>. QED
      BY <2>1 DEF Undo, UndoActions, StartRollback, UndoPersist, EndRollback
  <1>5. ~Environment
    BY DEF Environment, Crash, ForeignWrite, ForeignEdit, ForeignRemove, ForeignStep, Running
  <1>. QED
    BY <1>1, <1>2, <1>3, <1>4, <1>5 DEF Next, Engine

\* Only its end and a crash end a transaction.
LEMMA StaysRunning ==
    ASSUME [Next]_vars, pc \notin {"done", "crashed"}, ~Release, ~ReleaseFails, ~Crash
    PROVE  pc' \notin {"done", "crashed"}
  <1>1. CASE Call \/ Plan \/ UNCHANGED vars
    BY <1>1
       DEF Call, CallCreate, CallWriteState, CallRemove, CallDocument, CallStaleCurrent, Start,
           Plan, PlanRefused, PlanCreate, PlanRemove, PlanRemoveRefused, PlanDocument,
           PlanDocumentRefused, Announce, Throw, Goto, vars
  <1>2. CASE Mutate
    BY <1>2
       DEF Mutate, CreateHappens, CreateTaken, CreateFails, RemoveChecked, RemoveStale,
           MoveAside, MoveAsideGone, MoveAsideFails, DocumentSwapped, DocumentStale,
           DocumentFails, SettingsLockTimeout, Amend, Throw, Goto, NextTask
  <1>3. CASE Record \/ Finish
    BY <1>3
       DEF Record, RecordCreated, RecordLost, RecordWritten, Apply, ApplyFails, Seal, Amend,
           Throw, Goto, NextTask, Finish, Commit, Abort, AbortAfterFailure, BeginRollback
  <1>4. CASE Undo
    <2>1. CASE UndoActions
      BY <2>1, UndoSteps DEF UndoDone, UndoImpossible, NextUndo, Goto
    <2>2. CASE StartRollback \/ UndoPersist \/ EndRollback
      BY <2>2 DEF StartRollback, UndoPersist, EndRollback, NextUndo
    <2>. QED
      BY <1>4, <2>1, <2>2 DEF Undo, UndoActions
  <1>5. CASE \E p \in Path : ForeignWrite(p) \/ ForeignEdit(p) \/ ForeignRemove(p)
    BY <1>5 DEF ForeignWrite, ForeignEdit, ForeignRemove, ForeignStep
  <1>. QED
    BY <1>1, <1>2, <1>3, <1>4, <1>5 DEF Next, Engine, Environment

\* What a path of the journal in memory is on disk.
LEMMA OnDisk ==
    ASSUME WriteAheadInv, NEW i \in 1 .. N, i <= Len(disk.actions)
    PROVE  actions[i].path \in Named
  <1>1. i \in 1 .. Len(disk.actions) /\ disk.actions[i].path = actions[i].path
    BY JournalFacts DEF WriteAheadInv, JournalInv, Prefix
  <1>. QED
    BY <1>1 DEF Named

\* Only what is named already changes.
LEMMA ChangesNamed ==
    ASSUME EngineInv, EngineInv', [Next]_vars
    PROVE  /\ Dirty' \subseteq Dirty \cup Named
           /\ Named \subseteq Named' /\ Named \subseteq Path /\ Named' \subseteq Path
  <1>1. WriteAheadInv /\ WriteAheadInv' /\ LedgerInv /\ CraftInv
    BY DEF EngineInv
  <1>2. /\ Grows /\ UNCHANGED pre /\ touched \subseteq touched' /\ N \in Nat
        /\ disk' = disk \/ disk'.actions = actions'
    BY <1>1, StepGrows
  <1>3. ASSUME NEW p \in Path, p \notin touched', ~Same(p, home'[p], pre[p]), p \notin Named
        PROVE  home'[p] = home[p]
    <2>1. Shaped(p)
      BY <1>1, <1>3, StepShapes
    <2>2. ~Effect(p)
      BY <1>1, <1>3, OnDisk DEF Effect
    <2>3. ~Swept(p)
      BY <1>3, SameFacts DEF Swept
    <2>. QED
      BY <1>3, <2>1, <2>2, <2>3 DEF Shaped, Rests, TakenBack, Given
  <1>4. Dirty' \subseteq Dirty \cup Named
    BY <1>2, <1>3 DEF Dirty, Untouched, Same
  <1>5. Named \subseteq Named'
    BY <1>1, <1>2, NamedGrows DEF WriteAheadInv, JournalInv, Grows, N
  <1>6. Named \subseteq Path
    <2>1. disk.actions \in Seq(Action)
      BY <1>1, JournalFacts DEF WriteAheadInv
    <2>2. \A i \in 1 .. Len(disk.actions) : disk.actions[i] \in Action
      BY <2>1, ElementOfSeq
    <2>. QED
      BY <2>2 DEF Named, Action
  <1>7. Named' \subseteq Path
    <2>1. disk'.actions \in Seq(Action)
      BY <1>1 DEF WriteAheadInv, TypeInv, TypeOK, Journal
    <2>2. \A i \in 1 .. Len(disk'.actions) : disk'.actions[i] \in Action
      BY <2>1, ElementOfSeq
    <2>. QED
      BY <2>2 DEF Named, Action
  <1>. QED
    BY <1>4, <1>5, <1>6, <1>7

\* The end of a transaction is one step of the abstract one.
LEMMA EndsAtomic ==
    ASSUME EngineInv, EngineInv', Release \/ ReleaseFails
    PROVE  Atomic!Next
  <1>1. /\ pc = "release" /\ pc' = "done" /\ result = NoResult
        /\ state \in {"committed", "rolled-back", "rollback-failed"}
    BY DEF EngineInv, LedgerInv, Reported, Release, ReleaseFails, Return
  <1>2. Outcome = "running"
    BY <1>1 DEF Outcome, NoResult
  <1>3. Dirty' = Dirty
    BY DEF Dirty, Untouched, Release, ReleaseFails, envVars
  <1>4. CASE result'.status = "rollback-failed"
    <2>1. Outcome' = "stuck"
      BY <1>1, <1>4 DEF Outcome
    <2>2. Named \subseteq Named' /\ Named' \subseteq Path
      BY ChangesNamed DEF Next, Engine
    <2>. QED
      BY <1>2, <1>3, <2>1, <2>2 DEF Atomic!Next, Atomic!Stuck
  <1>5. CASE result'.status = "committed"
    <2>1. Outcome' = "committed" /\ UNCHANGED disk
      BY <1>1, <1>5 DEF Outcome, Release, ReleaseFails, Return, journalVars
    <2>2. Named' = Named
      BY <2>1 DEF Named
    <2>. QED
      BY <1>2, <1>3, <2>1, <2>2 DEF Atomic!Next, Atomic!Commit, Atomic!End
  <1>6. CASE result'.status = "rolled-back"
    <2>1. Outcome' = "undone" /\ UNCHANGED disk
      BY <1>1, <1>6 DEF Outcome, Release, ReleaseFails, Return, journalVars
    <2>2. Named' = Named
      BY <2>1 DEF Named
    <2>3. RolledBackRestores'
      BY RestoredWhenReported, PTL
    <2>4. Dirty = {}
      BY <1>3, <1>6, <2>3 DEF RolledBackRestores, Dirty, Untouched
    <2>. QED
      BY <1>2, <1>3, <2>1, <2>2, <2>4 DEF Atomic!Next, Atomic!Undone, Atomic!End
  <1>. QED
    BY <1>1, <1>4, <1>5, <1>6 DEF Release, ReleaseFails, Return

\* Every step is one of the abstract transaction, or a stutter.
LEMMA StepsAtomic ==
    ASSUME EngineInv, EngineInv', [Next]_vars
    PROVE  [Atomic!Next]_(Atomic!vars)
  <1>1. CASE pc \in {"done", "crashed"}
    BY <1>1, OverIsOver
       DEF vars, Atomic!vars, Dirty, Named, Outcome, Untouched
  <1>2. CASE Release \/ ReleaseFails
    BY <1>2, EndsAtomic
  <1>3. CASE Crash
    <2>1. /\ result = NoResult /\ result' = NoResult /\ pc # "crashed" /\ pc' = "crashed"
      BY <1>3 DEF Crash, Running, EngineInv, LedgerInv, Reported
    <2>2. Outcome = "running"
      BY <2>1 DEF Outcome, NoResult
    <2>3. Outcome' = "crashed"
      BY <2>1 DEF Outcome, NoResult
    <2>4. Dirty' = Dirty /\ Named' = Named
      BY <1>3 DEF Crash, Dirty, Named, Untouched, journalVars, envVars
    <2>. QED
      BY <2>2, <2>3, <2>4 DEF Atomic!Next, Atomic!Crash, Atomic!End
  <1>4. CASE pc \notin {"done", "crashed"} /\ ~Release /\ ~ReleaseFails /\ ~Crash
    <2>1. pc' \notin {"done", "crashed"}
      BY <1>4, StaysRunning
    <2>2. result = NoResult /\ result' = NoResult
      BY <1>4, <2>1 DEF EngineInv, LedgerInv, Reported
    <2>3. Outcome = "running" /\ Outcome' = "running"
      BY <1>4, <2>1, <2>2 DEF Outcome, NoResult
    <2>4. /\ Dirty' \subseteq Dirty \cup Named
          /\ Named \subseteq Named' /\ Named' \subseteq Path
      BY ChangesNamed
    <2>. QED
      BY <2>3, <2>4 DEF Atomic!Next, Atomic!Work
  <1>. QED
    BY <1>1, <1>2, <1>3, <1>4

\* The engine implements the atomic transaction, for any paths and bounds: the journal names a
\* path on disk before the path changes and never forgets it, and a run that reports
\* "rolled-back" has undone every change (transaction.ts, transaction-rollback.ts).
THEOREM Implements == Spec => ImplementsAtomic
  <1>1. EngineInv /\ EngineInv' /\ [Next]_vars => [Atomic!Next]_(Atomic!vars)
    BY StepsAtomic
  <1>. QED
    BY <1>1, StartsAtomic, EngineInit, EngineInductive, PTL DEF Spec, ImplementsAtomic, Atomic!Spec

\* Only the planning of a document, a move and an undo change the backup.
LEMMA BackupSteps ==
    ASSUME TypeInv, [Next]_vars, ~UNCHANGED backup
    PROVE  PlanDocument \/ MoveAside \/ MoveAsideFails \/ UndoActions
  <1>1. ~Call /\ ~Finish /\ ~StartRollback /\ ~UndoPersist /\ ~EndRollback /\ ~Release
        /\ ~ReleaseFails /\ ~UNCHANGED vars
    BY DEF Call, CallCreate, CallWriteState, CallRemove, CallDocument, CallStaleCurrent, Start,
           Finish, Commit, Abort, AbortAfterFailure, StartRollback, UndoPersist, EndRollback,
           Release, ReleaseFails, vars
  <1>2. Plan => PlanDocument
    BY DEF Plan, PlanRefused, PlanCreate, PlanRemove, PlanRemoveRefused, PlanDocumentRefused
  <1>3. Mutate => MoveAside \/ MoveAsideFails
    BY DEF Mutate, CreateHappens, CreateTaken, CreateFails, RemoveChecked, RemoveStale,
           MoveAsideGone, DocumentSwapped, DocumentStale, DocumentFails, SettingsLockTimeout
  <1>4. ~Record
    BY DEF Record, RecordCreated, RecordLost, RecordWritten, Apply, ApplyFails, Seal
  <1>5. ~Environment
    BY DEF Environment, Crash, ForeignWrite, ForeignEdit, ForeignRemove, ForeignStep
  <1>. QED
    BY <1>1, <1>2, <1>3, <1>4, <1>5 DEF Next, Engine, Undo, UndoActions

\* How an undo changes DSH_HOME and the backup.
LEMMA UndoEffects ==
    ASSUME WriteAheadInv, LedgerInv, CraftInv, UndoActions
    PROVE  \/ UNCHANGED <<home, backup>>
           \/ /\ pc = "undo-move" /\ Undone.kind = "create"
              /\ backup' = [backup EXCEPT ![cursor].new = Carried(Undone.path)]
              /\ home' = [q \in Path |-> IF q \in Taken(Undone.path) THEN Absent ELSE home[q]]
           \/ /\ pc = "undo-move" /\ Undone.kind = "replace" /\ backup[cursor].old # Absent
              /\ home' = [home EXCEPT ![Undone.path] = backup[cursor].old]
              /\ backup' = [backup EXCEPT ![cursor].old = Absent]
           \/ /\ Undone.kind = "write" /\ Undone.mark = "written" /\ PutBack(Undone.path)
              /\ home[Undone.path].data = Undone.data
  <1>1. CASE UndoCreateMove \/ UndoReplaceMove \/ UndoMoveStuck
    <2>1. pc = "undo-move"
      BY <1>1 DEF UndoCreateMove, UndoReplaceMove, UndoMoveStuck
    <2>2. \/ Undone.kind = "create"
          \/ Undone.kind = "replace" /\ backup[cursor].old # Absent
      BY <2>1 DEF WriteAheadInv, StepInv, Moving
    <2>. QED
      BY <1>1, <2>1, <2>2 DEF UndoCreateMove, UndoReplaceMove, UndoMoveStuck
  <1>2. CASE UndoWrite \/ UndoWriteUnacknowledged
    BY <1>2 DEF UndoWrite, UndoWriteUnacknowledged, Undoing
  <1>3. CASE UndoNothing \/ UndoUnresolved \/ UndoFails \/ UndoCreateChecked \/ UndoCreateGone
             \/ UndoWriteStale \/ UndoReplaceChecked \/ UndoReplaceImpossible
    BY <1>3
       DEF UndoNothing, UndoUnresolved, UndoFails, UndoCreateChecked, UndoCreateGone,
           UndoWriteStale, UndoReplaceChecked, UndoReplaceImpossible
  <1>. QED
    BY <1>1, <1>2, <1>3 DEF UndoActions

\* A preserved original leaves the backup only for its own place, whatever happens
\* (transaction-rollback.ts, undoReplace: nothing else is ever renamed out of old/).
THEOREM OriginalsGoHome == Spec => OriginalsOnlyMoveHome
  <1>. DEFINE Home == \A i \in 1 .. MaxActions :
                         backup[i].old # Absent /\ backup'[i].old # backup[i].old =>
                            /\ backup'[i].old = Absent
                            /\ home'[actions[i].path] = backup[i].old
  <1>1. EngineInv /\ [Next]_vars => [Home]_vars
    <2>1. SUFFICES ASSUME EngineInv, [Next]_vars, ~UNCHANGED backup,
                          NEW i \in 1 .. MaxActions, backup[i].old # Absent,
                          backup'[i].old # backup[i].old
                   PROVE  /\ backup'[i].old = Absent
                          /\ home'[actions[i].path] = backup[i].old
      OBVIOUS
    <2>2. /\ WriteAheadInv /\ LedgerInv /\ CraftInv /\ TypeInv
          /\ home \in [Path -> Object] /\ backup \in [1 .. MaxActions -> Slots]
      BY <2>1 DEF EngineInv, WriteAheadInv, TypeInv, TypeOK
    <2>3. CASE PlanDocument
      <3>1. \E o : backup' = [backup EXCEPT ![N + 1].orig = o]
        BY <2>3 DEF PlanDocument
      <3>. QED
        BY <2>1, <2>2, <3>1 DEF Slots
    <2>4. CASE MoveAside \/ MoveAsideFails
      <3>1. pc = "move" /\ backup[N].old = Absent
        BY <2>2, <2>4 DEF MoveAside, MoveAsideFails, LedgerInv, AtHand, InAction
      <3>2. backup' = [backup EXCEPT ![N].old = home[Here]]
        BY <2>1, <2>4 DEF MoveAside, MoveAsideFails, RenameAside
      <3>. QED
        BY <2>1, <2>2, <3>1, <3>2 DEF Slots
    <2>5. CASE UndoActions
      <3>1. /\ cursor \in 1 .. MaxActions /\ Undone.path \in Path /\ Undone = actions[cursor]
        BY <2>2, <2>5, UndoSteps, AtUndo
      <3>2. CASE \E o : backup' = [backup EXCEPT ![cursor].new = o]
        BY <2>1, <2>2, <3>2 DEF Slots
      <3>3. CASE /\ home' = [home EXCEPT ![Undone.path] = backup[cursor].old]
                 /\ backup' = [backup EXCEPT ![cursor].old = Absent]
        <4>1. i = cursor
          BY <2>1, <2>2, <3>3 DEF Slots
        <4>. QED
          BY <2>2, <3>1, <3>3, <4>1 DEF Slots
      <3>. QED
        BY <2>1, <2>2, <2>5, <3>2, <3>3, UndoEffects DEF PutBack
    <2>. QED
      BY <2>1, <2>2, <2>3, <2>4, <2>5, BackupSteps
  <1>. QED
    BY <1>1, EngineInit, EngineInductive, PTL DEF Spec, OriginalsOnlyMoveHome

-----------------------------------------------------------------------------
(* What somebody else wrote *)

\* Nothing has been moved to the new/ of an action still to be undone.
Unspent ==
    \A i \in 1 .. MaxActions : backup[i].new # Absent => i <= N /\ ~Due(actions[i])

\* An original goes home to an empty place.
Free == pc = "undo-move" /\ Undone.kind = "replace" => home[Undone.path] = Absent

\* Foreign bytes in the backup of an action, and the paths they may be from.
Holding(i) == Foreign \in {backup[i].old.data, backup[i].new.data, backup[i].orig.data}

Keeper(i, p) == (actions[i].path = p \/ p \in Inside(actions[i].path)) /\ Holding(i)

Safe(p) == home[p].data = Foreign \/ \E i \in 1 .. N : Keeper(i, p)

ForeignInv == Unspent /\ Free /\ \A p \in live : Safe(p)

\* No action is due again.
LEMMA DueShrinks ==
    ASSUME EngineInv, [Next]_vars, NEW i \in 1 .. N, Due(actions'[i])
    PROVE  Due(actions[i])
  <1>1. WriteAheadInv /\ LedgerInv /\ CraftInv
    BY DEF EngineInv
  <1>2. CASE pc \in Forward
    BY <1>1, <1>2 DEF LedgerInv, Phased
  <1>3. CASE pc \notin Forward
    <2>1. CASE UndoActions
      <3>1. pc \in {"undo", "undo-move"}
        BY <2>1, UndoSteps
      <3>2. CASE UndoDone \/ UndoImpossible
        BY <1>1, <3>1, <3>2, UndoneEntries
      <3>3. CASE UNCHANGED actions
        BY <3>3
      <3>. QED
        BY <2>1, <3>2, <3>3, UndoSteps
    <2>2. CASE ~UndoActions
      <3>1. ~Call /\ ~Plan /\ ~Mutate /\ ~Record
        BY <1>3
           DEF Forward, Call, CallCreate, CallWriteState, CallRemove, CallDocument,
               CallStaleCurrent, MayCall, Plan, PlanRefused, PlanCreate, PlanRemove,
               PlanRemoveRefused, PlanDocument, PlanDocumentRefused, Mutate, CreateHappens,
               CreateTaken, CreateFails, Creating, RemoveChecked, RemoveStale, Removing,
               MoveAside, MoveAsideGone, MoveAsideFails, DocumentSwapped, DocumentStale,
               DocumentFails, SettingsLockTimeout, Writing, Record, RecordCreated, RecordLost,
               RecordWritten, Apply, ApplyFails, Seal, InAction
      <3>2. UNCHANGED actions
        BY <2>2, <3>1
           DEF Next, Engine, Finish, Commit, Abort, AbortAfterFailure, Undo, UndoActions,
               StartRollback, UndoPersist, EndRollback, Release, ReleaseFails, Environment,
               Crash, ForeignWrite, ForeignEdit, ForeignRemove, ForeignStep, journalVars, vars
      <3>. QED
        BY <3>2
    <2>. QED
      BY <2>1, <2>2
  <1>. QED
    BY <1>2, <1>3

\* What an undo moves to new/ is due no longer.
LEMMA UnspentStays ==
    ASSUME EngineInv, EngineInv', Unspent, [Next]_vars
    PROVE  Unspent'
  <1>1. /\ WriteAheadInv /\ WriteAheadInv' /\ LedgerInv /\ CraftInv /\ TypeInv
        /\ backup \in [1 .. MaxActions -> Slots]
    BY DEF EngineInv, WriteAheadInv, TypeInv, TypeOK
  <1>2. N \in Nat /\ N' \in Nat /\ N <= N'
    BY <1>1, StepGrows DEF Grows
  <1>3. ASSUME NEW i \in 1 .. MaxActions, backup'[i].new = backup[i].new, backup'[i].new # Absent
        PROVE  i <= N' /\ ~Due(actions'[i])
    <2>1. i \in 1 .. N /\ ~Due(actions[i])
      BY <1>2, <1>3 DEF Unspent
    <2>. QED
      BY <1>2, <2>1, DueShrinks
  <1>4. CASE \A i \in 1 .. MaxActions : backup'[i].new = backup[i].new
    BY <1>3, <1>4 DEF Unspent
  <1>5. CASE UNCHANGED backup
    BY <1>4, <1>5
  <1>6. CASE PlanDocument
    <2>1. \E o : backup' = [backup EXCEPT ![N + 1].orig = o]
      BY <1>6 DEF PlanDocument
    <2>. QED
      BY <1>1, <1>4, <2>1 DEF Slots
  <1>7. CASE MoveAside \/ MoveAsideFails
    <2>1. UNCHANGED backup \/ backup' = [backup EXCEPT ![N].old = home[Here]]
      BY <1>7 DEF MoveAside, MoveAsideFails, RenameAside
    <2>2. CASE backup' = [backup EXCEPT ![N].old = home[Here]]
      BY <1>1, <1>4, <2>2 DEF Slots
    <2>. QED
      BY <1>5, <2>1, <2>2
  <1>8. CASE UndoActions
    <2>1. /\ pc \in {"undo", "undo-move"} /\ cursor \in 1 .. N /\ cursor \in 1 .. MaxActions
      BY <1>1, <1>8, UndoSteps, AtUndo
    <2>2. CASE backup' = [backup EXCEPT ![cursor].old = Absent]
      BY <1>1, <1>4, <2>2 DEF Slots
    <2>3. ASSUME NEW o, backup' = [backup EXCEPT ![cursor].new = o], ~UNCHANGED backup
          PROVE  Unspent'
      <3>1. UndoDone \/ UndoImpossible
        BY <1>8, <2>3, UndoSteps
      <3>2. ~Due(actions'[cursor]) /\ N' = N
        BY <1>1, <2>1, <3>1, UndoneEntries DEF EntriesStay
      <3>3. \A i \in 1 .. MaxActions : i # cursor => backup'[i].new = backup[i].new
        BY <2>3, <1>1
      <3>. QED
        BY <1>2, <1>3, <2>1, <3>2, <3>3 DEF Unspent
    <2>. QED
      BY <1>1, <1>5, <1>8, <2>2, <2>3, UndoEffects DEF PutBack
  <1>. QED
    BY <1>1, <1>5, <1>6, <1>7, <1>8, BackupSteps

\* Nobody takes the place of an original between the check and the rename.
LEMMA FreeStays ==
    ASSUME EngineInv, Free, [Next]_vars
    PROVE  Free'
  <1>1. SUFFICES ASSUME pc' = "undo-move"
                 PROVE  Free'
    BY DEF Free
  <1>2. CASE UndoActions
    <2>1. UNCHANGED <<home, actions, cursor>>
      BY <1>1, <1>2, UndoSteps DEF UndoDone, UndoImpossible, NextUndo
    <2>2. UndoCreateChecked \/ UndoReplaceChecked
      BY <1>1, <1>2
         DEF UndoActions, UndoNothing, UndoUnresolved, UndoFails, UndoCreateMove,
             UndoCreateGone, UndoWrite, UndoWriteStale, UndoWriteUnacknowledged,
             UndoReplaceImpossible, UndoReplaceMove, UndoMoveStuck, UndoDone, UndoImpossible,
             NextUndo
    <2>3. Undone.kind = "create" \/ home[Undone.path] = Absent
      BY <2>2 DEF UndoCreateChecked, UndoReplaceChecked, Undoing
    <2>. QED
      BY <2>1, <2>3 DEF Free, Undone
  <1>3. ASSUME NEW q \in Path, NEW object, ForeignStep(q, object)
        PROVE  Free'
    <2>1. /\ UNCHANGED <<actions, cursor, pc>> /\ ~InRestoreWindow(q)
          /\ home' = [home EXCEPT ![q] = object]
      BY <1>3 DEF ForeignStep, journalVars
    <2>2. pc = "undo-move" => Undone.path \in Path /\ home \in [Path -> Object]
      BY AtUndo DEF EngineInv
    <2>. QED
      BY <1>1, <2>1, <2>2 DEF Free, InRestoreWindow, Undone
  <1>4. CASE UNCHANGED vars
    BY <1>4 DEF vars, Free, Undone
  <1>5. CASE Call \/ Plan
    BY <1>1, <1>5
       DEF Call, CallCreate, CallWriteState, CallRemove, CallDocument, CallStaleCurrent, Start,
           Plan, PlanRefused, PlanCreate, PlanRemove, PlanRemoveRefused, PlanDocument,
           PlanDocumentRefused, Announce, Throw, Goto
  <1>6. CASE Mutate
    BY <1>1, <1>6
       DEF Mutate, CreateHappens, CreateTaken, CreateFails, RemoveChecked, RemoveStale,
           MoveAside, MoveAsideGone, MoveAsideFails, DocumentSwapped, DocumentStale,
           DocumentFails, SettingsLockTimeout, Amend, Throw, Goto, NextTask
  <1>7. CASE Record \/ Finish
    BY <1>1, <1>7
       DEF Record, RecordCreated, RecordLost, RecordWritten, Apply, ApplyFails, Seal, Amend,
           Throw, Goto, NextTask, Finish, Commit, Abort, AbortAfterFailure, BeginRollback
  <1>8. CASE StartRollback \/ UndoPersist \/ EndRollback \/ Release \/ ReleaseFails \/ Crash
    BY <1>1, <1>8
       DEF StartRollback, UndoPersist, EndRollback, NextUndo, Release, ReleaseFails, Return, Crash
  <1>. QED
    BY <1>2, <1>3, <1>4, <1>5, <1>6, <1>7, <1>8
       DEF Next, Engine, Environment, Undo, UndoActions, ForeignWrite, ForeignEdit, ForeignRemove

\* A preserved object goes back to its place.
Homecoming ==
    /\ pc = "undo-move" /\ Undone.kind = "replace"
    /\ home' = [home EXCEPT ![Undone.path] = backup[cursor].old]
    /\ backup' = [backup EXCEPT ![cursor].old = Absent]

\* Which steps change what is below DSH_HOME.
LEMMA HomeSteps ==
    ASSUME [Next]_vars, ~UNCHANGED home
    PROVE  \/ CreateHappens \/ CreateFails \/ MoveAside \/ MoveAsideFails
           \/ DocumentSwapped \/ DocumentFails \/ Apply \/ ApplyFails \/ UndoActions
           \/ \E p \in Path : ForeignWrite(p) \/ ForeignEdit(p) \/ ForeignRemove(p)
  <1>1. ~Call /\ ~Finish /\ ~StartRollback /\ ~UndoPersist /\ ~EndRollback /\ ~Release
        /\ ~ReleaseFails /\ ~Crash /\ ~UNCHANGED vars
    BY DEF Call, CallCreate, CallWriteState, CallRemove, CallDocument, CallStaleCurrent, Start,
           Finish, Commit, Abort, AbortAfterFailure, StartRollback, UndoPersist, EndRollback,
           Release, ReleaseFails, Crash, vars
  <1>2. ~Plan
    BY DEF Plan, PlanRefused, PlanCreate, PlanRemove, PlanRemoveRefused, PlanDocument,
           PlanDocumentRefused
  <1>3. ~CreateTaken /\ ~RemoveChecked /\ ~RemoveStale /\ ~MoveAsideGone /\ ~DocumentStale
        /\ ~SettingsLockTimeout
    BY DEF CreateTaken, RemoveChecked, RemoveStale, MoveAsideGone, DocumentStale,
           SettingsLockTimeout
  <1>4. ~RecordCreated /\ ~RecordLost /\ ~RecordWritten /\ ~Seal
    BY DEF RecordCreated, RecordLost, RecordWritten, Seal
  <1>. QED
    BY <1>1, <1>2, <1>3, <1>4 DEF Next, Engine, Mutate, Record, Undo, UndoActions, Environment

\* The backup gives up foreign bytes only to put them back.
LEMMA HoldingStays ==
    ASSUME EngineInv, Unspent, [Next]_vars, NEW i \in 1 .. N, Holding(i), ~Homecoming
    PROVE  Holding(i)'
  <1>1. /\ WriteAheadInv /\ LedgerInv /\ CraftInv /\ TypeInv
        /\ backup \in [1 .. MaxActions -> Slots] /\ home \in [Path -> Object]
        /\ N \in Nat /\ N <= MaxActions /\ MaxActions \in Nat
    BY BoundsAssumption DEF EngineInv, WriteAheadInv, TypeInv, TypeOK, N
  <1>2. i \in 1 .. MaxActions /\ Absent.data # Foreign
    BY <1>1 DEF Absent, Gone, Foreign
  <1>3. CASE backup'[i] = backup[i]
    BY <1>3 DEF Holding
  <1>4. CASE PlanDocument
    <2>1. \E o : backup' = [backup EXCEPT ![N + 1].orig = o]
      BY <1>4 DEF PlanDocument
    <2>. QED
      BY <1>1, <1>3, <2>1
  <1>5. CASE MoveAside \/ MoveAsideFails
    <2>1. pc = "move" /\ backup[N].old = Absent
      BY <1>1, <1>5 DEF MoveAside, MoveAsideFails, LedgerInv, AtHand, InAction
    <2>2. UNCHANGED backup \/ backup' = [backup EXCEPT ![N].old = home[Here]]
      BY <1>5 DEF MoveAside, MoveAsideFails, RenameAside
    <2>3. CASE backup' = [backup EXCEPT ![N].old = home[Here]]
      <3>1. backup'[i].new = backup[i].new /\ backup'[i].orig = backup[i].orig
        BY <1>1, <1>2, <2>3 DEF Slots
      <3>2. i # N => backup'[i] = backup[i]
        BY <1>1, <1>2, <2>3
      <3>3. CASE i = N
        BY <1>2, <2>1, <3>1, <3>3 DEF Holding
      <3>. QED
        BY <1>3, <3>2, <3>3
    <2>. QED
      BY <1>3, <2>2, <2>3
  <1>6. CASE UndoActions
    <2>1. /\ pc \in {"undo", "undo-move"} /\ cursor \in 1 .. N /\ cursor \in 1 .. MaxActions
          /\ Due(actions[cursor])
      BY <1>1, <1>6, UndoSteps, AtUndo
    <2>2. backup[cursor].new = Absent
      BY <2>1 DEF Unspent
    <2>3. ASSUME NEW o, backup' = [backup EXCEPT ![cursor].new = o]
          PROVE  Holding(i)'
      <3>1. backup'[i].old = backup[i].old /\ backup'[i].orig = backup[i].orig
        BY <1>1, <1>2, <2>3 DEF Slots
      <3>2. i # cursor => backup'[i] = backup[i]
        BY <1>1, <1>2, <2>3
      <3>3. CASE i = cursor
        BY <1>2, <2>2, <3>1, <3>3 DEF Holding
      <3>. QED
        BY <1>3, <3>2, <3>3
    <2>. QED
      BY <1>1, <1>3, <1>6, <2>3, UndoEffects DEF PutBack, Homecoming
  <1>. QED
    BY <1>1, <1>3, <1>4, <1>5, <1>6, BackupSteps

\* What stays safe: somebody holds on to it, or it is in its place or becomes safe.
LEMMA SafeStays ==
    ASSUME NEW p, Safe(p), Grows, N \in Nat, N' \in Nat,
           \A i \in 1 .. N : Holding(i) => Holding(i)',
           home[p].data = Foreign => Safe(p)'
    PROVE  Safe(p)'
  <1>1. CASE home[p].data = Foreign
    BY <1>1
  <1>2. ASSUME NEW i \in 1 .. N, Keeper(i, p)
        PROVE  Safe(p)'
    <2>1. i \in 1 .. N' /\ Keeper(i, p)'
      BY <1>2 DEF Keeper, Grows, Inside
    <2>. QED
      BY <2>1 DEF Safe
  <1>. QED
    BY <1>1, <1>2 DEF Safe

\* A mutation keeps the foreign bytes it meets: it makes something only where nothing is,
\* writes a document only over a text that is saved, and moves the rest aside.
LEMMA MutationSafe ==
    ASSUME EngineInv, EngineInv', NEW p \in Path, home[p].data = Foreign,
           \/ CreateHappens \/ CreateFails \/ MoveAside \/ MoveAsideFails
           \/ DocumentSwapped \/ DocumentFails \/ Apply \/ ApplyFails
    PROVE  Safe(p)'
  <1>1. /\ pc \in InAction /\ UNCHANGED actions
        /\ WriteAheadInv /\ LedgerInv /\ CraftInv
    BY DEF EngineInv, InAction, CreateHappens, CreateFails, MoveAside, MoveAsideFails,
           DocumentSwapped, DocumentFails, Apply, ApplyFails, Creating, Writing, journalVars
  <1>2. /\ N \in 1 .. N /\ N \in 1 .. MaxActions /\ N' = N /\ Here \in Path
        /\ actions[N].path = Here
        /\ home \in [Path -> Object] /\ backup \in [1 .. MaxActions -> Slots]
    BY <1>1, AtWork DEF N
  <1>3. CASE home'[p] = home[p]
    BY <1>3 DEF Safe
  <1>4. CASE CreateHappens \/ CreateFails
    <2>1. home[Here] = Absent /\ \A q \in Path : q # Here => home'[q] = home[q]
      BY <1>2, <1>4 DEF CreateHappens, CreateFails
    <2>2. p # Here
      BY <2>1 DEF Absent, Gone, Foreign
    <2>. QED
      BY <1>3, <2>1, <2>2
  <1>5. CASE MoveAside \/ MoveAsideFails
    <2>1. UNCHANGED home \/ RenameAside
      BY <1>5 DEF MoveAside, MoveAsideFails
    <2>2. CASE RenameAside
      <3>1. backup'[N].old = home[Here] /\ \A q \in Path : q # Here => home'[q] = home[q]
        BY <1>2, <2>2 DEF RenameAside, Slots
      <3>2. CASE p = Here
        <4>1. Keeper(N, p)'
          BY <1>1, <1>2, <3>1, <3>2 DEF Keeper, Holding
        <4>. QED
          BY <1>2, <4>1 DEF Safe
      <3>. QED
        BY <1>3, <3>1, <3>2
    <2>. QED
      BY <1>3, <2>1, <2>2
  <1>6. CASE DocumentSwapped \/ DocumentFails
    <2>1. /\ UNCHANGED home \/ (home' = Swapped /\ home[Here].data = SwapExpects.data)
          /\ Writing /\ UNCHANGED backup
      BY <1>6 DEF DocumentSwapped, DocumentFails
    <2>2. CASE home' = Swapped /\ home[Here].data = SwapExpects.data
      <3>1. \A q \in Path : q # Here => home'[q] = home[q]
        BY <1>2, <2>2 DEF Swapped
      <3>2. CASE p = Here
        <4>1. /\ pc = "mutate" /\ pc \in Reach /\ Head(todo).op = "document"
              /\ Here \in Docs
          BY <1>1, <2>1, HereIsPaper DEF Writing, Reach, InAction, WriteAheadInv
        <4>2. backup[N].orig.data = Foreign
          <5>1. CASE Here \in Managed
            BY <2>2, <3>2, <5>1 DEF SwapExpects
          <5>2. CASE Here \notin Managed
            <6>1. Head(todo).expect.data = Foreign /\ Head(todo).expect # Absent
              BY <2>2, <3>2, <5>2 DEF SwapExpects, Absent, Gone, Foreign
            <6>. QED
              BY <1>1, <4>1, <5>2, <6>1 DEF CraftInv, Saved, Docs
          <5>. QED
            BY <5>1, <5>2
        <4>3. Keeper(N, p)'
          BY <1>1, <1>2, <2>1, <3>2, <4>2 DEF Keeper, Holding
        <4>. QED
          BY <1>2, <4>3 DEF Safe
      <3>. QED
        BY <1>3, <3>1, <3>2
    <2>. QED
      BY <1>3, <2>1, <2>2
  <1>7. CASE Apply \/ ApplyFails
    <2>1. UNCHANGED home \/ home' = Filled
      BY <1>7 DEF Apply, ApplyFails
    <2>2. CASE home' = Filled
      <3>1. \A q \in Path : q # Here \/ home[q].data # Partial => home'[q] = home[q]
        BY <1>2, <2>2 DEF Filled, Object
      <3>. QED
        BY <1>3, <3>1 DEF Partial, Foreign
    <2>. QED
      BY <1>3, <2>1, <2>2
  <1>. QED
    BY <1>4, <1>5, <1>6, <1>7

\* Rollback keeps them: what it takes away it moves to new/, with all that is in it.
LEMMA UndoSafe ==
    ASSUME EngineInv, EngineInv', ForeignInv, [Next]_vars, UndoActions, ~Homecoming,
           NEW p \in Path, home[p].data = Foreign
    PROVE  Safe(p)'
  <1>1. /\ WriteAheadInv /\ LedgerInv /\ CraftInv /\ pc \in {"undo", "undo-move"}
    BY UndoSteps DEF EngineInv
  <1>2. /\ cursor \in 1 .. N /\ cursor \in 1 .. MaxActions /\ Undone = actions[cursor]
        /\ Undone.path \in Path /\ N \in Nat /\ Undone.mark \in MarksOf(Undone.kind)
        /\ home \in [Path -> Object] /\ backup \in [1 .. MaxActions -> Slots]
    BY <1>1, AtUndo
  <1>3. cursor \in 1 .. N' /\ actions'[cursor].path = Undone.path
    BY <1>1, <1>2, StepGrows DEF Grows, EngineInv
  <1>4. CASE home'[p] = home[p]
    BY <1>4 DEF Safe
  <1>5. CASE /\ backup' = [backup EXCEPT ![cursor].new = Carried(Undone.path)]
             /\ home' = [q \in Path |-> IF q \in Taken(Undone.path) THEN Absent ELSE home[q]]
    <2>. DEFINE d == Undone.path
    <2>1. backup'[cursor].new = Carried(d)
      BY <1>2, <1>5 DEF Slots
    <2>2. CASE p \notin Taken(d)
      BY <1>4, <1>5, <2>2
    <2>3. CASE p \in Taken(d)
      <3>1. p = d \/ (d \in StateDirs /\ p \in Inside(d))
        BY <2>3 DEF Taken
      <3>2. Carried(d).data = Foreign
        <4>1. CASE p = d
          BY <1>2, <4>1 DEF Carried, Object
        <4>2. CASE d \in StateDirs /\ p \in Inside(d)
          <5>1. ~IsEmpty(d)
            BY <4>2 DEF IsEmpty, Absent, Gone, Foreign
          <5>. QED
            BY <1>2, <4>2, <5>1 DEF Carried, Object
        <4>. QED
          BY <3>1, <4>1, <4>2
      <3>3. PICK c \in 1 .. N' : c = cursor
        BY <1>3
      <3>4. Holding(c)'
        BY <2>1, <3>2, <3>3 DEF Holding
      <3>5. Keeper(c, p)'
        BY <1>3, <3>1, <3>3, <3>4 DEF Keeper, Inside
      <3>. QED
        BY <3>3, <3>5 DEF Safe
    <2>. QED
      BY <2>2, <2>3
  <1>6. CASE Undone.kind = "write" /\ PutBack(Undone.path) /\ home[Undone.path].data = Undone.data
    <2>1. Undone.data = cursor
      BY <1>1, <1>2, <1>6 DEF LedgerInv, Entries
    <2>2. p # Undone.path
      BY <1>2, <1>6, <2>1 DEF Foreign
    <2>. QED
      BY <1>2, <1>4, <1>6, <2>2 DEF PutBack
  <1>. QED
    BY <1>1, <1>4, <1>5, <1>6, UndoEffects DEF Homecoming

\* Where an original goes home, only its own place changes hands.
LEMMA HomecomingSafe ==
    ASSUME EngineInv, EngineInv', ForeignInv, [Next]_vars, Homecoming,
           NEW p \in Path, Safe(p)
    PROVE  Safe(p)'
  <1>1. /\ WriteAheadInv /\ WriteAheadInv' /\ LedgerInv /\ CraftInv
        /\ pc = "undo-move" /\ Undone.kind = "replace" /\ pc \in {"undo", "undo-move"}
    BY DEF EngineInv, Homecoming
  <1>2. /\ cursor \in 1 .. N /\ cursor \in 1 .. MaxActions /\ Undone = actions[cursor]
        /\ Undone.path \in Path
        /\ home \in [Path -> Object] /\ backup \in [1 .. MaxActions -> Slots]
    BY <1>1, AtUndo
  <1>3. home[Undone.path] = Absent
    BY <1>1 DEF ForeignInv, Free
  <1>4. /\ home'[Undone.path] = backup[cursor].old
        /\ \A q \in Path : q # Undone.path => home'[q] = home[q]
        /\ \A i \in 1 .. MaxActions : i # cursor => backup'[i] = backup[i]
        /\ backup'[cursor].new = backup[cursor].new /\ backup'[cursor].orig = backup[cursor].orig
    BY <1>2 DEF Homecoming, Slots
  <1>5. CASE home[p].data = Foreign
    BY <1>3, <1>4, <1>5 DEF Safe, Absent, Gone, Foreign
  <1>6. ASSUME NEW i \in 1 .. N, Keeper(i, p)
        PROVE  Safe(p)'
    <2>1. /\ i \in 1 .. N' /\ actions'[i].path = actions[i].path /\ i \in 1 .. MaxActions
      BY <1>1, <1>6, StepGrows, AtUndo DEF Grows
    <2>2. CASE Holding(i)'
      <3>1. Keeper(i, p)'
        BY <1>6, <2>1, <2>2 DEF Keeper, Inside
      <3>. QED
        BY <2>1, <3>1 DEF Safe
    <2>3. CASE ~Holding(i)'
      <3>1. i = cursor
        BY <1>4, <1>6, <2>1, <2>3 DEF Keeper, Holding
      <3>2. backup[cursor].old.data = Foreign
        BY <1>4, <1>6, <2>3, <3>1 DEF Keeper, Holding
      <3>3. Undone.path \notin StateDirs
        BY <1>1, <1>2 DEF WriteAheadInv, JournalInv, DirActions
      <3>4. Inside(Undone.path) = {}
        <4>1. ASSUME NEW q \in Path, Parents[q] # <<>>
              PROVE  Parents[q][Len(Parents[q])] \in StateDirs
          <5>1. Parents[q] \in Seq(StateDirs)
            BY <4>1, ParentsAssumption
          <5>. QED
            BY <4>1, <5>1
        <4>. QED
          BY <3>3, <4>1 DEF Inside
      <3>5. p = Undone.path
        BY <1>2, <1>6, <3>1, <3>4 DEF Keeper
      <3>. QED
        BY <1>4, <3>2, <3>5 DEF Safe
    <2>. QED
      BY <2>2, <2>3
  <1>. QED
    BY <1>5, <1>6 DEF Safe

\* What somebody writes is in its place.
LEMMA ForeignStepSafe ==
    ASSUME EngineInv, NEW q \in Path,
           ForeignWrite(q) \/ ForeignEdit(q) \/ ForeignRemove(q),
           NEW p \in Path, p \in live', p = q \/ home[p].data = Foreign
    PROVE  Safe(p)'
  <1>1. home \in [Path -> Object] /\ live \subseteq Path
    BY DEF EngineInv, WriteAheadInv, TypeInv, TypeOK
  <1>2. PICK object : /\ ForeignStep(q, object)
                      /\ object = Absent \/ object.data = Foreign
    <2>1. CASE ForeignWrite(q)
      BY <2>1 DEF ForeignWrite, Alien
    <2>2. CASE ForeignEdit(q)
      <3>1. [home[q] EXCEPT !.data = Foreign].data = Foreign
        BY <1>1 DEF Object
      <3>. QED
        BY <2>2, <3>1 DEF ForeignEdit
    <2>3. CASE ForeignRemove(q)
      BY <2>3 DEF ForeignRemove
    <2>. QED
      BY <2>1, <2>2, <2>3
  <1>3. /\ home' = [home EXCEPT ![q] = object]
        /\ live' = IF object = Absent THEN live \ {q} ELSE live \cup {q}
    BY <1>2 DEF ForeignStep
  <1>. QED
    BY <1>1, <1>2, <1>3 DEF Safe

\* Every step keeps what is foreign.
LEMMA ForeignInductive ==
    ASSUME EngineInv, EngineInv', ForeignInv, [Next]_vars
    PROVE  ForeignInv'
  <1>1. /\ Unspent' /\ Free'
    BY UnspentStays, FreeStays DEF ForeignInv
  <1>2. /\ Grows /\ N \in Nat /\ N' \in Nat /\ live' \subseteq Path
    BY StepGrows DEF EngineInv, WriteAheadInv, TypeInv, TypeOK
  <1>3. \/ UNCHANGED live
        \/ \E q \in Path : ForeignWrite(q) \/ ForeignEdit(q) \/ ForeignRemove(q)
    BY DEF Next, Environment, Engine, Call, CallCreate, CallWriteState, CallRemove, CallDocument,
           CallStaleCurrent, Start, Plan, PlanRefused, PlanCreate, PlanRemove,
           PlanRemoveRefused, PlanDocument, PlanDocumentRefused, Mutate, CreateHappens,
           CreateTaken, CreateFails, RemoveChecked, RemoveStale, MoveAside, MoveAsideGone,
           MoveAsideFails, DocumentSwapped, DocumentStale, DocumentFails, SettingsLockTimeout,
           Record, RecordCreated, RecordLost, RecordWritten, Apply, ApplyFails, Seal, Finish,
           Commit, Abort, AbortAfterFailure, Undo, StartRollback, UndoNothing, UndoUnresolved,
           UndoFails, UndoCreateChecked, UndoCreateMove, UndoCreateGone, UndoWrite,
           UndoWriteStale, UndoWriteUnacknowledged, UndoReplaceChecked, UndoReplaceImpossible,
           UndoReplaceMove, UndoMoveStuck, UndoPersist, EndRollback, Release, ReleaseFails,
           Crash, envVars, vars
  <1>4. ASSUME NEW p \in live'
        PROVE  Safe(p)'
    <2>1. p \in Path
      BY <1>2
    <2>2. CASE \E q \in Path : ForeignWrite(q) \/ ForeignEdit(q) \/ ForeignRemove(q)
      <3>1. PICK q \in Path : ForeignWrite(q) \/ ForeignEdit(q) \/ ForeignRemove(q)
        BY <2>2
      <3>2. CASE p = q
        BY <1>4, <2>1, <3>1, <3>2, ForeignStepSafe
      <3>3. CASE p # q
        <4>1. Safe(p)
          BY <1>4, <3>1, <3>3
             DEF ForeignInv, ForeignWrite, ForeignEdit, ForeignRemove, ForeignStep
        <4>2. \A i \in 1 .. N : Holding(i) => Holding(i)'
          BY <3>1 DEF Holding, ForeignWrite, ForeignEdit, ForeignRemove, ForeignStep
        <4>3. home[p].data = Foreign => Safe(p)'
          BY <1>4, <2>1, <3>1, ForeignStepSafe
        <4>. QED
          BY <1>2, <4>1, <4>2, <4>3, SafeStays
      <3>. QED
        BY <3>2, <3>3
    <2>3. CASE UNCHANGED live
      <3>1. Safe(p)
        BY <1>4, <2>3 DEF ForeignInv
      <3>2. CASE Homecoming
        BY <2>1, <3>1, <3>2, HomecomingSafe
      <3>3. CASE ~Homecoming
        <4>1. \A i \in 1 .. N : Holding(i) => Holding(i)'
          BY <3>3, HoldingStays DEF ForeignInv
        <4>2. home[p].data = Foreign => Safe(p)'
          <5>1. CASE UNCHANGED home
            BY <5>1 DEF Safe
          <5>2. CASE UndoActions
            BY <2>1, <3>3, <5>2, UndoSafe
          <5>3. CASE \E q \in Path : ForeignWrite(q) \/ ForeignEdit(q) \/ ForeignRemove(q)
            BY <1>4, <2>1, <5>3, ForeignStepSafe
          <5>. QED
            BY <2>1, <5>1, <5>2, <5>3, MutationSafe, HomeSteps
        <4>. QED
          BY <1>2, <3>1, <4>1, <4>2, SafeStays
      <3>. QED
        BY <3>2, <3>3
    <2>. QED
      BY <1>3, <2>2, <2>3
  <1>. QED
    BY <1>1, <1>4 DEF ForeignInv

\* At first nothing is foreign.
LEMMA ForeignInit == Init => ForeignInv
  BY DEF Init, ForeignInv, Unspent, Free, EmptySlots

\* What somebody else wrote during the transaction is never destroyed: it is in its place,
\* or in the backup of an action on its path or its directory (transaction-rollback.ts
\* moves aside, transaction-node-adapter.ts compares before it replaces).
THEOREM ForeignKept == Spec => []ForeignNeverLost
  <1>1. EngineInv /\ ForeignInv => ForeignNeverLost
    BY DEF ForeignInv, Safe, Keeper, Holding, ForeignNeverLost
  <1>2. EngineInv /\ ForeignInv /\ [Next]_vars => EngineInv' /\ ForeignInv'
    BY EngineInductive, ForeignInductive
  <1>. QED
    BY <1>1, <1>2, EngineInit, ForeignInit, PTL DEF Spec


-----------------------------------------------------------------------------
(* A commit is complete *)

\* The actions on a path among the first m: the last of them that took effect decides.
Latest(i, p, m) ==
    /\ actions[i].path = p /\ Effective(i)
    /\ \A j \in i + 1 .. m : actions[j].path = p => ~Effective(j)

AsMade(i, p) == IF actions[i].kind = "replace" THEN home[p] = Absent ELSE home[p].data = i

Settled(p, m) ==
    /\ (\A i \in 1 .. m : actions[i].path = p => ~Effective(i)) => home[p] = pre[p]
    /\ \A i \in 1 .. m : Latest(i, p, m) => AsMade(i, p)

\* The action under way has taken effect, and is not sealed.
Performed == pc \in {"record", "apply", "seal"}

\* As long as nothing has failed, how many actions account for what is at a path.
Counted(p, m) ==
    \/ m = N /\ pc \in {"operate", "plan"} /\ failure = NoExit
    \/ m = N /\ pc \in {"release", "done"} /\ state = "committed"
    \/ m + 1 = N /\ pc \in InAction /\ (p # Here \/ ~Performed)

\* What the action under way has made so far.
Fulfilled ==
    IF actions[N].kind = "replace" THEN home[Here] = Absent
    ELSE \/ home[Here].data = N
         \/ home[Here].data = Partial /\ Head(todo).op = "create" /\ pc # "seal"

CompleteInv ==
    /\ \A p \in Untouched, m \in Nat : Counted(p, m) => Settled(p, m)
    /\ Performed /\ Here \in Untouched => Fulfilled

\* Entries that count no less, and none that counts is new.
LEMMA SettledStays ==
    ASSUME NEW p, NEW k \in Nat, NEW m \in Nat, k <= m, Settled(p, k),
           home'[p] = home[p], UNCHANGED pre,
           \A i \in 1 .. k : actions'[i] = actions[i],
           \A i \in k + 1 .. m : actions'[i].path = p => ~Effective(i)'
    PROVE  Settled(p, m)'
  <1>1. ASSUME NEW i \in 1 .. k
        PROVE  (Effective(i)' <=> Effective(i)) /\ actions'[i] = actions[i]
    BY <1>1 DEF Effective
  <1>2. ASSUME \A i \in 1 .. m : actions'[i].path = p => ~Effective(i)'
        PROVE  home'[p] = pre'[p]
    <2>1. \A i \in 1 .. k : i \in 1 .. m
      OBVIOUS
    <2>2. \A i \in 1 .. k : actions[i].path = p => ~Effective(i)
      BY <1>1, <1>2, <2>1
    <2>. QED
      BY <2>2 DEF Settled
  <1>3. ASSUME NEW i \in 1 .. m, Latest(i, p, m)'
        PROVE  AsMade(i, p)'
    <2>1. actions'[i].path = p /\ Effective(i)'
      BY <1>3 DEF Latest
    <2>2. i \in 1 .. k
      BY <2>1
    <2>3. ASSUME NEW j \in i + 1 .. k, actions[j].path = p
          PROVE  ~Effective(j)
      <3>1. j \in 1 .. k /\ j \in i + 1 .. m
        BY <2>2, <2>3
      <3>2. actions'[j].path = p => ~Effective(j)'
        BY <1>3, <3>1 DEF Latest
      <3>. QED
        BY <1>1, <2>3, <3>1, <3>2
    <2>4. Latest(i, p, k)
      BY <1>1, <2>1, <2>2, <2>3 DEF Latest
    <2>5. AsMade(i, p)
      BY <2>2, <2>4 DEF Settled
    <2>. QED
      BY <1>1, <2>2, <2>5 DEF AsMade
  <1>. QED
    BY <1>2, <1>3 DEF Settled

\* The last action took effect.
LEMMA SettledByLast ==
    ASSUME NEW p, NEW m \in Nat, m \in 1 .. m,
           actions'[m].path = p, Effective(m)', AsMade(m, p)'
    PROVE  Settled(p, m)'
  <1>1. ASSUME NEW i \in 1 .. m, Latest(i, p, m)'
        PROVE  AsMade(i, p)'
    <2>1. i # m => m \in i + 1 .. m
      BY <1>1
    <2>. QED
      BY <1>1, <2>1 DEF Latest
  <1>. QED
    BY <1>1 DEF Settled

\* What an action does outside its own path and its own entry.
LEMMA WorksHere ==
    ASSUME WriteAheadInv, LedgerInv, Mutate \/ Record
    PROVE  /\ pc \in InAction /\ N' = N /\ UNCHANGED <<pre, touched, state>>
           /\ \A i \in 1 .. N : i # N => actions'[i] = actions[i]
           /\ actions'[N].kind = actions[N].kind /\ actions'[N].path = actions[N].path
           /\ \A q \in Path : q # Here => home'[q] = home[q]
  <1>1. pc \in InAction
    BY DEF Mutate, CreateHappens, CreateTaken, CreateFails, RemoveChecked, RemoveStale, MoveAside,
           MoveAsideGone, MoveAsideFails, DocumentSwapped, DocumentStale, DocumentFails,
           SettingsLockTimeout, Record, RecordCreated, RecordLost, RecordWritten, Apply,
           ApplyFails, Seal, Creating, Removing, Writing, InAction
  <1>2. EntriesStay
    BY <1>1, EntriesOnlyAmended DEF WriteAheadInv, InAction, Next, Engine
  <1>3. /\ N \in 1 .. N /\ actions \in [1 .. N -> Action] /\ home \in [Path -> Object]
        /\ Here \in Path
    <2>1. actions \in Seq(Action)
      BY DEF WriteAheadInv, TypeInv, TypeOK
    <2>. QED
      BY <1>1, <2>1, AtWork, LenProperties DEF N
  <1>4. UNCHANGED actions \/ \E a : actions' = [actions EXCEPT ![N] = a]
    BY DEF Mutate, CreateHappens, CreateTaken, CreateFails, RemoveChecked, RemoveStale, MoveAside,
           MoveAsideGone, MoveAsideFails, DocumentSwapped, DocumentStale, DocumentFails,
           SettingsLockTimeout, Record, RecordCreated, RecordLost, RecordWritten, Apply,
           ApplyFails, Seal, Amend, journalVars
  <1>5. \A i \in 1 .. N : i # N => actions'[i] = actions[i]
    BY <1>3, <1>4
  <1>6. UNCHANGED home \/ \E o : home' = [home EXCEPT ![Here] = o]
    BY DEF Mutate, CreateHappens, CreateTaken, CreateFails, RemoveChecked, RemoveStale, MoveAside,
           MoveAsideGone, MoveAsideFails, DocumentSwapped, DocumentStale, DocumentFails,
           SettingsLockTimeout, Record, RecordCreated, RecordLost, RecordWritten, Apply,
           ApplyFails, Seal, RenameAside, Swapped, Filled
  <1>7. UNCHANGED <<pre, touched, state>>
    BY DEF Mutate, CreateHappens, CreateTaken, CreateFails, RemoveChecked, RemoveStale, MoveAside,
           MoveAsideGone, MoveAsideFails, DocumentSwapped, DocumentStale, DocumentFails,
           SettingsLockTimeout, Record, RecordCreated, RecordLost, RecordWritten, Apply,
           ApplyFails, Seal, Amend, journalVars, envVars
  <1>. QED
    BY <1>1, <1>2, <1>3, <1>5, <1>6, <1>7 DEF EntriesStay, Kin

\* How an action goes on: it fails, it goes on with itself, or it is over.
LEMMA WorkGoesOn ==
    ASSUME Mutate \/ Record
    PROVE  \/ pc' = "operate" /\ failure' # NoExit
           \/ /\ pc' \in InAction /\ UNCHANGED todo
              /\ RemoveChecked \/ (pc' # "mutate" /\ pc' # "move")
           \/ NextTask /\ UNCHANGED home /\ (CreateTaken \/ Seal)
  <1>1. CASE Mutate
    BY <1>1
       DEF Mutate, CreateHappens, CreateTaken, CreateFails, RemoveChecked, RemoveStale,
           MoveAside, MoveAsideGone, MoveAsideFails, DocumentSwapped, DocumentStale,
           DocumentFails, SettingsLockTimeout, Goto, Throw, Amend, InAction, NoExit, Conflict,
           Contract, Internal
  <1>2. CASE Record
    BY <1>2
       DEF Record, RecordCreated, RecordLost, RecordWritten, Apply, ApplyFails, Seal, Goto,
           Throw, Amend, InAction, NoExit, Internal, VerifyFailure
  <1>. QED
    BY <1>1, <1>2

\* What an action makes before it is sealed.
LEMMA WorkFulfils ==
    ASSUME WriteAheadInv, LedgerInv, CompleteInv, Mutate \/ Record, pc' \in InAction,
           UNCHANGED todo, Performed', Here \in Untouched
    PROVE  Fulfilled'
  <1>1. /\ pc \in InAction /\ N' = N /\ UNCHANGED touched /\ Here' = Here
        /\ actions'[N].kind = actions[N].kind
    BY WorksHere DEF Here
  <1>2. /\ actions[N].kind = KindOf(Head(todo).op) /\ N \in Nat /\ N \in 1 .. N
        /\ home \in [Path -> Object] /\ Here \in Path
    BY <1>1, AtWork
  <1>3. CASE CreateHappens
    <2>1. actions[N].kind = "create"
      BY <1>2, <1>3 DEF CreateHappens, Creating, KindOf
    <2>2. /\ home'[Here].data = IF Head(todo).op = "create" THEN Partial ELSE N
          /\ pc' = "record"
      BY <1>2, <1>3 DEF CreateHappens, Goto
    <2>. QED
      BY <1>1, <2>1, <2>2 DEF Fulfilled
  <1>4. CASE DocumentSwapped
    <2>1. actions[N].kind = "write"
      BY <1>2, <1>4 DEF DocumentSwapped, Writing, KindOf
    <2>2. home'[Here].data = N
      BY <1>2, <1>4 DEF DocumentSwapped, Swapped, Made
    <2>. QED
      BY <1>1, <2>1, <2>2 DEF Fulfilled
  <1>5. CASE MoveAside
    <2>1. actions[N].kind = "replace"
      BY <1>1, <1>5 DEF MoveAside, LedgerInv, AtHand
    <2>2. home'[Here] = Absent
      BY <1>2, <1>5 DEF MoveAside, RenameAside
    <2>. QED
      BY <1>1, <2>1, <2>2 DEF Fulfilled
  <1>6. CASE RecordCreated \/ RecordWritten
    <2>1. /\ pc = "record" /\ UNCHANGED home
          /\ actions[N].kind # "replace"
      BY <1>1, <1>6 DEF RecordCreated, RecordWritten, LedgerInv, AtHand
    <2>2. Fulfilled
      BY <2>1 DEF CompleteInv, Performed
    <2>3. pc' = "seal" => Head(todo).op # "create"
      BY <1>6, <1>1
         DEF RecordCreated, RecordWritten, Amend, Goto, Throw, InAction
    <2>4. pc' = "apply" \/ pc' = "seal"
      BY <1>6 DEF RecordCreated, RecordWritten, Amend, Goto, Throw, InAction
    <2>. QED
      BY <1>1, <2>1, <2>2, <2>3, <2>4 DEF Fulfilled
  <1>7. CASE Apply
    <2>1. pc = "apply" /\ home' = IF home[Here] = Absent THEN home ELSE Filled
      BY <1>7 DEF Apply
    <2>2. Fulfilled /\ Head(todo).op = "create" /\ actions[N].kind = "create"
      BY <1>1, <1>2, <2>1 DEF CompleteInv, Performed, LedgerInv, AtHand, KindOf
    <2>3. home[Here].data \in {N, Partial}
      BY <2>2 DEF Fulfilled
    <2>4. home[Here] # Absent
      BY <1>2, <2>3 DEF Absent, Gone, Partial
    <2>5. home'[Here].data = N
      <3>1. home' = Filled /\ home[Here] \in Object
        BY <1>2, <2>1, <2>4
      <3>. QED
        BY <1>2, <2>3, <3>1 DEF Filled, Object
    <2>. QED
      BY <1>1, <2>2, <2>5 DEF Fulfilled
  <1>8. CASE CreateTaken \/ CreateFails \/ RemoveChecked \/ RemoveStale \/ MoveAsideGone
             \/ MoveAsideFails \/ DocumentStale \/ DocumentFails \/ SettingsLockTimeout
             \/ RecordLost \/ ApplyFails \/ Seal
    BY <1>8
       DEF CreateTaken, CreateFails, RemoveChecked, RemoveStale, MoveAsideGone, MoveAsideFails,
           DocumentStale, DocumentFails, SettingsLockTimeout, RecordLost, ApplyFails, Seal,
           Amend, Goto, Throw, NextTask, InAction, Performed
  <1>. QED
    BY <1>3, <1>4, <1>5, <1>6, <1>7, <1>8 DEF Mutate, Record

\* An action keeps the account.
LEMMA WorkSettles ==
    ASSUME WriteAheadInv, LedgerInv, CompleteInv, Mutate \/ Record
    PROVE  CompleteInv'
  <1>1. /\ pc \in InAction /\ N' = N /\ UNCHANGED <<pre, touched, state>>
        /\ \A i \in 1 .. N : i # N => actions'[i] = actions[i]
        /\ actions'[N].kind = actions[N].kind /\ actions'[N].path = actions[N].path
        /\ \A q \in Path : q # Here => home'[q] = home[q]
    BY WorksHere
  <1>2. /\ N \in Nat /\ N \in 1 .. N /\ Here \in Path /\ actions[N].path = Here
        /\ actions[N] \in Action /\ actions[N].kind = KindOf(Head(todo).op)
        /\ Untouched' = Untouched /\ Untouched \subseteq Path
    BY <1>1, AtWork DEF Untouched
  <1>3. CASE pc' = "operate" /\ failure' # NoExit
    BY <1>3 DEF CompleteInv, Counted, Performed, InAction
  <1>4. CASE /\ pc' \in InAction /\ UNCHANGED todo
             /\ RemoveChecked \/ (pc' # "mutate" /\ pc' # "move")
    <2>1. ASSUME NEW p \in Untouched, NEW m \in Nat, Counted(p, m)'
          PROVE  Settled(p, m)'
      <3>1. m + 1 = N /\ (p # Here \/ RemoveChecked)
        BY <1>1, <1>4, <2>1 DEF Counted, Performed, InAction, Here
      <3>2. Counted(p, m) /\ home'[p] = home[p]
        BY <1>1, <1>2, <3>1 DEF Counted, RemoveChecked, Removing, Performed
      <3>3. Settled(p, m)
        BY <3>2 DEF CompleteInv
      <3>4. \A i \in 1 .. m : actions'[i] = actions[i]
        BY <1>1, <1>2, <3>1
      <3>. QED
        BY <1>1, <3>2, <3>3, <3>4, SettledStays
    <2>2. Performed' /\ Here' \in Untouched' => Fulfilled'
      BY <1>2, <1>4, WorkFulfils DEF Here
    <2>. QED
      BY <1>2, <2>1, <2>2 DEF CompleteInv
  <1>5. CASE NextTask /\ UNCHANGED home /\ (CreateTaken \/ Seal)
    <2>1. pc' \in {"operate", "plan"}
      BY <1>5 DEF NextTask
    <2>2. ASSUME NEW p \in Untouched, NEW m \in Nat, Counted(p, m)'
          PROVE  Settled(p, m)'
      <3>1. m = N /\ m \in 1 .. m
        BY <1>1, <1>2, <2>1, <2>2 DEF Counted, InAction
      <3>2. ASSUME NEW k \in Nat, k + 1 = m, Counted(p, k),
                   actions'[m].path = p => ~Effective(m)'
            PROVE  Settled(p, m)'
        <4>1. Settled(p, k)
          BY <3>2 DEF CompleteInv
        <4>2. /\ \A i \in 1 .. k : actions'[i] = actions[i]
              /\ \A i \in k + 1 .. m : actions'[i].path = p => ~Effective(i)'
          BY <1>1, <3>1, <3>2
        <4>. QED
          BY <1>1, <1>5, <3>2, <4>1, <4>2, SettledStays
      <3>3. PICK k \in Nat : k + 1 = m
        BY <3>1
      <3>4. CASE p # Here
        <4>1. Counted(p, k) /\ actions'[m].path # p
          BY <1>1, <1>2, <3>1, <3>3, <3>4 DEF Counted
        <4>. QED
          BY <3>2, <3>3, <4>1
      <3>5. CASE p = Here /\ CreateTaken
        <4>1. Counted(p, k)
          BY <1>1, <3>1, <3>3, <3>5 DEF Counted, CreateTaken, Creating, Performed
        <4>2. ~Effective(m)'
          <5>1. actions'[N].mark = "not-owned"
            <6>. DEFINE a == [[actions[N] EXCEPT !.mark = "not-owned"] EXCEPT !.phase = "applied"]
                        b == [actions[N] EXCEPT !.mark = "not-owned"]
            <6>1. /\ a \in Action /\ b \in Action /\ a.mark = "not-owned" /\ b.mark = "not-owned"
              BY <1>2 DEF Action, Marks, Phases
            <6>2. actions' = [actions EXCEPT ![N] = a] \/ actions' = [actions EXCEPT ![N] = b]
              BY <3>5 DEF CreateTaken, Amend
            <6>. HIDE DEF a, b
            <6>3. Sets(N, a) \/ Sets(N, b)
              BY <1>1, <6>1, <6>2, AmendSets DEF WriteAheadInv
            <6>. QED
              BY <1>2, <6>1, <6>3 DEF Sets
          <5>. QED
            BY <3>1, <5>1 DEF Effective
        <4>. QED
          BY <3>2, <3>3, <4>1, <4>2
      <3>6. CASE p = Here /\ Seal
        <4>1. actions'[N].mark = actions[N].mark
          <5>. DEFINE a == [actions[N] EXCEPT !.phase = "applied"]
          <5>1. a \in Action /\ a.mark = actions[N].mark
            BY <1>2 DEF Phases, Action
          <5>2. actions' = [actions EXCEPT ![N] = a]
            BY <3>6 DEF Seal, Amend
          <5>. HIDE DEF a
          <5>3. Sets(N, a)
            BY <1>1, <5>1, <5>2, AmendSets DEF WriteAheadInv
          <5>. QED
            BY <1>2, <5>1, <5>3 DEF Sets
        <4>2. pc = "seal" /\ actions[N].mark \in {"owned", "written", "none"}
          BY <1>1, <3>6 DEF Seal, LedgerInv, AtHand
        <4>3. Effective(m)'
          BY <3>1, <4>1, <4>2 DEF Effective
        <4>4. Fulfilled
          BY <3>6, <4>2 DEF CompleteInv, Performed
        <4>5. AsMade(m, p)'
          BY <1>1, <1>5, <3>1, <3>6, <4>2, <4>4 DEF AsMade, Fulfilled
        <4>. QED
          BY <1>1, <1>2, <3>1, <3>6, <4>3, <4>5, SettledByLast
      <3>. QED
        BY <1>5, <3>4, <3>5, <3>6
    <2>3. ~Performed'
      BY <2>1 DEF Performed
    <2>. QED
      BY <1>2, <2>2, <2>3 DEF CompleteInv
  <1>. QED
    BY <1>3, <1>4, <1>5, WorkGoesOn

\* An announcement leaves the earlier entries alone.
LEMMA PlanAppends ==
    ASSUME TypeInv, Plan, pc' = "mutate"
    PROVE  N' = N + 1 /\ \A i \in 1 .. N : actions'[i] = actions[i]
  <1>1. actions \in Seq(Action)
    BY DEF TypeInv, TypeOK
  <1>2. \E entry : actions' = Append(actions, entry)
    BY DEF Plan, PlanRefused, PlanCreate, PlanRemove, PlanRemoveRefused, PlanDocument,
           PlanDocumentRefused, Announce, Throw
  <1>. QED
    BY <1>1, <1>2 DEF N

\* An action is planned: it counts only when it has taken effect.
LEMMA PlansSettle ==
    ASSUME WriteAheadInv, LedgerInv, CompleteInv, Plan
    PROVE  CompleteInv'
  <1>1. /\ pc = "plan" /\ failure = NoExit /\ N \in Nat
        /\ UNCHANGED <<home, pre, touched>>
    BY JournalFacts
       DEF Plan, PlanRefused, PlanCreate, PlanRemove, PlanRemoveRefused, PlanDocument,
           PlanDocumentRefused, envVars, LedgerInv, Quiet, WriteAheadInv
  <1>2. Untouched' = Untouched
    BY <1>1 DEF Untouched
  <1>3. (pc' = "operate" /\ failure' # NoExit) \/ pc' = "mutate"
    <2>1. CASE PlanRefused \/ PlanRemoveRefused \/ PlanDocumentRefused
      BY <2>1
         DEF PlanRefused, PlanRemoveRefused, PlanDocumentRefused, Throw, NoExit, Security,
             Internal, Conflict, Contract
    <2>2. CASE PlanCreate \/ PlanRemove \/ PlanDocument
      <3>1. \E entry : Announce(entry)
        BY <2>2, Zenon DEF PlanCreate, PlanRemove, PlanDocument
      <3>. QED
        BY <3>1 DEF Announce, Goto, Throw, NoExit, Internal
    <2>. QED
      BY <2>1, <2>2 DEF Plan
  <1>4. CASE pc' = "operate" /\ failure' # NoExit
    BY <1>4 DEF CompleteInv, Counted, Performed, InAction
  <1>5. CASE pc' = "mutate"
    <2>2. N' = N + 1 /\ \A i \in 1 .. N : actions'[i] = actions[i]
      BY <1>5, PlanAppends DEF WriteAheadInv
    <2>3. ASSUME NEW p \in Untouched, NEW m \in Nat, Counted(p, m)'
          PROVE  Settled(p, m)'
      <3>1. m = N
        BY <1>1, <1>5, <2>2, <2>3 DEF Counted, InAction
      <3>2. Counted(p, m)
        BY <1>1, <3>1 DEF Counted
      <3>3. Settled(p, m)
        BY <3>2 DEF CompleteInv
      <3>. QED
        BY <1>1, <2>2, <3>1, <3>3, SettledStays
    <2>. QED
      BY <1>2, <1>5, <2>3 DEF CompleteInv, Performed
  <1>. QED
    BY <1>3, <1>4, <1>5

\* A step that leaves the journal alone: whatever counts has counted before.
LEMMA RestSettles ==
    ASSUME CompleteInv, N \in Nat, UNCHANGED <<actions, pre>>, touched \subseteq touched',
           \A p \in Untouched' : home'[p] = home[p],
           \A p \in Untouched', m \in Nat : Counted(p, m)' => Counted(p, m),
           Performed' => pc' = pc /\ UNCHANGED todo
    PROVE  CompleteInv'
  <1>1. Untouched' \subseteq Untouched
    BY DEF Untouched
  <1>2. ASSUME NEW p \in Untouched', NEW m \in Nat, Counted(p, m)'
        PROVE  Settled(p, m)'
    <2>1. Settled(p, m)
      BY <1>1, <1>2 DEF CompleteInv
    <2>. QED
      BY <1>2, <2>1, SettledStays
  <1>3. Performed' /\ Here' \in Untouched' => Fulfilled'
    BY <1>1 DEF CompleteInv, Fulfilled, Performed, Here, N
  <1>. QED
    BY <1>2, <1>3 DEF CompleteInv

\* Every step keeps the account.
LEMMA CompleteInductive ==
    ASSUME WriteAheadInv, LedgerInv, CompleteInv, [Next]_vars
    PROVE  CompleteInv'
  <1>1. N \in Nat
    BY JournalFacts DEF WriteAheadInv
  <1>2. CASE Plan
    BY <1>2, PlansSettle
  <1>3. CASE Mutate \/ Record
    BY <1>3, WorkSettles
  <1>4. CASE Call
    <2>1. /\ UNCHANGED <<actions, home, pre, touched>> /\ pc = "operate" /\ failure = NoExit
          /\ pc' = "plan" \/ (pc' = "operate" /\ failure' # NoExit)
      <3>1. /\ \E n : MayCall(n)
            /\ \/ \E tasks : Start(tasks)
               \/ /\ Throw(Contract, FALSE)
                  /\ UNCHANGED <<home, journalVars, envVars>>
        BY <1>4
           DEF Call, CallCreate, CallWriteState, CallRemove, CallDocument, CallStaleCurrent
      <3>. QED
        BY <3>1 DEF MayCall, Start, Throw, journalVars, envVars, NoExit, Contract
    <2>2. ~Performed'
      BY <2>1 DEF Performed
    <2>3. \A p \in Untouched', m \in Nat : Counted(p, m)' => Counted(p, m)
      BY <2>1 DEF Counted, InAction, N
    <2>. QED
      BY <1>1, <2>1, <2>2, <2>3, RestSettles
  <1>5. CASE Finish
    <2>1. /\ UNCHANGED <<actions, home, pre, touched>> /\ pc = "operate"
          /\ \/ pc' = "begin-rollback"
             \/ pc' = "release" /\ failure = NoExit
      BY <1>5
         DEF Finish, Commit, Abort, AbortAfterFailure, BeginRollback, Goto, journalVars, envVars
    <2>2. ~Performed'
      BY <2>1 DEF Performed
    <2>3. \A p \in Untouched', m \in Nat : Counted(p, m)' => Counted(p, m)
      BY <2>1 DEF Counted, InAction, N
    <2>. QED
      BY <1>1, <2>1, <2>2, <2>3, RestSettles
  <1>6. CASE StartRollback \/ UndoPersist \/ UndoActions
    <2>1. pc' \in InUndo \cup {"end-rollback"}
      BY <1>6, UndoSteps
         DEF StartRollback, UndoPersist, NextUndo, UndoDone, UndoImpossible, Goto, InUndo
    <2>. QED
      BY <2>1 DEF CompleteInv, Counted, Performed, InUndo, InAction
  <1>7. CASE EndRollback
    <2>1. pc' = "release" /\ state' # "committed"
      BY <1>7 DEF EndRollback
    <2>. QED
      BY <2>1 DEF CompleteInv, Counted, Performed, InAction
  <1>8. CASE Release \/ ReleaseFails
    <2>1. /\ UNCHANGED <<actions, home, pre, touched>> /\ pc = "release" /\ pc' = "done"
          /\ state' = "committed" => state = "committed"
      BY <1>8 DEF Release, ReleaseFails, Return, journalVars, envVars
    <2>2. ~Performed'
      BY <2>1 DEF Performed
    <2>3. \A p \in Untouched', m \in Nat : Counted(p, m)' => Counted(p, m)
      BY <2>1 DEF Counted, InAction, N
    <2>. QED
      BY <1>1, <2>1, <2>2, <2>3, RestSettles
  <1>9. CASE Crash
    <2>1. pc' = "crashed"
      BY <1>9 DEF Crash
    <2>. QED
      BY <2>1 DEF CompleteInv, Counted, Performed, InAction
  <1>10. ASSUME NEW q \in Path, ForeignWrite(q) \/ ForeignEdit(q) \/ ForeignRemove(q)
         PROVE  CompleteInv'
    <2>1. \E object : ForeignStep(q, object)
      BY <1>10 DEF ForeignWrite, ForeignEdit, ForeignRemove
    <2>2. /\ UNCHANGED <<actions, state, pre, pc, todo, failure>> /\ touched' = touched \cup {q}
          /\ \E object : home' = [home EXCEPT ![q] = object]
      BY <2>1 DEF ForeignStep, journalVars, failVars
    <2>3. \A p \in Untouched' : home'[p] = home[p]
      BY <2>2 DEF Untouched, WriteAheadInv, TypeInv, TypeOK
    <2>4. \A p \in Untouched', m \in Nat : Counted(p, m)' => Counted(p, m)
      BY <2>2 DEF Counted, Performed, Here, N
    <2>. QED
      BY <1>1, <2>2, <2>3, <2>4, RestSettles
  <1>11. CASE UNCHANGED vars
    <2>1. \A p \in Untouched', m \in Nat : Counted(p, m)' => Counted(p, m)
      BY <1>11 DEF vars, Counted, Performed, Here, N
    <2>. QED
      BY <1>1, <1>11, <2>1, RestSettles DEF vars, Performed
  <1>. QED
    BY <1>2, <1>3, <1>4, <1>5, <1>6, <1>7, <1>8, <1>9, <1>10, <1>11
       DEF Next, Engine, Environment, Undo, UndoActions

\* At first nothing is to be accounted for.
LEMMA CompleteInit == Init => CompleteInv
  <1>1. SUFFICES ASSUME Init
                 PROVE  CompleteInv
    OBVIOUS
  <1>2. N = 0 /\ pc = "operate" /\ pre = home
    BY <1>1 DEF Init, N
  <1>3. ASSUME NEW p \in Untouched, NEW m \in Nat, Counted(p, m)
        PROVE  Settled(p, m)
    <2>1. m = 0
      BY <1>2, <1>3 DEF Counted, InAction
    <2>. QED
      BY <1>2, <2>1 DEF Settled
  <1>. QED
    BY <1>2, <1>3 DEF CompleteInv, Performed

\* A set of numbers up to n that is not empty has a largest one.
LEMMA HasLast ==
    ASSUME NEW n \in Nat, NEW S, S \subseteq 1 .. n, S # {}
    PROVE  \E i \in S : \A j \in S : j <= i
  <1>. DEFINE Rest == {m \in Nat : n - m \in S}
  <1>1. Rest \subseteq Nat /\ Rest # {}
    <2>1. PICK i \in S : TRUE
      OBVIOUS
    <2>2. n - i \in Nat /\ n - (n - i) = i
      BY <2>1
    <2>. QED
      BY <2>1, <2>2
  <1>2. PICK m \in Rest : \A k \in Rest : <<k, m>> \notin OpToRel(<, Nat)
    BY <1>1, WFMin, NatLessThanWellFounded, Zenon
  <1>3. \A k \in Rest : ~(k < m)
    BY <1>2, Zenon DEF OpToRel
  <1>4. ASSUME NEW j \in S
        PROVE  j <= n - m
    <2>1. n - j \in Rest
      <3>1. n - j \in Nat /\ n - (n - j) = j
        BY <1>4
      <3>. QED
        BY <1>4, <3>1
    <2>2. ~(n - j < m)
      BY <1>3, <2>1
    <2>3. m \in Nat /\ j \in Int
      BY <1>4
    <2>. QED
      BY <2>2, <2>3
  <1>5. n - m \in S
    OBVIOUS
  <1>. QED
    BY <1>4, <1>5

\* A reported commit is complete: every action is settled, and each path is what the last
\* action on it made, even when the operation swallowed failures of its calls
\* (transaction.ts: the sticky action failure forbids the commit).
THEOREM CommitsComplete == Spec => []CommittedIsComplete
  <1>1. EngineInv /\ CompleteInv => CommittedIsComplete
    <2>1. SUFFICES ASSUME EngineInv, CompleteInv, result.status = "committed"
                   PROVE  CommittedIsComplete
      BY DEF CommittedIsComplete
    <2>2. N \in Nat
      BY <2>1, JournalFacts DEF EngineInv, WriteAheadInv
    <2>3. pc = "done" /\ state = "committed"
      BY <2>1 DEF EngineInv, LedgerInv, Reported, NoResult
    <2>4. \A i \in 1 .. N : actions[i].phase = "applied" /\ actions[i].mark # "pending"
      BY <2>1, <2>3 DEF EngineInv, LedgerInv, Settling, Sealed
    <2>5. ASSUME NEW p \in Untouched
          PROVE  LET i == LastOn(p)
                 IN  CASE i = 0 -> home[p] = pre[p]
                       [] i # 0 /\ actions[i].kind = "replace" -> home[p] = Absent
                       [] OTHER -> home[p].data = i
      <3>. DEFINE on == {i \in 1 .. N : actions[i].path = p /\ Effective(i)}
      <3>1. Settled(p, N)
        BY <2>1, <2>2, <2>3 DEF CompleteInv, Counted
      <3>2. CASE on = {}
        <4>1. LastOn(p) = 0
          BY <3>2 DEF LastOn
        <4>2. home[p] = pre[p]
          BY <3>1, <3>2 DEF Settled
        <4>. QED
          BY <4>1, <4>2
      <3>3. CASE on # {}
        <4>1. \E i \in on : \A j \in on : j <= i
          BY <2>2, <3>3, HasLast
        <4>2. PICK i : i = LastOn(p)
          OBVIOUS
        <4>3. i \in on /\ \A j \in on : j <= i
          BY <3>3, <4>1, <4>2 DEF LastOn
        <4>4. i \in 1 .. N /\ Latest(i, p, N)
          <5>1. i \in 1 .. N /\ actions[i].path = p /\ Effective(i)
            BY <4>3
          <5>2. ASSUME NEW j \in i + 1 .. N, actions[j].path = p, Effective(j)
                PROVE  FALSE
            <6>1. j \in 1 .. N /\ j > i
              BY <2>2, <5>1, <5>2
            <6>. QED
              BY <4>3, <5>1, <5>2, <6>1
          <5>. QED
            BY <5>1, <5>2 DEF Latest
        <4>5. AsMade(i, p)
          BY <3>1, <4>4 DEF Settled
        <4>. QED
          BY <4>2, <4>4, <4>5 DEF AsMade
      <3>. QED
        BY <3>2, <3>3
    <2>. QED
      BY <2>4, <2>5 DEF CommittedIsComplete
  <1>2. EngineInv /\ CompleteInv /\ [Next]_vars => EngineInv' /\ CompleteInv'
    BY EngineInductive, CompleteInductive DEF EngineInv
  <1>. QED
    BY <1>1, <1>2, EngineInit, CompleteInit, PTL DEF Spec

=============================================================================
