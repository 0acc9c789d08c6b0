------------------------ MODULE HomeLifecycleProofs ------------------------
(***************************************************************************)
(* Proofs about HomeLifecycle, for any profiles, packs, command lines,     *)
(* processes and homes to begin with.                                      *)
(***************************************************************************)
EXTENDS HomeLifecycle, SequenceTheorems, TLAPS

SettingValue == Version \cup {"edited", "none"}

\* One step of a transaction.
WriteStep ==
    [kind : {"place"}, target : Target, over : Thing, thing : Thing]
    \cup [kind : {"setting"}, over : SettingValue, value : SettingValue]
    \cup [kind : {"block", "drop-block"}, block : Block]
    \cup [kind : {"document", "drop-document"}, doc : Doc]
    \cup [kind : {"current"}, profile : Profile, seq : 0 .. MaxGeneration]
    \cup [kind : {"marker"}, profile : Profile, meta : Meta]

Pending(s) == UNION {s[i] : i \in DOMAIN s}

-----------------------------------------------------------------------------
(* What one write does *)

LEMMA Kinds ==
    ASSUME NEW w \in WriteStep
    PROVE  /\ w.kind \in {"place", "setting", "block", "drop-block", "document", "drop-document", "current", "marker"}
           /\ w.kind = "place" => w.target \in Target /\ w.over \in Thing /\ w.thing \in Thing
           /\ w.kind = "setting" => w.over \in SettingValue /\ w.value \in SettingValue
           /\ w.kind \in {"block", "drop-block"} => w.block \in Block
           /\ w.kind \in {"document", "drop-document"} => w.doc \in Doc
           /\ w.kind = "current" => w.profile \in Profile /\ w.seq \in 0 .. MaxGeneration
           /\ w.kind = "marker" => w.profile \in Profile /\ w.meta \in Meta
BY DEF WriteStep

LEMMA DoneEffect ==
    ASSUME NEW h \in Home, NEW w \in WriteStep, Possible(h, w)
    PROVE  /\ Done(h, w) \in Home
           /\ Done(h, w).disk = IF w.kind = "place" THEN [h.disk EXCEPT ![w.target] = w.thing] ELSE h.disk
           /\ Done(h, w).setting = IF w.kind = "setting" THEN w.value ELSE h.setting
           /\ Done(h, w).marker = IF w.kind = "marker" THEN [h.marker EXCEPT ![w.profile] = w.meta] ELSE h.marker
           /\ Done(h, w).current = IF w.kind = "current" THEN [h.current EXCEPT ![w.profile] = w.seq] ELSE h.current
           /\ Done(h, w).blocks = IF w.kind = "block" THEN h.blocks \cup {w.block}
                                  ELSE IF w.kind = "drop-block" THEN h.blocks \ {w.block} ELSE h.blocks
           /\ Done(h, w).docs = IF w.kind = "document" THEN h.docs \cup {w.doc}
                                ELSE IF w.kind = "drop-document" THEN h.docs \ {w.doc} ELSE h.docs
<1> USE Kinds DEF Home, SettingValue
<1>1. CASE w.kind = "place"
  BY <1>1 DEF Done
<1>2. CASE w.kind = "setting"
  BY <1>2 DEF Done
<1>3. CASE w.kind = "block"
  BY <1>3 DEF Done
<1>4. CASE w.kind = "drop-block"
  BY <1>4 DEF Done
<1>5. CASE w.kind = "document"
  <2>1. {d \in h.docs : d.profile # w.doc.profile \/ d.seq # w.doc.seq} = h.docs
    BY <1>5 DEF Possible, Kept, DocsOf
  <2>2. Done(h, w) = [h EXCEPT !.docs = h.docs \cup {w.doc}]
    BY <1>5, <2>1 DEF Done
  <2>3. QED
    BY <1>5, <2>2
<1>6. CASE w.kind = "drop-document"
  BY <1>6 DEF Done
<1>7. CASE w.kind = "current"
  BY <1>7 DEF Done
<1>8. CASE w.kind = "marker"
  BY <1>8 DEF Done
<1>9. QED
  BY <1>1, <1>2, <1>3, <1>4, <1>5, <1>6, <1>7, <1>8

-----------------------------------------------------------------------------
(* What a transaction is to write *)

\* Of one write: what it may record, and whose work it may replace.
Fits(h, c, w) ==
    /\ w.kind = "place" =>
         /\ w.thing = Nothing \/ w.thing.bytes \in Version
         /\ w.over.bytes \in EditedBytes /\ w.thing # w.over =>
              \/ MayTakeDirectory(c, w.target)
              \/ c.verb = "restore" /\ w.target = c.profile /\ h.marker[w.target].assets[w.target].act = "skip"
              \/ c.verb = "uninstall" /\ w.over.bytes = "trimmed"
         /\ c.verb \in {"uninstall", "restore"} /\ w.over # Nothing =>
              \/ h.marker[c.profile].schema = "v0" /\ w.target = c.profile
              \/ ~LegacyPeer(h, c.profile) /\ ~PeerClaims(h, c.profile, w.target)
    /\ w.kind = "setting" /\ w.over = "edited" /\ w.value # "edited" => MayTakeSetting(c)
    /\ w.kind = "document" => w.doc.meta.schema # "v0" /\ Honest(w.doc.meta)
    /\ w.kind = "marker" => Honest(w.meta)

\* A document is written after its blocks, and a block goes after the documents that name it.
Stocked(h, s) ==
    \A i \in DOMAIN s : \A w \in s[i] :
       /\ w.kind = "document" =>
            \A b \in Entries(w.doc.meta) :
               /\ b \in h.blocks \/ (\E j \in 1 .. i - 1 : Store(b) \in s[j])
               /\ DropBlock(b) \notin Pending(s)
       /\ w.kind = "drop-block" =>
            \A d \in h.docs : w.block \in Entries(d.meta) => \E j \in 1 .. i - 1 : DropDoc(d) \in s[j]

\* No transaction writes a document and drops one.
Unmixed(ws) == (\A w \in ws : w.kind # "document") \/ (\A w \in ws : w.kind # "drop-document")

Points(ws, q) == {w \in ws : w.kind = "current" /\ w.profile = q}
Marks(ws, q) == {w \in ws : w.kind = "marker" /\ w.profile = q}
\* What the marker of a profile will be.
Metas(h, ws, q) == IF Marks(ws, q) = {} THEN {h.marker[q]} ELSE {w.meta : w \in Marks(ws, q)}

\* When all is written, the current pointer of q is n, and the marker is what document n says.
Heads(h, ws, q, n) ==
    /\ \A w \in Points(ws, q) : w.seq = n
    /\ Points(ws, q) = {} => h.current[q] = n
    /\ n = 0 => \A m \in Metas(h, ws, q) : m.schema # "v1"
    /\ n # 0 =>
         \E d \in h.docs \cup {w.doc : w \in {x \in ws : x.kind = "document"}} :
            /\ d.profile = q /\ d.seq = n
            /\ \A w \in ws : w.kind = "drop-document" => w.doc # d
            /\ \A m \in Metas(h, ws, q) : m = d.meta

AllHead(h, ws) == \A q \in Profile : \E n \in 0 .. MaxGeneration : Heads(h, ws, q, n)

-----------------------------------------------------------------------------
(* The invariant *)

\* Who is at what.
ProcessInv ==
    /\ pc \in [Process -> {"idle", "planned", "locked"}]
    /\ \A p, q \in Process : pc[p] = "locked" /\ pc[q] = "locked" => p = q
    /\ DOMAIN command = Process /\ DOMAIN facts = Process
    /\ \A p \in Process : pc[p] # "idle" => command[p] \in Commands
    /\ \A p \in Process : pc[p] # "idle" /\ command[p].verb = "gc" => facts[p].verb = "gc"
    /\ torn \in BOOLEAN

\* The home, now and when the lock was taken.
HomeInv ==
    /\ home \in Home /\ Legible(home)
    /\ saved \in Home /\ Legible(saved)
    /\ torn \/ Agree(saved)
    /\ ~Locked => saved = home /\ todo = <<>>

\* The transaction under way.
TodoInv ==
    /\ todo \in Seq(SUBSET WriteStep)
    /\ \A p \in Process : pc[p] = "locked" => \A w \in Pending(todo) : Fits(saved, command[p], w)
    /\ Stocked(home, todo)
    /\ torn \/ AllHead(home, Pending(todo))

\* A document written in the place of one there was would need that one dropped first.
DocumentInv ==
    /\ \A d \in home.docs, e \in saved.docs : d.profile = e.profile /\ d.seq = e.seq => d = e
    /\ \/ \A w \in Pending(todo) : w.kind # "document"
       \/ saved.docs \subseteq home.docs /\ \A w \in Pending(todo) : w.kind # "drop-document"

Inv == ProcessInv /\ HomeInv /\ TodoInv /\ DocumentInv

-----------------------------------------------------------------------------
(* One write of a transaction keeps the invariant *)

LEMMA StepsAreTheirKind ==
    ASSUME NEW w \in WriteStep
    PROVE  /\ w.kind = "block" => w = Store(w.block)
           /\ w.kind = "drop-block" => w = DropBlock(w.block)
           /\ w.kind = "drop-document" => w = DropDoc(w.doc)
<1>1. ASSUME w.kind = "block" PROVE w = Store(w.block)
  BY <1>1 DEF WriteStep, Store
<1>2. ASSUME w.kind = "drop-block" PROVE w = DropBlock(w.block)
  BY <1>2 DEF WriteStep, DropBlock
<1>3. ASSUME w.kind = "drop-document" PROVE w = DropDoc(w.doc)
  BY <1>3 DEF WriteStep, DropDoc
<1>4. QED
  BY <1>1, <1>2, <1>3

Without(s, i, w) == [s EXCEPT ![i] = @ \ {w}]

\* The other writes are still to be made.
LEMMA Remaining ==
    ASSUME NEW s \in Seq(SUBSET WriteStep), NEW i \in DOMAIN s, NEW w \in s[i],
           NEW t, t = Without(s, i, w)
    PROVE  /\ t \in Seq(SUBSET WriteStep) /\ DOMAIN t = DOMAIN s
           /\ \A j \in DOMAIN s : t[j] \subseteq s[j] /\ s[j] \subseteq t[j] \cup {w}
           /\ \A j \in DOMAIN s : j # i => t[j] = s[j]
           /\ Pending(t) \subseteq Pending(s) /\ Pending(s) \subseteq Pending(t) \cup {w}
           /\ w \in Pending(s) /\ w \in WriteStep
<1>1. DOMAIN t = DOMAIN s
  BY DEF Without
<1>2. \A j \in DOMAIN s : t[j] = IF j = i THEN s[i] \ {w} ELSE s[j]
  BY DEF Without
<1>3. t \in Seq(SUBSET WriteStep)
  BY DEF Without
<1>4. QED
  BY <1>1, <1>2, <1>3 DEF Pending

LEMMA HeadsKept ==
    ASSUME NEW h \in Home, NEW w \in WriteStep, Possible(h, w), NEW ws, NEW rest,
           w \in ws, rest \subseteq ws, ws \subseteq rest \cup {w}, ws \subseteq WriteStep,
           NEW q \in Profile, NEW n \in 0 .. MaxGeneration, Heads(h, ws, q, n)
    PROVE  Heads(Done(h, w), rest, q, n)
<1> DEFINE g == Done(h, w)
<1>0. /\ g.marker = IF w.kind = "marker" THEN [h.marker EXCEPT ![w.profile] = w.meta] ELSE h.marker
      /\ g.current = IF w.kind = "current" THEN [h.current EXCEPT ![w.profile] = w.seq] ELSE h.current
      /\ g.docs = IF w.kind = "document" THEN h.docs \cup {w.doc}
                  ELSE IF w.kind = "drop-document" THEN h.docs \ {w.doc} ELSE h.docs
      /\ DOMAIN h.marker = Profile /\ DOMAIN h.current = Profile
  BY DoneEffect DEF Home
<1> HIDE DEF g
<1>1. /\ \A x \in Points(rest, q) : x.seq = n
      /\ Points(rest, q) = {} => g.current[q] = n
  <2>1. CASE w \in Points(ws, q)
    BY <1>0, <2>1 DEF Heads, Points
  <2>2. CASE w \notin Points(ws, q)
    <3>1. g.current[q] = h.current[q]
      BY <1>0, <2>2 DEF Points
    <3>2. Points(rest, q) = Points(ws, q)
      BY <2>2 DEF Points
    <3>3. QED
      BY <3>1, <3>2 DEF Heads
  <2>3. QED
    BY <2>1, <2>2
<1>2. Metas(g, rest, q) \subseteq Metas(h, ws, q)
  <2>1. CASE w \in Marks(ws, q)
    <3>1. g.marker[q] = w.meta /\ w.meta \in Metas(h, ws, q)
      BY <1>0, <2>1 DEF Marks, Metas
    <3>2. Marks(rest, q) \subseteq Marks(ws, q)
      BY DEF Marks
    <3>3. QED
      BY <2>1, <3>1, <3>2 DEF Metas
  <2>2. CASE w \notin Marks(ws, q)
    <3>1. g.marker[q] = h.marker[q]
      BY <1>0, <2>2 DEF Marks
    <3>2. Marks(rest, q) = Marks(ws, q)
      BY <2>2 DEF Marks
    <3>3. QED
      BY <3>1, <3>2 DEF Metas
  <2>3. QED
    BY <2>1, <2>2
<1>3. ASSUME NEW d \in h.docs \cup {x.doc : x \in {y \in ws : y.kind = "document"}},
             \A x \in ws : x.kind = "drop-document" => x.doc # d
      PROVE  /\ d \in g.docs \cup {x.doc : x \in {y \in rest : y.kind = "document"}}
             /\ \A x \in rest : x.kind = "drop-document" => x.doc # d
  <2>1. CASE d \in h.docs
    BY <1>0, <1>3, <2>1
  <2>2. CASE d \in {x.doc : x \in {y \in ws : y.kind = "document"}}
    <3>1. PICK x \in ws : x.kind = "document" /\ x.doc = d
      BY <2>2
    <3>2. CASE x = w
      BY <1>0, <1>3, <3>1, <3>2
    <3>3. CASE x # w
      BY <1>3, <3>1, <3>3
    <3>4. QED
      BY <3>2, <3>3
  <2>3. QED
    BY <2>1, <2>2
<1>4. QED
  BY <1>1, <1>2, <1>3 DEF Heads, g

LEMMA StockedKept ==
    ASSUME NEW h \in Home, NEW s \in Seq(SUBSET WriteStep), NEW i \in DOMAIN s, NEW w \in s[i],
           Possible(h, w), Stocked(h, s), NEW t, t = Without(s, i, w)
    PROVE  Stocked(Done(h, w), t)
<1> DEFINE g == Done(h, w)
<1>1. w \in WriteStep
  BY Remaining
<1>0. /\ g.blocks = IF w.kind = "block" THEN h.blocks \cup {w.block}
                    ELSE IF w.kind = "drop-block" THEN h.blocks \ {w.block} ELSE h.blocks
      /\ g.docs = IF w.kind = "document" THEN h.docs \cup {w.doc}
                  ELSE IF w.kind = "drop-document" THEN h.docs \ {w.doc} ELSE h.docs
  BY <1>1, DoneEffect
<1> HIDE DEF g
<1>4. Pending(t) \subseteq Pending(s)
  BY Remaining
<1>2. ASSUME NEW j \in DOMAIN t, NEW x \in t[j], x.kind = "document", NEW b \in Entries(x.doc.meta)
      PROVE  /\ b \in g.blocks \/ (\E k \in 1 .. j - 1 : Store(b) \in t[k])
             /\ DropBlock(b) \notin Pending(t)
  <2>1. x \in s[j] /\ j \in DOMAIN s
    BY <1>2, Remaining
  <2>2. b \in h.blocks \/ \E k \in 1 .. j - 1 : Store(b) \in s[k]
    BY <1>2, <2>1 DEF Stocked
  <2>3. DropBlock(b) \notin Pending(s)
    BY <1>2, <2>1 DEF Stocked
  <2>4. w # DropBlock(b)
    BY <2>3, Remaining
  <2>5. ASSUME b \in h.blocks PROVE b \in g.blocks
    <3>1. w.kind = "drop-block" => w.block # b
      BY <1>1, <2>4, StepsAreTheirKind
    <3>2. QED
      BY <1>0, <2>5, <3>1
  <2>6. ASSUME NEW k \in 1 .. j - 1, Store(b) \in s[k]
        PROVE  b \in g.blocks \/ Store(b) \in t[k]
    <3>1. k \in DOMAIN s
      BY <2>1, <2>6
    <3>2. CASE w = Store(b)
      <4>1. w.kind = "block" /\ w.block = b
        BY <3>2 DEF Store
      <4>2. QED
        BY <1>0, <4>1
    <3>3. CASE w # Store(b)
      BY <2>6, <3>1, <3>3, Remaining
    <3>4. QED
      BY <3>2, <3>3
  <2>7. DropBlock(b) \notin Pending(t)
    BY <2>3, <1>4
  <2>8. b \in g.blocks \/ \E k \in 1 .. j - 1 : Store(b) \in t[k]
    BY <2>2, <2>5, <2>6
  <2>9. QED
    BY <2>7, <2>8
<1>3. ASSUME NEW j \in DOMAIN t, NEW x \in t[j], x.kind = "drop-block", NEW d \in g.docs, x.block \in Entries(d.meta)
      PROVE  \E k \in 1 .. j - 1 : DropDoc(d) \in t[k]
  <2>1. x \in s[j] /\ j \in DOMAIN s /\ x \in Pending(s) /\ x \in WriteStep
    BY <1>3, Remaining DEF Pending
  <2>2. CASE d \in h.docs
    <3>1. PICK k \in 1 .. j - 1 : DropDoc(d) \in s[k]
      BY <1>3, <2>1, <2>2 DEF Stocked
    <3>2. w # DropDoc(d)
      <4>1. SUFFICES ASSUME w = DropDoc(d) PROVE FALSE
        OBVIOUS
      <4>2. w.kind = "drop-document" /\ w.doc = d
        BY <4>1 DEF DropDoc
      <4>3. QED
        BY <1>0, <1>3, <4>2
    <3>3. k \in DOMAIN s
      BY <2>1
    <3>4. QED
      BY <3>1, <3>2, <3>3, Remaining
  <2>3. CASE d \notin h.docs
    <3>1. w.kind = "document" /\ d = w.doc
      BY <1>0, <1>3, <2>3
    <3>2. DropBlock(x.block) \notin Pending(s)
      BY <1>3, <3>1 DEF Stocked
    <3>3. QED
      BY <1>3, <2>1, <3>2, StepsAreTheirKind
  <2>4. QED
    BY <2>2, <2>3
<1>5. QED
  BY <1>2, <1>3 DEF Stocked, g

LEMMA LegibleKept ==
    ASSUME NEW h \in Home, Legible(h), NEW w \in WriteStep, Possible(h, w), NEW g, NEW c, Fits(g, c, w),
           w.kind = "document" => Entries(w.doc.meta) \subseteq h.blocks,
           w.kind = "drop-block" => \A d \in h.docs : w.block \notin Entries(d.meta)
    PROVE  Legible(Done(h, w))
<1> DEFINE f == Done(h, w)
<1>0. /\ f.disk = IF w.kind = "place" THEN [h.disk EXCEPT ![w.target] = w.thing] ELSE h.disk
      /\ f.marker = IF w.kind = "marker" THEN [h.marker EXCEPT ![w.profile] = w.meta] ELSE h.marker
      /\ f.blocks = IF w.kind = "block" THEN h.blocks \cup {w.block}
                    ELSE IF w.kind = "drop-block" THEN h.blocks \ {w.block} ELSE h.blocks
      /\ f.docs = IF w.kind = "document" THEN h.docs \cup {w.doc}
                  ELSE IF w.kind = "drop-document" THEN h.docs \ {w.doc} ELSE h.docs
      /\ DOMAIN h.marker = Profile /\ DOMAIN h.disk = Target
  BY DoneEffect DEF Home
<1> HIDE DEF f
<1>1. \A d, e \in f.docs : d.profile = e.profile /\ d.seq = e.seq => d = e
  <2>1. w.kind = "document" => \A d \in h.docs : d.profile # w.doc.profile \/ d.seq # w.doc.seq
    BY DEF Possible, Kept, DocsOf
  <2>2. QED
    BY <1>0, <2>1 DEF Legible
<1>2. ASSUME NEW d \in f.docs PROVE InStore(f, d.meta) /\ d.meta.schema # "v0" /\ Honest(d.meta)
  <2>1. CASE d \in h.docs
    <3>1. InStore(h, d.meta) /\ d.meta.schema # "v0" /\ Honest(d.meta)
      BY <2>1 DEF Legible
    <3>2. QED
      BY <1>0, <2>1, <3>1 DEF InStore
  <2>2. CASE d \notin h.docs
    <3>1. w.kind = "document" /\ d = w.doc
      BY <1>0, <1>2, <2>2
    <3>2. QED
      BY <1>0, <3>1 DEF InStore, Fits
  <2>3. QED
    BY <2>1, <2>2
<1>3. \A p \in Profile : Honest(f.marker[p])
  BY <1>0, Kinds DEF Legible, Fits
<1>4. ASSUME NEW t \in Target, f.disk[t].bytes = "none" PROVE f.disk[t] = Nothing
  <2>1. CASE w.kind = "place" /\ t = w.target
    BY <1>0, <1>4, <2>1, BytesAssumption DEF Fits
  <2>2. CASE ~(w.kind = "place" /\ t = w.target)
    BY <1>0, <1>4, <2>2, Kinds DEF Legible
  <2>3. QED
    BY <2>1, <2>2
<1>5. QED
  BY <1>1, <1>2, <1>3, <1>4 DEF Legible, f

LEMMA WriteKeeps == ASSUME Inv, NEW p \in Process, Write(p) PROVE Inv'
<1>0. PICK i \in DOMAIN todo : \E w \in todo[i] :
         /\ Reached(i) /\ Possible(home, w) /\ home' = Done(home, w)
         /\ todo' = Without(todo, i, w)
  BY DEF Write, Without
<1>1. PICK w \in todo[i] :
         /\ Reached(i) /\ Possible(home, w) /\ home' = Done(home, w)
         /\ todo' = Without(todo, i, w)
  BY <1>0
<1>2. pc[p] = "locked" /\ UNCHANGED <<pc, command, facts, saved, torn, budget>>
  BY DEF Write
<1>3. /\ todo \in Seq(SUBSET WriteStep) /\ home \in Home /\ Legible(home) /\ Stocked(home, todo)
      /\ \A x \in Pending(todo) : Fits(saved, command[p], x)
  BY <1>2 DEF Inv, TodoInv, HomeInv
<1>4. /\ todo' \in Seq(SUBSET WriteStep)
      /\ Pending(todo') \subseteq Pending(todo) /\ Pending(todo) \subseteq Pending(todo') \cup {w}
      /\ w \in Pending(todo) /\ w \in WriteStep
  BY <1>1, <1>3, Remaining
<1>5. /\ home' \in Home
      /\ home'.docs = IF w.kind = "document" THEN home.docs \cup {w.doc}
                      ELSE IF w.kind = "drop-document" THEN home.docs \ {w.doc} ELSE home.docs
  BY <1>1, <1>3, <1>4, DoneEffect
<1>6. Legible(home')
  <2>1. \A x : \A j \in 1 .. i - 1 : x \notin todo[j]
    BY <1>1 DEF Reached
  <2>2. w.kind = "document" => Entries(w.doc.meta) \subseteq home.blocks
    BY <1>3, <2>1 DEF Stocked
  <2>3. w.kind = "drop-block" => \A d \in home.docs : w.block \notin Entries(d.meta)
    BY <1>3, <2>1 DEF Stocked
  <2>4. QED
    BY <1>1, <1>3, <1>4, <2>2, <2>3, LegibleKept
<1>7. ProcessInv'
  BY <1>2 DEF Inv, ProcessInv
<1>8. HomeInv'
  BY <1>2, <1>5, <1>6 DEF Inv, HomeInv, Locked, Agree
<1>9. TodoInv'
  <2>1. \A q \in Process : pc'[q] = "locked" => \A x \in Pending(todo') : Fits(saved', command'[q], x)
    BY <1>2, <1>4 DEF Inv, TodoInv
  <2>2. Stocked(home', todo')
    BY <1>1, <1>3, StockedKept
  <2>3. torn' \/ AllHead(home', Pending(todo'))
    <3>1. SUFFICES ASSUME ~torn PROVE AllHead(home', Pending(todo'))
      BY <1>2
    <3>2. ASSUME NEW q \in Profile
          PROVE  \E n \in 0 .. MaxGeneration : Heads(home', Pending(todo'), q, n)
      <4>1. PICK n \in 0 .. MaxGeneration : Heads(home, Pending(todo), q, n)
        BY <3>1 DEF Inv, TodoInv, AllHead
      <4>2. Pending(todo) \subseteq WriteStep
        BY <1>3 DEF Pending
      <4>3. Heads(Done(home, w), Pending(todo'), q, n)
        BY <1>1, <1>3, <1>4, <4>1, <4>2, HeadsKept
      <4>4. QED
        BY <1>1, <4>3
    <3>3. QED
      BY <3>2 DEF AllHead
  <2>4. QED
    BY <1>4, <2>1, <2>2, <2>3 DEF TodoInv
<1>10. DocumentInv'
  <2>1. UNCHANGED saved
    BY <1>2
  <2>2. w.kind = "document" => saved.docs \subseteq home.docs /\ \A x \in Pending(todo) : x.kind # "drop-document"
    BY <1>4 DEF Inv, DocumentInv
  <2>3. w.kind = "document" => \A d \in home.docs : d.profile # w.doc.profile \/ d.seq # w.doc.seq
    BY <1>1 DEF Possible, Kept, DocsOf
  <2>4. \A d \in home'.docs, e \in saved'.docs : d.profile = e.profile /\ d.seq = e.seq => d = e
    BY <1>5, <2>1, <2>2, <2>3 DEF Inv, DocumentInv
  <2>5. \/ \A x \in Pending(todo') : x.kind # "document"
        \/ saved'.docs \subseteq home'.docs /\ \A x \in Pending(todo') : x.kind # "drop-document"
    <3>1. CASE \A x \in Pending(todo) : x.kind # "document"
      BY <1>4, <3>1
    <3>2. CASE saved.docs \subseteq home.docs /\ \A x \in Pending(todo) : x.kind # "drop-document"
      BY <1>4, <1>5, <2>1, <3>2
    <3>3. QED
      BY <3>1, <3>2 DEF Inv, DocumentInv
  <2>6. QED
    BY <2>4, <2>5 DEF DocumentInv
<1>11. QED
  BY <1>7, <1>8, <1>9, <1>10 DEF Inv

-----------------------------------------------------------------------------
(* What a plan has to be like *)

Good(h, c, s) ==
    /\ s \in Seq(SUBSET WriteStep)
    /\ \A w \in Pending(s) : Fits(h, c, w)
    /\ Stocked(h, s)
    /\ Unmixed(Pending(s))
    /\ Agree(h) => AllHead(h, Pending(s))

LEMMA DocAtIs ==
    ASSUME NEW h, NEW p, NEW n, n \in Kept(h, p)
    PROVE  DocAt(h, p, n) \in h.docs /\ DocAt(h, p, n).profile = p /\ DocAt(h, p, n).seq = n
<1>1. \E d \in DocsOf(h, p) : d.seq = n
  BY DEF Kept
<1>2. DocAt(h, p, n) \in DocsOf(h, p) /\ DocAt(h, p, n).seq = n
  BY <1>1 DEF DocAt
<1>3. QED
  BY <1>2 DEF DocsOf

\* A profile that a plan leaves alone.
LEMMA OthersHead ==
    ASSUME NEW h \in Home, Agree(h), NEW ws, NEW q \in Profile,
           \A w \in ws : w.kind \in {"current", "marker"} => w.profile # q,
           \A w \in ws : w.kind = "drop-document" => w.doc.profile # q \/ w.doc.seq # h.current[q]
    PROVE  \E n \in 0 .. MaxGeneration : Heads(h, ws, q, n)
<1> DEFINE n == h.current[q]
<1>1. n \in 0 .. MaxGeneration
  BY DEF Home
<1>2. Points(ws, q) = {} /\ Metas(h, ws, q) = {h.marker[q]}
  BY DEF Points, Metas, Marks
<1>3. n = 0 => h.marker[q].schema # "v1"
  BY DEF Agree
<1>4. n # 0 => n \in Kept(h, q) /\ h.marker[q] = DocAt(h, q, n).meta
  BY DEF Agree
<1> HIDE DEF n
<1>5. ASSUME n # 0
      PROVE  \E d \in h.docs : /\ d.profile = q /\ d.seq = n /\ d.meta = h.marker[q]
                               /\ \A w \in ws : w.kind = "drop-document" => w.doc # d
  <2>1. DocAt(h, q, n) \in h.docs /\ DocAt(h, q, n).profile = q /\ DocAt(h, q, n).seq = n
    BY <1>4, <1>5, DocAtIs
  <2>2. QED
    BY <1>4, <1>5, <2>1 DEF n
<1>6. h.current[q] = n
  BY DEF n
<1>7. Heads(h, ws, q, n)
  BY <1>2, <1>3, <1>5, <1>6 DEF Heads
<1>8. QED
  BY <1>1, <1>7

\* A transaction that ends with a new generation, its pointer and its marker.
LEMMA Recording ==
    ASSUME NEW h \in Home, NEW c, NEW p \in Profile, NEW n \in Generation,
           NEW op \in {"install", "update", "restore", "uninstall"},
           NEW meta \in Meta, meta.schema # "v0", Honest(meta),
           NEW k \in Nat, NEW s \in Seq(SUBSET WriteStep), Len(s) = k + 3,
           \A i \in 1 .. k : \A w \in s[i] : w.kind \in {"place", "setting", "block"} /\ Fits(h, c, w),
           s[k + 1] = {WriteDoc(p, n, op, meta)}, s[k + 2] = {Point(p, n)}, s[k + 3] = {Mark(p, meta)},
           \A b \in Entries(meta) : b \in h.blocks \/ \E i \in 1 .. k : Store(b) \in s[i]
    PROVE  Good(h, c, s)
<1> DEFINE doc == [profile |-> p, seq |-> n, op |-> op, meta |-> meta]
           D == WriteDoc(p, n, op, meta)
           C == Point(p, n)
           M == Mark(p, meta)
           ws == Pending(s)
<1>1. /\ D.kind = "document" /\ D.doc = doc /\ doc.profile = p /\ doc.seq = n /\ doc.meta = meta
      /\ C.kind = "current" /\ C.profile = p /\ C.seq = n
      /\ M.kind = "marker" /\ M.profile = p /\ M.meta = meta
  BY DEF WriteDoc, Point, Mark
<1>2. DOMAIN s = 1 .. k + 3
  OBVIOUS
<1>3. \A i \in DOMAIN s : i \in 1 .. k \/ i = k + 1 \/ i = k + 2 \/ i = k + 3
  BY <1>2
<1>4. /\ \A w \in ws : (w.kind \in {"place", "setting", "block"} /\ Fits(h, c, w)) \/ w = D \/ w = C \/ w = M
      /\ D \in ws /\ C \in ws /\ M \in ws
  BY <1>2, <1>3 DEF Pending
<1> HIDE DEF D, C, M, doc, ws
<1>5. \A w \in ws : Fits(h, c, w)
  BY <1>1, <1>4 DEF Fits
<1>6. Stocked(h, s)
  <2>1. ASSUME NEW i \in DOMAIN s, NEW w \in s[i], w.kind = "document", NEW b \in Entries(w.doc.meta)
        PROVE  (b \in h.blocks \/ \E j \in 1 .. i - 1 : Store(b) \in s[j]) /\ DropBlock(b) \notin ws
    <3>1. i = k + 1 /\ w = D
      BY <1>1, <1>3, <2>1 DEF D, C, M
    <3>2. DropBlock(b) \notin ws
      BY <1>1, <1>4 DEF DropBlock
    <3>3. b \in Entries(meta) /\ \A j \in 1 .. k : j \in 1 .. i - 1
      BY <1>1, <2>1, <3>1
    <3>4. QED
      BY <3>2, <3>3
  <2>2. ASSUME NEW w \in ws PROVE w.kind # "drop-block"
    BY <1>1, <1>4
  <2>3. QED
    BY <2>1, <2>2 DEF Stocked, ws, Pending
<1>7. Unmixed(ws)
  BY <1>1, <1>4 DEF Unmixed
<1>8. ASSUME Agree(h) PROVE AllHead(h, ws)
  <2>1. ASSUME NEW q \in Profile, q # p PROVE \E m \in 0 .. MaxGeneration : Heads(h, ws, q, m)
    <3>1. /\ \A w \in ws : w.kind \in {"current", "marker"} => w.profile # q
          /\ \A w \in ws : w.kind # "drop-document"
      BY <1>1, <1>4, <2>1
    <3>2. QED
      BY <1>8, <3>1, OthersHead
  <2>2. Heads(h, ws, p, n)
    <3>1. Points(ws, p) = {C} /\ Marks(ws, p) = {M}
      BY <1>1, <1>4 DEF Points, Marks
    <3>2. Metas(h, ws, p) = {meta}
      BY <1>1, <3>1 DEF Metas
    <3>3. n # 0
      BY DEF Generation
    <3>4. doc \in {w.doc : w \in {x \in ws : x.kind = "document"}}
      BY <1>1, <1>4
    <3>5. \A w \in ws : w.kind # "drop-document"
      BY <1>1, <1>4
    <3>6. QED
      BY <1>1, <3>1, <3>2, <3>3, <3>4, <3>5 DEF Heads
  <2>3. n \in 0 .. MaxGeneration
    BY MaxGenerationAssumption DEF Generation
  <2>4. QED
    BY <2>1, <2>2, <2>3 DEF AllHead
<1>9. QED
  BY <1>5, <1>6, <1>7, <1>8 DEF Good, ws

-----------------------------------------------------------------------------
(* install *)

LEMMA EntriesAreBlocks == ASSUME NEW meta, Honest(meta) PROVE Entries(meta) \subseteq Block
BY DEF Entries, Honest, OfPack, BlockOf, Block, Target

LEMMA CommandTypes ==
    ASSUME NEW c \in Commands
    PROVE  /\ c \in Command
           /\ c.verb # "gc" => c.profile \in Profile /\ c.profile \in Target
           /\ c.verb \in {"install", "update"} => c.version \in Version /\ Ships[c.version] \subseteq Target
BY CommandsAssumption, ShipsAssumption DEF Target

LEMMA NewThing ==
    ASSUME NEW h \in Home, NEW p \in Profile, CanAllocate(h, p), NEW v \in Version
    PROVE  [bytes |-> v, by |-> <<p, NextGeneration(h, p)>>] \in Thing
BY DEF CanAllocate, Thing, Bytes, Maker

LEMMA NoMarkerFits == NoMarker \in Meta /\ Honest(NoMarker) /\ NoMarker.schema = "none" /\ Entries(NoMarker) = {}
<1>1. Nothing \in Thing /\ NoAsset \in Asset /\ NotDeferred \in Deferred
  BY DEF Nothing, NoAsset, NotDeferred, Asset, Thing, Bytes, Maker, Deferred
<1>2. NoMarker \in Meta
  BY <1>1, MaxGenerationAssumption DEF NoMarker, Meta
<1>3. Honest(NoMarker)
  BY DEF Honest, OfPack, Claims, NoMarker, NoAsset, NotDeferred, Nothing
<1>4. Entries(NoMarker) = {}
  BY DEF Entries, Claims, NoMarker, NoAsset
<1>5. QED
  BY <1>2, <1>3, <1>4 DEF NoMarker

\* The key of agent-presets is the only other thing a version sets.
LEMMA SettingTypes == ASSUME NEW v \in Version PROVE Setting(v) \in Version \cup {"none"}
BY DEF Setting

LEMMA KeyStageTypes ==
    ASSUME NEW h \in Home, NEW v \in Version \cup {"edited", "none"}
    PROVE  /\ KeyStage(h, v) \subseteq WriteStep
           /\ \A w \in KeyStage(h, v) : w.kind = "setting" /\ w.over = h.setting /\ w.value = v
BY DEF KeyStage, SetKey, WriteStep, SettingValue, Home

LEMMA StoreTypes ==
    ASSUME NEW meta, Honest(meta), NEW h, NEW c
    PROVE  /\ {Store(b) : b \in Entries(meta)} \subseteq WriteStep
           /\ \A w \in {Store(b) : b \in Entries(meta)} : w.kind = "block" /\ Fits(h, c, w)
BY EntriesAreBlocks DEF Store, WriteStep, Fits

LEMMA RecordTypes ==
    ASSUME NEW p \in Profile, NEW n \in Generation, NEW op \in {"install", "update", "restore", "uninstall"},
           NEW meta \in Meta
    PROVE  {WriteDoc(p, n, op, meta), Point(p, n), Mark(p, meta)} \subseteq WriteStep
<1>1. [profile |-> p, seq |-> n, op |-> op, meta |-> meta] \in Doc
  BY DEF Doc
<1>2. WriteDoc(p, n, op, meta) \in WriteStep
  BY <1>1 DEF WriteDoc, WriteStep
<1>3. Point(p, n) \in WriteStep
  BY DEF Point, WriteStep, Generation
<1>4. Mark(p, meta) \in WriteStep
  BY DEF Mark, WriteStep
<1>5. QED
  BY <1>2, <1>3, <1>4

LEMMA Joined ==
    ASSUME NEW S, NEW a \in S, NEW b \in S, NEW c \in S, NEW d \in S, NEW e \in S, NEW f \in S
    PROVE  LET s == <<a, b>> \o <<c, d, e, f>> IN
           /\ s \in Seq(S) /\ Len(s) = 3 + 3
           /\ s[1] = a /\ s[2] = b /\ s[3] = c /\ s[3 + 1] = d /\ s[3 + 2] = e /\ s[3 + 3] = f
OBVIOUS

\* Two stages and a record of them, with the blocks stored first.
LEMMA StoredRecording ==
    ASSUME NEW h \in Home, NEW c, NEW p \in Profile, NEW op \in {"install", "update", "restore", "uninstall"},
           NEW meta \in Meta, meta.gen \in Generation, meta.schema # "v0", Honest(meta),
           NEW a \in SUBSET WriteStep, NEW b \in SUBSET WriteStep,
           \A w \in a \cup b : w.kind \in {"place", "setting"} /\ Fits(h, c, w)
    PROVE  Good(h, c, <<a, b>> \o Recorded(p, op, meta))
<1> DEFINE stored == {Store(x) : x \in Entries(meta)}
           s == <<a, b>> \o Recorded(p, op, meta)
<1>1. Recorded(p, op, meta) = << stored, {WriteDoc(p, meta.gen, op, meta)}, {Point(p, meta.gen)}, {Mark(p, meta)} >>
  BY DEF Recorded
<1>2. stored \subseteq WriteStep /\ \A w \in stored : w.kind = "block" /\ Fits(h, c, w)
  BY StoreTypes
<1>3. \A x \in Entries(meta) : Store(x) \in stored
  OBVIOUS
<1>4. WriteDoc(p, meta.gen, op, meta) \in WriteStep /\ Point(p, meta.gen) \in WriteStep /\ Mark(p, meta) \in WriteStep
  BY RecordTypes
<1> HIDE DEF stored
<1>5. /\ s \in Seq(SUBSET WriteStep) /\ Len(s) = 3 + 3
      /\ s[1] = a /\ s[2] = b /\ s[3] = stored
      /\ s[3 + 1] = {WriteDoc(p, meta.gen, op, meta)} /\ s[3 + 2] = {Point(p, meta.gen)} /\ s[3 + 3] = {Mark(p, meta)}
  <2>1. /\ stored \in SUBSET WriteStep /\ {WriteDoc(p, meta.gen, op, meta)} \in SUBSET WriteStep
        /\ {Point(p, meta.gen)} \in SUBSET WriteStep /\ {Mark(p, meta)} \in SUBSET WriteStep
    BY <1>2, <1>4
  <2>2. QED
    BY <1>1, <2>1, Joined
<1> HIDE DEF s
<1>6. \A i \in 1 .. 3 : \A w \in s[i] : w.kind \in {"place", "setting", "block"} /\ Fits(h, c, w)
  BY <1>2, <1>5
<1>7. \A x \in Entries(meta) : \E i \in 1 .. 3 : Store(x) \in s[i]
  BY <1>3, <1>5
<1>8. Good(h, c, s)
  BY <1>5, <1>6, <1>7, Recording
<1>9. QED
  BY <1>8 DEF s

\* A marker with fields replaced.
MetaWith(m, n, v, u, s, as) ==
    [m EXCEPT !.schema = "v1", !.gen = n, !.pack = v, !.plugins = u, !.setting = s, !.assets = as]

LEMMA MetaWithFields ==
    ASSUME NEW m \in Meta, NEW n, NEW v, NEW u, NEW s, NEW as
    PROVE  /\ MetaWith(m, n, v, u, s, as).schema = "v1"
           /\ MetaWith(m, n, v, u, s, as).gen = n
           /\ MetaWith(m, n, v, u, s, as).pack = v
           /\ MetaWith(m, n, v, u, s, as).assets = as
           /\ MetaWith(m, n, v, u, s, as).deferred = m.deferred
BY DEF Meta, MetaWith

LEMMA MetaWithIs ==
    ASSUME NEW m \in Meta, NEW n \in 0 .. MaxGeneration, NEW v \in Version \cup {"none"}, NEW u \in Version \cup {"none"},
           NEW s \in Version \cup {"none"}, NEW as \in [Target -> Asset]
    PROVE  MetaWith(m, n, v, u, s, as) \in Meta
<1> DEFINE a == [m EXCEPT !.schema = "v1"]
           b == [a EXCEPT !.gen = n]
           c == [b EXCEPT !.pack = v]
           d == [c EXCEPT !.plugins = u]
           e == [d EXCEPT !.setting = s]
           f == [e EXCEPT !.assets = as]
<1>1. a \in Meta
  BY DEF Meta
<1> HIDE DEF a
<1>2. b \in Meta
  BY <1>1 DEF Meta
<1> HIDE DEF b
<1>3. c \in Meta
  BY <1>2 DEF Meta
<1> HIDE DEF c
<1>4. d \in Meta
  BY <1>3 DEF Meta
<1> HIDE DEF d
<1>5. e \in Meta
  BY <1>4 DEF Meta
<1> HIDE DEF e
<1>6. f \in Meta
  BY <1>5 DEF Meta
<1>7. f = MetaWith(m, n, v, u, s, as)
  BY DEF a, b, c, d, e, MetaWith
<1>8. QED
  BY <1>6, <1>7

LEMMA InstallGood ==
    ASSUME NEW h \in Home, Legible(h), NEW c \in Commands, c.verb = "install", ~InstallRefuses(h, c)
    PROVE  Good(h, c, InstallWrites(h, c))
<1> DEFINE p == c.profile
           v == c.version
           n == NextGeneration(h, p)
           written == {t \in Target : InstallAction(h, c, t) \in {"create", "replace"}}
           a == {Place(t, h.disk[t], InstalledThing(h, c, t)) : t \in written}
           b == IF v \in Contributes THEN KeyStage(h, v) ELSE {}
           meta == InstalledMeta(h, c)
<1>1. p \in Profile /\ v \in Version /\ n \in Generation /\ CanAllocate(h, p)
  BY CommandTypes DEF InstallRefuses, CanAllocate
<1>2. ASSUME NEW t \in Target
      PROVE  /\ InstalledThing(h, c, t) \in Thing
             /\ InstallAction(h, c, t) \in {"none", "create", "replace", "skip"}
             /\ InstallAction(h, c, t) # "skip" => InstalledThing(h, c, t).bytes = v
             /\ InstallAction(h, c, t) = "create" => h.disk[t] = Nothing
             /\ InstallAction(h, c, t) = "replace" => t = p \/ "force" \in c.flags
  <2>1. [bytes |-> v, by |-> <<p, n>>] \in Thing
    BY <1>1, NewThing
  <2>2. h.disk[t] \in Thing
    BY DEF Home
  <2>3. QED
    BY <2>1, <2>2 DEF InstalledThing, InstallAction
<1>3. \A t \in Target : InstalledAsset(h, c, t) \in Asset /\ OfPack(InstalledAsset(h, c, t))
  <2>1. NoAsset \in Asset /\ OfPack(NoAsset)
    BY DEF NoAsset, Nothing, Asset, Thing, Bytes, Maker, OfPack, Claims
  <2>2. SUFFICES ASSUME NEW t \in Target, InstallAction(h, c, t) # "none"
                 PROVE  InstalledAsset(h, c, t) \in Asset /\ OfPack(InstalledAsset(h, c, t))
    BY <2>1 DEF InstalledAsset
  <2>3. InstalledAsset(h, c, t) = [act |-> InstallAction(h, c, t), thing |-> InstalledThing(h, c, t)]
    BY <2>2 DEF InstalledAsset
  <2>4. QED
    BY <1>1, <1>2, <2>2, <2>3 DEF Asset, OfPack, Claims
<1>4. NoMarker \in Meta /\ \A t \in Target : OfPack(NoMarker.deferred[t].base)
  BY NoMarkerFits DEF Honest
<1>5. meta = MetaWith(NoMarker, n, v, v, Setting(v), [t \in Target |-> InstalledAsset(h, c, t)])
  BY DEF InstalledMeta, MetaWith
<1>6. /\ meta \in Meta /\ meta.gen \in Generation /\ meta.schema = "v1" /\ meta.pack = v
      /\ meta.assets = [t \in Target |-> InstalledAsset(h, c, t)] /\ meta.deferred = NoMarker.deferred
  <2>1. [t \in Target |-> InstalledAsset(h, c, t)] \in [Target -> Asset] /\ Setting(v) \in Version \cup {"none"}
    BY <1>1, <1>3, SettingTypes
  <2>2. n \in 0 .. MaxGeneration
    BY <1>1, MaxGenerationAssumption DEF Generation
  <2> HIDE DEF meta, n, v, p
  <2>3. QED
    BY <1>1, <1>4, <1>5, <2>1, <2>2, MetaWithIs, MetaWithFields
<1>7. Honest(meta)
  BY <1>1, <1>3, <1>4, <1>6 DEF Honest
<1>8. \A w \in a : w \in WriteStep /\ w.kind = "place" /\ Fits(h, c, w)
  <2>1. SUFFICES ASSUME NEW t \in written
                 PROVE  LET w == Place(t, h.disk[t], InstalledThing(h, c, t)) IN
                        w \in WriteStep /\ w.kind = "place" /\ Fits(h, c, w)
    OBVIOUS
  <2>2. h.disk[t] \in Thing /\ InstalledThing(h, c, t) \in Thing /\ InstalledThing(h, c, t).bytes = v
    BY <1>2, <2>1 DEF Home
  <2>3. h.disk[t].bytes \in EditedBytes => MayTakeDirectory(c, t)
    BY <1>2, <2>1, BytesAssumption DEF MayTakeDirectory, Nothing
  <2>4. QED
    BY <1>1, <2>2, <2>3 DEF Place, WriteStep, Fits
<1>9. \A w \in b : w \in WriteStep /\ w.kind = "setting" /\ Fits(h, c, w)
  BY <1>1, KeyStageTypes DEF Fits, MayTakeSetting
<1>10. InstallWrites(h, c) = <<a, b>> \o Recorded(p, "install", meta)
  BY DEF InstallWrites
<1> HIDE DEF a, b, meta, p
<1>11. /\ a \in SUBSET WriteStep /\ b \in SUBSET WriteStep
       /\ \A w \in a \cup b : w.kind \in {"place", "setting"} /\ Fits(h, c, w)
  BY <1>8, <1>9
<1>12. Good(h, c, <<a, b>> \o Recorded(p, "install", meta))
  BY <1>1, <1>6, <1>7, <1>11, StoredRecording
<1>13. QED
  BY <1>10, <1>12

-----------------------------------------------------------------------------
(* update *)

\* The base is of the pack, or it was skipped.
LEMMA BaseIsOfPack ==
    ASSUME NEW m \in Meta, Honest(m), NEW t \in Target
    PROVE  /\ BaseOf(m, t) \in Asset /\ OfPack(BaseOf(m, t))
           /\ m.deferred[t] \in Deferred
           /\ BaseSignature(m, t) \in Version \cup {"none"}
<1>1. m.assets[t] \in Asset /\ m.deferred[t] \in Deferred /\ m.pack \in Version \cup {"none"}
  BY DEF Meta
<1>2. m.deferred[t].base \in Asset /\ m.deferred[t].sig \in Version \cup {"none"}
  BY <1>1 DEF Deferred
<1>3. QED
  BY <1>1, <1>2 DEF BaseOf, BaseSignature, Honest

\* What the merge takes without being told to is what the pack brought.
LEMMA MergeTakes ==
    ASSUME NEW base, NEW current, NEW target, Writes(ThreeWay(base, current, target))
    PROVE  base = current
BY DEF Writes, ThreeWay

LEMMA FlagsDecide ==
    ASSUME NEW raw, NEW target, NEW current, NEW c, Writes(TargetAction(raw, target, current, c)),
           "theirs" \notin c.flags
    PROVE  Writes(raw)
BY DEF Writes, TargetAction

\* What the new marker claims has the bytes of a version.
LEMMA ClaimIsOfPack ==
    ASSUME NEW h \in Home, Legible(h), NEW c \in Commands, c.verb = "update", ~UpdateRefuses(h, c), NEW t \in Target
    PROVE  LET asset == UpdatedAsset(h, h.marker[c.profile], c, t) IN asset \in Asset /\ OfPack(asset)
<1> DEFINE p == c.profile
           m == h.marker[p]
           n == NextGeneration(h, p)
           base == BaseOf(m, t)
           seen == ObservedFor(h, m, c, t)
           action == UpdateAction(h, m, c, t)
           claim == ClaimOf(h, m, c, t)
           asset == UpdatedAsset(h, m, c, t)
<1> SUFFICES asset \in Asset /\ OfPack(asset)
  OBVIOUS
<1>1. p \in Profile /\ c.version \in Version /\ CanAllocate(h, p)
  BY CommandTypes DEF UpdateRefuses
<1>2. m \in Meta /\ Honest(m)
  BY <1>1 DEF Home, Legible
<1>3. base \in Asset /\ OfPack(base)
  BY <1>2, BaseIsOfPack
<1>4. seen \in Thing /\ (seen.bytes = "none" => seen = Nothing)
  <2>1. h.disk[t] \in Thing /\ (h.disk[t].bytes = "none" => h.disk[t] = Nothing)
    BY DEF Home, Legible
  <2>2. Nothing \in Thing
    BY DEF Nothing, Thing, Bytes, Maker
  <2>3. QED
    BY <2>1, <2>2 DEF ObservedFor
<1>5. NoAsset \in Asset /\ OfPack(NoAsset)
  BY DEF NoAsset, Nothing, Asset, Thing, Bytes, Maker, OfPack, Claims
<1>6. claim \in {"none", "create", "replace", "skip"}
  <2>1. base.act \in {"none", "create", "replace", "skip"}
    BY <1>3 DEF Asset
  <2>2. CASE seen = Nothing
    BY <2>2 DEF ClaimOf
  <2>3. CASE seen # Nothing /\ ~Selects(c, t)
    BY <2>1, <2>3 DEF ClaimOf
  <2>4. CASE seen # Nothing /\ Selects(c, t)
    BY <2>1, <2>4 DEF ClaimOf
  <2>5. QED
    BY <2>2, <2>3, <2>4
<1>7. Written(c, n) \in Thing /\ Written(c, n).bytes \in Version
  BY <1>1, NewThing DEF Written
<1>8. CASE t \notin MergeKeys(m, c)
  BY <1>5, <1>8 DEF UpdatedAsset
<1>9. CASE t \in MergeKeys(m, c) /\ action \in {"update", "create"}
  <2>1. asset = IF claim = "none" THEN NoAsset ELSE [act |-> claim, thing |-> Written(c, n)]
    BY <1>9 DEF UpdatedAsset
  <2> HIDE DEF asset, claim
  <2>2. QED
    BY <1>5, <1>6, <1>7, <2>1 DEF Asset, OfPack, Claims
<1>10. CASE t \in MergeKeys(m, c) /\ action \notin {"update", "create"}
  <2>1. asset = IF claim = "none" THEN NoAsset ELSE [act |-> claim, thing |-> seen]
    BY <1>10 DEF UpdatedAsset
  <2>2. action # "conflict"
    BY <1>10 DEF UpdateRefuses
  <2>3. ASSUME claim \in {"create", "replace"} PROVE seen.bytes \in Version
    <3>1. seen # Nothing
      BY <2>3 DEF ClaimOf
    <3>2. CASE ~Selects(c, t)
      <4>1. Claims(base) /\ base.thing = seen
        BY <2>3, <3>1, <3>2 DEF ClaimOf
      <4>2. QED
        BY <1>3, <4>1 DEF OfPack
    <3>3. CASE Selects(c, t)
      <4>1. Claims(base) /\ action \notin {"remove", "retain"}
        <5>1. claim = CASE action = "remove" -> "none"
                        [] action = "update" -> "replace"
                        [] action = "create" -> "create"
                        [] action = "retain" -> "skip"
                        [] OTHER -> IF base.act = "none" THEN "skip" ELSE base.act
          BY <3>1, <3>3 DEF ClaimOf
        <5> HIDE DEF claim, action
        <5>2. QED
          BY <1>10, <2>3, <5>1 DEF Claims
      <4>2. base.thing.bytes \in Version
        BY <1>3, <4>1 DEF OfPack
      <4>3. action = TargetAction(MergeAction(h, m, c, t), TargetState(m, c, t), seen.bytes, c)
        BY <3>3 DEF UpdateAction
      <4>4. MergeAction(h, m, c, t) = ThreeWay(base.thing.bytes, seen.bytes, TargetState(m, c, t))
        BY <4>1 DEF MergeAction, Claims
      <4>5. action = ThreeWay(base.thing.bytes, seen.bytes, TargetState(m, c, t))
        <5> HIDE DEF action
        <5>1. QED
          BY <1>10, <2>2, <4>1, <4>3, <4>4 DEF TargetAction
      <4>6. seen.bytes = TargetState(m, c, t)
        <5> HIDE DEF action
        <5>1. QED
          BY <1>10, <2>2, <4>1, <4>5 DEF ThreeWay
      <4>7. seen.bytes # "none" /\ seen.bytes # "fresh"
        BY <1>4, <3>1, BytesAssumption DEF Thing, Bytes
      <4>8. QED
        BY <1>1, <4>2, <4>6, <4>7 DEF TargetState
    <3>4. QED
      BY <3>2, <3>3
  <2> HIDE DEF asset, claim, seen
  <2>4. QED
    BY <1>4, <1>5, <1>6, <2>1, <2>3 DEF Asset, OfPack, Claims
<1>11. QED
  BY <1>8, <1>9, <1>10

LEMMA DeferralIsOfPack ==
    ASSUME NEW h, NEW m \in Meta, Honest(m), NEW c, NEW t \in Target
    PROVE  Deferral(h, m, c, t) \in Deferred /\ OfPack(Deferral(h, m, c, t).base)
<1>1. NotDeferred \in Deferred /\ OfPack(NotDeferred.base)
  BY DEF NoAsset, Nothing, NotDeferred, Deferred, Asset, Thing, Bytes, Maker, OfPack, Claims
<1>2. BaseOf(m, t) \in Asset /\ OfPack(BaseOf(m, t)) /\ BaseSignature(m, t) \in Version \cup {"none"}
  BY BaseIsOfPack
<1>3. Reason(h, m, c, t) \in {"only", "missing", "modified"}
  BY DEF Reason
<1>4. QED
  BY <1>1, <1>2, <1>3 DEF Deferral, Deferred

LEMMA UpdateGood ==
    ASSUME NEW h \in Home, Legible(h), NEW c \in Commands, c.verb = "update", ~UpdateRefuses(h, c)
    PROVE  Good(h, c, UpdateWrites(h, c))
<1> DEFINE p == c.profile
           m == h.marker[p]
           n == NextGeneration(h, p)
           Result(t) == IF UpdateAction(h, m, c, t) = "remove" THEN Nothing ELSE Written(c, n)
           written == {u \in MergeKeys(m, c) : Writes(UpdateAction(h, m, c, u))}
           a == {Place(t, ObservedFor(h, m, c, t), Result(t)) : t \in written}
           b == IF Writes(SettingAction(h, m, c)) THEN KeyStage(h, Setting(c.version)) ELSE {}
           meta == UpdatedMeta(h, m, c)
<1>1. p \in Profile /\ p \in Target /\ c.version \in Version /\ n \in Generation /\ CanAllocate(h, p) /\ Ships[c.version] \subseteq Target
  BY CommandTypes DEF UpdateRefuses, CanAllocate
<1>2. m \in Meta /\ Honest(m)
  BY <1>1 DEF Home, Legible
<1>3. \A w \in a : w \in WriteStep /\ w.kind = "place" /\ Fits(h, c, w)
  <2>1. SUFFICES ASSUME NEW t \in written
                 PROVE  LET w == Place(t, ObservedFor(h, m, c, t), Result(t)) IN
                        w \in WriteStep /\ w.kind = "place" /\ Fits(h, c, w)
    OBVIOUS
  <2> DEFINE seen == ObservedFor(h, m, c, t)
  <2>2. t \in Target
    BY <1>1, <2>1 DEF MergeKeys
  <2>3. Nothing \in Thing
    BY DEF Nothing, Thing, Bytes, Maker
  <2>4. seen \in Thing
    BY <2>2, <2>3 DEF ObservedFor, Home
  <2>5. Result(t) \in Thing /\ (Result(t) = Nothing \/ Result(t).bytes \in Version)
    BY <1>1, <2>3, NewThing DEF Written
  <2>6. ASSUME seen.bytes \in EditedBytes PROVE "theirs" \in c.flags
    <3>1. SUFFICES ASSUME "theirs" \notin c.flags PROVE FALSE
      OBVIOUS
    <3>2. Writes(UpdateAction(h, m, c, t))
      BY <2>1
    <3>3. Writes(MergeAction(h, m, c, t))
      BY <3>1, <3>2, FlagsDecide DEF UpdateAction, Writes
    <3>4. BaseOf(m, t).act # "skip" /\ Writes(ThreeWay(BaseOf(m, t).thing.bytes, seen.bytes, TargetState(m, c, t)))
      BY <3>3 DEF MergeAction, Writes
    <3>5. BaseOf(m, t).thing.bytes = seen.bytes
      BY <3>4, MergeTakes
    <3>6. BaseOf(m, t) \in Asset /\ OfPack(BaseOf(m, t))
      BY <1>2, <2>2, BaseIsOfPack
    <3>7. BaseOf(m, t).act \in {"none", "create", "replace"}
      BY <3>4, <3>6 DEF Asset
    <3>8. BaseOf(m, t).thing.bytes \in Version \cup {"none"}
      BY <3>6, <3>7 DEF OfPack, Claims
    <3>9. QED
      BY <2>6, <3>5, <3>8, BytesAssumption
  <2> HIDE DEF seen, Result
  <2>7. LET w == Place(t, seen, Result(t)) IN w \in WriteStep /\ w.kind = "place" /\ Fits(h, c, w)
    BY <2>2, <2>4, <2>5, <2>6 DEF Place, WriteStep, Fits, MayTakeDirectory
  <2>8. QED
    BY <2>7 DEF seen
<1>4. \A w \in b : w \in WriteStep /\ w.kind = "setting" /\ Fits(h, c, w)
  <2>1. SUFFICES ASSUME Writes(SettingAction(h, m, c)), NEW w \in KeyStage(h, Setting(c.version))
                 PROVE  w \in WriteStep /\ w.kind = "setting" /\ Fits(h, c, w)
    OBVIOUS
  <2>2. w \in WriteStep /\ w.kind = "setting" /\ w.over = h.setting
    BY <1>1, <2>1, KeyStageTypes, SettingTypes
  <2>3. ASSUME h.setting = "edited" PROVE "theirs" \in c.flags
    <3>1. SUFFICES ASSUME "theirs" \notin c.flags PROVE FALSE
      OBVIOUS
    <3>2. Writes(ThreeWay(m.setting, h.setting, Setting(c.version)))
      BY <2>1, <3>1, FlagsDecide DEF SettingAction, Writes
    <3>3. m.setting = h.setting
      BY <3>2, MergeTakes
    <3>4. m.setting \in Version \cup {"none"}
      BY <1>2 DEF Meta
    <3>5. QED
      BY <2>3, <3>3, <3>4, BytesAssumption
  <2>4. QED
    BY <2>2, <2>3 DEF Fits, MayTakeSetting
<1>5. /\ meta.schema = "v1" /\ meta.gen = n /\ meta.pack = c.version
      /\ meta.assets = [t \in Target |-> UpdatedAsset(h, m, c, t)]
      /\ meta.deferred = [t \in Target |-> Deferral(h, m, c, t)]
  BY DEF UpdatedMeta
<1>6. \A t \in Target : UpdatedAsset(h, m, c, t) \in Asset /\ OfPack(UpdatedAsset(h, m, c, t))
  BY ClaimIsOfPack
<1>7. \A t \in Target : Deferral(h, m, c, t) \in Deferred /\ OfPack(Deferral(h, m, c, t).base)
  BY <1>2, DeferralIsOfPack
<1>8. meta \in Meta
  <2>1. [t \in Target |-> UpdatedAsset(h, m, c, t)] \in [Target -> Asset]
    BY <1>6
  <2>2. [t \in Target |-> Deferral(h, m, c, t)] \in [Target -> Deferred]
    BY <1>7
  <2>3. m.plugins \in Version \cup {"none"} /\ m.setting \in Version \cup {"none"}
    BY <1>2 DEF Meta
  <2>4. n \in 0 .. MaxGeneration
    BY <1>1, MaxGenerationAssumption DEF Generation
  <2>5. QED
    BY <1>1, <2>1, <2>2, <2>3, <2>4, SettingTypes DEF UpdatedMeta, Meta
<1>9. Honest(meta)
  BY <1>1, <1>5, <1>6, <1>7 DEF Honest
<1>10. UpdateWrites(h, c) = <<a, b>> \o Recorded(p, "update", meta)
  BY DEF UpdateWrites
<1> HIDE DEF a, b, meta, p, n
<1>11. /\ a \in SUBSET WriteStep /\ b \in SUBSET WriteStep
       /\ \A w \in a \cup b : w.kind \in {"place", "setting"} /\ Fits(h, c, w)
  BY <1>3, <1>4
<1>12. Good(h, c, <<a, b>> \o Recorded(p, "update", meta))
  BY <1>1, <1>5, <1>8, <1>9, <1>11, StoredRecording
<1>13. QED
  BY <1>10, <1>12

-----------------------------------------------------------------------------
(* restore *)

\* A marker with fewer fields replaced.
MetaAgain(m, n, s, as) == [m EXCEPT !.gen = n, !.setting = s, !.assets = as]

LEMMA MetaAgainIs ==
    ASSUME NEW m \in Meta, NEW n \in 0 .. MaxGeneration, NEW s \in Version \cup {"none"}, NEW as \in [Target -> Asset]
    PROVE  /\ MetaAgain(m, n, s, as) \in Meta
           /\ MetaAgain(m, n, s, as).schema = m.schema
           /\ MetaAgain(m, n, s, as).pack = m.pack
           /\ MetaAgain(m, n, s, as).assets = as
           /\ MetaAgain(m, n, s, as).deferred = m.deferred
<1> DEFINE b == [m EXCEPT !.gen = n]
           e == [b EXCEPT !.setting = s]
           f == [e EXCEPT !.assets = as]
<1>1. b \in Meta
  BY DEF Meta
<1> HIDE DEF b
<1>2. e \in Meta
  BY <1>1 DEF Meta
<1> HIDE DEF e
<1>3. f \in Meta
  BY <1>2 DEF Meta
<1>4. f = MetaAgain(m, n, s, as)
  BY DEF b, e, MetaAgain
<1>5. /\ MetaAgain(m, n, s, as).schema = m.schema
      /\ MetaAgain(m, n, s, as).pack = m.pack
      /\ MetaAgain(m, n, s, as).assets = as
      /\ MetaAgain(m, n, s, as).deferred = m.deferred
  BY DEF Meta, MetaAgain
<1>6. QED
  BY <1>3, <1>4, <1>5

\* The document that restore goes back to.
LEMMA WantedIs ==
    ASSUME NEW h \in Home, Legible(h), NEW c \in Commands, c.verb = "restore", ~RestoreRefuses(h, c)
    PROVE  /\ Wanted(h, c) \in Meta /\ Honest(Wanted(h, c)) /\ Wanted(h, c).schema # "v0"
           /\ Entries(Wanted(h, c)) \subseteq h.blocks
<1>1. DocAt(h, c.profile, RestoreTarget(h, c)) \in h.docs
  BY DocAtIs DEF RestoreRefuses
<1>2. Wanted(h, c) \in Meta /\ Honest(Wanted(h, c)) /\ Wanted(h, c).schema # "v0"
  BY <1>1 DEF Wanted, Home, Doc, Legible
<1>3. QED
  BY <1>2 DEF RestoreRefuses, TargetIsStored, InStore

\* Restore touches what the current generation put there, or what --force gives it.
LEMMA FateTakes ==
    ASSUME NEW h \in Home, Legible(h), NEW c \in Commands, c.verb = "restore", ~RestoreRefuses(h, c),
           NEW t \in Target, Fate(h, c, t) \in {"materialize", "remove"}
    PROVE  /\ Fate(h, c, t) = "materialize" => Claims(Wanted(h, c).assets[t])
           /\ h.disk[t] # Nothing => ~LegacyPeer(h, c.profile) /\ ~PeerClaims(h, c.profile, t)
           /\ h.disk[t].bytes \in EditedBytes =>
                "force" \in c.flags \/ (t = c.profile /\ h.marker[t].assets[t].act = "skip")
<1> DEFINE now == h.marker[c.profile].assets[t]
<1>1. now \in Asset /\ OfPack(now)
  BY CommandTypes DEF Home, Legible, Meta, Honest
<1>2. Fate(h, c, t) = "materialize" => Claims(Wanted(h, c).assets[t])
  BY DEF Fate
<1>3. h.disk[t] # Nothing => ~LegacyPeer(h, c.profile) /\ ~PeerClaims(h, c.profile, t)
  BY DEF Fate
<1>4. ASSUME h.disk[t].bytes \in EditedBytes, "force" \notin c.flags
      PROVE  t = c.profile /\ now.act = "skip"
  <2>1. h.disk[t] # Nothing
    BY <1>4, BytesAssumption DEF Nothing
  <2>2. Attributable(h, c, t) /\ now.act # "none" /\ ~Changed(now, h.disk[t])
    BY <1>4, <2>1 DEF Fate
  <2>3. now.thing.bytes \notin Version
    BY <1>4, <2>2, BytesAssumption DEF Changed
  <2>4. now.act = "skip"
    BY <1>1, <2>2, <2>3 DEF OfPack, Claims, Asset
  <2>5. QED
    BY <2>2, <2>4 DEF Attributable
<1>5. QED
  BY <1>2, <1>3, <1>4

LEMMA RestoredAssetIs ==
    ASSUME NEW h \in Home, Legible(h), NEW c \in Commands, c.verb = "restore", ~RestoreRefuses(h, c), NEW t \in Target
    PROVE  LET asset == RestoredAsset(h, c, t) IN
           /\ asset \in Asset /\ OfPack(asset)
           /\ Claims(asset) => /\ Claims(Wanted(h, c).assets[t])
                               /\ asset.thing.bytes = Wanted(h, c).assets[t].thing.bytes
<1> DEFINE wanted == Wanted(h, c).assets[t]
           asset == RestoredAsset(h, c, t)
<1>1. wanted \in Asset /\ OfPack(wanted)
  BY WantedIs DEF Meta, Honest
<1> SUFFICES /\ asset \in Asset /\ OfPack(asset)
             /\ Claims(asset) => Claims(wanted) /\ asset.thing.bytes = wanted.thing.bytes
  OBVIOUS
<1>2. CASE wanted.act = "none"
  <2>1. asset = NoAsset
    BY <1>2 DEF RestoredAsset
  <2>2. QED
    BY <2>1 DEF NoAsset, Nothing, Asset, Thing, Bytes, Maker, OfPack, Claims
<1>3. CASE wanted.act # "none" /\ Fate(h, c, t) = "materialize" /\ Claims(wanted)
  <2>1. asset = [wanted EXCEPT !.thing = Fresh(h, c, t)]
    BY <1>3 DEF RestoredAsset
  <2>2. wanted.thing.bytes \in Version
    BY <1>1, <1>3 DEF OfPack
  <2>3. Fresh(h, c, t) \in Thing /\ Fresh(h, c, t).bytes = wanted.thing.bytes
    BY <2>2, CommandTypes, NewThing DEF Fresh, RestoreRefuses
  <2>4. asset \in Asset /\ asset.act = wanted.act /\ asset.thing = Fresh(h, c, t)
    BY <1>1, <2>1, <2>3 DEF Asset
  <2>5. QED
    BY <1>3, <2>2, <2>3, <2>4 DEF OfPack, Claims
<1>4. CASE wanted.act # "none" /\ ~(Fate(h, c, t) = "materialize" /\ Claims(wanted))
  <2>1. asset = [wanted EXCEPT !.act = "skip"]
    BY <1>4 DEF RestoredAsset
  <2>2. asset \in Asset /\ asset.act = "skip"
    BY <1>1, <2>1 DEF Asset
  <2>3. QED
    BY <2>2 DEF OfPack, Claims
<1>5. QED
  BY <1>2, <1>3, <1>4

LEMMA RestoredMetaIs ==
    ASSUME NEW h \in Home, Legible(h), NEW c \in Commands, c.verb = "restore", ~RestoreRefuses(h, c)
    PROVE  LET meta == IF Wanted(h, c) = NoMarker THEN NoMarker ELSE RestoredMeta(h, c) IN
           meta \in Meta /\ meta.schema # "v0" /\ Honest(meta) /\ Entries(meta) \subseteq h.blocks
<1> DEFINE wanted == Wanted(h, c)
           n == NextGeneration(h, c.profile)
           key == IF KeyRetained(h, c) THEN "none" ELSE wanted.setting
           as == [t \in Target |-> RestoredAsset(h, c, t)]
           meta == RestoredMeta(h, c)
<1>1. wanted \in Meta /\ Honest(wanted) /\ wanted.schema # "v0" /\ Entries(wanted) \subseteq h.blocks
  BY WantedIs
<1>2. \A t \in Target :
         LET asset == RestoredAsset(h, c, t) IN
         /\ asset \in Asset /\ OfPack(asset)
         /\ Claims(asset) => Claims(wanted.assets[t]) /\ asset.thing.bytes = wanted.assets[t].thing.bytes
  BY RestoredAssetIs
<1>3. as \in [Target -> Asset] /\ key \in Version \cup {"none"}
  BY <1>1, <1>2 DEF Meta
<1>4. n \in 0 .. MaxGeneration
  BY MaxGenerationAssumption DEF RestoreRefuses, CanAllocate, Generation
<1>5. meta = MetaAgain(wanted, n, key, as)
  BY DEF RestoredMeta, MetaAgain
<1>6. /\ meta \in Meta /\ meta.schema = wanted.schema /\ meta.pack = wanted.pack
      /\ meta.assets = as /\ meta.deferred = wanted.deferred
  <2> HIDE DEF meta, wanted, n, key, as
  <2>1. QED
    BY <1>1, <1>3, <1>4, <1>5, MetaAgainIs
<1>7. Honest(meta)
  BY <1>1, <1>2, <1>6 DEF Honest
<1>8. Entries(meta) \subseteq Entries(wanted)
  <2> HIDE DEF meta, wanted
  <2>1. QED
    BY <1>2, <1>6 DEF Entries
<1>9. QED
  BY <1>1, <1>6, <1>7, <1>8, NoMarkerFits

LEMMA FiveStages ==
    ASSUME NEW S, NEW a \in S, NEW b \in S, NEW d \in S, NEW e \in S, NEW f \in S
    PROVE  /\ LET s == <<a, b, d, e, f>> IN
              /\ s \in Seq(S) /\ Len(s) = 2 + 3
              /\ s[1] = a /\ s[2] = b /\ s[2 + 1] = d /\ s[2 + 2] = e /\ s[2 + 3] = f
           /\ LET s == (<<a, b>> \o <<d, e>>) \o <<f>> IN
              /\ s \in Seq(S) /\ Len(s) = 2 + 3
              /\ s[1] = a /\ s[2] = b /\ s[2 + 1] = d /\ s[2 + 2] = e /\ s[2 + 3] = f
OBVIOUS

\* Two stages and a record that names no new block.
LEMMA PlainRecording ==
    ASSUME NEW h \in Home, NEW c, NEW p \in Profile, NEW n \in Generation,
           NEW op \in {"install", "update", "restore", "uninstall"},
           NEW meta \in Meta, meta.schema # "v0", Honest(meta), Entries(meta) \subseteq h.blocks,
           NEW a \in SUBSET WriteStep, NEW b \in SUBSET WriteStep,
           \A w \in a \cup b : w.kind \in {"place", "setting"} /\ Fits(h, c, w)
    PROVE  /\ Good(h, c, <<a, b, {WriteDoc(p, n, op, meta)}, {Point(p, n)}, {Mark(p, meta)}>>)
           /\ Good(h, c, (<<a, b>> \o <<{WriteDoc(p, n, op, meta)}, {Point(p, n)}>>) \o <<{Mark(p, meta)}>>)
<1>1. /\ {WriteDoc(p, n, op, meta)} \in SUBSET WriteStep
      /\ {Point(p, n)} \in SUBSET WriteStep /\ {Mark(p, meta)} \in SUBSET WriteStep
  BY RecordTypes
<1>2. ASSUME NEW s \in Seq(SUBSET WriteStep), Len(s) = 2 + 3, s[1] = a, s[2] = b,
             s[2 + 1] = {WriteDoc(p, n, op, meta)}, s[2 + 2] = {Point(p, n)}, s[2 + 3] = {Mark(p, meta)}
      PROVE  Good(h, c, s)
  <2>1. \A i \in 1 .. 2 : \A w \in s[i] : w.kind \in {"place", "setting", "block"} /\ Fits(h, c, w)
    BY <1>2
  <2>2. \A x \in Entries(meta) : x \in h.blocks \/ \E i \in 1 .. 2 : Store(x) \in s[i]
    OBVIOUS
  <2>3. QED
    BY <1>2, <2>1, <2>2, Recording
<1>3. Good(h, c, <<a, b, {WriteDoc(p, n, op, meta)}, {Point(p, n)}, {Mark(p, meta)}>>)
  <2> DEFINE s == <<a, b, {WriteDoc(p, n, op, meta)}, {Point(p, n)}, {Mark(p, meta)}>>
  <2>1. /\ s \in Seq(SUBSET WriteStep) /\ Len(s) = 2 + 3 /\ s[1] = a /\ s[2] = b
        /\ s[2 + 1] = {WriteDoc(p, n, op, meta)} /\ s[2 + 2] = {Point(p, n)} /\ s[2 + 3] = {Mark(p, meta)}
    BY <1>1, FiveStages
  <2> HIDE DEF s
  <2>2. Good(h, c, s)
    BY <1>2, <2>1
  <2>3. QED
    BY <2>2 DEF s
<1>4. Good(h, c, (<<a, b>> \o <<{WriteDoc(p, n, op, meta)}, {Point(p, n)}>>) \o <<{Mark(p, meta)}>>)
  <2> DEFINE s == (<<a, b>> \o <<{WriteDoc(p, n, op, meta)}, {Point(p, n)}>>) \o <<{Mark(p, meta)}>>
  <2>1. /\ s \in Seq(SUBSET WriteStep) /\ Len(s) = 2 + 3 /\ s[1] = a /\ s[2] = b
        /\ s[2 + 1] = {WriteDoc(p, n, op, meta)} /\ s[2 + 2] = {Point(p, n)} /\ s[2 + 3] = {Mark(p, meta)}
    BY <1>1, FiveStages
  <2> HIDE DEF s
  <2>2. Good(h, c, s)
    BY <1>2, <2>1
  <2>3. QED
    BY <2>2 DEF s
<1>5. QED
  BY <1>3, <1>4

LEMMA RestoreGood ==
    ASSUME NEW h \in Home, Legible(h), NEW c \in Commands, c.verb = "restore", ~RestoreRefuses(h, c)
    PROVE  Good(h, c, RestoreWrites(h, c))
<1> DEFINE p == c.profile
           n == NextGeneration(h, p)
           meta == IF Wanted(h, c) = NoMarker THEN NoMarker ELSE RestoredMeta(h, c)
           made == {Place(t, h.disk[t], Fresh(h, c, t)) : t \in {u \in Target : Fate(h, c, u) = "materialize"}}
           gone == {Place(t, h.disk[t], Nothing) : t \in {u \in Target : Fate(h, c, u) = "remove"}}
           b == KeyStage(h, RestoredKey(h, c))
<1>1. p \in Profile /\ n \in Generation /\ CanAllocate(h, p)
  BY CommandTypes DEF RestoreRefuses, CanAllocate
<1>2. \A w \in made : w \in WriteStep /\ w.kind = "place" /\ Fits(h, c, w)
  <2>1. SUFFICES ASSUME NEW t \in Target, Fate(h, c, t) = "materialize"
                 PROVE  LET w == Place(t, h.disk[t], Fresh(h, c, t)) IN
                        w \in WriteStep /\ w.kind = "place" /\ Fits(h, c, w)
    OBVIOUS
  <2>2. /\ Claims(Wanted(h, c).assets[t])
        /\ h.disk[t] # Nothing => ~LegacyPeer(h, p) /\ ~PeerClaims(h, p, t)
        /\ h.disk[t].bytes \in EditedBytes => "force" \in c.flags \/ (t = p /\ h.marker[t].assets[t].act = "skip")
    BY <2>1, FateTakes
  <2>3. Wanted(h, c).assets[t].thing.bytes \in Version
    BY <2>2, WantedIs DEF Honest, OfPack
  <2>4. Fresh(h, c, t) \in Thing /\ Fresh(h, c, t).bytes \in Version
    BY <1>1, <2>3, NewThing DEF Fresh
  <2>5. h.disk[t] \in Thing
    BY DEF Home
  <2>6. QED
    BY <2>2, <2>4, <2>5 DEF Place, WriteStep, Fits, MayTakeDirectory
<1>3. \A w \in gone : w \in WriteStep /\ w.kind = "place" /\ Fits(h, c, w)
  <2>1. SUFFICES ASSUME NEW t \in Target, Fate(h, c, t) = "remove"
                 PROVE  LET w == Place(t, h.disk[t], Nothing) IN
                        w \in WriteStep /\ w.kind = "place" /\ Fits(h, c, w)
    OBVIOUS
  <2>2. /\ h.disk[t] # Nothing => ~LegacyPeer(h, p) /\ ~PeerClaims(h, p, t)
        /\ h.disk[t].bytes \in EditedBytes => "force" \in c.flags \/ (t = p /\ h.marker[t].assets[t].act = "skip")
    BY <2>1, FateTakes
  <2>3. Nothing \in Thing /\ h.disk[t] \in Thing
    BY DEF Home, Nothing, Thing, Bytes, Maker
  <2>4. QED
    BY <2>2, <2>3 DEF Place, WriteStep, Fits, MayTakeDirectory
<1>4. \A w \in b : w \in WriteStep /\ w.kind = "setting" /\ Fits(h, c, w)
  <2>1. h.setting \in SettingValue /\ h.marker[p].setting \in Version \cup {"none"}
        /\ Wanted(h, c).setting \in Version \cup {"none"}
    BY <1>1, WantedIs DEF Home, Meta, SettingValue
  <2>2. RestoredKey(h, c) \in Version \cup {"edited", "none"}
    BY <2>1 DEF RestoredKey, KeyAfterInverse, SettingValue
  <2>3. ASSUME h.setting = "edited", RestoredKey(h, c) # "edited" PROVE "force" \in c.flags
    <3>1. SUFFICES ASSUME "force" \notin c.flags PROVE FALSE
      OBVIOUS
    <3>2. KeyAfterInverse(h, c) = "edited"
      BY <2>1, <2>3, <3>1, BytesAssumption DEF KeyAfterInverse, TakesBack
    <3>3. QED
      BY <2>3, <3>2 DEF RestoredKey, KeyRetained
  <2>4. QED
    BY <2>2, <2>3, KeyStageTypes DEF Fits, MayTakeSetting
<1>5. meta \in Meta /\ meta.schema # "v0" /\ Honest(meta) /\ Entries(meta) \subseteq h.blocks
  BY RestoredMetaIs
<1>6. RestoreWrites(h, c) = << made \cup gone, b, {WriteDoc(p, n, "restore", meta)}, {Point(p, n)}, {Mark(p, meta)} >>
  BY DEF RestoreWrites
<1> HIDE DEF made, gone, b, meta, p, n
<1>7. /\ made \cup gone \in SUBSET WriteStep /\ b \in SUBSET WriteStep
      /\ \A w \in (made \cup gone) \cup b : w.kind \in {"place", "setting"} /\ Fits(h, c, w)
  BY <1>2, <1>3, <1>4
<1>8. Good(h, c, << made \cup gone, b, {WriteDoc(p, n, "restore", meta)}, {Point(p, n)}, {Mark(p, meta)} >>)
  BY <1>1, <1>5, <1>7, PlainRecording
<1>9. QED
  BY <1>6, <1>8

-----------------------------------------------------------------------------
(* migrate *)

LEMMA FourStages ==
    ASSUME NEW S, NEW a \in S, NEW d \in S, NEW e \in S, NEW f \in S
    PROVE  LET s == <<a, d, e, f>> IN
           /\ s \in Seq(S) /\ Len(s) = 1 + 3
           /\ s[1] = a /\ s[1 + 1] = d /\ s[1 + 2] = e /\ s[1 + 3] = f
OBVIOUS

LEMMA MigratedMetaIs ==
    ASSUME NEW h, NEW c, NEW m \in Meta, m.pack \in Version, NextGeneration(h, c.profile) \in 0 .. MaxGeneration,
           \A t \in Target : MigratedAsset(h, m, c, t) \in Asset
    PROVE  LET meta == MigratedMeta(h, m, c) IN
           /\ meta \in Meta /\ meta.schema = "v1" /\ meta.gen = NextGeneration(h, c.profile) /\ meta.pack = m.pack
           /\ meta.assets = [t \in Target |-> MigratedAsset(h, m, c, t)] /\ meta.deferred = m.deferred
<1> DEFINE n == NextGeneration(h, c.profile)
           as == [t \in Target |-> MigratedAsset(h, m, c, t)]
           a == [m EXCEPT !.schema = "v1"]
           b == [a EXCEPT !.gen = n]
           e == [b EXCEPT !.setting = Setting(m.pack)]
           f == [e EXCEPT !.assets = as]
<1>1. Setting(m.pack) \in Version \cup {"none"} /\ as \in [Target -> Asset] /\ n \in 0 .. MaxGeneration
  BY SettingTypes
<1>2. MigratedMeta(h, m, c) = f
  BY DEF MigratedMeta
<1> HIDE DEF n, as
<1>3. a \in Meta /\ a.schema = "v1" /\ a.pack = m.pack /\ a.deferred = m.deferred
  BY DEF Meta
<1> HIDE DEF a
<1>4. b \in Meta /\ b.schema = "v1" /\ b.pack = m.pack /\ b.deferred = m.deferred /\ b.gen = n
  BY <1>1, <1>3 DEF Meta
<1> HIDE DEF b
<1>5. e \in Meta /\ e.schema = "v1" /\ e.pack = m.pack /\ e.deferred = m.deferred /\ e.gen = n
  BY <1>1, <1>4 DEF Meta
<1> HIDE DEF e
<1>6. f \in Meta /\ f.schema = "v1" /\ f.pack = m.pack /\ f.deferred = m.deferred /\ f.gen = n /\ f.assets = as
  BY <1>1, <1>5 DEF Meta
<1>7. QED
  BY <1>2, <1>6 DEF n, as

LEMMA MigrateGood ==
    ASSUME NEW h \in Home, Legible(h), NEW c \in Commands, c.verb = "migrate", ~MigrateRefuses(h, c)
    PROVE  Good(h, c, MigrateWrites(h, c))
<1> DEFINE p == c.profile
           m == h.marker[p]
           n == NextGeneration(h, p)
           as == [t \in Target |-> MigratedAsset(h, m, c, t)]
           meta == MigratedMeta(h, m, c)
<1>1. p \in Profile /\ p \in Target /\ n \in Generation
  BY CommandTypes DEF MigrateRefuses, CanAllocate
<1>2. m \in Meta /\ Honest(m) /\ m.schema = "v0"
  BY <1>1 DEF Home, Legible, MigrateRefuses, IsLegacy
<1>3. m.pack \in Version
  BY <1>2 DEF Honest
<1>4. ASSUME NEW t \in Target PROVE MigratedAsset(h, m, c, t) \in Asset /\ OfPack(MigratedAsset(h, m, c, t))
  <2>1. CASE t \notin Shipped(m, p)
    BY <2>1 DEF MigratedAsset, NoAsset, Nothing, Asset, Thing, Bytes, Maker, OfPack, Claims
  <2>2. CASE t \in Shipped(m, p)
    <3> DEFINE act == IF t = p THEN ProfileAction(h, t) ELSE "skip"
               thing == [h.disk[t] EXCEPT !.bytes = RebuiltBytes(m)]
    <3>1. act \in {"create", "replace", "skip"}
      BY <1>1 DEF MigrateRefuses, ProfileAction, Home
    <3>2. h.disk[t] \in Thing /\ RebuiltBytes(m) \in Version
      BY <1>3 DEF Home, RebuiltBytes
    <3>3. thing \in Thing /\ thing.bytes \in Version
      BY <3>2 DEF Thing, Bytes
    <3>4. MigratedAsset(h, m, c, t) = [act |-> act, thing |-> thing]
      BY <2>2 DEF MigratedAsset
    <3> HIDE DEF act, thing
    <3>5. QED
      BY <3>1, <3>3, <3>4 DEF Asset, OfPack, Claims
  <2>3. QED
    BY <2>1, <2>2
<1>5. m.pack \in Version /\ n \in 0 .. MaxGeneration
  BY <1>1, <1>3, MaxGenerationAssumption DEF Generation
<1>6. /\ meta \in Meta /\ meta.schema = "v1" /\ meta.gen = n /\ meta.pack = m.pack
      /\ meta.assets = as /\ meta.deferred = m.deferred
  BY <1>2, <1>4, <1>5, MigratedMetaIs
<1>8. Honest(meta)
  BY <1>2, <1>3, <1>4, <1>6 DEF Honest
<1> DEFINE stored == {Store(x) : x \in Entries(meta)}
           s == << stored, {WriteDoc(p, meta.gen, "install", meta)}, {Point(p, meta.gen)}, {Mark(p, meta)} >>
<1>9. stored \subseteq WriteStep /\ \A w \in stored : w.kind = "block" /\ Fits(h, c, w)
  BY <1>8, StoreTypes
<1>10. MigrateWrites(h, c) = s
  BY DEF MigrateWrites, Recorded
<1> HIDE DEF p, meta, m, n, as
<1>11. \A x \in Entries(meta) : Store(x) \in stored
  OBVIOUS
<1> HIDE DEF stored
<1>12. /\ stored \in SUBSET WriteStep /\ {WriteDoc(p, meta.gen, "install", meta)} \in SUBSET WriteStep
       /\ {Point(p, meta.gen)} \in SUBSET WriteStep /\ {Mark(p, meta)} \in SUBSET WriteStep
  BY <1>1, <1>6, <1>9, RecordTypes
<1>13. /\ s \in Seq(SUBSET WriteStep) /\ Len(s) = 1 + 3
       /\ s[1] = stored /\ s[1 + 1] = {WriteDoc(p, meta.gen, "install", meta)}
       /\ s[1 + 2] = {Point(p, meta.gen)} /\ s[1 + 3] = {Mark(p, meta)}
  BY <1>12, FourStages
<1> HIDE DEF s
<1>14. \A i \in 1 .. 1 : \A w \in s[i] : w.kind \in {"place", "setting", "block"} /\ Fits(h, c, w)
  BY <1>9, <1>13
<1>15. \A x \in Entries(meta) : \E i \in 1 .. 1 : Store(x) \in s[i]
  BY <1>11, <1>13
<1>16. Good(h, c, s)
  BY <1>1, <1>6, <1>8, <1>13, <1>14, <1>15, Recording
<1>17. QED
  BY <1>10, <1>16

-----------------------------------------------------------------------------
(* uninstall *)

\* Someone's marker says it, or it is of the pack, or it was asked for.
LEMMA DeletesFits ==
    ASSUME NEW h \in Home, Legible(h), NEW c \in Commands, c.verb = "uninstall", NEW t \in Target, Deletes(h, c, t)
    PROVE  LET w == Place(t, h.disk[t], Nothing) IN w \in WriteStep /\ w.kind = "place" /\ Fits(h, c, w)
<1> DEFINE asset == h.marker[c.profile].assets[t]
<1>1. asset \in Asset /\ OfPack(asset)
  BY CommandTypes DEF Home, Legible, Meta, Honest
<1>2. Nothing \in Thing /\ h.disk[t] \in Thing
  BY DEF Home, Nothing, Thing, Bytes, Maker
<1>3. ~LegacyPeer(h, c.profile) /\ ~PeerClaims(h, c.profile, t)
  BY DEF Deletes
<1>4. ASSUME h.disk[t].bytes \in EditedBytes, h.disk[t].bytes # "trimmed" PROVE "force" \in c.flags
  <2>1. asset.thing.bytes \in Version /\ h.disk[t] # Nothing
    BY <1>1 DEF Deletes, OfPack
  <2>2. h.disk[t] # asset.thing
    BY <1>4, <2>1, BytesAssumption
  <2>3. Drift(asset, h.disk[t]) = "modified"
    BY <1>4, <2>1, <2>2 DEF Drift
  <2>4. QED
    BY <2>3 DEF Deletes
<1>5. QED
  BY <1>2, <1>3, <1>4 DEF Place, WriteStep, Fits, MayTakeDirectory

LEMMA TwoStages ==
    ASSUME NEW S, NEW a \in S, NEW b \in S
    PROVE  LET s == <<a>> \o <<b>> IN s \in Seq(S) /\ DOMAIN s = 1 .. 2 /\ s[1] = a /\ s[2] = b
OBVIOUS

LEMMA LegacyGood ==
    ASSUME NEW h \in Home, Legible(h), NEW c \in Commands, c.verb = "uninstall", ~UninstallRefuses(h, c),
           h.marker[c.profile].schema = "v0"
    PROVE  Good(h, c, UninstallWrites(h, c))
<1> DEFINE p == c.profile
           a == {w \in {Place(p, h.disk[p], Nothing)} : h.disk[p] # Nothing}
           M == Mark(p, NoMarker)
           s == <<a>> \o << {M} >>
           ws == Pending(s)
<1>1. p \in Profile /\ p \in Target /\ "force" \in c.flags
  BY CommandTypes DEF UninstallRefuses
<1>2. \A w \in a : w \in WriteStep /\ w.kind = "place" /\ Fits(h, c, w)
  <2>1. Nothing \in Thing /\ h.disk[p] \in Thing
    BY <1>1 DEF Home, Nothing, Thing, Bytes, Maker
  <2>2. QED
    BY <1>1, <2>1 DEF Place, WriteStep, Fits, MayTakeDirectory
<1>3. M \in WriteStep /\ M.kind = "marker" /\ M.profile = p /\ M.meta = NoMarker
  BY <1>1, NoMarkerFits DEF Mark, WriteStep
<1>4. UninstallWrites(h, c) = s
  BY DEF UninstallWrites, LegacyWrites
<1>5. h.current[p] = 0 \/ ~Agree(h)
  <2>1. SUFFICES ASSUME Agree(h), h.current[p] # 0 PROVE FALSE
    OBVIOUS
  <2>2. h.current[p] \in Kept(h, p) /\ h.marker[p] = DocAt(h, p, h.current[p]).meta
    BY <1>1, <2>1 DEF Agree
  <2>3. h.marker[p].schema # "v0"
    BY <2>2, DocAtIs DEF Legible
  <2>4. QED
    BY <2>3
<1> HIDE DEF a, M, p
<1>6. s \in Seq(SUBSET WriteStep) /\ DOMAIN s = 1 .. 2 /\ s[1] = a /\ s[2] = {M}
  <2>1. a \in SUBSET WriteStep /\ {M} \in SUBSET WriteStep
    BY <1>2, <1>3
  <2>2. QED
    BY <2>1, TwoStages
<1> HIDE DEF s
<1>7. M \in ws /\ \A w \in ws : (w.kind = "place" /\ Fits(h, c, w)) \/ w = M
  BY <1>2, <1>6 DEF Pending
<1> HIDE DEF ws
<1>8. \A w \in ws : Fits(h, c, w)
  BY <1>3, <1>7, NoMarkerFits DEF Fits
<1>9. \A w \in ws : w.kind \notin {"document", "drop-document", "drop-block", "current"}
  BY <1>3, <1>7
<1>10. Stocked(h, s) /\ Unmixed(ws)
  BY <1>9 DEF Stocked, Unmixed, ws, Pending
<1>11. ASSUME Agree(h), NEW q \in Profile PROVE \E n \in 0 .. MaxGeneration : Heads(h, ws, q, n)
  <2>1. CASE q # p
    BY <1>3, <1>7, <1>9, <1>11, <2>1, OthersHead
  <2>2. CASE q = p
    <3>1. Points(ws, p) = {} /\ Marks(ws, p) = {M}
      BY <1>3, <1>7, <1>9 DEF Points, Marks
    <3>2. Metas(h, ws, p) = {NoMarker}
      BY <1>3, <3>1 DEF Metas
    <3>3. Heads(h, ws, p, 0)
      BY <1>5, <1>11, <3>1, <3>2, NoMarkerFits DEF Heads
    <3>4. 0 \in 0 .. MaxGeneration
      BY MaxGenerationAssumption
    <3>5. QED
      BY <2>2, <3>3, <3>4
  <2>3. QED
    BY <2>1, <2>2
<1>12. Good(h, c, s)
  BY <1>6, <1>8, <1>10, <1>11 DEF Good, AllHead, ws
<1>13. QED
  BY <1>4, <1>12

LEMMA SixStages ==
    ASSUME NEW S, NEW a \in S, NEW b \in S, NEW d \in S, NEW e \in S, NEW f \in S, NEW g \in S
    PROVE  LET s == (<<a, b>> \o <<d, e, f>>) \o <<g>> IN
           /\ s \in Seq(S) /\ Len(s) = 6
           /\ s[1] = a /\ s[2] = b /\ s[3] = d /\ s[4] = e /\ s[5] = f /\ s[6] = g
OBVIOUS

\* No marker and no generation is left, and no block that only they needed.
LEMMA PurgeGood ==
    ASSUME NEW h \in Home, Legible(h), NEW c, NEW p \in Profile,
           NEW a \in SUBSET WriteStep, NEW b \in SUBSET WriteStep,
           \A w \in a \cup b : w.kind \in {"place", "setting"} /\ Fits(h, c, w)
    PROVE  Good(h, c, (<<a, b>> \o PurgeWrites(h, p)) \o << {Mark(p, NoMarker)} >>)
<1> DEFINE C == Point(p, 0)
           M == Mark(p, NoMarker)
           dd == {DropDoc(d) : d \in DocsOf(h, p)}
           db == {DropBlock(x) : x \in PurgeBlocks(h, p)}
           s == (<<a, b>> \o PurgeWrites(h, p)) \o << {M} >>
           ws == Pending(s)
<1>1. PurgeWrites(h, p) = << {C}, dd, db >>
  BY DEF PurgeWrites
<1>2. C \in WriteStep /\ C.kind = "current" /\ C.profile = p /\ C.seq = 0
  BY MaxGenerationAssumption DEF Point, WriteStep
<1>3. M \in WriteStep /\ M.kind = "marker" /\ M.profile = p /\ M.meta = NoMarker
  BY NoMarkerFits DEF Mark, WriteStep
<1>4. dd \subseteq WriteStep /\ \A w \in dd : w.kind = "drop-document" /\ w.doc.profile = p
  BY DEF DropDoc, DocsOf, WriteStep, Home
<1>5. db \subseteq WriteStep /\ \A w \in db : w.kind = "drop-block" /\ w.block \in PurgeBlocks(h, p)
  <2>1. PurgeBlocks(h, p) \subseteq Block
    BY EntriesAreBlocks DEF PurgeBlocks, BlocksOf, DocsOf, Legible
  <2>2. QED
    BY <2>1 DEF DropBlock, WriteStep
<1>6. ASSUME NEW x \in PurgeBlocks(h, p), NEW d \in h.docs, x \in Entries(d.meta) PROVE DropDoc(d) \in dd
  <2>1. d.profile \in Profile
    BY DEF Home, Doc
  <2>2. d.profile = p
    BY <1>6, <2>1 DEF PurgeBlocks, BlocksOf, DocsOf
  <2>3. QED
    BY <2>2 DEF DocsOf
<1> HIDE DEF C, M, dd, db
<1>7. /\ s \in Seq(SUBSET WriteStep) /\ Len(s) = 6
      /\ s[1] = a /\ s[2] = b /\ s[3] = {C} /\ s[4] = dd /\ s[5] = db /\ s[6] = {M}
  <2>1. {C} \in SUBSET WriteStep /\ dd \in SUBSET WriteStep /\ db \in SUBSET WriteStep /\ {M} \in SUBSET WriteStep
    BY <1>2, <1>3, <1>4, <1>5
  <2>2. QED
    BY <1>1, <2>1, SixStages
<1> HIDE DEF s
<1>8. \A i \in DOMAIN s : i \in {1, 2, 3, 4, 5, 6}
  BY <1>7
<1>9. /\ C \in ws /\ M \in ws
      /\ \A w \in ws : \/ w.kind \in {"place", "setting"} /\ Fits(h, c, w)
                       \/ w.kind = "drop-document" /\ w.doc.profile = p
                       \/ w.kind = "drop-block"
                       \/ w = C \/ w = M
  BY <1>4, <1>5, <1>7, <1>8 DEF Pending
<1>10. Stocked(h, s)
  <2>1. ASSUME NEW i \in DOMAIN s, NEW w \in s[i], w.kind = "drop-block", NEW d \in h.docs, w.block \in Entries(d.meta)
        PROVE  \E j \in 1 .. i - 1 : DropDoc(d) \in s[j]
    <3>1. i = 5
      BY <1>2, <1>3, <1>4, <1>7, <1>8, <2>1
    <3>2. w.block \in PurgeBlocks(h, p)
      BY <1>5, <1>7, <3>1
    <3>3. DropDoc(d) \in s[4]
      BY <1>6, <1>7, <2>1, <3>2
    <3>4. 4 \in 1 .. i - 1
      BY <3>1
    <3>5. QED
      BY <3>3, <3>4
  <2>2. \A i \in DOMAIN s : \A w \in s[i] : w.kind # "document"
    BY <1>2, <1>3, <1>4, <1>5, <1>7, <1>8
  <2>3. QED
    BY <2>1, <2>2 DEF Stocked
<1> HIDE DEF ws
<1>11. \A w \in ws : Fits(h, c, w) /\ w.kind # "document"
  BY <1>2, <1>3, <1>9, NoMarkerFits DEF Fits
<1>12. Unmixed(ws)
  BY <1>11 DEF Unmixed
<1>13. ASSUME Agree(h), NEW q \in Profile PROVE \E n \in 0 .. MaxGeneration : Heads(h, ws, q, n)
  <2>1. CASE q # p
    <3>1. /\ \A w \in ws : w.kind \in {"current", "marker"} => w.profile # q
          /\ \A w \in ws : w.kind = "drop-document" => w.doc.profile # q
      BY <1>2, <1>3, <1>9, <2>1
    <3>2. QED
      BY <1>13, <3>1, OthersHead
  <2>2. CASE q = p
    <3>1. Points(ws, p) = {C} /\ Marks(ws, p) = {M}
      BY <1>2, <1>3, <1>9 DEF Points, Marks
    <3>2. Metas(h, ws, p) = {NoMarker}
      BY <1>3, <3>1 DEF Metas
    <3>3. Heads(h, ws, p, 0)
      BY <1>2, <3>1, <3>2, NoMarkerFits DEF Heads
    <3>4. 0 \in 0 .. MaxGeneration
      BY MaxGenerationAssumption
    <3>5. QED
      BY <2>2, <3>3, <3>4
  <2>3. QED
    BY <2>1, <2>2
<1>14. Good(h, c, s)
  BY <1>7, <1>10, <1>11, <1>12, <1>13 DEF Good, AllHead, ws
<1>15. QED
  BY <1>14 DEF s, M

LEMMA UninstallGood ==
    ASSUME NEW h \in Home, Legible(h), NEW c \in Commands, c.verb = "uninstall", ~UninstallRefuses(h, c)
    PROVE  Good(h, c, UninstallWrites(h, c))
<1> DEFINE p == c.profile
           m == h.marker[p]
           n == NextGeneration(h, p)
           takesBack == "keep-assets" \notin c.flags /\ TakesBack(h, m, "force" \in c.flags)
           a == {Place(t, h.disk[t], Nothing) : t \in {u \in Target : Deletes(h, c, u)}}
           b == IF takesBack THEN KeyStage(h, "none") ELSE {}
<1>1. p \in Profile /\ m \in Meta
  BY CommandTypes DEF Home
<1>2. CASE m.schema = "v0"
  BY <1>2, LegacyGood
<1>3. CASE m.schema # "v0"
  <2>1. m.schema = "v1"
    BY <1>1, <1>3 DEF UninstallRefuses, Meta
  <2>2. \A w \in a : w \in WriteStep /\ w.kind = "place" /\ Fits(h, c, w)
    BY DeletesFits
  <2>3. \A w \in b : w \in WriteStep /\ w.kind = "setting" /\ Fits(h, c, w)
    <3>1. SUFFICES ASSUME takesBack, NEW w \in KeyStage(h, "none")
                   PROVE  w \in WriteStep /\ w.kind = "setting" /\ Fits(h, c, w)
      OBVIOUS
    <3>2. w \in WriteStep /\ w.kind = "setting" /\ w.over = h.setting
      BY <3>1, KeyStageTypes
    <3>3. h.setting = "edited" => "force" \in c.flags
      <4>1. m.setting # "edited"
        BY <1>1, BytesAssumption DEF Meta
      <4>2. QED
        BY <3>1, <4>1 DEF TakesBack
    <3>4. QED
      BY <3>2, <3>3 DEF Fits, MayTakeSetting
  <2>4. UninstallWrites(h, c) =
          (<<a, b>> \o (IF "purge" \in c.flags THEN PurgeWrites(h, p)
                        ELSE << {WriteDoc(p, n, "uninstall", NoMarker)}, {Point(p, n)} >>)) \o << {Mark(p, NoMarker)} >>
    BY <1>3 DEF UninstallWrites, TrackedWrites
  <2>5. "purge" \notin c.flags => n \in Generation
    BY <2>1 DEF UninstallRefuses, CanAllocate
  <2> HIDE DEF a, b, p, n
  <2>6. /\ a \in SUBSET WriteStep /\ b \in SUBSET WriteStep
        /\ \A w \in a \cup b : w.kind \in {"place", "setting"} /\ Fits(h, c, w)
    BY <2>2, <2>3
  <2>7. CASE "purge" \in c.flags
    <3>1. UninstallWrites(h, c) = (<<a, b>> \o PurgeWrites(h, p)) \o << {Mark(p, NoMarker)} >>
      BY <2>4, <2>7
    <3>2. Good(h, c, (<<a, b>> \o PurgeWrites(h, p)) \o << {Mark(p, NoMarker)} >>)
      BY <1>1, <2>6, PurgeGood
    <3>3. QED
      BY <3>1, <3>2
  <2>8. CASE "purge" \notin c.flags
    <3>1. UninstallWrites(h, c) =
            (<<a, b>> \o << {WriteDoc(p, n, "uninstall", NoMarker)}, {Point(p, n)} >>) \o << {Mark(p, NoMarker)} >>
      BY <2>4, <2>8
    <3>2. Good(h, c, (<<a, b>> \o << {WriteDoc(p, n, "uninstall", NoMarker)}, {Point(p, n)} >>)
                       \o << {Mark(p, NoMarker)} >>)
      BY <1>1, <2>5, <2>6, <2>8, NoMarkerFits, PlainRecording
    <3>3. QED
      BY <3>1, <3>2
  <2>9. QED
    BY <2>7, <2>8
<1>4. QED
  BY <1>2, <1>3

-----------------------------------------------------------------------------
(* gc *)

\* A block goes in a batch only if the documents that name it go in it, or are gone.
LEMMA BatchShape ==
    ASSUME NEW plan, NEW batch \in Batches(plan)
    PROVE  /\ batch.documents \subseteq plan.documents
           /\ batch.blocks = {} \/ (batch.documents = plan.documents /\ batch.blocks \subseteq plan.blocks)
<1>1. CASE batch = plan
  BY <1>1
<1>2. CASE plan.documents # {} /\ batch \in {[documents |-> some, blocks |-> {}] : some \in SUBSET plan.documents \ {{}}}
  BY <1>2
<1>3. CASE plan.documents = {} /\ batch \in {[documents |-> {}, blocks |-> some] : some \in SUBSET plan.blocks \ {{}}}
  BY <1>3
<1>4. QED
  BY <1>1, <1>2, <1>3 DEF Batches

LEMMA GcGood ==
    ASSUME NEW h \in Home, Legible(h), NEW c \in Commands, NEW batch \in Batches(GcPlan(h, c))
    PROVE  Good(h, c, GcWrites(batch))
<1> DEFINE dd == {DropDoc(d) : d \in batch.documents}
           db == {DropBlock(b) : b \in batch.blocks}
           s == << dd, db >>
           ws == Pending(s)
           retained == Retained(h, c.number)
           live == Live(h, c.number)
<1>1. /\ batch.documents \subseteq h.docs \ retained
      /\ batch.blocks = {} \/ (batch.documents = h.docs \ retained /\ batch.blocks \subseteq h.blocks \ live)
  <2>1. GcPlan(h, c).documents = h.docs \ retained /\ GcPlan(h, c).blocks = h.blocks \ live
    BY DEF GcPlan
  <2>2. QED
    BY <2>1, BatchShape
<1>2. \A d \in h.docs : d.seq = h.current[d.profile] => d \in retained
  BY DEF Retained
<1>3. \A d \in retained : Entries(d.meta) \subseteq live
  BY DEF Live
<1>4. dd \subseteq WriteStep /\ \A w \in dd : w.kind = "drop-document" /\ w.doc \in batch.documents
  BY <1>1 DEF DropDoc, WriteStep, Home
<1>5. db \subseteq WriteStep /\ \A w \in db : w.kind = "drop-block" /\ w.block \in batch.blocks
  BY <1>1 DEF DropBlock, WriteStep, Home
<1>6. GcWrites(batch) = s
  BY DEF GcWrites
<1>7. \A d \in batch.documents : DropDoc(d) \in dd
  OBVIOUS
<1> HIDE DEF dd, db, retained, live
<1>8. s \in Seq(SUBSET WriteStep) /\ DOMAIN s = 1 .. 2 /\ s[1] = dd /\ s[2] = db
  BY <1>4, <1>5
<1> HIDE DEF s
<1>9. \A w \in ws : \/ w.kind = "drop-document" /\ w.doc \in batch.documents
                    \/ w.kind = "drop-block"
  BY <1>4, <1>5, <1>8 DEF Pending
<1>10. Stocked(h, s)
  <2>1. ASSUME NEW i \in DOMAIN s, NEW w \in s[i], w.kind = "drop-block", NEW d \in h.docs, w.block \in Entries(d.meta)
        PROVE  \E j \in 1 .. i - 1 : DropDoc(d) \in s[j]
    <3>1. i = 2
      BY <1>4, <1>8, <2>1
    <3>2. w.block \in batch.blocks
      BY <1>5, <1>8, <3>1
    <3>3. d \in batch.documents
      BY <1>1, <1>3, <2>1, <3>2
    <3>4. 1 \in 1 .. i - 1 /\ DropDoc(d) \in s[1]
      BY <1>7, <1>8, <3>1, <3>3
    <3>5. QED
      BY <3>4
  <2>2. \A i \in DOMAIN s : \A w \in s[i] : w.kind # "document"
    BY <1>4, <1>5, <1>8
  <2>3. QED
    BY <2>1, <2>2 DEF Stocked
<1> HIDE DEF ws
<1>11. \A w \in ws : Fits(h, c, w)
  BY <1>9 DEF Fits
<1>12. Unmixed(ws)
  BY <1>9 DEF Unmixed
<1>13. ASSUME Agree(h), NEW q \in Profile PROVE \E n \in 0 .. MaxGeneration : Heads(h, ws, q, n)
  <2>1. /\ \A w \in ws : w.kind \notin {"current", "marker"}
        /\ \A w \in ws : w.kind = "drop-document" => w.doc.profile # q \/ w.doc.seq # h.current[q]
    BY <1>1, <1>2, <1>9
  <2>2. QED
    BY <1>13, <2>1, OthersHead
<1>14. QED
  BY <1>6, <1>8, <1>10, <1>11, <1>12, <1>13 DEF Good, AllHead, ws

-----------------------------------------------------------------------------
(* The steps *)

LEMMA TodosGood ==
    ASSUME NEW h \in Home, Legible(h), NEW c \in Commands, ~Refuses(h, c),
           NEW known, FactsHold(h, c, known), c.verb = "gc" => known.verb = "gc",
           NEW s \in Todos(h, c, known)
    PROVE  Good(h, c, s)
<1>1. c.verb \in {"install", "update", "uninstall", "restore", "gc", "migrate"}
  BY CommandTypes DEF Command
<1>2. CASE c.verb = "install"
  BY <1>2, InstallGood DEF Refuses, Todos
<1>3. CASE c.verb = "update"
  BY <1>3, UpdateGood DEF Refuses, Todos
<1>4. CASE c.verb = "uninstall"
  BY <1>4, UninstallGood DEF Refuses, Todos
<1>5. CASE c.verb = "restore"
  BY <1>5, RestoreGood DEF Refuses, Todos
<1>6. CASE c.verb = "migrate"
  BY <1>6, MigrateGood DEF Refuses, Todos
<1>7. CASE c.verb = "gc"
  <2>1. known.plan = GcPlan(h, c)
    BY <1>7 DEF FactsHold
  <2>2. s \in {GcWrites(batch) : batch \in Batches(known.plan)}
    BY <1>7 DEF Todos
  <2>3. QED
    BY <2>1, <2>2, GcGood
<1>8. QED
  BY <1>1, <1>2, <1>3, <1>4, <1>5, <1>6, <1>7

\* Nothing is to be written.
LEMMA NothingPending ==
    /\ <<>> \in Seq(SUBSET WriteStep) /\ Pending(<<>>) = {}
    /\ \A h : Stocked(h, <<>>)
<1>1. <<>> \in Seq(SUBSET WriteStep) /\ DOMAIN <<>> = {}
  OBVIOUS
<1>2. QED
  BY <1>1 DEF Pending, Stocked

LEMMA AgreeIsAllHead ==
    ASSUME NEW h \in Home, Legible(h)
    PROVE  Agree(h) <=> AllHead(h, {})
<1>1. ASSUME Agree(h) PROVE AllHead(h, {})
  BY <1>1, OthersHead DEF AllHead
<1>2. ASSUME AllHead(h, {}) PROVE Agree(h)
  <2>1. SUFFICES ASSUME NEW q \in Profile
                 PROVE  IF h.current[q] = 0 THEN h.marker[q].schema # "v1"
                        ELSE h.current[q] \in Kept(h, q) /\ h.marker[q] = DocAt(h, q, h.current[q]).meta
    BY DEF Agree
  <2>2. PICK n \in 0 .. MaxGeneration : Heads(h, {}, q, n)
    BY <1>2 DEF AllHead
  <2>3. Points({}, q) = {} /\ Metas(h, {}, q) = {h.marker[q]}
    BY DEF Points, Metas, Marks
  <2>4. h.current[q] = n /\ (n = 0 => h.marker[q].schema # "v1")
    BY <2>2, <2>3 DEF Heads
  <2>5. ASSUME n # 0 PROVE n \in Kept(h, q) /\ h.marker[q] = DocAt(h, q, n).meta
    <3>1. PICK d \in h.docs : d.profile = q /\ d.seq = n /\ h.marker[q] = d.meta
      BY <2>2, <2>3, <2>5 DEF Heads
    <3>2. n \in Kept(h, q)
      BY <3>1 DEF Kept, DocsOf
    <3>3. DocAt(h, q, n) = d
      BY <3>1, <3>2, DocAtIs DEF Legible
    <3>4. QED
      BY <3>1, <3>2, <3>3
  <2>6. QED
    BY <2>4, <2>5
<1>3. QED
  BY <1>1, <1>2

\* With nothing to write and no lock held, only the home matters.
LEMMA Rest ==
    ASSUME ProcessInv', HomeInv', ~Locked'
    PROVE  Inv'
<1>1. saved' = home' /\ todo' = <<>>
  BY DEF HomeInv
<1>2. Pending(todo') = {} /\ Stocked(home', todo') /\ todo' \in Seq(SUBSET WriteStep)
  BY <1>1, NothingPending
<1>3. torn' \/ AllHead(home', Pending(todo'))
  BY <1>1, <1>2, AgreeIsAllHead DEF HomeInv
<1>4. TodoInv'
  BY <1>2, <1>3 DEF TodoInv
<1>5. DocumentInv'
  BY <1>1, <1>2 DEF DocumentInv, HomeInv, Legible
<1>6. QED
  BY <1>4, <1>5 DEF Inv

LEMMA NoCommandWhenOver ==
    ASSUME Inv, NEW p \in Process, Over(p), torn' \in BOOLEAN
    PROVE  /\ ProcessInv' /\ pc'[p] = "idle"
           /\ pc[p] = "locked" \/ ~Locked => ~Locked'
BY DEF Inv, ProcessInv, Over, Locked

LEMMA InitKeeps == Init => Inv
<1> SUFFICES ASSUME Init PROVE Inv
  OBVIOUS
<1>1. home \in Home /\ Legible(home) /\ Agree(home) /\ saved = home
  BY HistoriesAssumption DEF Init
<1>2. ProcessInv
  BY DEF Init, ProcessInv
<1>3. HomeInv
  BY <1>1 DEF Init, HomeInv
<1>4. Pending(todo) = {} /\ Stocked(home, todo) /\ todo \in Seq(SUBSET WriteStep)
  BY NothingPending DEF Init
<1>5. TodoInv
  BY <1>1, <1>4, AgreeIsAllHead DEF TodoInv
<1>6. DocumentInv
  BY <1>1, <1>4 DEF DocumentInv, Legible
<1>7. QED
  BY <1>2, <1>3, <1>5, <1>6 DEF Inv

LEMMA PlanKeeps ==
    ASSUME Inv, NEW p \in Process, Plan(p)
    PROVE  Inv'
<1>1. UNCHANGED <<home, todo, saved, torn>>
  BY DEF Plan
<1>2. PICK c \in Commands : command' = [command EXCEPT ![p] = c] /\ facts' = [facts EXCEPT ![p] = FactsFor(home, c)]
  BY DEF Plan
<1>3. pc[p] = "idle" /\ pc' = [pc EXCEPT ![p] = "planned"]
  BY DEF Plan
<1>4. \A q \in Process : q # p => pc'[q] = pc[q] /\ command'[q] = command[q] /\ facts'[q] = facts[q]
  BY <1>2, <1>3 DEF Inv, ProcessInv
<1>5. pc'[p] = "planned" /\ command'[p] = c /\ (c.verb = "gc" => facts'[p].verb = "gc")
  BY <1>2, <1>3 DEF Inv, ProcessInv, FactsFor
<1>6. ProcessInv'
  <2>1. pc' \in [Process -> {"idle", "planned", "locked"}] /\ DOMAIN command' = Process /\ DOMAIN facts' = Process
    BY <1>2, <1>3 DEF Inv, ProcessInv
  <2>2. QED
    BY <1>1, <1>4, <1>5, <2>1 DEF Inv, ProcessInv
<1>7. \A q \in Process : pc'[q] = "locked" <=> pc[q] = "locked"
  BY <1>3, <1>4, <1>5
<1>8. HomeInv'
  BY <1>1, <1>7 DEF Inv, HomeInv, Locked
<1>9. TodoInv'
  BY <1>1, <1>4, <1>5, <1>7 DEF Inv, TodoInv
<1>10. DocumentInv'
  BY <1>1 DEF Inv, DocumentInv
<1>11. QED
  BY <1>6, <1>8, <1>9, <1>10 DEF Inv

LEMMA LockKeeps ==
    ASSUME Inv, NEW p \in Process, Lock(p)
    PROVE  Inv'
<1>1. UNCHANGED <<home, command, facts, torn>> /\ saved' = home /\ ~Locked
  BY DEF Lock
<1>2. pc[p] = "planned" /\ pc' = [pc EXCEPT ![p] = "locked"]
  BY DEF Lock
<1>3. command[p] \in Commands /\ (command[p].verb = "gc" => facts[p].verb = "gc")
  BY <1>2 DEF Inv, ProcessInv
<1>4. Good(home, command[p], todo')
  <2>1. home \in Home /\ Legible(home)
    BY DEF Inv, HomeInv
  <2>2. ~Refuses(home, command[p]) /\ FactsHold(home, command[p], facts[p]) /\ todo' \in Todos(home, command[p], facts[p])
    BY DEF Lock
  <2>3. QED
    BY <1>3, <2>1, <2>2, TodosGood
<1>5. pc'[p] = "locked" /\ \A q \in Process : q # p => pc'[q] # "locked" /\ pc'[q] = pc[q]
  BY <1>1, <1>2 DEF Inv, ProcessInv, Locked
<1>6. ProcessInv'
  <2>1. pc' \in [Process -> {"idle", "planned", "locked"}]
    BY <1>2 DEF Inv, ProcessInv
  <2>2. QED
    BY <1>1, <1>2, <1>5, <2>1 DEF Inv, ProcessInv
<1>7. HomeInv'
  BY <1>1, <1>5 DEF Inv, HomeInv, Locked
<1>8. TodoInv'
  <2>1. \A q \in Process : pc'[q] = "locked" => \A w \in Pending(todo') : Fits(saved', command'[q], w)
    BY <1>1, <1>4, <1>5 DEF Good
  <2>2. torn' \/ AllHead(home', Pending(todo'))
    BY <1>1, <1>4 DEF Good, Inv, HomeInv
  <2>3. QED
    BY <1>1, <1>4, <2>1, <2>2 DEF TodoInv, Good
<1>9. DocumentInv'
  BY <1>1, <1>4 DEF DocumentInv, Inv, HomeInv, Legible, Good, Unmixed
<1>10. QED
  BY <1>6, <1>7, <1>8, <1>9 DEF Inv

LEMMA RefuseKeeps ==
    ASSUME Inv, NEW p \in Process, Refuse(p)
    PROVE  Inv'
<1>1. Over(p) /\ UNCHANGED <<home, todo, saved, torn>> /\ ~Locked
  BY DEF Refuse
<1>2. ProcessInv' /\ ~Locked'
  BY <1>1, NoCommandWhenOver DEF Inv, ProcessInv
<1>3. HomeInv'
  BY <1>1, <1>2 DEF Inv, HomeInv
<1>4. QED
  BY <1>2, <1>3, Rest

LEMMA CommitKeeps ==
    ASSUME Inv, NEW p \in Process, Commit(p)
    PROVE  Inv'
<1>1. Over(p) /\ UNCHANGED <<home, torn>> /\ saved' = home /\ todo' = <<>> /\ pc[p] = "locked"
  BY DEF Commit
<1>2. ProcessInv' /\ ~Locked'
  BY <1>1, NoCommandWhenOver DEF Inv, ProcessInv
<1>3. Pending(todo) = {}
  BY DEF Commit, Pending
<1>4. torn \/ Agree(home)
  BY <1>3, AgreeIsAllHead DEF Inv, TodoInv, HomeInv
<1>5. HomeInv'
  BY <1>1, <1>2, <1>4 DEF Inv, HomeInv
<1>6. QED
  BY <1>2, <1>5, Rest

LEMMA FailKeeps ==
    ASSUME Inv, NEW p \in Process, Fail(p)
    PROVE  Inv'
<1>1. Over(p) /\ UNCHANGED <<saved, torn>> /\ home' = saved /\ todo' = <<>> /\ pc[p] = "locked"
  BY DEF Fail
<1>2. ProcessInv' /\ ~Locked'
  BY <1>1, NoCommandWhenOver DEF Inv, ProcessInv
<1>3. HomeInv'
  BY <1>1, <1>2 DEF Inv, HomeInv
<1>4. QED
  BY <1>2, <1>3, Rest

LEMMA CrashKeeps ==
    ASSUME Inv, NEW p \in Process, Crash(p)
    PROVE  Inv'
<1>1. Over(p) /\ UNCHANGED home /\ saved' = home /\ todo' = <<>> /\ torn' = TRUE /\ pc[p] = "locked"
  BY DEF Crash
<1>2. ProcessInv' /\ ~Locked'
  BY <1>1, NoCommandWhenOver
<1>3. HomeInv'
  BY <1>1, <1>2 DEF Inv, HomeInv
<1>4. QED
  BY <1>2, <1>3, Rest

\* An edit is of the directories and the key.
LEMMA EditedIs ==
    ASSUME NEW h \in Home, Legible(h), NEW g \in Edited(h)
    PROVE  g \in Home /\ Legible(g) /\ (Agree(h) => Agree(g))
<1>1. User \in Maker /\ Nothing \in Thing /\ Nothing.bytes = "none"
  BY DEF Maker, Nothing, Thing, Bytes
<1>2. /\ g.disk \in [Target -> Thing] /\ \A t \in Target : g.disk[t].bytes = "none" => g.disk[t] = Nothing
      /\ g.setting \in Version \cup {"edited", "none"}
      /\ g.marker = h.marker /\ g.docs = h.docs /\ g.current = h.current /\ g.blocks = h.blocks /\ g.journal = h.journal
      /\ g \in Home
  <2>1. CASE \E t \in Target, b \in EditedBytes : g = [h EXCEPT !.disk[t].bytes = b]
    <3>1. PICK t \in Target, b \in EditedBytes : g = [h EXCEPT !.disk[t].bytes = b]
      BY <2>1
    <3>2. h.disk[t] \in Thing /\ b # "none"
      BY BytesAssumption DEF Home
    <3>3. [h.disk[t] EXCEPT !.bytes = b] \in Thing /\ [h.disk[t] EXCEPT !.bytes = b].bytes = b
      BY <3>2 DEF Thing, Bytes
    <3>4. g = [h EXCEPT !.disk = [h.disk EXCEPT ![t] = [h.disk[t] EXCEPT !.bytes = b]]]
      BY <3>1
    <3> DEFINE thing == [h.disk[t] EXCEPT !.bytes = b]
               disk == [h.disk EXCEPT ![t] = thing]
    <3>5. disk \in [Target -> Thing] /\ \A u \in Target : disk[u] = IF u = t THEN thing ELSE h.disk[u]
      BY <3>3 DEF Home
    <3>6. g = [h EXCEPT !.disk = disk] /\ thing.bytes = b
      BY <3>3, <3>4
    <3> HIDE DEF thing, disk
    <3>7. g \in Home /\ g.disk = disk
      BY <3>5, <3>6 DEF Home
    <3>8. /\ g.setting = h.setting /\ g.marker = h.marker /\ g.docs = h.docs /\ g.current = h.current
          /\ g.blocks = h.blocks /\ g.journal = h.journal
      BY <3>6 DEF Home
    <3>9. \A u \in Target : g.disk[u].bytes = "none" => g.disk[u] = Nothing
      BY <3>2, <3>5, <3>6, <3>7 DEF Legible
    <3>10. QED
      BY <3>5, <3>7, <3>8, <3>9 DEF Home
  <2>2. CASE \E t \in Target, thing \in Thing :
                g = [h EXCEPT !.disk[t] = thing] /\ (thing.bytes = "none" => thing = Nothing)
    <3>1. PICK t \in Target, thing \in Thing :
                 g = [h EXCEPT !.disk[t] = thing] /\ (thing.bytes = "none" => thing = Nothing)
      BY <2>2
    <3> DEFINE disk == [h.disk EXCEPT ![t] = thing]
    <3>2. disk \in [Target -> Thing] /\ \A u \in Target : disk[u] = IF u = t THEN thing ELSE h.disk[u]
      BY DEF Home
    <3>3. g = [h EXCEPT !.disk = disk]
      BY <3>1
    <3> HIDE DEF disk
    <3>4. g \in Home /\ g.disk = disk
      BY <3>2, <3>3 DEF Home
    <3>5. /\ g.setting = h.setting /\ g.marker = h.marker /\ g.docs = h.docs /\ g.current = h.current
          /\ g.blocks = h.blocks /\ g.journal = h.journal
      BY <3>3 DEF Home
    <3>6. \A u \in Target : g.disk[u].bytes = "none" => g.disk[u] = Nothing
      BY <3>1, <3>2, <3>4 DEF Legible
    <3>7. QED
      BY <3>2, <3>4, <3>5, <3>6 DEF Home
  <2>3. CASE \E value \in {"edited", "none"} : g = [h EXCEPT !.setting = value]
    BY <2>3 DEF Home, Legible
  <2>4. \/ \E t \in Target, b \in EditedBytes : g = [h EXCEPT !.disk[t].bytes = b]
        \/ \E t \in Target : g = [h EXCEPT !.disk[t] = Nothing]
        \/ \E t \in Target, b \in EditedBytes : g = [h EXCEPT !.disk[t] = [bytes |-> b, by |-> User]]
        \/ \E value \in {"edited", "none"} : g = [h EXCEPT !.setting = value]
    BY DEF Edited
  <2>5. ASSUME NEW t \in Target, NEW b \in EditedBytes, g = [h EXCEPT !.disk[t] = [bytes |-> b, by |-> User]]
        PROVE  \E u \in Target, thing \in Thing :
                  g = [h EXCEPT !.disk[u] = thing] /\ (thing.bytes = "none" => thing = Nothing)
    <3>1. [bytes |-> b, by |-> User] \in Thing /\ b # "none"
      BY <1>1, BytesAssumption DEF Thing, Bytes
    <3>2. QED
      BY <2>5, <3>1
  <2>6. QED
    BY <1>1, <2>1, <2>2, <2>3, <2>4, <2>5
<1>3. Legible(g)
  BY <1>2 DEF Legible, InStore
<1>4. Agree(h) => Agree(g)
  BY <1>2 DEF Agree, Kept, DocAt, DocsOf
<1>5. QED
  BY <1>2, <1>3, <1>4

LEMMA EditKeeps ==
    ASSUME Inv, Edit
    PROVE  Inv'
<1>1. UNCHANGED <<pc, command, facts, todo, torn>> /\ saved' = home' /\ ~Locked /\ home' \in Edited(home)
  BY DEF Edit
<1>2. ProcessInv' /\ ~Locked'
  BY <1>1 DEF Inv, ProcessInv, Locked
<1>3. home' \in Home /\ Legible(home') /\ (Agree(home) => Agree(home'))
  BY <1>1, EditedIs DEF Inv, HomeInv
<1>4. home = saved /\ todo = <<>>
  BY <1>1 DEF Inv, HomeInv
<1>5. HomeInv'
  BY <1>1, <1>2, <1>3, <1>4 DEF Inv, HomeInv
<1>6. QED
  BY <1>2, <1>5, Rest

-----------------------------------------------------------------------------
(* The theorems *)

LEMMA NextKeeps == Inv /\ [Next]_vars => Inv'
<1> SUFFICES ASSUME Inv, [Next]_vars PROVE Inv'
  OBVIOUS
<1>1. ASSUME NEW p \in Process, Plan(p) \/ Lock(p) \/ Refuse(p) \/ Write(p) \/ Commit(p) \/ Fail(p) \/ Crash(p)
      PROVE  Inv'
  BY <1>1, PlanKeeps, LockKeeps, RefuseKeeps, WriteKeeps, CommitKeeps, FailKeeps, CrashKeeps
<1>2. CASE Edit
  BY <1>2, EditKeeps
<1>3. CASE UNCHANGED vars
  BY <1>3 DEF vars, Inv, ProcessInv, HomeInv, TodoInv, DocumentInv, Locked
<1>4. QED
  BY <1>1, <1>2, <1>3 DEF Next

LEMMA Inductive == Spec => []Inv
<1>1. Init => Inv
  BY InitKeeps
<1>2. Inv /\ [Next]_vars => Inv'
  BY NextKeeps
<1>3. QED
  BY <1>1, <1>2, PTL DEF Spec

\* A home stays a home, one process at most holds the lock, and only it has writes to make.
THEOREM HomeTypes == Spec => []TypeOK
<1>1. Inv => TypeOK
  BY DEF Inv, ProcessInv, HomeInv, TypeOK
<1>2. QED
  BY <1>1, Inductive, PTL

\* Whatever commands run, fail or die, every generation that is there can be restored: the
\* store holds each block it names.
THEOREM Restorable == Spec => []EveryGenerationRestorable
<1>1. Inv => EveryGenerationRestorable
  BY DEF Inv, HomeInv, Legible, EveryGenerationRestorable
<1>2. QED
  BY <1>1, Inductive, PTL

\* As long as no process dies, the marker of a profile is between commands what its current
\* generation says.
THEOREM Agreement == Spec => []RecordsAgree
<1>1. Inv => RecordsAgree
  BY DEF Inv, HomeInv, RecordsAgree
<1>2. QED
  BY <1>1, Inductive, PTL

\* The directories and the key change under the lock by a write of the command that holds it.
LEMMA WritingIsAWrite ==
    ASSUME Inv, [Next]_vars, NEW p \in Process, Writing(p)
    PROVE  \/ home' = home
           \/ \E w \in WriteStep : Fits(saved, command[p], w) /\ Possible(home, w) /\ home' = Done(home, w)
<1>1. pc[p] = "locked" /\ pc'[p] = "locked" /\ Locked
  BY DEF Writing, Locked
<1>2. ASSUME NEW q \in Process, Fail(q) PROVE FALSE
  <2>1. q = p
    BY <1>1, <1>2 DEF Fail, Inv, ProcessInv
  <2>2. pc'[p] = "idle"
    BY <1>2, <2>1 DEF Fail, Over, Inv, ProcessInv
  <2>3. QED
    BY <1>1, <2>2
<1>3. ASSUME NEW q \in Process, Plan(q) \/ Lock(q) \/ Refuse(q) \/ Commit(q) \/ Crash(q) PROVE home' = home
  BY <1>3 DEF Plan, Lock, Refuse, Commit, Crash
<1>4. ASSUME NEW q \in Process, Write(q)
      PROVE  \E w \in WriteStep : Fits(saved, command[p], w) /\ Possible(home, w) /\ home' = Done(home, w)
  <2>1. PICK i \in DOMAIN todo : \E w \in todo[i] : Possible(home, w) /\ home' = Done(home, w)
    BY <1>4 DEF Write
  <2>2. PICK w \in todo[i] : Possible(home, w) /\ home' = Done(home, w)
    BY <2>1
  <2>3. w \in Pending(todo) /\ w \in WriteStep
    BY <2>2 DEF Pending, Inv, TodoInv
  <2>4. Fits(saved, command[p], w)
    BY <1>1, <2>3 DEF Inv, TodoInv
  <2>5. QED
    BY <2>2, <2>3, <2>4
<1>5. CASE Edit
  BY <1>1, <1>5 DEF Edit
<1>6. CASE UNCHANGED vars
  BY <1>6 DEF vars
<1>7. QED
  BY <1>2, <1>3, <1>4, <1>5, <1>6 DEF Next

\* A write that changes a directory is a place there, over what it found.
LEMMA PlaceChanges ==
    ASSUME NEW h \in Home, NEW w \in WriteStep, Possible(h, w), NEW t \in Target, Done(h, w).disk[t] # h.disk[t]
    PROVE  w.kind = "place" /\ w.target = t /\ w.over = h.disk[t] /\ w.thing = Done(h, w).disk[t]
<1>1. h.disk \in [Target -> Thing]
  BY DEF Home
<1>2. w.kind = "place" /\ w.target = t /\ w.thing = Done(h, w).disk[t]
  BY <1>1, DoneEffect
<1>3. QED
  BY <1>2 DEF Possible

\* What people made of a directory or of the key is only replaced where a flag says so.
THEOREM Work == Spec => YourWorkSurvives
<1>1. ASSUME Inv, [Next]_vars, NEW p \in Process, Writing(p), NEW t \in Target,
             home.disk[t].bytes \in EditedBytes, home'.disk[t] # home.disk[t]
      PROVE  MayTakeDirectory(command[p], t) \/ RestoresSkipped(command[p], t) \/ TakesTrimmed(command[p], t)
  <2>1. PICK w \in WriteStep : Fits(saved, command[p], w) /\ Possible(home, w) /\ home' = Done(home, w)
    BY <1>1, WritingIsAWrite
  <2>2. w.kind = "place" /\ w.target = t /\ w.over = home.disk[t] /\ w.thing = home'.disk[t]
    BY <1>1, <2>1, PlaceChanges DEF Inv, HomeInv
  <2>3. QED
    BY <1>1, <2>1, <2>2 DEF Fits, RestoresSkipped, TakesTrimmed
<1>2. ASSUME Inv, [Next]_vars, NEW p \in Process, Writing(p), home.setting = "edited", home'.setting # "edited"
      PROVE  MayTakeSetting(command[p])
  <2>1. PICK w \in WriteStep : Fits(saved, command[p], w) /\ Possible(home, w) /\ home' = Done(home, w)
    BY <1>2, WritingIsAWrite
  <2>2. w.kind = "setting" /\ w.value = home'.setting
    BY <1>2, <2>1, DoneEffect DEF Inv, HomeInv
  <2>3. w.over = "edited"
    BY <1>2, <2>1, <2>2 DEF Possible
  <2>4. QED
    BY <1>2, <2>1, <2>2, <2>3 DEF Fits
<1>3. Inv /\ [Next]_vars =>
        [\A p \in Process : Writing(p) =>
           /\ \A t \in Target :
                home.disk[t].bytes \in EditedBytes /\ home'.disk[t] # home.disk[t]
                  => MayTakeDirectory(command[p], t) \/ RestoresSkipped(command[p], t) \/ TakesTrimmed(command[p], t)
           /\ home.setting = "edited" /\ home'.setting # "edited" => MayTakeSetting(command[p])]_vars
  BY <1>1, <1>2
<1>4. QED
  BY <1>3, Inductive, PTL DEF Spec, YourWorkSurvives

\* uninstall and restore never touch a directory that another profile may need.
THEOREM Peerage == Spec => PeersKeepTheirs
<1>1. ASSUME Inv, [Next]_vars, NEW p \in Process, NEW t \in Target, Writing(p),
             command[p].verb \in {"uninstall", "restore"}, home.disk[t] # Nothing, home'.disk[t] # home.disk[t]
      PROVE  \/ saved.marker[command[p].profile].schema = "v0" /\ t = command[p].profile
             \/ ~LegacyPeer(saved, command[p].profile) /\ ~PeerClaims(saved, command[p].profile, t)
  <2>1. PICK w \in WriteStep : Fits(saved, command[p], w) /\ Possible(home, w) /\ home' = Done(home, w)
    BY <1>1, WritingIsAWrite
  <2>2. w.kind = "place" /\ w.target = t /\ w.over = home.disk[t]
    BY <1>1, <2>1, PlaceChanges DEF Inv, HomeInv
  <2>3. QED
    BY <1>1, <2>1, <2>2 DEF Fits
<1>2. Inv /\ [Next]_vars =>
        [\A p \in Process, t \in Target :
           Writing(p) /\ command[p].verb \in {"uninstall", "restore"}
             /\ home.disk[t] # Nothing /\ home'.disk[t] # home.disk[t]
           => \/ saved.marker[command[p].profile].schema = "v0" /\ t = command[p].profile
              \/ ~LegacyPeer(saved, command[p].profile) /\ ~PeerClaims(saved, command[p].profile, t)]_vars
  BY <1>1
<1>3. QED
  BY <1>2, Inductive, PTL DEF Spec, PeersKeepTheirs

\* A generation document is there as it was written or not at all, also through a rollback
\* and after a crash.
THEOREM Documents == Spec => DocumentsNeverChange
<1>1. ASSUME Inv, [Next]_vars, NEW d \in home.docs, NEW e \in home'.docs, d.profile = e.profile, d.seq = e.seq
      PROVE  d = e
  <2>1. \A x, y \in home.docs : x.profile = y.profile /\ x.seq = y.seq => x = y
    BY <1>1 DEF Inv, HomeInv, Legible
  <2>2. ASSUME NEW q \in Process, Plan(q) \/ Lock(q) \/ Refuse(q) \/ Commit(q) \/ Crash(q) PROVE home' = home
    BY <2>2 DEF Plan, Lock, Refuse, Commit, Crash
  <2>3. ASSUME NEW q \in Process, Fail(q) PROVE d = e
    <3>1. home' = saved
      BY <2>3 DEF Fail
    <3>2. QED
      BY <1>1, <3>1 DEF Inv, DocumentInv
  <2>4. ASSUME NEW q \in Process, Write(q) PROVE d = e
    <3>1. PICK i \in DOMAIN todo : \E w \in todo[i] : Possible(home, w) /\ home' = Done(home, w)
      BY <2>4 DEF Write
    <3>2. PICK w \in todo[i] : Possible(home, w) /\ home' = Done(home, w)
      BY <3>1
    <3>3. w \in WriteStep /\ home \in Home
      BY <1>1, <3>2 DEF Inv, TodoInv, HomeInv
    <3>4. e \in home.docs \/ (w.kind = "document" /\ e = w.doc)
      BY <1>1, <3>2, <3>3, DoneEffect
    <3>5. w.kind = "document" => w.doc.profile # d.profile \/ w.doc.seq # d.seq
      BY <3>2, <1>1 DEF Possible, Kept, DocsOf
    <3>6. QED
      BY <1>1, <2>1, <3>4, <3>5
  <2>5. CASE Edit
    <3>1. home'.docs = home.docs
      BY <1>1, <2>5 DEF Edit, Edited, Inv, HomeInv, Home
    <3>2. QED
      BY <1>1, <2>1, <3>1
  <2>6. CASE UNCHANGED vars
    BY <1>1, <2>1, <2>6 DEF vars
  <2>7. QED
    BY <1>1, <2>1, <2>2, <2>3, <2>4, <2>5, <2>6 DEF Next
<1>2. Inv /\ [Next]_vars =>
        [\A d \in home.docs, e \in home'.docs : d.profile = e.profile /\ d.seq = e.seq => d = e]_vars
  BY <1>1
<1>3. QED
  BY <1>2, Inductive, PTL DEF Spec, DocumentsNeverChange
=============================================================================
