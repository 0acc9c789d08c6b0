------------------------------ MODULE GcEngine ------------------------------
(* gc (packages/cli/src/gc/engine.ts): the generations and blocks nobody needs any more,
   planned without the lock and compared again under it. *)
EXTENDS ManagedHome

\* scanPlan: the newest `keep` generations of a profile, and the current one.
Retained(h, keep) ==
    {d \in h.docs : \/ d.seq = h.current[d.profile]
                    \/ Cardinality({n \in Kept(h, d.profile) : n > d.seq}) < keep}

\* What the retained generations refer to.
Live(h, keep) == UNION {Entries(d.meta) : d \in Retained(h, keep)}

\* The current pointer names no document, or a block is missing: nothing is collected.
GcRefuses(h, c) ==
    \/ \E p \in Profile : h.current[p] \notin IF Kept(h, p) = {} THEN {0} ELSE Kept(h, p)
    \/ ~(Live(h, c.number) \subseteq h.blocks)

\* A document is planned with its bytes and identity, not only its number.
GcPlan(h, c) == [documents |-> h.docs \ Retained(h, c.number), blocks |-> h.blocks \ Live(h, c.number)]

\* selectGcBatch: all of it if the journal has room, else some of the documents, else some blocks.
Batches(plan) ==
    {plan} \cup IF plan.documents # {}
                THEN {[documents |-> some, blocks |-> {}] : some \in SUBSET plan.documents \ {{}}}
                ELSE {[documents |-> {}, blocks |-> some] : some \in SUBSET plan.blocks \ {{}}}

\* runGc.
GcWrites(batch) ==
    << {DropDoc(d) : d \in batch.documents}, {DropBlock(b) : b \in batch.blocks} >>
=============================================================================
