---------------------------- MODULE ComposeForm ----------------------------
(* The compose screen of the browser client (ui/src/main.ts): a form that    *)
(* names sources, the skills wanted from each and how a clash of skill ids   *)
(* is settled; previews of it, which the server answers in any order; and    *)
(* the conditions under which the install button works.  Every source may    *)
(* offer one and the same skill, so a clash is two sources of which it is    *)
(* ticked.                                                                   *)
EXTENDS Naturals, FiniteSets

CONSTANTS Source,        \* the sources of the form, two of them
          MaxEdits,      \* bound on the edits of the form
          MaxPreviews    \* bound on the previews asked for

ASSUME FormAssumption == /\ MaxEdits \in Nat
                         /\ MaxPreviews \in Nat
                         /\ Cardinality(Source) = 2

VARIABLES form,       \* profile, address and choice per source, resolution
          catalog,    \* the sources a preview found to offer the skill
          preview,    \* composePreview, with the specification it is about
          flags,      \* stale, pending, successful, acknowledged; composing: an
                      \* input method is at work and nothing is drawn again
          revision,   \* composePreviewRevision
          lastAsked,  \* composePreviewRequest
          asked       \* previews the server has yet to answer

formVars == <<form, catalog, preview, flags, revision, lastAsked, asked>>

Resolutions == {"none", "rename"} \cup Source

Form == [profile: BOOLEAN, from: [Source -> BOOLEAN],
         pick: [Source -> {"all", "skill"}], resolution: Resolutions]

NoPreview == [known |-> FALSE, of |-> form, ok |-> FALSE, unlicensed |-> FALSE]

FormTypeOK ==
    /\ form \in Form
    /\ catalog \subseteq Source
    /\ preview \in [known: BOOLEAN, of: Form, ok: BOOLEAN, unlicensed: BOOLEAN]
    /\ flags \in [stale: BOOLEAN, pending: BOOLEAN, successful: BOOLEAN,
                  acknowledged: BOOLEAN, composing: BOOLEAN]
    /\ revision \in 0 .. MaxEdits
    /\ lastAsked \in 0 .. MaxPreviews
    /\ asked \subseteq [of: Form, revision: 0 .. MaxEdits, id: 1 .. MaxPreviews]

FormInit ==
    /\ form = [profile |-> FALSE, from |-> [s \in Source |-> FALSE],
               pick |-> [s \in Source |-> "all"], resolution |-> "none"]
    /\ catalog = {}
    /\ preview = NoPreview
    /\ flags = [stale |-> FALSE, pending |-> FALSE, successful |-> FALSE,
                acknowledged |-> FALSE, composing |-> FALSE]
    /\ revision = 0
    /\ lastAsked = 0
    /\ asked = {}

(***************************************************************************)
(* Edits.  Each one makes the preview on screen, and the one under way,    *)
(* worthless.                                                              *)
(***************************************************************************)
Invalidate ==
    /\ revision < MaxEdits
    /\ revision' = revision + 1
    /\ preview' = [NoPreview EXCEPT !.of = form']
    /\ flags' = [flags EXCEPT !.stale = flags.successful, !.acknowledged = FALSE]
    /\ UNCHANGED <<lastAsked, asked>>

EditProfile ==
    /\ form' = [form EXCEPT !.profile = ~@]
    /\ UNCHANGED catalog
    /\ Invalidate

\* Another address, as adding and removing a source are: what was found at the
\* old one is forgotten.
EditAddress(s) ==
    /\ form' = [form EXCEPT !.from[s] = ~@, !.pick[s] = "all", !.resolution = "none"]
    /\ catalog' = {}
    /\ Invalidate

\* A tick box is drawn for a skill of the catalogue only.
Pick(s) ==
    /\ s \in catalog
    /\ form' = [form EXCEPT !.pick[s] = IF @ = "all" THEN "skill" ELSE "all",
                            !.resolution = "none"]
    /\ UNCHANGED catalog
    /\ Invalidate

Clashes(f, found) == \A s \in Source : f.pick[s] = "skill" /\ s \in found

Resolve(choice) ==
    /\ Clashes(form, catalog)
    /\ choice \in Resolutions \ {"none", form.resolution}
    /\ form' = [form EXCEPT !.resolution = choice]
    /\ UNCHANGED catalog
    /\ Invalidate

Compose(starts) ==
    /\ flags.composing # starts
    /\ flags' = [flags EXCEPT !.composing = starts]
    /\ UNCHANGED <<form, catalog, preview, revision, lastAsked, asked>>

(***************************************************************************)
(* Previews.                                                               *)
(***************************************************************************)
\* The button is greyed out while an answer is awaited, if it was drawn since.
AskPreview ==
    /\ ~flags.pending \/ flags.composing
    /\ lastAsked < MaxPreviews
    /\ lastAsked' = lastAsked + 1
    /\ asked' = asked \cup {[of |-> form, revision |-> revision, id |-> lastAsked + 1]}
    /\ flags' = [flags EXCEPT !.pending = TRUE]
    /\ UNCHANGED <<form, catalog, preview, revision>>

\* What the server makes of a specification while the sources in offered have
\* the skill: a wanted skill must be there, and two of one id need a resolution.
Composes(f, offered) ==
    /\ \A s \in Source : f.pick[s] = "skill" => s \in offered
    /\ offered = Source => f.resolution # "none"
    /\ Cardinality(offered) = 1 => f.resolution \in {"none", "rename"} \cup offered

\* Mutant of IsCurrent: only a later request makes an answer outdated.
IsCurrentById(p) == p.id = lastAsked

IsCurrent(p) == p.revision = revision /\ p.id = lastAsked

\* An answer arrives; whether it counts or not, none is awaited any longer.
AnswerPreview(p, offered, unlicensed, lost) ==
    LET ok == ~lost /\ Composes(p.of, offered)
        found == IF ok THEN offered ELSE {}
        needs == ok /\ unlicensed
    IN /\ p \in asked
       /\ asked' = asked \ {p}
       /\ IF IsCurrent(p)
          THEN /\ preview' = [known |-> TRUE, of |-> p.of, ok |-> ok, unlicensed |-> needs]
               /\ catalog' = found
               /\ form' = [form EXCEPT !.resolution =
                                IF Clashes(form, found) THEN @ ELSE "none"]
               /\ flags' = [flags EXCEPT !.pending = FALSE, !.stale = FALSE,
                                         !.successful = ok,
                                         !.acknowledged = @ /\ needs]
          ELSE /\ flags' = [flags EXCEPT !.pending = FALSE]
               /\ UNCHANGED <<preview, catalog, form>>
       /\ UNCHANGED <<revision, lastAsked>>

Acknowledge(yes) ==
    /\ preview.known /\ preview.unlicensed
    /\ flags.acknowledged # yes
    /\ flags' = [flags EXCEPT !.acknowledged = yes]
    /\ UNCHANGED <<form, catalog, preview, revision, lastAsked, asked>>

(***************************************************************************)
(* composeInstallReady: what a click on the install button needs.  Its     *)
(* reason 'unresolvedConflicts' never comes up beside the others: the      *)
(* conflicts of a preview are its errors E_COMPOSE_CONFLICT, and with an   *)
(* error the preview is no success.                                        *)
(***************************************************************************)
InstallReady ==
    /\ ~flags.pending
    /\ ~flags.stale
    /\ flags.successful /\ preview.known /\ preview.ok
    /\ preview.unlicensed => flags.acknowledged

EditForm ==
    \/ EditProfile
    \/ \E s \in Source : EditAddress(s) \/ Pick(s)
    \/ \E choice \in Resolutions : Resolve(choice)

NextForm ==
    \/ EditForm
    \/ \E starts \in BOOLEAN : Compose(starts)
    \/ AskPreview
    \/ \E p \in asked, offered \in SUBSET Source, unlicensed, lost \in BOOLEAN :
          AnswerPreview(p, offered, unlicensed, lost)
    \/ \E yes \in BOOLEAN : Acknowledge(yes)
=============================================================================
