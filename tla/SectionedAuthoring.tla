------------------------- MODULE SectionedAuthoring -------------------------
(***************************************************************************)
(* SectionedLongformAuthor.author of sectioned_authoring.py: a document is *)
(* written section by section, every piece is made durable and then named  *)
(* in a checkpoint, and a run that is cancelled, times out or raises is    *)
(* taken up by another from the last checkpoint.                           *)
(*                                                                         *)
(* Every section is one planned part (build_authoring_execution_plan), a   *)
(* part is never repartitioned (author_planned_section allows one plan     *)
(* revision, and the first rejection is the second) and a section gets no  *)
(* recovery round (_max_section_revision_rounds is 0), so none of these    *)
(* loops is here.  Each await of the code ends a step.                     *)
(*                                                                         *)
(* Prose is the number of information units it has, whether its Markdown   *)
(* is structurally sound, and whether the provider cut it off.  All        *)
(* sections ask for the same number of units.                              *)
(***************************************************************************)
EXTENDS Integers, Sequences, FiniteSets

CONSTANTS
  Sections,         \* number of sections of the outline
  MinWords,         \* min_words of every section
  Overhead,         \* information units of a section's heading
  Texts,            \* what the model may write
  MaxCompressions,  \* max_part_compressions
  MaxEmptyRetries,  \* max_empty_part_retries
  Controls,         \* execution controls a host may resume with
  DeferFinal,       \* defer_final_artifact
  MaxRuns,          \* bound: calls of author
  MaxVaried         \* bound: of these, the first ones with any text and any control

Text == [units : Nat, sound : BOOLEAN, cut : BOOLEAN]

ASSUME AuthoringAssumption ==
  /\ Sections \in Nat \ {0} /\ MinWords \in Nat /\ Overhead \in Nat \ {0}
  /\ Overhead < MinWords
  /\ Texts \subseteq Text
  /\ MaxCompressions \in Nat \ {0} /\ MaxEmptyRetries \in Nat \ {0}
  /\ Controls \subseteq {"shorten", "finish_current"}
  /\ DeferFinal \in BOOLEAN /\ MaxRuns \in Nat /\ MaxVaried \in Nat

VARIABLES
  pc,         \* where author is; "down" between runs
  state,      \* the resume_state it was called with
  drafts,     \* the accepted sections
  degraded,   \* degraded_sections, without the wording
  action,     \* execution_control_action
  last,       \* the last section of remaining_outline
  budget,     \* DocumentInformationBudget
  calls,      \* AuthoringCallBudget
  part,       \* the part being written
  pressure,   \* _last_authoring_context_pressure is not "normal"
  saved,      \* the checkpoint the sink has stored
  artifacts,  \* the artifact store
  runs,       \* how many times author was called
  failure     \* what ended the last run

vars == <<pc, state, drafts, degraded, action, last, budget, calls, part, pressure,
          saved, artifacts, runs, failure>>

-----------------------------------------------------------------------------
(* Artifacts, parts and checkpoints.                                        *)

NoText == [units |-> 0, sound |-> TRUE, cut |-> FALSE]

\* copy tells two artifacts with the same content apart
Artifact == [kind : {"outline", "part", "section", "final"}, section : 0..Sections,
             text : Text, copy : Nat]

Same(kind, s, t) ==
  {a \in artifacts : a.kind = kind /\ a.section = s /\ a.text = t}
Fresh(kind, s, t) ==
  [kind |-> kind, section |-> s, text |-> t,
   copy |-> Cardinality(Same(kind, s, t)) + 1]
NoRef == [kind |-> "outline", section |-> 0, text |-> NoText, copy |-> 0]

\* headed: the text is a rewrite, which has the heading of the section
NoPart == [text |-> NoText, ref |-> NoRef, headed |-> FALSE, empties |-> 0, compressions |-> 0,
           degraded |-> FALSE, reviewed |-> FALSE]

NoCalls == [used |-> 0, reviews |-> 0, compactions |-> 0]
NoBudget == [maximum |-> 0, used |-> 0, pending |-> 0, reserved |-> 0]

\* A checkpoint; part is the ref of the section's accepted part, if it has one.
Checkpoint(phase, ds, listed, count, ref, control) ==
  [phase |-> phase, drafts |-> ds, degraded |-> listed, calls |-> count,
   part |-> ref, action |-> control]

Nothing == Checkpoint("none", <<>>, {}, NoCalls, NoRef, "none")

Current == Len(drafts) + 1

-----------------------------------------------------------------------------
(* DocumentInformationBudget.                                               *)

AtLeast0(n) == IF n > 0 THEN n ELSE 0
AtLeast1(n) == IF n > 1 THEN n ELSE 1
Least(m, n) == IF m < n THEN m ELSE n
Largest(m, n) == IF m > n THEN m ELSE n

SectionUnits(t) == t.units + Overhead

\* the sum of _information_units over the drafts
UnitsOf(ds) ==
  LET sum[i \in 0..Len(ds)] ==
        IF i = 0 THEN 0 ELSE sum[i - 1] + SectionUnits(ds[i].text)
  IN sum[Len(ds)]

\* from_outline, without a requested minimum or maximum
InitialMaximum ==
  Largest(Sections * MinWords, (Sections * MinWords * 135) \div 100 + Sections * 8)

Remaining(b) == AtLeast0(b.maximum - b.used - b.pending)
Allowance(b) == AtLeast0(Remaining(b) - b.reserved)

\* [mutant] nothing is kept for the sections to come.
Begun_NoReserve(b, resumed, later) ==
  [b EXCEPT !.pending = resumed + Overhead, !.reserved = 0]

\* begin_section
Begun(b, resumed, later) ==
  [b EXCEPT !.pending = resumed + Overhead, !.reserved = later * MinWords]

\* accept_part with allow_overflow
Accepted(b, units) ==
  [b EXCEPT !.maximum = @ + AtLeast0(units - Allowance(b)), !.pending = @ + units]

\* commit_section with allow_overflow
Committed(b, units) ==
  [b EXCEPT !.maximum = @ + AtLeast0(units - AtLeast0(@ - b.used - b.reserved)),
            !.used = @ + units, !.pending = 0, !.reserved = 0]

\* A part aims at the section's length and is rewritten beyond 25 % more, or
\* beyond what is left for the section.
PartMaximum == Largest(MinWords + 1, (MinWords * 5 + 3) \div 4)
Limit == Least(PartMaximum, Allowance(budget))
Target == IF MinWords <= Limit THEN MinWords
          ELSE Least(MinWords, AtLeast1((Limit * 8) \div 10))

-----------------------------------------------------------------------------
(* AuthoringCallBudget, with the limits of build_authoring_execution_plan.  *)

ReviewLimit == Sections
CompactionLimit == AtLeast1(Sections \div 2)
TotalLimit ==
  Sections * (1 + MaxCompressions + MaxEmptyRetries) + Sections + CompactionLimit

CanCall == calls.used < TotalLimit
CanReview_TotalOnly == CanCall   \* [mutant] reviews have no limit of their own
CanReview == CanCall /\ calls.reviews < ReviewLimit
CanCompact == CanCall /\ calls.compactions < CompactionLimit

DraftCall == [calls EXCEPT !.used = @ + 1]
ReviewCall == [calls EXCEPT !.used = @ + 1, !.reviews = @ + 1]
CompactionCall == [calls EXCEPT !.used = @ + 1, !.compactions = @ + 1]

-----------------------------------------------------------------------------
Document == <<drafts, degraded, action, last>>
Durable  == <<saved, artifacts>>

\* What a process forgets when it ends.
Forgotten ==
  /\ state' = Nothing
  /\ drafts' = <<>> /\ degraded' = {} /\ action' = "none" /\ last' = 0
  /\ budget' = NoBudget /\ calls' = NoCalls /\ part' = NoPart /\ pressure' = FALSE

\* author raises
Raise(reason) ==
  /\ pc' = "down" /\ failure' = reason
  /\ Forgotten
  /\ UNCHANGED <<Durable, runs>>

Init ==
  /\ pc = "down" /\ failure = "none" /\ runs = 0
  /\ state = Nothing /\ drafts = <<>> /\ degraded = {} /\ action = "none" /\ last = 0
  /\ budget = NoBudget /\ calls = NoCalls /\ part = NoPart /\ pressure = FALSE
  /\ saved = Nothing /\ artifacts = {}

-----------------------------------------------------------------------------
(* The start of a run: an outline, or what a checkpoint holds.              *)

\* The host calls author, with the stored checkpoint and, now and then, an
\* execution control of its own.
Start ==
  /\ pc = "down" /\ runs < MaxRuns
  /\ runs' = runs + 1
  /\ failure' = "none"
  /\ \E control \in {saved.action} \cup Controls :
       /\ control = saved.action \/ runs < MaxVaried
       /\ state' = [saved EXCEPT !.action = control]
  /\ calls' = saved.calls
  /\ IF saved = Nothing THEN pc' = "outline" ELSE pc' = "resume"
  /\ UNCHANGED <<Document, budget, part, pressure, Durable>>

\* _build_outline and _record_outline
RecordOutline ==
  /\ pc = "outline"
  /\ artifacts' = artifacts \cup {Fresh("outline", 0, NoText)}
  /\ pc' = "outlined"
  /\ UNCHANGED <<state, Document, budget, calls, part, pressure, saved, runs, failure>>

CheckpointOutline ==
  /\ pc = "outlined"
  /\ saved' = Checkpoint("draft_sections", <<>>, {}, NoCalls, NoRef, "none")
  /\ pc' = "readmit"
  /\ UNCHANGED <<state, Document, budget, calls, part, pressure, artifacts, runs, failure>>

\* _read_resume_artifact_text
Readable(d) == d.ref \in artifacts

\* _resume_drafts_from_state reads every section the checkpoint names.
ReadDrafts ==
  /\ pc = "resume"
  /\ IF \A i \in DOMAIN state.drafts : Readable(state.drafts[i])
     THEN /\ pc' = "readmit"
          /\ UNCHANGED <<state, Document, budget, calls, part, pressure, Durable,
                         runs, failure>>
     ELSE Raise("sectioned_resume_artifact_unavailable")

\* review_section_completeness, if it is asked for: every point is covered, or some is not
\* or nobody can tell
Verdicts(asked) == IF asked THEN BOOLEAN ELSE {FALSE}

\* the mechanical checks of _revalidate_resumed_drafts
Readmissible(d) == d.text.sound /\ SectionUnits(d.text) >= MinWords

\* One turn of the loop of _revalidate_resumed_drafts, for a draft that stays.
Readmit ==
  /\ pc = "readmit"
  /\ Current <= Len(state.drafts)
  /\ LET d == state.drafts[Current] IN
       /\ Readmissible(d)
       /\ \/ /\ d.reviewed
             /\ drafts' = Append(drafts, d) /\ UNCHANGED calls
          \/ /\ ~d.reviewed /\ ~CanReview
             /\ drafts' = Append(drafts, [d EXCEPT !.degraded = TRUE])
             /\ UNCHANGED calls
          \/ /\ ~d.reviewed /\ CanReview
             /\ calls' = ReviewCall
             /\ \E complete \in Verdicts(TRUE) :
                  drafts' = Append(drafts, [d EXCEPT !.reviewed = complete,
                                                     !.degraded = @ \/ ~complete])
  /\ UNCHANGED <<pc, state, degraded, action, last, budget, part, pressure, Durable,
                 runs, failure>>

\* A section is listed once, when it is left out.
LeftOut(from, why) ==
  {[section |-> s, why |-> why] :
     s \in {n \in from..Sections : \A e \in state.degraded : e.section # n}}

\* What is left of the outline, after the first draft that does not stay and
\* under the control the host asked for.
Plan ==
  /\ pc = "readmit"
  /\ \A i \in DOMAIN state.drafts : i = Current => ~Readmissible(state.drafts[i])
  /\ IF state.action = "finish_current" /\ drafts = <<>>
     THEN Raise("document_finish_current_unavailable")
     ELSE /\ budget' = [NoBudget EXCEPT !.maximum = InitialMaximum, !.used = UnitsOf(drafts)]
          /\ action' = state.action
          /\ \/ /\ state.action = "finish_current"
                /\ last' = Len(drafts)
                /\ degraded' = state.degraded \cup LeftOut(Current, "finish_current")
             \/ /\ state.action = "shorten" /\ Current < Sections
                /\ last' = Current
                /\ degraded' = state.degraded \cup LeftOut(Current + 1, "shortened")
             \/ /\ state.action # "finish_current"
                /\ state.action = "shorten" => Current >= Sections
                /\ last' = Sections
                /\ degraded' = state.degraded
          /\ pc' = IF last' > Len(drafts) THEN "section" ELSE "assemble"
          /\ UNCHANGED <<state, drafts, calls, part, pressure, Durable, runs, failure>>

-----------------------------------------------------------------------------
(* One section: its part is drafted, made durable and checkpointed.         *)

ResumedPart_None(s) == {}   \* [mutant] the checkpoint's part is not taken up

\* resumed_parts_from_checkpoint: the part of section s the checkpoint names
ResumedPart(s) ==
  {a \in artifacts : a = state.part /\ a.kind = "part" /\ a.section = s}

BeginSection ==
  /\ pc = "section"
  /\ IF ResumedPart(Current) = {}
     THEN /\ budget' = Begun(budget, 0, Sections - Current)
          /\ part' = NoPart
          /\ pc' = "draft"
     ELSE \E a \in ResumedPart(Current) :
            /\ budget' = Begun(budget, a.text.units, Sections - Current)
            /\ part' = [NoPart EXCEPT !.text = a.text, !.ref = a]
            /\ pc' = "review"
  /\ UNCHANGED <<state, Document, calls, pressure, Durable, runs, failure>>

\* What the model may write: in the runs after MaxVaried, what it was asked for.
Writable ==
  {t \in Texts : runs <= MaxVaried \/ (t.units = MinWords /\ t.sound /\ ~t.cut)}

\* A call of the model, for a draft or a rewrite of one: one of parts is what
\* it makes of the part.
Call(parts, pressures) ==
  IF ~CanCall THEN Raise("document_authoring_call_budget_exceeded: total")
  ELSE /\ calls' = DraftCall
       /\ part' \in parts
       /\ pressure' \in pressures
       /\ pc' = "drafted"
       /\ UNCHANGED <<state, Document, budget, Durable, runs, failure>>

\* the first call of _draft_section
Draft ==
  /\ pc = "draft"
  /\ IF Limit <= 0
     THEN Raise("document_information_budget_exceeded:no_part_allowance")
     ELSE Call({[part EXCEPT !.text = t] : t \in Writable}, BOOLEAN)

\* information units as the loop below counts them
CountedUnits(p) == IF p.headed THEN SectionUnits(p.text) ELSE p.text.units

Rewritable ==
  /\ part.text.cut \/ CountedUnits(part) > Limit
  /\ part.compressions < MaxCompressions

\* its loop on an empty answer; accept_part rejects the last one, and a draft or a rewrite
\* that is a heading and nothing else
RetryEmpty ==
  /\ pc = "drafted" /\ part.text.units = 0
  /\ part.headed => ~Rewritable
  /\ \/ Raise("document_planned_part_rejected")
     \/ /\ ~part.headed /\ part.empties < MaxEmptyRetries
        /\ Call({[part EXCEPT !.text = t, !.empties = @ + 1] : t \in Writable}, {pressure})

\* Whether a rewrite t, with its heading, takes the place of the draft; the last one
\* does whatever it is.
Keeps(t) ==
  LET units == SectionUnits(t) IN
  \/ Target <= units /\ units <= Limit
  \/ CountedUnits(part) > Limit /\ units >= Target /\ units < CountedUnits(part)
  \/ CountedUnits(part) < Target /\ units > CountedUnits(part)
  \/ part.compressions + 1 = MaxCompressions

\* its loop on an overlong or truncated answer
Compress ==
  /\ pc = "drafted" /\ (part.text.units > 0 \/ part.headed)
  /\ Rewritable
  /\ Call({[part EXCEPT !.text = IF Keeps(t) THEN t ELSE @, !.headed = @ \/ Keeps(t),
                        !.compressions = @ + 1] : t \in Writable}, {pressure})

\* What persist finds in the index of parts, by identity and digest.
PersistedPart(s, t) == Same("part", s, t)

\* accept_part, and persist of author_planned_section.  The heading is dropped
\* again, and a text that is still cut off after the last rewrite is taken as it is.
PersistPart ==
  /\ pc = "drafted" /\ part.text.units > 0
  /\ ~Rewritable
  /\ LET t     == [part.text EXCEPT !.cut = FALSE]
         found == PersistedPart(Current, t)
     IN /\ budget' = Accepted(budget, t.units)
        /\ \/ /\ found # {}
              /\ \E a \in found : part' = [part EXCEPT !.text = t, !.ref = a, !.headed = FALSE]
              /\ UNCHANGED artifacts
           \/ /\ found = {}
              /\ part' = [part EXCEPT !.text = t, !.ref = Fresh("part", Current, t), !.headed = FALSE]
              /\ artifacts' = artifacts \cup {Fresh("part", Current, t)}
  /\ pc' = "persisted"
  /\ UNCHANGED <<state, Document, calls, pressure, saved, runs, failure>>

CheckpointPart ==
  /\ pc = "persisted"
  /\ saved' = Checkpoint("draft_sections", drafts, degraded, calls, part.ref, action)
  /\ pc' = "review"
  /\ UNCHANGED <<state, Document, budget, calls, part, pressure, artifacts, runs, failure>>

\* _evaluate_section_quality: gap is any finding but one of the review and one of the depth
Passes(t, reviewed, gap) == reviewed /\ ~gap /\ SectionUnits(t) >= MinWords

\* _apply_completeness_review: a section that does not pass is accepted as
\* degraded, and listed.  A text that is not sound is not reviewed, and neither
\* is one for which no review call is left.
Review ==
  /\ pc = "review"
  /\ budget' = Committed(budget, SectionUnits(part.text))
  /\ LET asks == part.text.sound /\ CanReview IN
     /\ calls' = IF asks THEN ReviewCall ELSE calls
     /\ \E reviewed \in Verdicts(asks), gap \in BOOLEAN :
          LET passed == Passes(part.text, reviewed, gap) IN
          /\ part' = [part EXCEPT !.reviewed = reviewed, !.degraded = ~passed]
          /\ degraded' = IF passed THEN degraded
                         ELSE degraded \cup {[section |-> Current, why |-> "gate"]}
  /\ pc' = "record"
  /\ UNCHANGED <<state, drafts, action, last, pressure, Durable, runs, failure>>

\* [mutant] the artifact is not waited for.
RecordSection_NotAwaited ==
  /\ pc = "record"
  /\ drafts' = Append(drafts, [section |-> Current, text |-> part.text,
                               ref |-> Fresh("section", Current, part.text),
                               degraded |-> part.degraded, reviewed |-> part.reviewed])
  /\ part' = NoPart
  /\ pc' = "summary"
  /\ UNCHANGED <<state, degraded, action, last, budget, calls, pressure, Durable, runs, failure>>

\* _record_section
RecordSection ==
  /\ pc = "record"
  /\ LET a == Fresh("section", Current, part.text) IN
       /\ artifacts' = artifacts \cup {a}
       /\ drafts' = Append(drafts, [section |-> Current, text |-> part.text, ref |-> a,
                                    degraded |-> part.degraded,
                                    reviewed |-> part.reviewed])
  /\ part' = NoPart
  /\ pc' = "summary"
  /\ UNCHANGED <<state, degraded, action, last, budget, calls, pressure, saved, runs, failure>>

\* _refresh_authoring_summary
Summarise ==
  /\ pc = "summary"
  /\ IF pressure /\ ~CanCompact
     THEN Raise(IF CanCall THEN "document_authoring_call_budget_exceeded: compaction"
                           ELSE "document_authoring_call_budget_exceeded: total")
     ELSE /\ calls' = IF pressure THEN CompactionCall ELSE calls
          /\ pc' = "checkpoint"
          /\ UNCHANGED <<state, Document, budget, part, pressure, Durable, runs, failure>>

\* [mutant] the payload lacks degraded_sections.
CheckpointSection_NoDegraded ==
  /\ pc = "checkpoint"
  /\ saved' = Checkpoint("draft_sections", drafts, {}, calls, NoRef, action)
  /\ pc' = IF Len(drafts) < last THEN "section" ELSE "assemble"
  /\ UNCHANGED <<state, Document, budget, calls, part, pressure, artifacts, runs, failure>>

CheckpointSection ==
  /\ pc = "checkpoint"
  /\ saved' = Checkpoint("draft_sections", drafts, degraded, calls, NoRef, action)
  /\ pc' = IF Len(drafts) < last THEN "section" ELSE "assemble"
  /\ UNCHANGED <<state, Document, budget, calls, part, pressure, artifacts, runs, failure>>

-----------------------------------------------------------------------------
(* The document.                                                            *)

\* _document_integrity_violation
Whole == \A i \in DOMAIN drafts : drafts[i].text.sound /\ (drafts[i].reviewed \/ drafts[i].degraded)

\* _polish_final, without the optional seam reviews
Assemble ==
  /\ pc = "assemble"
  /\ IF action # "finish_current" /\ ~Whole
     THEN Raise("document_final_integrity_invalid")
     ELSE /\ pc' = "final"
          /\ UNCHANGED <<state, Document, budget, calls, part, pressure, Durable, runs, failure>>

\* _record_final
RecordFinal ==
  /\ pc = "final"
  /\ artifacts' = IF DeferFinal THEN artifacts
                  ELSE artifacts \cup {Fresh("final", 0, NoText)}
  /\ pc' = "finalize"
  /\ UNCHANGED <<state, Document, budget, calls, part, pressure, saved, runs, failure>>

\* This checkpoint carries no call counts.
CheckpointFinal ==
  /\ pc = "finalize"
  /\ saved' = Checkpoint("finalize", drafts, degraded, NoCalls, NoRef, action)
  /\ pc' = "publish"
  /\ UNCHANGED <<state, Document, budget, calls, part, pressure, artifacts, runs, failure>>

\* author returns its result
Publish ==
  /\ pc = "publish"
  /\ pc' = "done"
  /\ UNCHANGED <<state, Document, budget, calls, part, pressure, Durable, runs, failure>>

\* The task is cancelled, its deadline passes, an external call raises.
Crash ==
  /\ pc \notin {"down", "done"}
  /\ Raise("crashed")

Step ==
  \/ RecordOutline \/ CheckpointOutline \/ ReadDrafts \/ Readmit \/ Plan
  \/ BeginSection \/ Draft \/ RetryEmpty \/ Compress \/ PersistPart \/ CheckpointPart
  \/ Review \/ RecordSection \/ Summarise \/ CheckpointSection
  \/ Assemble \/ RecordFinal \/ CheckpointFinal \/ Publish

Next == Start \/ Step \/ Crash

Spec == Init /\ [][Next]_vars

-----------------------------------------------------------------------------
(* What it promises.                                                        *)

AcceptedDraft == [section : 1..Sections, text : Text, ref : Artifact,
           degraded : BOOLEAN, reviewed : BOOLEAN]
Entry  == [section : 1..Sections, why : {"gate", "shortened", "finish_current"}]
Counts == [used : 0..TotalLimit, reviews : 0..ReviewLimit,
           compactions : 0..CompactionLimit]
State  == [phase : {"none", "draft_sections", "finalize"}, drafts : Seq(AcceptedDraft),
           degraded : SUBSET Entry, calls : Counts, part : Artifact,
           action : {"none"} \cup Controls]

\* The types.  Every counter of the call budget stays within its own limit, in
\* memory and in the checkpoint.
TypeOK ==
  /\ pc \in {"down", "outline", "outlined", "resume", "readmit", "section", "draft",
              "drafted", "persisted", "review", "record", "summary", "checkpoint",
              "assemble", "final", "finalize", "publish", "done"}
  /\ state \in State /\ saved \in State
  /\ drafts \in Seq(AcceptedDraft) /\ degraded \subseteq Entry
  /\ action \in {"none"} \cup Controls /\ last \in 0..Sections
  /\ budget \in [maximum : Nat, used : Nat, pending : Nat, reserved : Nat]
  /\ calls \in Counts
  /\ part \in [text : Text, ref : Artifact, headed : BOOLEAN, empties : 0..MaxEmptyRetries,
               compressions : 0..MaxCompressions, degraded : BOOLEAN, reviewed : BOOLEAN]
  /\ pressure \in BOOLEAN
  /\ artifacts \subseteq Artifact
  /\ runs \in 0..MaxRuns

\* The drafts a run can take up: the sections of the outline, in its order and
\* none twice, each with the artifact that holds its text.
Resumable(ds) ==
  \A i \in DOMAIN ds : /\ ds[i].section = i
                       /\ ds[i].ref \in artifacts
                       /\ ds[i].ref.text = ds[i].text

\* Whenever a run ends, the checkpoint it leaves names a prefix of the outline
\* and only artifacts that are in the store (persist, then checkpoint).
CheckpointIsResumable ==
  /\ Resumable(saved.drafts) /\ Resumable(drafts)
  /\ saved.part # NoRef => /\ saved.part \in artifacts
                           /\ saved.part.section = Len(saved.drafts) + 1

\* A reader of the result is told of every gap: a section of the outline that
\* is not in the document, or is in it although it did not pass, is in
\* degraded_sections, however many runs the document took.
GapsAreListed ==
  pc = "done" =>
    \A s \in 1..Sections :
      s \notin DOMAIN drafts \/ drafts[s].degraded => \E e \in degraded : e.section = s

\* No document with broken Markdown is published: with finish_current nothing
\* checks the assembled document, but every section of it was readmitted.
OnlySoundIsPublished ==
  pc \in {"final", "finalize", "publish", "done"} =>
    \A i \in DOMAIN drafts : drafts[i].text.sound

\* A part is stored once, whatever is repeated after a crash.
NoPartTwice ==
  \A a, b \in {c \in artifacts : c.kind = "part"} :
    a.section = b.section /\ a.text = b.text => a = b

\* Every piece of work is in the store when a checkpoint names it, and there
\* once, wherever the runs before were cut off.
WorkIsStoredOnce == CheckpointIsResumable /\ NoPartTwice

\* What is published is sound, and what it lacks is said.
PublishedAsReported == GapsAreListed /\ OnlySoundIsPublished

\* A document written in one go never runs out of information units, whatever
\* the model writes, and no section begins without the calls that it and the
\* ones after it may need for drafts, rewrites and reviews.
AloneNeverOverBudget ==
  runs <= 1 =>
    /\ failure # "document_information_budget_exceeded:no_part_allowance"
    /\ pc = "draft" =>
         calls.used + (Sections - Len(drafts)) * (2 + MaxCompressions + MaxEmptyRetries)
           <= TotalLimit

\* What a checkpoint holds and the next run can use stays in the document: the
\* sections up to the first that is not readmissible, and then the part, unless
\* the host asks to finish with the sections there are.
Kept(old, new) ==
  LET good == {i \in DOMAIN old.drafts : \A j \in 1..i : Readmissible(old.drafts[j])}
  IN /\ \A i \in good : i \in DOMAIN new.drafts /\ new.drafts[i].text = old.drafts[i].text
     /\ good = DOMAIN old.drafts /\ old.part # NoRef /\ new.action # "finish_current" =>
          \/ new.part = old.part
          \/ /\ old.part.section \in DOMAIN new.drafts
             /\ new.drafts[old.part.section].text = old.part.text
SoundWorkIsKept == [][Kept(saved, saved')]_vars

\* What DocumentInformationBudget.accept_part says of its maximum, after it has
\* let a last rewrite exceed it: it is "not a publication gate".
MaximumIsNoGate ==
  failure # "document_information_budget_exceeded:no_part_allowance"

=============================================================================
