---------------------------- MODULE PartExecution -----------------------------
(***************************************************************************)
(* execute_planned_parts (document_part_execution.py) for a section of     *)
(* several planned parts: each part is generated, accepted or rejected,    *)
(* persisted and checkpointed in order; a rejected one has the work that   *)
(* remains split or merged (document_authoring_recovery.py) as often as    *)
(* max_plan_revisions allows; and a run that follows a crash starts from   *)
(* the parts of the last checkpoint (document_section_parts.py).           *)
(*                                                                         *)
(* An objective is the set of quarters of the original parts it asks for,  *)
(* with the form of its text; halving an objective halves the set.  Two    *)
(* texts with one set and one form would take more than three revisions.   *)
(***************************************************************************)
EXTENDS Integers, Sequences, FiniteSets, SequencesExt, Selection

CONSTANTS
  Maxima,           \* max_information_units of the parts of the plan
  MaxPlanRevisions, \* max_plan_revisions
  AllowOverMaximum, \* allow_over_maximum
  Evidence,         \* the evidence a run can find
  MaxRunsOfParts    \* bound: runs of one section, crashed ones included

VARIABLES
  run,        \* [n, phase, evidence]: phase "start", "generate", "persist", "checkpoint", or how it ended
  plan,       \* parts
  revision,
  accepted,   \* the parts accepted so far, those that were resumed first
  cursor,     \* SectionCoverageCursor
  persisted,  \* the artifacts of parts, in the order they were stored
  checkpoint, \* what the last checkpoint holds: accepted_parts, cursor, revision
  damaged     \* an artifact of the checkpoint is gone, or has another digest

partVars == <<run, plan, revision, accepted, cursor, persisted, checkpoint, damaged>>

NoEvidence == "pending"

\* build_authoring_execution_plan makes at least one part, and none with a maximum of zero
ASSUME PartAssumption ==
  /\ Maxima \in Seq(Nat \ {0}) /\ Maxima # <<>>
  /\ MaxPlanRevisions \in Nat \ {0} /\ MaxRunsOfParts \in Nat \ {0}

Quarters(i) == 4 * i - 3 .. 4 * i

\* the plan every run of the section starts from
OriginalPlan ==
  [i \in DOMAIN Maxima |->
     [ordinal |-> i, covers |-> Quarters(i), form |-> "planned", max |-> Maxima[i],
      evidence |-> NoEvidence]]

Section == UNION {Quarters(i) : i \in DOMAIN Maxima}

Covers(parts) == UNION {parts[n].covers : n \in DOMAIN parts}
Sizes(parts)  == [n \in DOMAIN parts |-> parts[n].max]

\* objective_digest and part_identity tell two parts apart by what they are made of
Digest(part)   == <<part.ordinal, part.form, part.covers>>
Identity(part) == <<Digest(part), part.evidence>>
Digests(parts) == [n \in DOMAIN parts |-> Digest(parts[n])]

Dropped(parts, n) == SubSeq(parts, n + 1, Len(parts))

NoCursor == [accepted |-> <<>>, covered |-> <<>>, remaining |-> <<>>, next |-> 1, blocking |-> "", revision |-> 1]
NoCheckpoint == [parts |-> <<>>, cursor |-> NoCursor, revision |-> 0]

PartInit ==
  /\ run = [n |-> 1, phase |-> "start", evidence |-> NoEvidence]
  /\ plan = OriginalPlan /\ revision = 1
  /\ accepted = <<>> /\ cursor = NoCursor
  /\ persisted = <<>> /\ checkpoint = NoCheckpoint /\ damaged = FALSE

-----------------------------------------------------------------------------
(* Resuming.                                                                *)

\* [mutant] the identity is compared, which holds the evidence of the earlier run
Fits_ByIdentity(part) ==
  part.ordinal \in DOMAIN Maxima /\ Identity(OriginalPlan[part.ordinal]) = Identity(part)

\* resumed parts belong to this plan, by ordinal and objective
Fits(part) == part.ordinal \in DOMAIN Maxima /\ Digest(OriginalPlan[part.ordinal]) = Digest(part)

\* one that does not discards them all
Resumed(parts) == IF \E n \in DOMAIN parts : ~Fits(parts[n]) THEN <<>> ELSE parts

CursorAt(parts, rest) ==
  [accepted |-> [n \in DOMAIN parts |-> Identity(parts[n])], covered |-> Digests(parts),
   remaining |-> Digests(rest), next |-> Len(parts) + 1, blocking |-> "", revision |-> 1]

\* a run starts: resumed_parts_from_checkpoint gives up at the first damaged artifact
StartRun ==
  /\ run.phase = "start"
  /\ accepted' = IF damaged THEN <<>> ELSE Resumed(checkpoint.parts)
  /\ plan' = OriginalPlan /\ revision' = 1
  /\ cursor' = CursorAt(accepted', Dropped(plan', Len(accepted')))
  /\ \E e \in Evidence :
       run' = [run EXCEPT !.phase = IF Len(accepted') < Len(plan') THEN "generate" ELSE "done",
                          !.evidence = e]
  /\ UNCHANGED <<persisted, checkpoint, damaged>>

-----------------------------------------------------------------------------
(* Generating.                                                              *)

Index   == Len(accepted) + 1
CurrentPart == [plan[Index] EXCEPT !.evidence = run.evidence] \* with_evidence

Renumbered(parts) == [n \in DOMAIN parts |-> [parts[n] EXCEPT !.ordinal = n]]

Below(set, x) == {y \in set : y < x}
FirstHalf(set) == {x \in set : 2 * Cardinality(Below(set, x)) < Cardinality(set)}

\* repartition_remaining_parts: the failed part becomes two that share its maximum
Repartitioned(parts, i) ==
  LET failed == parts[i]
      first  == [failed EXCEPT !.covers = FirstHalf(@), !.form = "first", !.max = failed.max \div 2]
      second == [failed EXCEPT !.covers = @ \ FirstHalf(@), !.form = "second",
                               !.max = failed.max - failed.max \div 2] IN
  Renumbered(SubSeq(parts, 1, i - 1) \o <<first, second>> \o Dropped(parts, i))

\* coalesce_remaining_parts: what is left becomes one part
Coalesced(parts, i) ==
  LET left == Dropped(parts, i - 1) IN
  Append(SubSeq(parts, 1, i - 1),
         [parts[i] EXCEPT !.covers = Covers(left), !.form = "together", !.max = Sum(Sizes(left))])

\* the model's output is complete, within its maximum, or accepted in spite of it
AcceptedOutput(output) == output = "good" \/ (output = "over" /\ AllowOverMaximum)

GenerateGood ==
  /\ run.phase = "generate"
  /\ run' = [run EXCEPT !.phase = "persist"]
  /\ plan' = [plan EXCEPT ![Index] = CurrentPart]
  /\ UNCHANGED <<revision, accepted, cursor, persisted, checkpoint, damaged>>

\* a rejected part: the plan is revised, or there is no revision left, or nothing to split
GenerateRejected ==
  /\ run.phase = "generate"
  /\ \E issue \in {"truncated", "over", "empty"} :
       LET parts  == [plan EXCEPT ![Index] = CurrentPart]
           merge  == issue = "over" /\ Len(plan) > Index
           stuck  == issue # "empty" /\ ~merge /\ CurrentPart.max <= 2
           revise(new) ==
             /\ plan' = new
             /\ revision' = revision + 1
             /\ cursor' = [cursor EXCEPT !.remaining = Digests(Dropped(new, Index - 1)),
                                         !.blocking = issue, !.revision = revision + 1]
             /\ UNCHANGED run IN
       /\ ~AcceptedOutput(issue)
       /\ CASE revision >= MaxPlanRevisions \/ stuck ->
                 /\ run' = [run EXCEPT !.phase = "exhausted"]
                 /\ UNCHANGED <<plan, revision, cursor>>
            [] revision < MaxPlanRevisions /\ issue = "empty" -> revise(parts)
            [] revision < MaxPlanRevisions /\ merge -> revise(Coalesced(parts, Index))
            [] OTHER -> revise(Repartitioned(parts, Index))
  /\ UNCHANGED <<accepted, persisted, checkpoint, damaged>>

\* the artifact is stored, and cursor.accept takes the part over
StorePart ==
  /\ run.phase = "persist"
  /\ LET part == plan[Index] IN
     /\ persisted' = Append(persisted, Identity(part))
     /\ accepted' = Append(accepted, part)
     /\ cursor' = [accepted |-> Append(cursor.accepted, Identity(part)),
                   covered |-> Append(cursor.covered, Digest(part)),
                   remaining |-> Digests(Dropped(plan, Index)),
                   next |-> part.ordinal + 1, blocking |-> "", revision |-> revision]
  /\ run' = [run EXCEPT !.phase = "checkpoint"]
  /\ UNCHANGED <<plan, revision, checkpoint, damaged>>

Saved == [parts |-> accepted, cursor |-> cursor, revision |-> revision]

SavePart ==
  /\ run.phase = "checkpoint"
  /\ checkpoint' = Saved
  /\ run' = [run EXCEPT !.phase = IF Len(accepted) < Len(plan) THEN "generate" ELSE "done"]
  /\ damaged' = FALSE
  /\ UNCHANGED <<plan, revision, accepted, cursor, persisted>>

\* the process dies, or the section failed and is authored again
RunAgain ==
  /\ run.phase \notin {"start", "done"} /\ run.n < MaxRunsOfParts
  /\ run' = [n |-> run.n + 1, phase |-> "start", evidence |-> NoEvidence]
  /\ plan' = OriginalPlan /\ revision' = 1 /\ accepted' = <<>> /\ cursor' = NoCursor
  /\ UNCHANGED <<persisted, checkpoint, damaged>>

\* between two runs an artifact is lost or changed
DamageArtifact ==
  /\ run.phase = "start" /\ checkpoint.parts # <<>> /\ ~damaged
  /\ damaged' = TRUE
  /\ UNCHANGED <<run, plan, revision, accepted, cursor, persisted, checkpoint>>

PartNext ==
  \/ StartRun \/ GenerateGood \/ GenerateRejected \/ StorePart \/ SavePart
  \/ RunAgain \/ DamageArtifact

PartSpec == PartInit /\ [][PartNext]_partVars

-----------------------------------------------------------------------------
PartTypeOK ==
  /\ run.n \in 1 .. MaxRunsOfParts
  /\ run.phase \in {"start", "generate", "persist", "checkpoint", "done", "exhausted"}
  /\ revision \in 1 .. MaxPlanRevisions
  /\ Len(accepted) <= Len(plan)
  /\ \A n \in DOMAIN plan : plan[n].covers \subseteq Section

(* However often the rest of a section is split and merged, and whatever    *)
(* earlier run its first parts come from: the accepted parts and the rest   *)
(* of the plan ask for the whole section, for nothing twice, in order, and  *)
(* for no more than the section was planned for; and the cursor, also the   *)
(* one that was saved, tells them apart.                                    *)
SectionIsCoveredOnce ==
  run.phase # "start" =>
    LET parts == accepted \o Dropped(plan, Len(accepted)) IN
    /\ Covers(parts) = Section
    /\ \A n, m \in DOMAIN parts : n # m => parts[n].covers \cap parts[m].covers = {}
    /\ \A n \in DOMAIN parts : parts[n].ordinal = n /\ parts[n].max >= 1
    /\ Sum(Sizes(parts)) = Sum(Maxima)
    /\ cursor.covered = Digests(accepted) /\ cursor.next = Len(accepted) + 1
    /\ cursor.remaining = Digests(Dropped(plan, Len(accepted)))
    /\ checkpoint.cursor.covered = Digests(checkpoint.parts)
    /\ run.phase = "done" => Covers(accepted) = Section

(* A run takes over all accepted parts of the checkpoint or none, and none  *)
(* only if their plan had been revised or an artifact was gone; what it     *)
(* takes over was stored, and the cursor names it as it was saved.          *)
ResumeKeepsTheWork ==
  [][run.phase = "start" /\ run'.phase # "start" =>
       /\ \/ accepted' = checkpoint.parts /\ cursor'.accepted = checkpoint.cursor.accepted
          \/ accepted' = <<>> /\ (checkpoint.revision > 1 \/ damaged)
       /\ \A n \in DOMAIN accepted' : Contains(persisted, Identity(accepted'[n]))]_partVars
=============================================================================
