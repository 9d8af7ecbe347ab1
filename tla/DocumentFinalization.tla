------------------------- MODULE DocumentFinalization -------------------------
(***************************************************************************)
(* How a document agent has a document written and hands it over: the      *)
(* outline the model is asked for up to three times and that is repaired   *)
(* without it (sectioned_authoring.py, document_outline_recovery.py), the  *)
(* run of the author under a deadline, whose events go to the client, and  *)
(* the manifest that names the accepted sections to the platform           *)
(* (document_finalization.py, document_final.py).  What the author does    *)
(* with a section is SectionedAuthoring's.                                 *)
(***************************************************************************)
EXTENDS Integers, Sequences, FiniteSets, SequencesExt

CONSTANTS
  Jobs,             \* how the agent asks: a set of Job
  MinSections,      \* min_outline_sections
  MaxSections,      \* max_outline_sections
  Criteria,         \* number of explicit acceptance criteria
  SectionIds,       \* the ids of the sections the model proposes
  CanonicalIds,     \* of canonical_section_titles, in order
  MaxProposed,      \* bound: sections the model proposes at a time
  MaxFinalizations  \* bound: runs of one document

Job == [streamed : BOOLEAN, sink : BOOLEAN, fixed : BOOLEAN, deadline : BOOLEAN]

\* the contract asks for a section at least and can be met, and the titles of a fixed
\* shape have different ids: the code takes this from the skill's contract
ASSUME FinalizationAssumption ==
  /\ Jobs \subseteq Job
  /\ MinSections \in Nat \ {0} /\ MaxSections \in Nat /\ MinSections <= MaxSections
  /\ Criteria \in Nat /\ MaxProposed \in Nat
  /\ CanonicalIds \in Seq(Range(CanonicalIds)) /\ CanonicalIds # <<>>
  /\ \A m, n \in DOMAIN CanonicalIds : CanonicalIds[m] = CanonicalIds[n] => m = n

VARIABLES
  job,      \* it never changes
  outline,  \* the sections planned so far: [id, covers]
  attempt,  \* calls for the outline
  repaired, \* history: the outline was completed without the model
  author,   \* the task of author.author
  written,  \* accepted sections, the first ones of the outline
  pending,  \* sectioned_events
  taken,    \* events handed to the client
  host,     \* the agent that waits for the author
  verdict,  \* how the host's run ended
  stored,   \* the checkpoint: [outline, repaired, written]
  begun     \* runs so far

finalVars ==
  <<job, outline, attempt, repaired, author, written, pending, taken, host, verdict, stored, begun>>

NothingStored == [outline |-> <<>>, repaired |-> FALSE, written |-> 0]
Working == {"outline", "outlined", "writing"}

FinalizationInit ==
  /\ job \in Jobs
  /\ outline = <<>> /\ attempt = 0 /\ repaired = FALSE
  /\ author = "idle" /\ written = 0 /\ pending = <<>> /\ taken = 0
  /\ host = "start" /\ verdict = "none" /\ stored = NothingStored /\ begun = 1

-----------------------------------------------------------------------------
(* The outline.  A section covers the criteria whose ids its plan repeats.  *)

Planned(id, covers) == [id |-> id, covers |-> covers]
Fragment  == <<"fragment", 0>> \* too short a title, objective or point
OutlineProposals == SeqOf({Planned(id, c) : id \in SectionIds, c \in SUBSET (1 .. Criteria)} \cup {Planned(Fragment, {})},
                   MaxProposed)

\* the id of the n-th section that is made up
FallbackId(n) == <<"fallback", n>>

\* one fragment has the whole answer rejected
Parsed(proposal) == IF \E n \in DOMAIN proposal : proposal[n].id = Fragment THEN <<>> ELSE proposal

\* a section with an id that is known takes that section's place
Taken(known, p) ==
  IF \E n \in DOMAIN known : known[n].id = p.id
  THEN [n \in DOMAIN known |-> IF known[n].id = p.id THEN p ELSE known[n]]
  ELSE IF Len(known) < MaxSections THEN Append(known, p) ELSE known

Merged(plans, candidate) ==
  LET upTo[n \in 0 .. Len(candidate)] == IF n = 0 THEN plans ELSE Taken(upTo[n - 1], candidate[n])
  IN upTo[Len(candidate)]

Covered(plans) == UNION {plans[n].covers : n \in DOMAIN plans}
Complete(plans) == Len(plans) >= MinSections /\ Covered(plans) = 1 .. Criteria

\* [mutant] only the number of sections is repaired
Repaired_NoCriteria(plans) ==
  plans \o [n \in 1 .. (IF Len(plans) < MinSections THEN MinSections - Len(plans) ELSE 0) |->
              Planned(FallbackId(Len(plans) + n), {})]

\* sections are made up to the minimum, and what no section covers is given to one
Repaired(plans) ==
  LET missing == IF Len(plans) < MinSections THEN MinSections - Len(plans) ELSE 0
      filled  == plans \o [n \in 1 .. missing |-> Planned(FallbackId(Len(plans) + n), {})]
      owner(c) == ((c - 1) % Len(filled)) + 1
  IN [n \in DOMAIN filled |->
        [filled[n] EXCEPT !.covers = @ \cup {c \in 1 .. Criteria \ Covered(filled) : owner(c) = n}]]

CanonicalOutline == [n \in DOMAIN CanonicalIds |-> Planned(CanonicalIds[n], {})]

-----------------------------------------------------------------------------
(* The author.  It is cancelled at an await, and its last step is to put    *)
(* the mark that it is done.                                                *)

\* a host that is late tells the client so before it cancels the author
Works(pc) == author = pc /\ host \in {"reading", "late"}

AuthorEnds(how) ==
  /\ author' = how
  /\ pending' = IF job.streamed THEN Append(pending, "done") ELSE pending

TakeCanonical ==
  /\ Works("outline") /\ job.fixed
  /\ outline' = CanonicalOutline
  /\ author' = "outlined"
  /\ UNCHANGED <<job, attempt, repaired, written, pending, taken, host, verdict, stored, begun>>

\* an answer, also an empty one, is merged with what earlier ones had
OutlineAnswered ==
  /\ Works("outline") /\ ~job.fixed /\ attempt < 3
  /\ \E proposal \in OutlineProposals : outline' = Merged(outline, Parsed(proposal))
  /\ IF Complete(outline')
     THEN attempt' = 0 /\ author' = "outlined"
     ELSE attempt' = attempt + 1 /\ UNCHANGED author
  /\ UNCHANGED <<job, repaired, written, pending, taken, host, verdict, stored, begun>>

\* a call that fails is tried again if the error may pass
OutlineFails ==
  /\ Works("outline") /\ ~job.fixed /\ attempt < 3
  /\ attempt' = attempt + 1
  /\ \E recoverable \in BOOLEAN :
       IF recoverable THEN UNCHANGED <<author, pending>> ELSE AuthorEnds("raised")
  /\ UNCHANGED <<job, outline, repaired, written, taken, host, verdict, stored, begun>>

RepairOutline ==
  /\ Works("outline") /\ ~job.fixed /\ attempt = 3
  /\ outline' = Repaired(outline)
  /\ repaired' = TRUE
  /\ attempt' = 0
  /\ author' = "outlined"
  /\ UNCHANGED <<job, written, pending, taken, host, verdict, stored, begun>>

Tell(entries) == pending' = IF job.streamed THEN pending \o entries ELSE pending
Save(n) == stored' = IF job.sink THEN [outline |-> outline, repaired |-> repaired, written |-> n] ELSE stored

KeepOutline ==
  /\ Works("outlined")
  /\ Tell(<<"phase">>) /\ Save(0)
  /\ author' = "writing"
  /\ UNCHANGED <<job, outline, attempt, repaired, written, taken, host, verdict, begun>>

WriteSection ==
  /\ Works("writing") /\ written < Len(outline)
  /\ written' = written + 1
  /\ Tell(<<"delta", "phase">>) /\ Save(written')
  /\ UNCHANGED <<job, outline, attempt, repaired, author, taken, host, verdict, begun>>

AuthorReturns ==
  /\ Works("writing") /\ written = Len(outline)
  /\ AuthorEnds("returned")
  /\ UNCHANGED <<job, outline, attempt, repaired, written, taken, host, verdict, stored, begun>>

AuthorRaises ==
  /\ \E pc \in Working : Works(pc)
  /\ AuthorEnds("raised")
  /\ UNCHANGED <<job, outline, attempt, repaired, written, taken, host, verdict, stored, begun>>

AuthorIsCancelled ==
  /\ author \in Working /\ host = "closing"
  /\ AuthorEnds("cancelled")
  /\ UNCHANGED <<job, outline, attempt, repaired, written, taken, host, verdict, stored, begun>>

-----------------------------------------------------------------------------
(* The host: astream_sectioned_document_finalization, or, for a job that is *)
(* not streamed, run_sectioned_document_finalization, which keeps no        *)
(* checkpoint and takes none up.                                            *)

BeginRun ==
  /\ host = "start"
  /\ host' = "reading"
  /\ author' = IF stored.outline = <<>> THEN "outline" ELSE "writing"
  /\ outline' = stored.outline /\ repaired' = stored.repaired /\ written' = stored.written
  /\ UNCHANGED <<job, attempt, pending, taken, verdict, stored, begun>>

\* no skill contract, no model, no platform, or switched off
RefuseRun ==
  /\ host = "start"
  /\ host' = "over" /\ verdict' = "raised"
  /\ UNCHANGED <<job, outline, attempt, repaired, author, written, pending, taken, stored, begun>>

\* the bodies of sections are not told again
Projected(event) == IF event = "delta" THEN 0 ELSE 1

TakeEvent ==
  /\ host = "reading" /\ pending # <<>> /\ Head(pending) # "done"
  /\ pending' = Tail(pending)
  /\ taken' = taken + Projected(Head(pending))
  /\ UNCHANGED <<job, outline, attempt, repaired, author, written, host, verdict, stored, begun>>

\* the mark, or without a stream the author's end: its result, or what it raised
TakeResult ==
  /\ host = "reading"
  /\ IF job.streamed THEN pending # <<>> /\ Head(pending) = "done" ELSE author \notin Working
  /\ host' = "over"
  /\ verdict' = IF author = "returned" THEN "result" ELSE "raised"
  /\ UNCHANGED <<job, outline, attempt, repaired, author, written, pending, taken, stored, begun>>

\* [mutant] the author is not cancelled
Leave_Running(how) ==
  /\ verdict' = how
  /\ host' = "over"
  /\ UNCHANGED <<job, outline, attempt, repaired, author, written, pending, taken, stored, begun>>

\* the finally clause: an author that is not done is cancelled and waited for
Leave(how) ==
  /\ verdict' = how
  /\ host' = IF author \in Working THEN "closing" ELSE "over"
  /\ UNCHANGED <<job, outline, attempt, repaired, author, written, pending, taken, stored, begun>>

\* a streaming host is late if it is late for the next event, whatever is queued
DeadlinePasses ==
  /\ host = "reading" /\ job.deadline
  /\ \/ /\ job.streamed
        /\ host' = "late" /\ verdict' = "deadline"
        /\ UNCHANGED <<job, outline, attempt, repaired, author, written, pending, taken, stored, begun>>
     \/ ~job.streamed /\ author \in Working /\ Leave("deadline")

LateHostCloses == host = "late" /\ Leave("deadline")

ClientLeaves == host \in {"reading", "late"} /\ Leave("left")

HostCloses ==
  /\ host = "closing" /\ author \notin Working
  /\ host' = "over"
  /\ UNCHANGED <<job, outline, attempt, repaired, author, written, pending, taken, verdict, stored, begun>>

-----------------------------------------------------------------------------
(* The deliverable.                                                         *)

DistinctIds(plans) == \A m, n \in DOMAIN plans : plans[m].id = plans[n].id => m = n

\* build_document_finalization_manifest of the sections that were accepted
Manifest(plans, count) ==
  IF count > 0 /\ DistinctIds(SubSeq(plans, 1, count)) THEN "published" ELSE "refused"

Deliver ==
  /\ host = "over" /\ verdict = "result"
  /\ verdict' = Manifest(outline, written)
  /\ UNCHANGED <<job, outline, attempt, repaired, author, written, pending, taken, host, stored, begun>>

\* the ledger is rebuilt from a checkpoint of a document that is complete
DeliverStored ==
  /\ host = "start" /\ stored.outline # <<>> /\ stored.written = Len(stored.outline)
  /\ host' = "over"
  /\ verdict' = Manifest(stored.outline, stored.written)
  /\ outline' = stored.outline /\ repaired' = stored.repaired /\ written' = stored.written
  /\ UNCHANGED <<job, attempt, author, pending, taken, stored, begun>>

\* the step is run again
Again ==
  /\ host = "over" /\ verdict \notin {"result", "published"} /\ begun < MaxFinalizations
  /\ begun' = begun + 1
  /\ host' = "start" /\ verdict' = "none"
  /\ outline' = <<>> /\ attempt' = 0 /\ repaired' = FALSE
  /\ author' = "idle" /\ written' = 0 /\ pending' = <<>> /\ taken' = 0
  /\ UNCHANGED <<job, stored>>

FinalizationNext ==
  \/ TakeCanonical \/ OutlineAnswered \/ OutlineFails \/ RepairOutline \/ KeepOutline
  \/ WriteSection \/ AuthorReturns \/ AuthorRaises \/ AuthorIsCancelled
  \/ BeginRun \/ RefuseRun \/ TakeEvent \/ TakeResult
  \/ DeadlinePasses \/ LateHostCloses \/ ClientLeaves \/ HostCloses
  \/ Deliver \/ DeliverStored \/ Again

FinalizationSpec == FinalizationInit /\ [][FinalizationNext]_finalVars

-----------------------------------------------------------------------------
FinalizationTypeOK ==
  /\ author \in Working \cup {"idle", "returned", "raised", "cancelled"}
  /\ host \in {"start", "reading", "late", "closing", "over"}
  /\ verdict \in {"none", "raised", "deadline", "left", "result", "published", "refused"}
  /\ Len(outline) <= MaxSections \/ job.fixed
  /\ attempt \in 0 .. 3
  /\ written \in 0 .. Len(outline) /\ stored.written \in 0 .. Len(stored.outline)

(* Whatever the model proposes in three calls, and wherever the work is     *)
(* taken up: the outline that is written is the fixed shape, or has as many *)
(* sections as it may have and covers every criterion; its document is only *)
(* refused if the outline was completed without the model, with a section   *)
(* whose title the model had used in another place.  A document that is     *)
(* published holds all sections of its outline, each once.                  *)
OutlineIsWhole ==
  /\ author \in {"outlined", "writing", "returned"} =>
       /\ IF job.fixed THEN outline = CanonicalOutline
          ELSE Len(outline) \in MinSections .. MaxSections /\ Covered(outline) = 1 .. Criteria
       /\ DistinctIds(outline) \/ repaired
  /\ verdict = "refused" =>
       repaired /\ \E m, n \in DOMAIN outline : m # n /\ outline[m].id = outline[n].id
                                                /\ outline[n].id = FallbackId(n)
  /\ verdict = "published" => written = Len(outline) /\ DistinctIds(outline)

(* Whether the client leaves, the deadline passes or the author raises: a   *)
(* run is not over before its author has ended, and it has a result only if *)
(* the author has returned and the client was handed every event before it. *)
RunEndsWithItsAuthor ==
  /\ host \in {"start", "over"} => author \notin Working
  /\ verdict = "result" =>
       /\ author = "returned" /\ written = Len(outline)
       /\ job.streamed => pending = <<"done">>
=============================================================================
