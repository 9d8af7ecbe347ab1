-------------------------- MODULE ResumeCheckpoints ---------------------------
(***************************************************************************)
(* Document agents that go on where an earlier run stopped                 *)
(* (external_checkpoint.py, document_resume.py).  An agent writes a        *)
(* checkpoint at the end of each phase; a run that begins reads one and    *)
(* skips to the end if it is the finished document of this invocation.     *)
(* Two services stand between it and the platform: the one of              *)
(* platform_services.py, and the one of protocol_services.py over the      *)
(* CheckpointsNamespace (platform_namespace.py), whose get has no step_id. *)
(* The invocations of one thread are steps of a workflow, or of another    *)
(* one, or the same step asked for something else.  What a checkpoint says *)
(* of its origin is up to the agent that writes it: it may leave out the   *)
(* step, the workflow, the capability and the input digest.  Services of   *)
(* the older shapes, which put_external_agent_checkpoint falls back to,    *)
(* are not modelled: they are outside the SDK.                             *)
(***************************************************************************)
EXTENDS Integers, Sequences, SequencesExt

CONSTANTS
  Invocations, \* [workflow, step, capability, input]: input is the input digest
  Labels,      \* sets of those fields: what an agent may write of an invocation beside its work
  MaxPuts      \* bound: checkpoints of the thread

VARIABLES
  service, \* "platform" or "protocol"; it never changes
  runs,    \* of each invocation: where its latest run is
  kept,    \* the platform's checkpoints of the thread and owner, in order
  resumed  \* of each invocation: the checkpoint its latest run goes on from, or NoCheckpoint

resumeVars == <<service, runs, kept, resumed>>

NoCheckpoint == 0
Unnamed      == "none"
Phases == {"start", "draft", "finalize", "complete", "failed"}

ResumeInit ==
  /\ service \in {"platform", "protocol"}
  /\ runs = [i \in Invocations |-> "start"]
  /\ kept = <<>>
  /\ resumed = [i \in Invocations |-> NoCheckpoint]

-----------------------------------------------------------------------------
(* Reading: get_matching_document_checkpoint.                               *)

\* what the record says of its origin
Named(record, field) == IF field \in record.names THEN record.of[field] ELSE Unnamed

\* does the service name the step of the invocation to the platform
NamesStep(i) == service = "platform" /\ i.step # Unnamed

\* the platform's latest checkpoint of the thread and owner, and of the step if it is named
Latest(i) ==
  LET fits == {n \in DOMAIN kept : NamesStep(i) => Named(kept[n], "step") = i.step} IN
  IF fits = {} THEN NoCheckpoint ELSE CHOOSE n \in fits : \A m \in fits : m <= n

\* the payload is validated before anything is compared, and the payload of another
\* capability need not be of this one's model
MayNotValidate(i, record) == record.of.capability # i.capability

\* both sides name it, and not the same
Differs(i, record, field) ==
  /\ Unnamed \notin {i[field], Named(record, field)}
  /\ Named(record, field) # i[field]

\* [mutant] the input of the earlier run does not count
Matches_AnyInput(i, record) ==
  \A field \in {"step", "workflow", "capability"} : ~Differs(i, record, field)

\* checkpoint_matches_invocation: a name counts if both sides have one, the digest if the
\* record has one
Matches(i, record) ==
  /\ \A field \in {"step", "workflow", "capability"} : ~Differs(i, record, field)
  /\ Named(record, "input") \in {Unnamed, i.input}

\* the finished document of this invocation
IsCandidate(i, n) == kept[n].phase = "finalize" /\ kept[n].narrative /\ Matches(i, kept[n])

\* the platform does not answer, or has nothing: the work starts anew
StartAfresh(i) ==
  /\ runs' = [runs EXCEPT ![i] = "draft"]
  /\ resumed' = [resumed EXCEPT ![i] = NoCheckpoint]

GetFails(i) ==
  /\ runs[i] = "start"
  /\ StartAfresh(i)
  /\ UNCHANGED <<service, kept>>

GetCheckpoint(i) ==
  /\ runs[i] = "start"
  /\ LET n == Latest(i) IN
     \/ n = NoCheckpoint /\ StartAfresh(i)
     \/ /\ n # NoCheckpoint /\ MayNotValidate(i, kept[n]) \* _validate_payload raises
        /\ runs' = [runs EXCEPT ![i] = "failed"] /\ UNCHANGED resumed
     \/ n # NoCheckpoint /\ ~IsCandidate(i, n) /\ StartAfresh(i)
     \/ /\ n # NoCheckpoint /\ IsCandidate(i, n)
        /\ runs' = [runs EXCEPT ![i] = "complete"]
        /\ resumed' = [resumed EXCEPT ![i] = n]
  /\ UNCHANGED <<service, kept>>

-----------------------------------------------------------------------------
(* Writing: put_external_agent_checkpoint.                                  *)

Record(i, narrative, names) ==
  [of |-> i, phase |-> runs[i], narrative |-> narrative, names |-> names]
PhaseAfter(phase) == IF phase = "draft" THEN "finalize" ELSE "complete"

\* a final document has no narrative if the model gave none
PutCheckpoint(i) ==
  /\ runs[i] \in {"draft", "finalize"} /\ Len(kept) < MaxPuts
  /\ \E narrative \in {TRUE, runs[i] = "draft"}, names \in Labels :
       kept' = Append(kept, Record(i, narrative, names))
  /\ runs' = [runs EXCEPT ![i] = PhaseAfter(@)]
  /\ UNCHANGED <<service, resumed>>

\* the write is not confirmed, stored or not: ExternalAgentCheckpointPutError
PutFails(i) ==
  /\ runs[i] \in {"draft", "finalize"}
  /\ \/ UNCHANGED kept
     \/ /\ Len(kept) < MaxPuts
        /\ \E names \in Labels : kept' = Append(kept, Record(i, TRUE, names))
  /\ runs' = [runs EXCEPT ![i] = "failed"]
  /\ UNCHANGED <<service, resumed>>

\* the process dies, the invocation failed, or the step is run once more
StartAgain(i) ==
  /\ runs[i] # "start"
  /\ runs' = [runs EXCEPT ![i] = "start"]
  /\ UNCHANGED <<service, kept, resumed>>

ResumeNext ==
  \E i \in Invocations :
    GetFails(i) \/ GetCheckpoint(i) \/ PutCheckpoint(i) \/ PutFails(i) \/ StartAgain(i)

ResumeSpec == ResumeInit /\ [][ResumeNext]_resumeVars

-----------------------------------------------------------------------------
ResumeTypeOK ==
  /\ runs \in [Invocations -> Phases]
  /\ resumed \in [Invocations -> 0 .. Len(kept)]
  /\ \A n \in DOMAIN kept :
       kept[n].of \in Invocations /\ kept[n].phase \in {"draft", "finalize"} /\ kept[n].names \in Labels

IsFinished(n) == kept[n].phase = "finalize" /\ kept[n].narrative

\* n is the finished work of the invocation that wrote it, and that was this step,
\* capability and input, and not another workflow
IsWorkOf(n, i) ==
  /\ IsFinished(n)
  /\ kept[n].of.step = i.step /\ kept[n].of.capability = i.capability /\ kept[n].of.input = i.input
  /\ Unnamed \notin {i.workflow, kept[n].of.workflow} => kept[n].of.workflow = i.workflow

\* the checkpoint tells whose it is: it names its step, its capability and its input, and its
\* workflow, and the invocation knows its own step, capability and input
IsSigned(n, i) ==
  /\ {"step", "workflow", "capability", "input"} \subseteq kept[n].names
  /\ Unnamed \notin {i.step, i.capability, i.input, kept[n].of.step, kept[n].of.capability,
                       kept[n].of.input}

(* Whichever invocations share the thread and in whatever order they write, *)
(* fail and begin again: a run goes on only from a finished document, and   *)
(* nothing that document says of its origin, be it the input alone, is      *)
(* another invocation's; so it is the work of this step, capability,        *)
(* workflow and input if its agent signed it.  One that says nothing of     *)
(* itself may be another invocation's.  And a run does go on if its work    *)
(* was the last thing any of them wrote, with its step, and the platform    *)
(* answers.                                                                 *)
ResumesOwnWork ==
  [][\A i \in Invocations :
       /\ resumed'[i] \notin {resumed[i], NoCheckpoint} =>
            LET n == resumed'[i] IN
            /\ IsFinished(n)
            /\ \A field \in kept[n].names \cap {"step", "workflow", "capability", "input"} :
                 Unnamed \notin {i[field], kept[n].of[field]} => kept[n].of[field] = i[field]
            /\ IsSigned(n, i) => IsWorkOf(n, i)
       /\ GetCheckpoint(i) /\ kept # <<>> /\ IsWorkOf(Len(kept), i) /\ "step" \in kept[Len(kept)].names =>
            runs'[i] = "complete" /\ resumed'[i] = Len(kept)]_resumeVars
=============================================================================
