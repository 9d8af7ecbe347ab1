---------------------------- MODULE EvidencePack -----------------------------
(***************************************************************************)
(* How the work of earlier steps reaches a later one (artifact_ledger.py): *)
(* ArtifactLedger.create_and_record stores an artifact and then records it *)
(* in the execution workpad, two calls either of which can fail or lose    *)
(* its answer (platform_namespace.py); EvidencePackBuilder.build takes a   *)
(* snapshot of the workpad and reads what its entries, and the upstream    *)
(* results, refer to, within a budget of characters.                       *)
(*                                                                         *)
(* The steps of a workflow write while one of them, the author, builds a   *)
(* pack.  A text is its length in units of characters.                     *)
(***************************************************************************)
EXTENDS Integers, Sequences, FiniteSets, FiniteSetsExt, SequencesExt, Selection

CONSTANTS
  Steps,        \* the steps that write
  Author,       \* the one that builds the pack; its own entries are excluded
  Upstream,     \* the artifacts the upstream results refer to, in order
  Bodies,       \* [summary, content] an artifact can have: lengths
  MaxArtifacts, \* bound: artifacts, those of Upstream included
  MaxEntries,   \* bound: entries of the workpad
  ContextBudget \* [total, item, refs, entries]: max_total_chars, max_item_chars, ...

\* the artifacts of upstream are the first ones; from_mapping takes a positive number for each
\* part of the budget
ASSUME PackAssumption ==
  /\ Author \in Steps
  /\ Upstream \in Seq(Nat) /\ ToSet(Upstream) = 1 .. Cardinality(ToSet(Upstream))
  /\ Bodies \subseteq [summary : Nat, content : Nat]
  /\ ContextBudget \in [total : Nat \ {0}, item : Nat \ {0}, refs : Nat \ {0}, entries : Nat \ {0}]

VARIABLES
  artifacts, \* the platform's artifacts: the body of each
  workpad,   \* the platform's workpad: [step, ref] in the order they were recorded
  writer,    \* of each step: the artifact it is about to record, or NotRecording
  recorded,  \* history: the artifacts that a step other than the author was told are recorded
  pack       \* the EvidencePack under construction

packVars == <<artifacts, workpad, writer, recorded, pack>>

NotRecording == -1
NoRef == 0 \* an artifact whose id the platform did not tell

PackInit ==
  /\ artifacts \in [1 .. Cardinality(ToSet(Upstream)) -> Bodies]
  /\ workpad = <<>>
  /\ writer = [s \in Steps |-> NotRecording]
  /\ recorded = {}
  /\ pack = [phase |-> "none", refs |-> <<>>, items |-> <<>>, warnings |-> {}, empty |-> 0,
             left |-> ContextBudget.total, owed |-> {}]

Writing == pack.phase \in {"none", "resolve"}

-----------------------------------------------------------------------------
(* create_and_record.                                                       *)

\* ArtifactsNamespace.create: what is answered when the platform has stored artifact id; the
\* answer may lack the id, and an answer that is lost is an error
CreateAnswers(id) == {id, NoRef, NotRecording}

\* the author writes its sections before it builds the pack of the next one
CreateArtifact(s) ==
  /\ writer[s] = NotRecording /\ Writing
  /\ s = Author => pack.phase = "none"
  /\ Len(artifacts) < MaxArtifacts
  /\ \E body \in Bodies : artifacts' = Append(artifacts, body)
  /\ \E told \in CreateAnswers(Len(artifacts')) : writer' = [writer EXCEPT ![s] = told]
  /\ UNCHANGED <<workpad, recorded, pack>>

\* WorkpadsNamespace.record_entry: the workpad with the entry of step s
WithEntry(s) == Append(workpad, [step |-> s, ref |-> writer[s]])

\* the author's own artifacts are none of its evidence
NowRecorded(s) == IF s = Author THEN recorded ELSE recorded \cup {writer[s]}

\* [mutant] the artifact is not marked as degraded
RecordFails_Quietly(s) ==
  /\ writer[s] # NotRecording /\ Writing
  /\ \E stored \in BOOLEAN :
       /\ stored => Len(workpad) < MaxEntries
       /\ workpad' = IF stored THEN WithEntry(s) ELSE workpad
  /\ recorded' = NowRecorded(s)
  /\ writer' = [writer EXCEPT ![s] = NotRecording]
  /\ UNCHANGED <<artifacts, pack>>

\* the record is refused, or its answer is lost: the artifact is marked as degraded
RecordFails(s) ==
  /\ writer[s] # NotRecording /\ Writing
  /\ \E stored \in BOOLEAN :
       /\ stored => Len(workpad) < MaxEntries
       /\ workpad' = IF stored THEN WithEntry(s) ELSE workpad
  /\ writer' = [writer EXCEPT ![s] = NotRecording]
  /\ UNCHANGED <<artifacts, recorded, pack>>

RecordEntry(s) ==
  /\ writer[s] # NotRecording /\ Writing /\ Len(workpad) < MaxEntries
  /\ workpad' = WithEntry(s)
  /\ recorded' = NowRecorded(s)
  /\ writer' = [writer EXCEPT ![s] = NotRecording]
  /\ UNCHANGED <<artifacts, pack>>

\* the process of a step dies between the two calls
StepDies(s) ==
  /\ writer[s] # NotRecording /\ Writing
  /\ writer' = [writer EXCEPT ![s] = NotRecording]
  /\ UNCHANGED <<artifacts, workpad, recorded, pack>>

-----------------------------------------------------------------------------
(* build.                                                                   *)

\* what the platform's snapshot holds: the latest entries
Snapshot == SubSeq(workpad, Len(workpad) - Min({Len(workpad), ContextBudget.entries}) + 1, Len(workpad))

\* _dedupe_refs: the first reference of each artifact
Deduped(refs) ==
  Chosen(refs, {n \in DOMAIN refs : refs[n] # NoRef /\ \A m \in 1 .. n - 1 : refs[m] # refs[n]})

RefsOf(entries) ==
  LET others == Chosen(entries, {n \in DOMAIN entries : entries[n].step # Author}) IN
  [n \in DOMAIN others |-> others[n].ref]

FoundRefs(refs) == SubSeq(Deduped(refs), 1, Min({Len(Deduped(refs)), ContextBudget.refs}))

StartPack(refs, warnings, owed) ==
  pack' = [pack EXCEPT !.phase = "resolve", !.refs = FoundRefs(refs), !.warnings = warnings, !.owed = owed]

\* what the pack owes its reader: all that is recorded, unless the workpad is longer than
\* the snapshot, or more is referred to than the budget allows
Owed(refs, entries) ==
  IF Len(entries) < Len(workpad) \/ Len(Deduped(refs)) > ContextBudget.refs THEN {}
  ELSE (recorded \ {NoRef}) \cup ToSet(Upstream)

TakeSnapshot ==
  /\ pack.phase = "none"
  /\ writer[Author] = NotRecording
  /\ \/ LET refs == RefsOf(Snapshot) \o Upstream IN StartPack(refs, {}, Owed(refs, Snapshot))
     \/ StartPack(Upstream, {"workpad_snapshot_unavailable"}, {})
  /\ UNCHANGED <<artifacts, workpad, writer, recorded>>

\* _resolve_ref: the summary, the excerpt a query finds, or else the first chunk, each
\* unless the platform fails
Resolved(ref, maximum) ==
  LET body == artifacts[ref]
      lengths(n) == {0, Min({n, maximum})} IN
  [id : {ref}, summary : lengths(body.summary), content : lengths(body.content)]

Chars(item) == IF item.content # 0 THEN item.content ELSE item.summary

ResolveRef ==
  /\ pack.phase = "resolve" /\ pack.refs # <<>> /\ pack.left > 0
  /\ \E item \in Resolved(Head(pack.refs), Min({ContextBudget.item, pack.left})) :
       pack' = IF Chars(item) = 0
               THEN [pack EXCEPT !.refs = Tail(@), !.empty = @ + 1]
               ELSE [pack EXCEPT !.refs = Tail(@), !.items = Append(@, item), !.left = @ - Chars(item)]
  /\ UNCHANGED <<artifacts, workpad, writer, recorded>>

Finished(warnings) ==
  pack' = [pack EXCEPT !.phase = "built",
                       !.warnings = @ \cup warnings
                         \cup IF pack.empty > 0 THEN {"empty_evidence_ignored"} ELSE {}]

FinishPack ==
  /\ pack.phase = "resolve"
  /\ \/ pack.refs = <<>> /\ Finished({})
     \/ pack.refs # <<>> /\ pack.left <= 0 /\ Finished({"evidence_pack_budget_exhausted"})
  /\ UNCHANGED <<artifacts, workpad, writer, recorded>>

PackNext ==
  \/ \E s \in Steps : CreateArtifact(s) \/ RecordFails(s) \/ RecordEntry(s) \/ StepDies(s)
  \/ TakeSnapshot \/ ResolveRef \/ FinishPack

PackSpec == PackInit /\ [][PackNext]_packVars

-----------------------------------------------------------------------------
PackTypeOK ==
  /\ \A n \in DOMAIN artifacts : artifacts[n] \in Bodies
  /\ \A n \in DOMAIN workpad : workpad[n].step \in Steps /\ workpad[n].ref \in 0 .. Len(artifacts)
  /\ writer \in [Steps -> {NotRecording} \cup 0 .. Len(artifacts)]
  /\ pack.phase \in {"none", "resolve", "built"}

Total(items) == Sum([n \in DOMAIN items |-> Chars(items[n])])

(* Whatever other steps write meanwhile and whichever calls fail: a pack    *)
(* stays within its budget, holds no artifact twice, none that has nothing  *)
(* to say and none of the author's own; and it holds every artifact whose   *)
(* step was told, before the snapshot, that it is recorded, and every one   *)
(* of upstream, or it says that something is missing.                       *)
PackAccountsForEvidence ==
  pack.phase = "built" =>
    /\ Total(pack.items) <= ContextBudget.total
    /\ \A n \in DOMAIN pack.items :
         LET item == pack.items[n] IN
         /\ Chars(item) \in 1 .. ContextBudget.item
         /\ \A m \in DOMAIN pack.items : pack.items[m].id = item.id => m = n
         /\ \/ Contains(Upstream, item.id)
            \/ \E k \in DOMAIN workpad : workpad[k].ref = item.id /\ workpad[k].step # Author
    /\ \/ pack.owed \subseteq {pack.items[n].id : n \in DOMAIN pack.items}
       \/ pack.warnings # {}
=============================================================================
