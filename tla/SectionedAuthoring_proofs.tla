---------------------- MODULE SectionedAuthoring_proofs ----------------------
(***************************************************************************)
(* Proofs about SectionedAuthoring, for outlines of any length, any texts, *)
(* limits and controls, and any number of runs: the types and limits, that *)
(* every piece of work is stored once before a checkpoint names it, that   *)
(* what is published is as it is reported, that a document written in one  *)
(* go stays within its budgets, and that a checkpoint never loses work.    *)
(*                                                                         *)
(* The inductive invariant is built in layers, each proved from the ones   *)
(* before it.                                                              *)
(*                                                                         *)
(* Behind them are the proofs about PartExecution, for plans of any        *)
(* length: that the parts of a section cover it, each once, however the    *)
(* plan is revised, and that a run takes up what the last checkpoint holds.*)
(***************************************************************************)
EXTENDS SectionedAuthoring, PartExecution, Selection_proofs, FiniteSetTheorems, SequenceTheorems,
        WellFoundedInduction, TLAPS

-----------------------------------------------------------------------------
(* Where a run is.                                                          *)

Opening      == {"outline", "outlined", "resume"}
InSection    == {"section", "draft", "drafted", "persisted", "review", "record"}
AfterSection == {"summary", "checkpoint"}
Ending       == {"assemble", "final", "finalize", "publish", "done"}
WithOutline  == InSection \cup AfterSection \cup Ending

-----------------------------------------------------------------------------
(* First layer: the types, and that the drafts are sections of the outline. *)

AllResumable ==
  Resumable(saved.drafts) /\ Resumable(state.drafts) /\ Resumable(drafts)

DraftsFit ==
  /\ pc \in Opening \cup {"down"} => drafts = <<>>
  /\ pc = "readmit" => Len(drafts) <= Len(state.drafts)
  /\ pc \in InSection => Len(drafts) < last

Typed == TypeOK /\ IsFiniteSet(artifacts) /\ AllResumable /\ DraftsFit

-----------------------------------------------------------------------------
(* Second layer: the parts that are named are in the store, once.           *)

PartOf(ref, s) == ref \in artifacts /\ ref.kind = "part" /\ ref.section = s

PartsAreInStore ==
  /\ saved.part # NoRef => PartOf(saved.part, Len(saved.drafts) + 1)
  /\ state.part # NoRef => PartOf(state.part, Len(state.drafts) + 1)
  /\ pc \in {"persisted", "review"} =>
       PartOf(part.ref, Current) /\ part.ref.text = part.text

PartsStoredOnce == PartsAreInStore /\ NoPartTwice

-----------------------------------------------------------------------------
(* Third layer: what is degraded is listed, and what is left out.           *)

Listed(s, entries) == \E e \in entries : e.section = s

\* a section that no review passed is degraded, and a degraded one is listed
Accounted(ds, entries) ==
  \A i \in DOMAIN ds : /\ ~ds[i].reviewed => ds[i].degraded
                       /\ ds[i].degraded => Listed(i, entries)

GapsAccounted ==
  /\ Accounted(saved.drafts, saved.degraded) /\ Accounted(state.drafts, state.degraded)
  /\ pc = "readmit" => Accounted(drafts, state.degraded)
  /\ pc \in WithOutline =>
       /\ Accounted(drafts, degraded)
       /\ \A s \in (last + 1)..Sections : Listed(s, degraded)
  /\ pc = "record" => /\ ~part.reviewed => part.degraded
                      /\ part.degraded => Listed(Current, degraded)
  /\ pc \in Ending => last <= Len(drafts)

\* with finish_current a run goes straight to the end, with sound sections
SoundWhenUnchecked ==
  /\ pc = "readmit" => \A i \in DOMAIN drafts : drafts[i].text.sound
  /\ pc \in WithOutline /\ action = "finish_current" =>
       pc \in Ending /\ \A i \in DOMAIN drafts : drafts[i].text.sound

Reported == GapsAccounted /\ SoundWhenUnchecked /\ OnlySoundIsPublished

-----------------------------------------------------------------------------
(* Fourth layer: what the checkpoint holds is in memory, or was found bad.  *)

Good(ds) == {i \in DOMAIN ds : \A j \in 1..i : Readmissible(ds[j])}

\* the checkpoint's part is the next thing a run takes up
PartIsNext == Good(saved.drafts) = DOMAIN saved.drafts /\ saved.part # NoRef

InMemory ==
  /\ pc \in {"outline", "outlined"} => saved = Nothing
  /\ pc \in Opening \cup {"readmit"} =>
       state.drafts = saved.drafts /\ state.part = saved.part
  /\ pc = "readmit" => \A i \in DOMAIN drafts : drafts[i].text = saved.drafts[i].text
  /\ pc \in WithOutline =>
       \A i \in Good(saved.drafts) :
         i \in DOMAIN drafts /\ drafts[i].text = saved.drafts[i].text

PartInMemory ==
  PartIsNext =>
    /\ pc = "section" => saved.part = state.part /\ Len(drafts) = Len(saved.drafts)
    /\ pc \notin {"draft", "drafted", "persisted"}
    /\ pc \in {"review", "record"} =>
         saved.part.text = part.text /\ Len(drafts) = Len(saved.drafts)
    /\ pc \in AfterSection =>
         /\ Len(drafts) = Len(saved.drafts) + 1
         /\ drafts[Len(drafts)].text = saved.part.text
    /\ pc \in Ending => action = "finish_current"

KeptInMemory == InMemory /\ PartInMemory

-----------------------------------------------------------------------------
(* Fifth layer: what the first run has used of its budgets.                 *)

\* what a section may take of the calls for drafts, rewrites and reviews
CallsOfASection == 2 + MaxCompressions + MaxEmptyRetries

\* that the sections so far have taken no more
CallsWithin(more) ==
  calls.used <= Len(drafts) * CallsOfASection + calls.compactions + more

CallsOfFirstRun ==
  /\ pc \in Opening \cup {"readmit"} => calls = NoCalls
  /\ pc \in {"section", "draft"} \cup AfterSection => CallsWithin(0)
  /\ pc = "draft" => part = NoPart
  /\ pc = "drafted" => CallsWithin(1 + part.empties + part.compressions)
  /\ pc \in {"persisted", "review"} => CallsWithin(1 + MaxEmptyRetries + MaxCompressions)
  /\ pc = "record" => CallsWithin(CallsOfASection)

Left == budget.maximum - budget.used

UnitsOfFirstRun ==
  /\ pc \in {"section"} \cup AfterSection => Left >= (Sections - Len(drafts)) * MinWords
  /\ pc \in {"draft", "drafted", "persisted", "review"} =>
       /\ budget.reserved = (Sections - Current) * MinWords
       /\ Left >= budget.reserved + MinWords
  /\ pc = "draft" => budget.pending = Overhead
  /\ pc = "record" => Left >= (Sections - Current) * MinWords

FirstRun ==
  runs <= 1 =>
    /\ runs = 0 => pc = "down" /\ saved = Nothing
    /\ pc # "down" => state.drafts = <<>> /\ state.part = NoRef
    /\ pc = "readmit" => drafts = <<>>
    /\ CallsOfFirstRun /\ UnitsOfFirstRun
    /\ failure # "document_information_budget_exceeded:no_part_allowance"

IInv == Typed /\ PartsStoredOnce /\ Reported /\ KeptInMemory /\ FirstRun

-----------------------------------------------------------------------------
USE AuthoringAssumption

(* The sum of the units of a list of drafts is a number.                    *)
LEMMA SumExists ==
  ASSUME NEW N \in Nat, NEW g \in [1..N -> Nat]
  PROVE  \E f \in [0..N -> Nat] : f = [i \in 0..N |-> IF i = 0 THEN 0 ELSE f[i - 1] + g[i]]
<1> DEFINE P(n, f) == f = [i \in 0..n |-> IF i = 0 THEN 0 ELSE f[i - 1] + g[i]]
           T == {n \in 0..N : ~ \E f \in [0..n -> Nat] : P(n, f)}
<1>1. SUFFICES ASSUME T # {} PROVE FALSE
  <2>1. N \notin T => \E f \in [0..N -> Nat] : P(N, f)
    <3> HIDE DEF P
    <3>1. QED
      OBVIOUS
  <2>2. QED
    BY <2>1
<1>2. PICK n \in T : \A m \in T : ~(m < n)
  <2>1. T \subseteq Nat
    OBVIOUS
  <2>2. QED
    BY <2>1, <1>1, LeastNumber
<1>3. n # 0
  <2>1. P(0, [i \in 0..0 |-> 0])
    OBVIOUS
  <2>2. [i \in 0..0 |-> 0] \in [0..0 -> Nat]
    OBVIOUS
  <2>3. QED
    BY <2>1, <2>2
<1>4. PICK f \in [0..(n - 1) -> Nat] : P(n - 1, f)
  <2>1. n - 1 \in 0..N /\ n - 1 < n
    BY <1>3
  <2>2. n - 1 \notin T
    BY <1>2, <2>1
  <2>3. QED
    BY <2>1, <2>2
<1> DEFINE h == [i \in 0..n |-> IF i = n THEN f[n - 1] + g[n] ELSE f[i]]
<1>5. h \in [0..n -> Nat]
  BY <1>3
<1>6. P(n, h)
  <2>1. \A i \in 0..n : h[i] = IF i = 0 THEN 0 ELSE h[i - 1] + g[i]
    BY <1>3, <1>4
  <2>2. QED
    BY <2>1
<1>7. QED
  BY <1>5, <1>6

LEMMA UnitsAreNatural ==
  ASSUME NEW ds \in Seq(AcceptedDraft)
  PROVE  UnitsOf(ds) \in Nat
<1> DEFINE n == Len(ds)
           g == [i \in 1..n |-> SectionUnits(ds[i].text)]
<1>1. g \in [1..n -> Nat]
  <2>1. \A i \in 1..n : ds[i] \in AcceptedDraft
    OBVIOUS
  <2>2. \A i \in 1..n : ds[i].text.units \in Nat
    BY <2>1 DEF AcceptedDraft, Text
  <2>3. \A i \in 1..n : SectionUnits(ds[i].text) \in Nat
    BY <2>2 DEF SectionUnits
  <2>4. QED
    BY <2>3
<1>2. \E f \in [0..n -> Nat] : f = [i \in 0..n |-> IF i = 0 THEN 0 ELSE f[i - 1] + g[i]]
  <2> HIDE DEF g
  <2>1. n \in Nat
    OBVIOUS
  <2>2. QED
    BY <1>1, <2>1, SumExists
<1>3. \A f : [i \in 0..n |-> IF i = 0 THEN 0 ELSE f[i - 1] + g[i]] =
             [i \in 0..n |-> IF i = 0 THEN 0 ELSE f[i - 1] + SectionUnits(ds[i].text)]
  OBVIOUS
<1> DEFINE s == CHOOSE f :
       f = [i \in 0..n |-> IF i = 0 THEN 0 ELSE f[i - 1] + SectionUnits(ds[i].text)]
<1>4. s = [i \in 0..n |-> IF i = 0 THEN 0 ELSE s[i - 1] + SectionUnits(ds[i].text)]
  <2> HIDE DEF g
  <2>1. QED
    BY <1>2, <1>3
<1>5. UnitsOf(ds) = s[n]
  BY DEF UnitsOf
<1>6. s[n] \in Nat
  <2> HIDE DEF s
  <2> DEFINE T == {m \in 0..n : s[m] \notin Nat}
  <2>1. T \subseteq Nat
    OBVIOUS
  <2>2. SUFFICES ASSUME T # {} PROVE FALSE
    OBVIOUS
  <2>3. PICK k \in T : \A m \in T : ~(m < k)
    BY <2>1, <2>2, LeastNumber
  <2>4. k # 0
    BY <1>4
  <2>5. s[k] = s[k - 1] + g[k]
    BY <1>4, <2>4
  <2>6. k - 1 \in 0..n /\ k - 1 < k /\ k \in 1..n
    BY <2>4
  <2>7. s[k - 1] \in Nat
    BY <2>6, <2>3
  <2>8. g[k] \in Nat
    BY <2>6, <1>1
  <2>9. QED
    BY <2>5, <2>7, <2>8, <2>3
<1>7. QED
  BY <1>5, <1>6

LEMMA NoUnits == UnitsOf(<<>>) = 0
<1> DEFINE s == CHOOSE f :
       f = [i \in 0..0 |-> IF i = 0 THEN 0 ELSE f[i - 1] + SectionUnits(<<>>[i].text)]
<1>1. \E f : f = [i \in 0..0 |-> IF i = 0 THEN 0 ELSE f[i - 1] + SectionUnits(<<>>[i].text)]
  <2> DEFINE z == [i \in 0..0 |-> 0]
  <2>1. z = [i \in 0..0 |-> IF i = 0 THEN 0 ELSE z[i - 1] + SectionUnits(<<>>[i].text)]
    OBVIOUS
  <2>2. QED
    BY <2>1
<1>2. s = [i \in 0..0 |-> IF i = 0 THEN 0 ELSE s[i - 1] + SectionUnits(<<>>[i].text)]
  BY <1>1
<1>3. UnitsOf(<<>>) = s[0]
  BY DEF UnitsOf
<1>4. QED
  BY <1>2, <1>3

-----------------------------------------------------------------------------
(* The constants that name no work, and new artifacts.                      *)

LEMMA LimitTypes ==
  TotalLimit \in Nat /\ ReviewLimit \in Nat /\ CompactionLimit \in Nat
BY DEF TotalLimit, ReviewLimit, CompactionLimit, AtLeast1

LEMMA NothingTypes ==
  /\ NoText \in Text /\ NoRef \in Artifact /\ NoCalls \in Counts /\ Nothing \in State
  /\ NoPart \in [text : Text, ref : Artifact, headed : BOOLEAN, empties : 0..MaxEmptyRetries,
                 compressions : 0..MaxCompressions, degraded : BOOLEAN, reviewed : BOOLEAN]
  /\ NoBudget \in [maximum : Nat, used : Nat, pending : Nat, reserved : Nat]
  /\ Nothing.drafts = <<>> /\ Nothing.part = NoRef /\ Nothing.degraded = {}
  /\ Nothing.calls = NoCalls
<1>1. TotalLimit \in Nat /\ ReviewLimit \in Nat /\ CompactionLimit \in Nat
  BY LimitTypes
<1>2. NoText \in Text /\ NoRef \in Artifact
  BY DEF NoText, Text, NoRef, Artifact
<1>3. NoCalls \in Counts
  BY <1>1 DEF NoCalls, Counts
<1>4. Nothing \in State
  BY <1>2, <1>3 DEF Nothing, Checkpoint, State
<1>5. NoPart \in [text : Text, ref : Artifact, headed : BOOLEAN, empties : 0..MaxEmptyRetries,
                  compressions : 0..MaxCompressions, degraded : BOOLEAN, reviewed : BOOLEAN]
  BY <1>2 DEF NoPart
<1>6. NoBudget \in [maximum : Nat, used : Nat, pending : Nat, reserved : Nat]
  BY DEF NoBudget
<1>7. QED
  BY <1>2, <1>3, <1>4, <1>5, <1>6 DEF Nothing, Checkpoint

LEMMA FreshIsArtifact ==
  ASSUME IsFiniteSet(artifacts), NEW kind \in {"outline", "part", "section", "final"},
         NEW s \in 0..Sections, NEW t \in Text
  PROVE  /\ Fresh(kind, s, t) \in Artifact /\ Fresh(kind, s, t) # NoRef
         /\ Fresh(kind, s, t).kind = kind /\ Fresh(kind, s, t).section = s
         /\ Fresh(kind, s, t).text = t
<1>1. Same(kind, s, t) \in SUBSET artifacts
  BY DEF Same
<1>2. Cardinality(Same(kind, s, t)) \in Nat
  BY <1>1, FS_Subset, FS_CardinalityType
<1>3. QED
  BY <1>2 DEF Fresh, Artifact, NoRef

(* No list of drafts is longer than the outline.                            *)
LEMMA NotLonger ==
  ASSUME NEW ds \in Seq(AcceptedDraft), Resumable(ds)
  PROVE  Len(ds) <= Sections
<1>1. CASE Len(ds) = 0
  BY <1>1
<1>2. CASE Len(ds) > 0
  <2>1. Len(ds) \in DOMAIN ds
    BY <1>2
  <2>2. ds[Len(ds)].section = Len(ds)
    BY <2>1 DEF Resumable
  <2>3. ds[Len(ds)] \in AcceptedDraft
    BY <2>1
  <2>4. ds[Len(ds)].section \in 1..Sections
    BY <2>3 DEF AcceptedDraft
  <2>5. QED
    BY <2>2, <2>4
<1>3. QED
  BY <1>1, <1>2

(* What is resumable stays so: the store only grows.                        *)
LEMMA StaysResumable ==
  ASSUME NEW ds, Resumable(ds), artifacts \subseteq artifacts'
  PROVE  \A i \in DOMAIN ds : /\ ds[i].section = i /\ ds[i].ref \in artifacts'
                              /\ ds[i].ref.text = ds[i].text
BY DEF Resumable

LEMMA ArtifactsGrow == Next => artifacts \subseteq artifacts'
BY DEF Next, Start, Step, Crash, RecordOutline, CheckpointOutline, ReadDrafts, Readmit, Plan,
       BeginSection, Draft, RetryEmpty, Compress, PersistPart, CheckpointPart, Review,
       RecordSection, Summarise, CheckpointSection, Assemble, RecordFinal, CheckpointFinal,
       Publish, Call, Raise, Durable

-----------------------------------------------------------------------------
(* First layer.                                                             *)

\* TypeOK, in parts
StepTypes ==
  /\ pc \in {"down", "outline", "outlined", "resume", "readmit", "section", "draft",
             "drafted", "persisted", "review", "record", "summary", "checkpoint",
             "assemble", "final", "finalize", "publish", "done"}
  /\ runs \in 0..MaxRuns
CheckpointTypes == state \in State /\ saved \in State
DraftTypes      == drafts \in Seq(AcceptedDraft)
DegradedTypes   == degraded \subseteq Entry
PlanTypes       == action \in {"none"} \cup Controls /\ last \in 0..Sections
BudgetTypes     == budget \in [maximum : Nat, used : Nat, pending : Nat, reserved : Nat]
CallTypes       == calls \in Counts
PartTypes ==
  part \in [text : Text, ref : Artifact, headed : BOOLEAN, empties : 0..MaxEmptyRetries,
            compressions : 0..MaxCompressions, degraded : BOOLEAN, reviewed : BOOLEAN]
PressureTypes   == pressure \in BOOLEAN
StoreTypes      == artifacts \subseteq Artifact

LEMMA TypeParts ==
  TypeOK <=> /\ StepTypes /\ CheckpointTypes /\ DraftTypes /\ DegradedTypes /\ PlanTypes
             /\ BudgetTypes /\ CallTypes /\ PartTypes /\ PressureTypes /\ StoreTypes
BY DEF TypeOK, StepTypes, CheckpointTypes, DraftTypes, DegradedTypes, PlanTypes,
       BudgetTypes, CallTypes, PartTypes, PressureTypes, StoreTypes

LEMMA InitTyped == Init => Typed
<1> SUFFICES ASSUME Init PROVE Typed
  OBVIOUS
<1>1. StepTypes /\ CheckpointTypes /\ DraftTypes /\ DegradedTypes /\ PlanTypes
  BY NothingTypes DEF Init, StepTypes, CheckpointTypes, DraftTypes, DegradedTypes, PlanTypes
<1>2. BudgetTypes /\ CallTypes /\ PartTypes
  BY NothingTypes DEF Init, BudgetTypes, CallTypes, PartTypes
<1>3. PressureTypes /\ StoreTypes
  BY DEF Init, PressureTypes, StoreTypes
<1>4. IsFiniteSet(artifacts)
  BY FS_EmptySet DEF Init
<1>5. AllResumable /\ DraftsFit
  BY NothingTypes DEF Init, AllResumable, Resumable, DraftsFit, InSection
<1>6. QED
  BY <1>1, <1>2, <1>3, <1>4, <1>5, TypeParts DEF Typed

(* What ends a run keeps the types, whatever it forgets.                    *)
LEMMA RaiseTyped ==
  ASSUME Typed, NEW reason, Raise(reason)
  PROVE  Typed'
<1> USE DEF Raise, Forgotten, Durable
<1>1. (StepTypes /\ CheckpointTypes /\ StoreTypes)'
  BY NothingTypes, TypeParts DEF Typed, StepTypes, CheckpointTypes, StoreTypes
<1>2. (DraftTypes /\ DegradedTypes /\ PlanTypes)'
  BY DEF DraftTypes, DegradedTypes, PlanTypes
<1>3. (BudgetTypes /\ CallTypes)'
  BY NothingTypes DEF BudgetTypes, CallTypes
<1>4. (PartTypes /\ PressureTypes)'
  BY NothingTypes DEF PartTypes, PressureTypes
<1>5. TypeOK'
  BY <1>1, <1>2, <1>3, <1>4
     DEF TypeOK, StepTypes, CheckpointTypes, DraftTypes, DegradedTypes, PlanTypes,
         BudgetTypes, CallTypes, PartTypes, PressureTypes, StoreTypes
<1>6. IsFiniteSet(artifacts)' /\ Resumable(saved.drafts)'
  BY DEF Typed, AllResumable, Resumable
<1>7. AllResumable' /\ DraftsFit'
  BY <1>6, NothingTypes DEF AllResumable, Resumable, DraftsFit, InSection
<1>8. QED
  BY <1>5, <1>6, <1>7 DEF Typed

(* A new artifact keeps the store finite and typed.                         *)
LEMMA StoreStaysFinite == Typed /\ Next => IsFiniteSet(artifacts')
<1> SUFFICES ASSUME Typed, Next PROVE IsFiniteSet(artifacts')
  OBVIOUS
<1>1. artifacts' = artifacts \/ \E a : artifacts' = artifacts \cup {a}
  BY DEF Next, Start, Step, Crash, RecordOutline, CheckpointOutline, ReadDrafts, Readmit, Plan,
       BeginSection, Draft, RetryEmpty, Compress, PersistPart, CheckpointPart, Review,
       RecordSection, Summarise, CheckpointSection, Assemble, RecordFinal, CheckpointFinal,
       Publish, Call, Raise, Durable
<1>2. QED
  BY <1>1, FS_AddElement DEF Typed

(* A draft a run takes up again is one the checkpoint named.                *)
LEMMA TakenUp ==
  ASSUME Typed, pc = "readmit", Current <= Len(state.drafts)
  PROVE  /\ Current \in DOMAIN state.drafts /\ Current \in 1..Sections
         /\ state.drafts[Current] \in AcceptedDraft
         /\ state.drafts[Current].section = Current
         /\ state.drafts[Current].ref \in artifacts
         /\ state.drafts[Current].ref.text = state.drafts[Current].text
<1>1. state.drafts \in Seq(AcceptedDraft) /\ drafts \in Seq(AcceptedDraft)
  BY DEF Typed, TypeOK, State
<1>2. Current \in DOMAIN state.drafts
  BY <1>1 DEF Current
<1>3. state.drafts[Current] \in AcceptedDraft
  BY <1>1, <1>2
<1>4. Resumable(state.drafts)
  BY DEF Typed, AllResumable
<1>5. state.drafts[Current].section \in 1..Sections
  BY <1>3 DEF AcceptedDraft
<1>6. QED
  BY <1>2, <1>3, <1>4, <1>5 DEF Resumable

(* The section a run is at is one of the outline.                           *)
LEMMA CurrentIsASection ==
  ASSUME Typed, pc \in InSection
  PROVE  /\ Current \in 1..Sections /\ Current <= last /\ Sections - Current \in Nat
         /\ (Sections - Current) * MinWords \in Nat
<1>1. Current \in 1..Sections /\ Current <= last
  BY DEF Typed, TypeOK, DraftsFit, Current
<1>2. Sections - Current \in Nat
  BY <1>1
<1>3. \A n \in Nat : n * MinWords \in Nat
  OBVIOUS
<1>4. QED
  BY <1>1, <1>2, <1>3

(* Next, without what raises.                                               *)
Proceeds ==
  \/ Start \/ RecordOutline \/ CheckpointOutline \/ ReadDrafts \/ Readmit \/ Plan
  \/ BeginSection \/ Draft \/ RetryEmpty \/ Compress \/ PersistPart \/ CheckpointPart
  \/ Review \/ RecordSection \/ Summarise \/ CheckpointSection
  \/ Assemble \/ RecordFinal \/ CheckpointFinal \/ Publish

LEMMA Cases == Next => Proceeds \/ \E reason : Raise(reason)
BY DEF Next, Step, Crash, Proceeds

LEMMA TypedStep ==
  ASSUME Typed, Proceeds, \A reason : ~Raise(reason)
  PROVE  TypeOK'
<1>1. Proceeds
  OBVIOUS
<1>2. /\ StepTypes /\ CheckpointTypes /\ DraftTypes /\ DegradedTypes /\ PlanTypes
      /\ BudgetTypes /\ CallTypes /\ PartTypes /\ PressureTypes /\ StoreTypes
  BY TypeParts DEF Typed
<1>3. StepTypes'
  <2>1. runs' \in 0..MaxRuns
    <3>1. CASE Start
      BY <3>1, <1>2 DEF Start, StepTypes
    <3>2. CASE UNCHANGED runs
      BY <3>2, <1>2 DEF StepTypes
    <3>3. QED
      BY <1>1, <3>1, <3>2 DEF Proceeds, RecordOutline, CheckpointOutline, ReadDrafts, Readmit, Plan,
         BeginSection, Draft, RetryEmpty, Compress, PersistPart, CheckpointPart, Review,
         RecordSection, Summarise, CheckpointSection, Assemble, RecordFinal, CheckpointFinal,
         Publish, Call
  <2>2. pc' \in {"outline", "outlined", "resume", "readmit", "section", "draft",
                 "drafted", "persisted", "review", "record", "summary", "checkpoint",
                 "assemble", "final", "finalize", "publish", "done"}
    BY <1>1 DEF Proceeds, Start, RecordOutline, CheckpointOutline, ReadDrafts, Readmit, Plan,
       BeginSection, Draft, RetryEmpty, Compress, PersistPart, CheckpointPart, Review,
       RecordSection, Summarise, CheckpointSection, Assemble, RecordFinal, CheckpointFinal,
       Publish, Call
  <2>3. QED
    BY <2>1, <2>2 DEF StepTypes
<1>4. CheckpointTypes'
  <2>1. CASE Start
    BY <2>1, <1>2 DEF Start, CheckpointTypes, State, Durable
  <2>2. CASE UNCHANGED <<state, saved>>
    BY <2>2, <1>2 DEF CheckpointTypes
  <2>3. CASE CheckpointOutline \/ CheckpointPart \/ CheckpointSection \/ CheckpointFinal
    <3>1. /\ state' = state
          /\ \E phase \in {"draft_sections", "finalize"}, ds \in Seq(AcceptedDraft),
                es \in SUBSET Entry, n \in Counts, ref \in Artifact, control \in {"none"} \cup Controls :
               saved' = Checkpoint(phase, ds, es, n, ref, control)
      <4>1. CASE CheckpointOutline
        <5>1. <<>> \in Seq(AcceptedDraft) /\ {} \in SUBSET Entry
          OBVIOUS
        <5>2. QED
          BY <4>1, <5>1, NothingTypes DEF CheckpointOutline
      <4>2. CASE CheckpointPart
        <5>1. part.ref \in Artifact
          BY <1>2 DEF PartTypes
        <5>2. QED
          BY <4>2, <5>1, <1>2 DEF CheckpointPart, DraftTypes, DegradedTypes, CallTypes, PlanTypes
      <4>3. CASE CheckpointSection
        BY <4>3, <1>2, NothingTypes
           DEF CheckpointSection, DraftTypes, DegradedTypes, CallTypes, PlanTypes
      <4>4. CASE CheckpointFinal
        BY <4>4, <1>2, NothingTypes
           DEF CheckpointFinal, DraftTypes, DegradedTypes, CallTypes, PlanTypes
      <4>5. QED
        BY <2>3, <4>1, <4>2, <4>3, <4>4
    <3>2. QED
      BY <3>1, <1>2 DEF Checkpoint, State, CheckpointTypes
  <2>4. QED
    BY <1>1, <2>1, <2>2, <2>3 DEF Proceeds, RecordOutline, ReadDrafts, Readmit, Plan, BeginSection, Draft,
       RetryEmpty, Compress, PersistPart, Review, RecordSection, Summarise, Assemble, RecordFinal,
       Publish, Call, Durable
<1>5. DraftTypes'
  <2>1. CASE Readmit
    <3>1. state.drafts[Current] \in AcceptedDraft
      BY <2>1, TakenUp DEF Readmit
    <3>2. \E d \in AcceptedDraft : drafts' = Append(drafts, d)
      BY <2>1, <3>1 DEF Readmit, Verdicts, AcceptedDraft
    <3>3. QED
      BY <3>2, <1>2 DEF DraftTypes
  <2>2. CASE RecordSection
    <3>1. part.text \in Text /\ part.degraded \in BOOLEAN /\ part.reviewed \in BOOLEAN
      BY <1>2 DEF PartTypes
    <3>2. Current \in 1..Sections
      BY <2>2, CurrentIsASection DEF RecordSection, InSection
    <3>3. Fresh("section", Current, part.text) \in Artifact
      BY <3>1, <3>2, FreshIsArtifact DEF Typed
    <3>4. \E d \in AcceptedDraft : drafts' = Append(drafts, d)
      BY <2>2, <3>1, <3>2, <3>3 DEF RecordSection, AcceptedDraft
    <3>5. QED
      BY <3>4, <1>2 DEF DraftTypes
  <2>3. CASE UNCHANGED drafts
    BY <2>3, <1>2 DEF DraftTypes
  <2>4. QED
    BY <1>1, <2>1, <2>2, <2>3 DEF Proceeds, Start, RecordOutline, CheckpointOutline, ReadDrafts, Plan,
       BeginSection, Draft, RetryEmpty, Compress, PersistPart, CheckpointPart, Review, Summarise,
       CheckpointSection, Assemble, RecordFinal, CheckpointFinal, Publish, Call, Document
<1>6. DegradedTypes'
  <2>1. CASE Plan
    <3>1. Current \in Nat \ {0}
      BY <1>2 DEF Current, DraftTypes
    <3>2. state.degraded \subseteq Entry
      BY <1>2 DEF CheckpointTypes, State
    <3>3. /\ LeftOut(Current, "finish_current") \subseteq Entry
          /\ LeftOut(Current + 1, "shortened") \subseteq Entry
      BY <3>1 DEF LeftOut, Entry
    <3>4. QED
      BY <2>1, <3>2, <3>3 DEF Plan, DegradedTypes
  <2>2. CASE Review
    <3>1. Current \in 1..Sections
      BY <2>2, CurrentIsASection DEF Review, InSection
    <3>2. [section |-> Current, why |-> "gate"] \in Entry
      BY <3>1 DEF Entry
    <3>3. degraded' \subseteq degraded \cup {[section |-> Current, why |-> "gate"]}
      BY <2>2 DEF Review
    <3>4. QED
      BY <3>2, <3>3, <1>2 DEF DegradedTypes
  <2>3. CASE UNCHANGED degraded
    BY <2>3, <1>2 DEF DegradedTypes
  <2>4. QED
    BY <1>1, <2>1, <2>2, <2>3 DEF Proceeds, Start, RecordOutline, CheckpointOutline, ReadDrafts, Readmit,
       BeginSection, Draft, RetryEmpty, Compress, PersistPart, CheckpointPart, RecordSection,
       Summarise, CheckpointSection, Assemble, RecordFinal, CheckpointFinal, Publish, Call, Document
<1>7. PlanTypes'
  <2>1. CASE Plan
    <3>1. Len(drafts) \in 0..Sections
      BY <1>2, NotLonger DEF Typed, AllResumable, DraftTypes
    <3>2. state.action \in {"none"} \cup Controls
      BY <1>2 DEF CheckpointTypes, State
    <3>3. QED
      BY <2>1, <3>1, <3>2 DEF Plan, PlanTypes, Current
  <2>2. CASE UNCHANGED <<action, last>>
    BY <2>2, <1>2 DEF PlanTypes
  <2>3. QED
    BY <1>1, <2>1, <2>2 DEF Proceeds, Start, RecordOutline, CheckpointOutline, ReadDrafts, Readmit,
       BeginSection, Draft, RetryEmpty, Compress, PersistPart, CheckpointPart, Review, RecordSection,
       Summarise, CheckpointSection, Assemble, RecordFinal, CheckpointFinal, Publish, Call, Document
<1>8. BudgetTypes'
  <2> DEFINE Budget == [maximum : Nat, used : Nat, pending : Nat, reserved : Nat]
  <2>0. /\ budget \in Budget /\ budget.maximum \in Nat /\ budget.used \in Nat
        /\ budget.pending \in Nat /\ budget.reserved \in Nat
    BY <1>2 DEF BudgetTypes
  <2>a. \A m, u, p, r \in Nat :
          /\ [budget EXCEPT !.pending = p, !.reserved = r] \in Budget
          /\ [budget EXCEPT !.maximum = m, !.pending = p] \in Budget
          /\ [budget EXCEPT !.maximum = m, !.used = u, !.pending = p, !.reserved = r] \in Budget
    BY <2>0
  <2>1. CASE Plan
    <3>1. InitialMaximum \in Nat /\ UnitsOf(drafts) \in Nat
      <4>1. Sections * MinWords \in Nat
        OBVIOUS
      <4>2. \A n \in Nat : (n * 135) \div 100 \in Nat
        OBVIOUS
      <4>3. (Sections * MinWords * 135) \div 100 \in Nat
        BY <4>1, <4>2
      <4>4. InitialMaximum \in Nat
        BY <4>1, <4>3 DEF InitialMaximum, Largest
      <4>5. QED
        BY <4>4, <1>2, UnitsAreNatural DEF DraftTypes
    <3>2. QED
      BY <2>1, <3>1, NothingTypes DEF Plan, BudgetTypes
  <2>2. CASE BeginSection
    <3>1. (Sections - Current) * MinWords \in Nat
      BY <2>2, CurrentIsASection DEF BeginSection, InSection
    <3>2. \A a \in ResumedPart(Current) : a.text.units \in Nat
      BY <1>2 DEF ResumedPart, StoreTypes, Artifact, Text
    <3>3. \A n \in Nat : Begun(budget, n, Sections - Current) \in Budget
      <4>1. \A n \in Nat : n + Overhead \in Nat
        OBVIOUS
      <4>2. QED
        BY <3>1, <4>1, <2>0 DEF Begun
    <3>4. QED
      BY ZenonT(40), <2>2, <3>2, <3>3 DEF BeginSection, BudgetTypes
  <2>3. CASE PersistPart
    <3>1. part.text.units \in Nat
      BY <1>2 DEF PartTypes, Text
    <3>2. budget' = Accepted(budget, part.text.units)
      BY <2>3, <1>2 DEF PersistPart, PartTypes, Text
    <3>3. AtLeast0(part.text.units - Allowance(budget)) \in Nat
      BY <3>1, <1>2 DEF AtLeast0, Allowance, Remaining, BudgetTypes
    <3>4. QED
      <4>1. budget.maximum + AtLeast0(part.text.units - Allowance(budget)) \in Nat
        BY <3>3, <2>0
      <4>2. budget.pending + part.text.units \in Nat
        BY <3>1, <2>0
      <4>3. QED
        BY <3>2, <4>1, <4>2, <2>0, <2>a DEF Accepted, BudgetTypes
  <2>4. CASE Review
    <3>1. SectionUnits(part.text) \in Nat
      BY <1>2 DEF PartTypes, Text, SectionUnits
    <3>2. budget' = Committed(budget, SectionUnits(part.text))
      BY <2>4 DEF Review
    <3>3. AtLeast0(SectionUnits(part.text)
                     - AtLeast0(budget.maximum - budget.used - budget.reserved)) \in Nat
      BY <3>1, <1>2 DEF AtLeast0, BudgetTypes
    <3>4. QED
      <4>1. budget.maximum + AtLeast0(SectionUnits(part.text)
              - AtLeast0(budget.maximum - budget.used - budget.reserved)) \in Nat
        BY <3>3, <2>0
      <4>2. budget.used + SectionUnits(part.text) \in Nat
        BY <3>1, <2>0
      <4>3. QED
        BY <3>2, <4>1, <4>2, <2>0, <2>a DEF Committed, BudgetTypes
  <2>5. CASE UNCHANGED budget
    BY <2>5, <1>2 DEF BudgetTypes
  <2>6. QED
    BY <1>1, <2>1, <2>2, <2>3, <2>4, <2>5 DEF Proceeds, Start, RecordOutline, CheckpointOutline, ReadDrafts,
       Readmit, Draft, RetryEmpty, Compress, CheckpointPart, RecordSection,
       Summarise, CheckpointSection, Assemble, RecordFinal, CheckpointFinal, Publish, Call
<1>9. CallTypes'
  <2>1. CASE calls' = saved.calls
    BY <2>1, <1>2 DEF CheckpointTypes, State, CallTypes
  <2>0. /\ calls \in Counts /\ calls.used \in Nat /\ calls.reviews \in Nat
        /\ calls.compactions \in Nat /\ calls.used <= TotalLimit
        /\ calls.reviews <= ReviewLimit /\ calls.compactions <= CompactionLimit
    BY <1>2, LimitTypes DEF CallTypes, Counts
  <2>a. CanCall => calls.used + 1 \in 0..TotalLimit
    BY <2>0, LimitTypes DEF CanCall
  <2>2. CASE calls' = DraftCall /\ CanCall
    BY <2>2, <2>0, <2>a DEF DraftCall, CallTypes, Counts
  <2>3. CASE calls' = ReviewCall /\ CanReview
    <3>1. calls.reviews + 1 \in 0..ReviewLimit
      BY <2>3, <2>0, LimitTypes DEF CanReview
    <3>2. CanCall
      BY <2>3 DEF CanReview
    <3>3. QED
      BY <2>3, <3>1, <3>2, <2>0, <2>a DEF ReviewCall, CallTypes, Counts
  <2>4. CASE calls' = CompactionCall /\ CanCompact
    <3>1. calls.compactions + 1 \in 0..CompactionLimit
      BY <2>4, <2>0, LimitTypes DEF CanCompact
    <3>2. CanCall
      BY <2>4 DEF CanCompact
    <3>3. QED
      BY <2>4, <3>1, <3>2, <2>0, <2>a DEF CompactionCall, CallTypes, Counts
  <2>5. CASE UNCHANGED calls
    BY <2>5, <1>2 DEF CallTypes
  <2>6. QED
    BY <1>1, <2>1, <2>2, <2>3, <2>4, <2>5 DEF Proceeds, Start, RecordOutline, CheckpointOutline, ReadDrafts,
       Readmit, Plan, BeginSection, Draft, RetryEmpty, Compress, PersistPart, CheckpointPart, Review,
       RecordSection, Summarise, CheckpointSection, Assemble, RecordFinal, CheckpointFinal,
       Publish, Call
<1>10. PartTypes'
  <2> DEFINE Part == [text : Text, ref : Artifact, headed : BOOLEAN, empties : 0..MaxEmptyRetries,
                      compressions : 0..MaxCompressions, degraded : BOOLEAN, reviewed : BOOLEAN]
  <2>1. CASE BeginSection
    <3>1. \A a \in ResumedPart(Current) : a \in Artifact /\ a.text \in Text
      BY <1>2 DEF ResumedPart, StoreTypes, Artifact
    <3>2. part' = NoPart \/ \E a \in ResumedPart(Current) :
                              part' = [NoPart EXCEPT !.text = a.text, !.ref = a]
      BY <2>1 DEF BeginSection
    <3>3. QED
      BY <3>1, <3>2, NothingTypes DEF PartTypes
  <2>2. CASE Draft \/ RetryEmpty \/ Compress
    <3>1. Writable \subseteq Text
      BY DEF Writable
    <3>2. CASE Draft
      BY ZenonT(40), <3>1, <3>2, <1>2 DEF Draft, Call, PartTypes
    <3>3. CASE RetryEmpty
      <4>1. PICK t \in Writable : part' = [part EXCEPT !.text = t, !.empties = @ + 1]
        BY <3>3 DEF RetryEmpty, Call
      <4>2. part.empties + 1 \in 0..MaxEmptyRetries
        <5>1. part.empties < MaxEmptyRetries /\ part.empties \in 0..MaxEmptyRetries
          BY <3>3, <1>2 DEF RetryEmpty, PartTypes
        <5>2. QED
          BY <5>1
      <4>3. QED
        BY <3>1, <4>1, <4>2, <1>2 DEF PartTypes
    <3>4. CASE Compress
      <4>1. PICK t \in Writable : part' = [part EXCEPT !.text = IF Keeps(t) THEN t ELSE @,
                                                       !.headed = @ \/ Keeps(t), !.compressions = @ + 1]
        BY <3>4 DEF Compress, Call
      <4>2. part.compressions + 1 \in 0..MaxCompressions
        <5>1. part.compressions < MaxCompressions /\ part.compressions \in 0..MaxCompressions
          BY <3>4, <1>2 DEF Compress, Rewritable, PartTypes
        <5>2. QED
          BY <5>1
      <4>3. (IF Keeps(t) THEN t ELSE part.text) \in Text
        BY <3>1, <1>2 DEF PartTypes
      <4>4. QED
        BY <4>1, <4>2, <4>3, <1>2 DEF PartTypes
    <3>5. QED
      BY <2>2, <3>2, <3>3, <3>4
  <2>3. CASE PersistPart
    <3>1. PICK t : t = [part.text EXCEPT !.cut = FALSE]
      OBVIOUS
    <3>2. t \in Text
      BY <3>1, <1>2 DEF PartTypes, Text
    <3>3. Current \in 1..Sections
      BY <2>3, CurrentIsASection DEF PersistPart, InSection
    <3>4. Fresh("part", Current, t) \in Artifact /\ PersistedPart(Current, t) \subseteq Artifact
      BY <3>2, <3>3, FreshIsArtifact, <1>2 DEF Typed, PersistedPart, Same, StoreTypes
    <3>5. \E a \in PersistedPart(Current, t) \cup {Fresh("part", Current, t)} :
            part' = [part EXCEPT !.text = t, !.ref = a, !.headed = FALSE]
      BY <2>3, <3>1 DEF PersistPart
    <3>6. QED
      BY ZenonT(40), <3>2, <3>4, <3>5, <1>2 DEF PartTypes
  <2>4. CASE Review
    <3>1. \E r \in BOOLEAN, g \in BOOLEAN : part' = [part EXCEPT !.reviewed = r, !.degraded = g]
      BY <2>4 DEF Review, Verdicts, Passes
    <3>2. QED
      BY <3>1, <1>2 DEF PartTypes
  <2>5. CASE part' = NoPart
    BY <2>5, NothingTypes DEF PartTypes
  <2>6. CASE UNCHANGED part
    BY <2>6, <1>2 DEF PartTypes
  <2>7. QED
    BY <1>1, <2>1, <2>2, <2>3, <2>4, <2>5, <2>6 DEF Proceeds, Start, RecordOutline, CheckpointOutline,
       ReadDrafts, Readmit, Plan, CheckpointPart, RecordSection, Summarise, CheckpointSection,
       Assemble, RecordFinal, CheckpointFinal, Publish
<1>11. PressureTypes'
  BY <1>1, <1>2 DEF Proceeds, PressureTypes, Start, RecordOutline, CheckpointOutline, ReadDrafts, Readmit,
     Plan, BeginSection, Draft, RetryEmpty, Compress, PersistPart, CheckpointPart, Review,
     RecordSection, Summarise, CheckpointSection, Assemble, RecordFinal, CheckpointFinal, Publish, Call
<1>12. StoreTypes'
  <2>1. CASE RecordOutline \/ RecordFinal
    BY <2>1, <1>2, NothingTypes, FreshIsArtifact DEF RecordOutline, RecordFinal, StoreTypes, Typed
  <2>2. CASE PersistPart
    <3>1. [part.text EXCEPT !.cut = FALSE] \in Text
      BY <1>2 DEF PartTypes, Text
    <3>2. Current \in 1..Sections
      BY <2>2, CurrentIsASection DEF PersistPart, InSection
    <3>3. Fresh("part", Current, [part.text EXCEPT !.cut = FALSE]) \in Artifact
      BY <3>1, <3>2, FreshIsArtifact DEF Typed
    <3>4. QED
      BY <2>2, <3>3, <1>2 DEF PersistPart, StoreTypes
  <2>3. CASE RecordSection
    <3>1. part.text \in Text
      BY <1>2 DEF PartTypes
    <3>2. Current \in 1..Sections
      BY <2>3, CurrentIsASection DEF RecordSection, InSection
    <3>3. Fresh("section", Current, part.text) \in Artifact
      BY <3>1, <3>2, FreshIsArtifact DEF Typed
    <3>4. QED
      BY <2>3, <3>3, <1>2 DEF RecordSection, StoreTypes
  <2>4. CASE UNCHANGED artifacts
    BY <2>4, <1>2 DEF StoreTypes
  <2>5. QED
    BY <1>1, <2>1, <2>2, <2>3, <2>4 DEF Proceeds, Start, CheckpointOutline, ReadDrafts, Readmit, Plan,
       BeginSection, Draft, RetryEmpty, Compress, CheckpointPart, Review, Summarise,
       CheckpointSection, Assemble, CheckpointFinal, Publish, Call, Durable
<1>13. QED
  BY <1>3, <1>4, <1>5, <1>6, <1>7, <1>8, <1>9, <1>10, <1>11, <1>12
     DEF TypeOK, StepTypes, CheckpointTypes, DraftTypes, DegradedTypes, PlanTypes,
         BudgetTypes, CallTypes, PartTypes, PressureTypes, StoreTypes

(* What a step adds to the drafts: nothing, a draft of the checkpoint, or   *)
(* the section that was written.                                            *)
LEMMA DraftsStep ==
  ASSUME Typed, Proceeds, \A reason : ~Raise(reason)
  PROVE  \/ drafts' = drafts /\ ~Readmit /\ ~RecordSection
         \/ /\ Readmit
            /\ \E d \in AcceptedDraft :
                 /\ drafts' = Append(drafts, d)
                 /\ d.section = Current /\ d.text = state.drafts[Current].text
                 /\ d.ref = state.drafts[Current].ref
                 /\ d.text.sound /\ Readmissible(d)
                 /\ ~d.reviewed => d.degraded
                 /\ d.degraded => state.drafts[Current].degraded \/ ~state.drafts[Current].reviewed
         \/ /\ RecordSection
            /\ LET a == Fresh("section", Current, part.text) IN
                 /\ artifacts' = artifacts \cup {a} /\ a.text = part.text
                 /\ \E d \in AcceptedDraft :
                      /\ drafts' = Append(drafts, d)
                      /\ d.section = Current /\ d.text = part.text /\ d.ref = a
                      /\ d.degraded = part.degraded /\ d.reviewed = part.reviewed
<1>1. CASE Readmit
  <2>1. state.drafts[Current] \in AcceptedDraft /\ state.drafts[Current].section = Current
    BY <1>1, TakenUp DEF Readmit
  <2> DEFINE d == state.drafts[Current]
  <2>2. \E e \in AcceptedDraft :
          /\ drafts' = Append(drafts, e)
          /\ e.section = Current /\ e.text = d.text /\ e.ref = d.ref
          /\ ~e.reviewed => e.degraded
          /\ e.degraded => d.degraded \/ ~d.reviewed
    <3> HIDE DEF d
    <3>1. /\ d.reviewed \in BOOLEAN /\ d.degraded \in BOOLEAN /\ d \in AcceptedDraft
      BY <2>1 DEF d, AcceptedDraft
    <3>2. CASE d.reviewed /\ drafts' = Append(drafts, d)
      BY <3>2, <3>1, <2>1 DEF d
    <3>3. CASE ~d.reviewed /\ drafts' = Append(drafts, [d EXCEPT !.degraded = TRUE])
      <4> DEFINE e == [d EXCEPT !.degraded = TRUE]
      <4>1. /\ e \in AcceptedDraft /\ e.section = d.section /\ e.text = d.text /\ e.ref = d.ref
            /\ e.degraded /\ e.reviewed = d.reviewed
        BY <3>1 DEF AcceptedDraft
      <4>2. QED
        BY <3>3, <4>1, <2>1 DEF d
    <3>4. ASSUME NEW complete \in BOOLEAN, ~d.reviewed,
                 drafts' = Append(drafts, [d EXCEPT !.reviewed = complete,
                                                    !.degraded = @ \/ ~complete])
          PROVE  \E e \in AcceptedDraft :
                   /\ drafts' = Append(drafts, e)
                   /\ e.section = Current /\ e.text = d.text /\ e.ref = d.ref
                   /\ ~e.reviewed => e.degraded
                   /\ e.degraded => d.degraded \/ ~d.reviewed
      <4> DEFINE e == [d EXCEPT !.reviewed = complete, !.degraded = @ \/ ~complete]
      <4>1. /\ e \in AcceptedDraft /\ e.section = d.section /\ e.text = d.text /\ e.ref = d.ref
            /\ e.degraded = (d.degraded \/ ~complete) /\ e.reviewed = complete
        BY <3>1 DEF AcceptedDraft
      <4>2. QED
        BY <3>4, <4>1, <2>1 DEF d
    <3>5. QED
      BY <1>1, <3>2, <3>3, <3>4 DEF Readmit, Verdicts, d
  <2>3. d.text.sound /\ Readmissible(d)
    BY <1>1 DEF Readmit, Readmissible
  <2>4. QED
    BY <1>1, <2>2, <2>3 DEF Readmissible
<1>2. CASE RecordSection
  <2>1. part.text \in Text /\ part.degraded \in BOOLEAN /\ part.reviewed \in BOOLEAN
    BY DEF Typed, TypeOK
  <2>2. Current \in 1..Sections
    BY <1>2, CurrentIsASection DEF RecordSection, InSection
  <2> DEFINE a == Fresh("section", Current, part.text)
             e == [section |-> Current, text |-> part.text, ref |-> a,
                   degraded |-> part.degraded, reviewed |-> part.reviewed]
  <2>3. a \in Artifact /\ a.text = part.text
    BY <2>1, <2>2, FreshIsArtifact DEF Typed
  <2>4. artifacts' = artifacts \cup {a} /\ drafts' = Append(drafts, e)
    BY <1>2 DEF RecordSection
  <2> HIDE DEF a
  <2>5. e \in AcceptedDraft
    BY <2>1, <2>2, <2>3 DEF AcceptedDraft
  <2>6. QED
    BY <1>2, <2>3, <2>4, <2>5 DEF a
<1>3. CASE ~Readmit /\ ~RecordSection
  <2>1. drafts' = drafts
    BY <1>3 DEF Proceeds, Start, RecordOutline, CheckpointOutline, ReadDrafts, Plan,
       BeginSection, Draft, RetryEmpty, Compress, PersistPart, CheckpointPart, Review, Summarise,
       CheckpointSection, Assemble, RecordFinal, CheckpointFinal, Publish, Call, Document
  <2>2. QED
    BY <1>3, <2>1
<1>4. QED
  BY <1>1, <1>2, <1>3

(* What a step that does not raise stores in a checkpoint.                  *)
LEMMA SavedStep ==
  ASSUME Typed, Proceeds, \A reason : ~Raise(reason)
  PROVE  \/ UNCHANGED <<state, saved>>
         \/ /\ Start /\ UNCHANGED saved
            /\ state'.drafts = saved.drafts /\ state'.part = saved.part
            /\ state'.degraded = saved.degraded
         \/ /\ CheckpointOutline /\ UNCHANGED state
            /\ saved' = Checkpoint("draft_sections", <<>>, {}, NoCalls, NoRef, "none")
         \/ /\ CheckpointPart /\ UNCHANGED state
            /\ saved' = Checkpoint("draft_sections", drafts, degraded, calls, part.ref, action)
         \/ /\ CheckpointSection /\ UNCHANGED state
            /\ saved' = Checkpoint("draft_sections", drafts, degraded, calls, NoRef, action)
         \/ /\ CheckpointFinal /\ UNCHANGED state
            /\ saved' = Checkpoint("finalize", drafts, degraded, NoCalls, NoRef, action)
<1>1. CASE Start
  <2>1. PICK control : state' = [saved EXCEPT !.action = control]
    BY <1>1 DEF Start
  <2>2. saved \in State
    BY DEF Typed, TypeOK
  <2>3. /\ state'.drafts = saved.drafts /\ state'.part = saved.part
        /\ state'.degraded = saved.degraded
    BY <2>1, <2>2 DEF State
  <2>4. QED
    BY <1>1, <2>3 DEF Start, Durable
<1>2. CASE CheckpointOutline \/ CheckpointPart \/ CheckpointSection \/ CheckpointFinal
  BY <1>2 DEF CheckpointOutline, CheckpointPart, CheckpointSection, CheckpointFinal
<1>3. CASE UNCHANGED <<state, saved>>
  BY <1>3
<1>4. QED
  BY <1>1, <1>2, <1>3 DEF Proceeds, RecordOutline, ReadDrafts, Readmit, Plan,
     BeginSection, Draft, RetryEmpty, Compress, PersistPart, Review,
     RecordSection, Summarise, Assemble, RecordFinal, Publish, Call, Durable

LEMMA TypedKept == Typed /\ Next => Typed'
<1> SUFFICES ASSUME Typed, Next PROVE Typed'
  OBVIOUS
<1>1. CASE \E reason : Raise(reason)
  BY <1>1, RaiseTyped
<1>2. CASE Proceeds /\ \A reason : ~Raise(reason)
  <2>1. TypeOK'
    BY <1>2, TypedStep
  <2>2. IsFiniteSet(artifacts)'
    BY StoreStaysFinite
  <2>3. drafts \in Seq(AcceptedDraft) /\ state.drafts \in Seq(AcceptedDraft)
    BY DEF Typed, TypeOK, State
  <2>4. artifacts \subseteq artifacts'
    BY ArtifactsGrow
  <2>5. /\ Resumable(saved.drafts) /\ Resumable(state.drafts) /\ Resumable(drafts)
    BY DEF Typed, AllResumable
  <2>6. \A i \in DOMAIN drafts' : /\ drafts'[i].section = i /\ drafts'[i].ref \in artifacts'
                                  /\ drafts'[i].ref.text = drafts'[i].text
    <3>1. CASE drafts' = drafts
      BY <3>1, <2>4, <2>5 DEF Resumable
    <3>2. ASSUME NEW d, drafts' = Append(drafts, d), d.section = Current,
                 d.ref \in artifacts', d.ref.text = d.text
          PROVE  \A i \in DOMAIN drafts' : /\ drafts'[i].section = i
                                           /\ drafts'[i].ref \in artifacts'
                                           /\ drafts'[i].ref.text = drafts'[i].text
      <4>1. \A i \in DOMAIN drafts' : \/ i \in DOMAIN drafts /\ drafts'[i] = drafts[i]
                                      \/ i = Current /\ drafts'[i] = d
        BY <3>2, <2>3 DEF Current
      <4>2. QED
        BY <4>1, <3>2, <2>4, <2>5 DEF Resumable
    <3>3. CASE Readmit
      <4>1. PICK d \in AcceptedDraft :
               /\ drafts' = Append(drafts, d) /\ d.section = Current
               /\ d.text = state.drafts[Current].text /\ d.ref = state.drafts[Current].ref
        BY <1>2, <3>3, <2>3, DraftsStep DEF Readmit, RecordSection
      <4>2. /\ state.drafts[Current].ref \in artifacts'
            /\ state.drafts[Current].ref.text = state.drafts[Current].text
        BY <3>3, <2>4, TakenUp DEF Readmit
      <4>3. QED
        BY <4>1, <4>2, <3>2
    <3>4. CASE RecordSection
      <4>1. PICK d \in AcceptedDraft :
               /\ drafts' = Append(drafts, d) /\ d.section = Current
               /\ d.ref \in artifacts' /\ d.ref.text = d.text
        BY <1>2, <3>4, DraftsStep DEF Readmit, RecordSection
      <4>2. QED
        BY <4>1, <3>2
    <3>5. QED
      BY <1>2, <3>1, <3>3, <3>4, DraftsStep
  <2>7. Resumable(drafts)'
    BY <2>6 DEF Resumable
  <2>8. Resumable(saved.drafts)' /\ Resumable(state.drafts)'
    BY <1>2, <2>4, <2>5, SavedStep DEF Checkpoint, Resumable
  <2>9. DraftsFit'
    <3>1. (pc \in Opening \cup {"down"} => drafts = <<>>)'
      BY <1>2 DEF Proceeds, Opening, Typed, DraftsFit, Start, RecordOutline, CheckpointOutline,
         ReadDrafts, Readmit, Plan, BeginSection, Draft, RetryEmpty, Compress, PersistPart,
         CheckpointPart, Review, RecordSection, Summarise, CheckpointSection, Assemble,
         RecordFinal, CheckpointFinal, Publish, Call, Document
    <3>2. (pc = "readmit" => Len(drafts) <= Len(state.drafts))'
      <4>1. CASE Readmit
        <5>1. \E d : drafts' = Append(drafts, d)
          BY <4>1 DEF Readmit
        <5>2. Len(drafts') = Len(drafts) + 1
          BY <5>1, <2>3
        <5>3. Len(drafts) + 1 <= Len(state.drafts) /\ state' = state
          BY <4>1 DEF Readmit, Current
        <5>4. QED
          BY <5>2, <5>3
      <4>2. CASE CheckpointOutline \/ ReadDrafts
        <5>1. drafts' = <<>> /\ state' = state
          BY <4>2, <1>2 DEF CheckpointOutline, ReadDrafts, Document, Typed, DraftsFit, Opening
        <5>2. QED
          BY <5>1, <2>3
      <4>3. CASE pc' # "readmit"
        BY <4>3
      <4>4. QED
        BY <1>2, <4>1, <4>2, <4>3 DEF Proceeds, Start, RecordOutline, Plan, BeginSection, Draft,
           RetryEmpty, Compress, PersistPart, CheckpointPart, Review, RecordSection, Summarise,
           CheckpointSection, Assemble, RecordFinal, CheckpointFinal, Publish, Call
    <3>3. (pc \in InSection => Len(drafts) < last)'
      <4>1. CASE Plan
        BY <4>1, <1>2 DEF Plan, InSection
      <4>2. CASE CheckpointSection
        BY <4>2 DEF CheckpointSection, Document, InSection
      <4>3. CASE pc' \notin InSection
        BY <4>3
      <4>4. CASE pc \in InSection /\ UNCHANGED <<drafts, last>>
        BY <4>4 DEF Typed, DraftsFit
      <4>5. QED
        BY <1>2, <4>1, <4>2, <4>3, <4>4 DEF Proceeds, InSection, Start, RecordOutline,
           CheckpointOutline, ReadDrafts, Readmit, BeginSection, Draft, RetryEmpty, Compress,
           PersistPart, CheckpointPart, Review, RecordSection, Summarise, Assemble, RecordFinal,
           CheckpointFinal, Publish, Call, Document
    <3>4. QED
      BY <3>1, <3>2, <3>3 DEF DraftsFit, Opening, InSection
  <2>10. QED
    BY <2>1, <2>2, <2>7, <2>8, <2>9 DEF Typed, AllResumable
<1>3. QED
  BY <1>1, <1>2, Cases

-----------------------------------------------------------------------------
(* Second layer.                                                            *)

LEMMA InitStored == Init => PartsStoredOnce
BY NothingTypes DEF Init, PartsStoredOnce, PartsAreInStore, NoPartTwice

LEMMA RaiseStored ==
  ASSUME Typed, PartsStoredOnce, NEW reason, Raise(reason)
  PROVE  PartsStoredOnce'
<1>1. /\ pc' = "down" /\ state' = Nothing /\ saved' = saved /\ artifacts' = artifacts
  BY DEF Raise, Forgotten, Durable
<1>2. PartsAreInStore'
  BY <1>1, NothingTypes DEF PartsStoredOnce, PartsAreInStore, PartOf, NoRef, NoText
<1>3. NoPartTwice'
  BY <1>1 DEF PartsStoredOnce, NoPartTwice
<1>4. QED
  BY <1>2, <1>3 DEF PartsStoredOnce

(* What PersistPart makes of the store and of the part.                     *)
LEMMA PersistStep ==
  ASSUME Typed, PersistPart
  PROVE  \E a \in Artifact :
           /\ part'.ref = a /\ a \in artifacts' /\ a.kind = "part" /\ a.section = Current
           /\ a.text = part'.text
           /\ \/ artifacts' = artifacts
              \/ /\ artifacts' = artifacts \cup {a}
                 /\ \A b \in artifacts :
                      ~(b.kind = "part" /\ b.section = Current /\ b.text = a.text)
<1> DEFINE t == [part.text EXCEPT !.cut = FALSE]
           new == Fresh("part", Current, t)
<1>1. t \in Text /\ \A a : /\ [part EXCEPT !.text = t, !.ref = a, !.headed = FALSE].ref = a
                           /\ [part EXCEPT !.text = t, !.ref = a, !.headed = FALSE].text = t
  BY DEF Typed, TypeOK, Text
<1>2. Current \in 1..Sections
  BY CurrentIsASection DEF PersistPart, InSection
<1>3. /\ new \in Artifact /\ new.kind = "part" /\ new.section = Current /\ new.text = t
  BY <1>1, <1>2, FreshIsArtifact DEF Typed
<1>4. artifacts \subseteq Artifact
  BY DEF Typed, TypeOK
<1>5. \/ \E a \in PersistedPart(Current, t) :
           part' = [part EXCEPT !.text = t, !.ref = a, !.headed = FALSE] /\ artifacts' = artifacts
      \/ /\ PersistedPart(Current, t) = {}
         /\ part' = [part EXCEPT !.text = t, !.ref = new, !.headed = FALSE] /\ artifacts' = artifacts \cup {new}
  BY DEF PersistPart
<1> HIDE DEF t, new
<1>6. CASE \E a \in PersistedPart(Current, t) :
             part' = [part EXCEPT !.text = t, !.ref = a, !.headed = FALSE] /\ artifacts' = artifacts
  BY <1>1, <1>4, <1>6 DEF PersistedPart, Same
<1>7. CASE /\ PersistedPart(Current, t) = {}
           /\ part' = [part EXCEPT !.text = t, !.ref = new, !.headed = FALSE] /\ artifacts' = artifacts \cup {new}
  <2>1. \A b \in artifacts : ~(b.kind = "part" /\ b.section = Current /\ b.text = t)
    BY <1>7 DEF PersistedPart, Same
  <2>2. part'.ref = new /\ part'.text = t
    BY <1>1, <1>7
  <2>3. QED
    BY <1>3, <1>7, <2>1, <2>2
<1>8. QED
  BY <1>5, <1>6, <1>7

LEMMA StoredKept == Typed /\ PartsStoredOnce /\ Next => PartsStoredOnce'
<1> SUFFICES ASSUME Typed, PartsStoredOnce, Next PROVE PartsStoredOnce'
  OBVIOUS
<1>1. CASE \E reason : Raise(reason)
  BY <1>1, RaiseStored
<1>2. CASE Proceeds /\ \A reason : ~Raise(reason)
  <2>1. artifacts \subseteq artifacts'
    BY ArtifactsGrow
  <2>2. (saved.part # NoRef => PartOf(saved.part, Len(saved.drafts) + 1))'
    <3>1. CASE UNCHANGED saved
      BY <3>1, <2>1 DEF PartsStoredOnce, PartsAreInStore, PartOf, NoRef, NoText
    <3>2. CASE saved'.part = NoRef
      BY <3>2 DEF NoRef, NoText
    <3>3. CASE CheckpointPart
      <4>1. saved'.drafts = drafts /\ saved'.part = part.ref /\ artifacts' = artifacts
        BY <3>3 DEF CheckpointPart, Checkpoint
      <4>2. PartOf(part.ref, Current)
        BY <3>3 DEF CheckpointPart, PartsStoredOnce, PartsAreInStore
      <4>3. QED
        BY <4>1, <4>2 DEF PartOf, Current
    <3>4. QED
      BY <1>2, <3>1, <3>2, <3>3, SavedStep DEF Checkpoint
  <2>3. (state.part # NoRef => PartOf(state.part, Len(state.drafts) + 1))'
    <3>1. CASE UNCHANGED state
      BY <3>1, <2>1 DEF PartsStoredOnce, PartsAreInStore, PartOf, NoRef, NoText
    <3>2. CASE state'.part = saved.part /\ state'.drafts = saved.drafts
      BY <3>2, <2>1 DEF PartsStoredOnce, PartsAreInStore, PartOf, NoRef, NoText
    <3>3. QED
      BY <1>2, <3>1, <3>2, SavedStep
  <2>4. (pc \in {"persisted", "review"} => PartOf(part.ref, Current) /\ part.ref.text = part.text)'
    <3>1. CASE PersistPart
      <4>1. Current' = Current
        BY <3>1 DEF PersistPart, Document, Current
      <4>2. QED
        BY <3>1, <4>1, PersistStep DEF PartOf
    <3>2. CASE CheckpointPart
      <4>1. UNCHANGED <<artifacts, part, drafts>>
        BY <3>2 DEF CheckpointPart, Document
      <4>2. QED
        BY <3>2, <4>1 DEF CheckpointPart, PartsStoredOnce, PartsAreInStore, PartOf, Current
    <3>3. CASE BeginSection /\ pc' = "review"
      <4>1. PICK a \in ResumedPart(Current) : part' = [NoPart EXCEPT !.text = a.text, !.ref = a]
        BY <3>3 DEF BeginSection
      <4>2. part'.ref = a /\ part'.text = a.text
        BY <4>1, NothingTypes
      <4>3. PartOf(a, Current)
        BY DEF ResumedPart, PartOf
      <4>4. UNCHANGED <<artifacts, drafts>>
        BY <3>3 DEF BeginSection, Document, Durable
      <4>5. QED
        BY <4>2, <4>3, <4>4 DEF PartOf, Current
    <3>4. CASE pc' \notin {"persisted", "review"}
      BY <3>4
    <3>5. QED
      BY <1>2, <3>1, <3>2, <3>3, <3>4 DEF Proceeds, Start, RecordOutline, CheckpointOutline,
         ReadDrafts, Readmit, Plan, BeginSection, Draft, RetryEmpty, Compress, Review,
         RecordSection, Summarise, CheckpointSection, Assemble, RecordFinal, CheckpointFinal,
         Publish, Call
  <2>5. NoPartTwice'
    <3>1. CASE PersistPart
      <4>1. PICK a \in Artifact :
              /\ a.kind = "part" /\ a.section = Current
              /\ \/ artifacts' = artifacts
                 \/ /\ artifacts' = artifacts \cup {a}
                    /\ \A b \in artifacts :
                         ~(b.kind = "part" /\ b.section = Current /\ b.text = a.text)
        BY <3>1, PersistStep
      <4>2. QED
        BY <4>1 DEF PartsStoredOnce, NoPartTwice
    <3>2. CASE ~PersistPart
      <4>1. \/ artifacts' = artifacts
            \/ \E kind \in {"outline", "section", "final"} : \E s, t :
                 artifacts' = artifacts \cup {Fresh(kind, s, t)}
        BY <1>2, <3>2 DEF Proceeds, Start, RecordOutline, CheckpointOutline,
         ReadDrafts, Readmit, Plan, BeginSection, Draft, RetryEmpty, Compress, CheckpointPart,
         Review, RecordSection, Summarise, CheckpointSection, Assemble, RecordFinal,
         CheckpointFinal, Publish, Call, Durable
      <4>2. \A kind, s, t : Fresh(kind, s, t).kind = kind
        BY DEF Fresh
      <4>3. \A a \in artifacts' : a.kind = "part" => a \in artifacts
        BY <4>1, <4>2
      <4>4. QED
        BY <4>3 DEF PartsStoredOnce, NoPartTwice
    <3>3. QED
      BY <3>1, <3>2
  <2>6. QED
    BY <2>2, <2>3, <2>4, <2>5 DEF PartsStoredOnce, PartsAreInStore
<1>3. QED
  BY <1>1, <1>2, Cases

-----------------------------------------------------------------------------
(* Third layer.                                                             *)

LEMMA InitReported == Init => Reported
BY NothingTypes
   DEF Init, Reported, GapsAccounted, Accounted, SoundWhenUnchecked, OnlySoundIsPublished,
       WithOutline, InSection, AfterSection, Ending

LEMMA RaiseReported ==
  ASSUME Typed, Reported, NEW reason, Raise(reason)
  PROVE  Reported'
<1>1. pc' = "down" /\ state' = Nothing /\ saved' = saved
  BY DEF Raise, Forgotten, Durable
<1>2. Accounted(saved.drafts, saved.degraded)' /\ Accounted(state.drafts, state.degraded)'
  BY <1>1, NothingTypes DEF Reported, GapsAccounted, Accounted, Listed
<1>3. QED
  BY <1>1, <1>2 DEF Reported, GapsAccounted, SoundWhenUnchecked, OnlySoundIsPublished,
     WithOutline, InSection, AfterSection, Ending

(* A longer list of drafts is accounted for if its last draft is.           *)
LEMMA AppendAccounted ==
  ASSUME NEW ds \in Seq(AcceptedDraft), NEW d \in AcceptedDraft, NEW es,
         Accounted(ds, es), ~d.reviewed => d.degraded,
         d.degraded => Listed(Len(ds) + 1, es)
  PROVE  Accounted(Append(ds, d), es)
<1>1. \A i \in DOMAIN Append(ds, d) : \/ i \in DOMAIN ds /\ Append(ds, d)[i] = ds[i]
                                      \/ i = Len(ds) + 1 /\ Append(ds, d)[i] = d
  OBVIOUS
<1>2. QED
  BY <1>1 DEF Accounted

LEMMA MoreAccounted ==
  ASSUME NEW ds, NEW es, NEW fs, Accounted(ds, es), es \subseteq fs
  PROVE  Accounted(ds, fs)
BY DEF Accounted, Listed

LEMMA LeftOutIsListed ==
  ASSUME NEW n \in Nat, NEW why, NEW s \in n..Sections
  PROVE  Listed(s, state.degraded \cup LeftOut(n, why))
<1>1. CASE Listed(s, state.degraded)
  BY <1>1 DEF Listed
<1>2. CASE ~Listed(s, state.degraded)
  <2>1. [section |-> s, why |-> why] \in LeftOut(n, why)
    BY <1>2 DEF LeftOut, Listed
  <2>2. QED
    BY <2>1 DEF Listed
<1>3. QED
  BY <1>1, <1>2

LEMMA GapsKept ==
  ASSUME Typed, Reported, Proceeds, \A reason : ~Raise(reason)
  PROVE  GapsAccounted'
<1>1. /\ drafts \in Seq(AcceptedDraft) /\ state.drafts \in Seq(AcceptedDraft)
      /\ Len(drafts) \in Nat /\ GapsAccounted
  BY DEF Typed, TypeOK, State, Reported
<1>2. Accounted(saved.drafts, saved.degraded)'
  <2>1. CASE UNCHANGED saved
    BY <2>1, <1>1 DEF GapsAccounted, Accounted, Listed
  <2>2. CASE saved'.drafts = <<>>
    BY <2>2 DEF Accounted
  <2>3. CASE pc \in WithOutline /\ saved'.drafts = drafts /\ saved'.degraded = degraded
    BY <2>3, <1>1 DEF GapsAccounted, Accounted, Listed
  <2>4. QED
    BY <2>1, <2>2, <2>3, SavedStep
       DEF Checkpoint, CheckpointPart, CheckpointSection, CheckpointFinal, WithOutline, InSection,
           AfterSection, Ending
<1>3. Accounted(state.drafts, state.degraded)'
  <2>1. CASE UNCHANGED state
    BY <2>1, <1>1 DEF GapsAccounted, Accounted, Listed
  <2>2. CASE state'.drafts = saved.drafts /\ state'.degraded = saved.degraded
    BY <2>2, <1>1 DEF GapsAccounted, Accounted, Listed
  <2>3. QED
    BY <2>1, <2>2, SavedStep
<1>4. (pc = "readmit" => Accounted(drafts, state.degraded))'
  <2>1. CASE Readmit
    <3>1. PICK d \in AcceptedDraft :
            /\ drafts' = Append(drafts, d) /\ (~d.reviewed => d.degraded)
            /\ d.degraded => state.drafts[Current].degraded \/ ~state.drafts[Current].reviewed
      BY <2>1, DraftsStep DEF Readmit, RecordSection
    <3>2. Current \in DOMAIN state.drafts
      BY <2>1, TakenUp DEF Readmit
    <3>3. d.degraded => Listed(Current, state.degraded)
      BY <3>1, <3>2, <1>1 DEF GapsAccounted, Accounted
    <3>4. Accounted(Append(drafts, d), state.degraded)
      BY <2>1, <1>1, <3>1, <3>3, AppendAccounted DEF Readmit, GapsAccounted, Current
    <3>5. QED
      BY <2>1, <3>1, <3>4 DEF Readmit, Accounted, Listed
  <2>2. CASE pc \in Opening /\ UNCHANGED drafts
    BY <2>2 DEF Typed, DraftsFit, Accounted
  <2>3. CASE pc' # "readmit"
    BY <2>3
  <2>4. QED
    BY <2>1, <2>2, <2>3 DEF Proceeds, Opening, Start, RecordOutline, CheckpointOutline, ReadDrafts,
       Plan, BeginSection, Draft, RetryEmpty, Compress, PersistPart, CheckpointPart, Review,
       RecordSection, Summarise, CheckpointSection, Assemble, RecordFinal, CheckpointFinal,
       Publish, Call, Document
<1>5. (pc \in WithOutline => /\ Accounted(drafts, degraded)
                         /\ \A s \in (last + 1)..Sections : Listed(s, degraded))'
  <2>1. CASE Plan
    <3>1. /\ drafts' = drafts /\ state.degraded \subseteq degraded'
          /\ pc = "readmit" /\ Accounted(drafts, state.degraded)
      BY <2>1, <1>1 DEF Plan, GapsAccounted
    <3>2. Accounted(drafts, degraded')
      BY <3>1, MoreAccounted
    <3>3. \A s \in (last' + 1)..Sections : Listed(s, degraded')
      <4>1. \A n \in Nat : \A why : \A s \in n..Sections :
              Listed(s, state.degraded \cup LeftOut(n, why))
        BY LeftOutIsListed
      <4>2. CASE /\ last' = Len(drafts)
                 /\ degraded' = state.degraded \cup LeftOut(Current, "finish_current")
        <5>1. Current \in Nat /\ last' + 1 = Current
          BY <4>2, <1>1 DEF Current
        <5>2. \A s \in Current..Sections : Listed(s, degraded')
          BY <4>1, <4>2, <5>1
        <5>3. QED
          BY <5>1, <5>2
      <4>3. CASE /\ last' = Current
                 /\ degraded' = state.degraded \cup LeftOut(Current + 1, "shortened")
        <5>1. Current + 1 \in Nat
          BY <1>1 DEF Current
        <5>2. \A s \in (Current + 1)..Sections : Listed(s, degraded')
          BY <4>1, <4>3, <5>1
        <5>3. QED
          BY <4>3, <5>2
      <4>4. CASE last' = Sections
        BY <4>4
      <4>5. QED
        BY <2>1, <4>2, <4>3, <4>4 DEF Plan
    <3>4. QED
      BY <3>1, <3>2, <3>3 DEF Accounted, Listed
  <2>2. CASE Review
    <3>1. /\ drafts' = drafts /\ last' = last /\ degraded \subseteq degraded' /\ pc \in WithOutline
      BY <2>2 DEF Review, WithOutline, InSection
    <3>2. QED
      BY <3>1, <1>1 DEF GapsAccounted, Accounted, Listed
  <2>3. CASE RecordSection
    <3>1. PICK d \in AcceptedDraft :
            /\ drafts' = Append(drafts, d)
            /\ d.degraded = part.degraded /\ d.reviewed = part.reviewed
      BY <2>3, DraftsStep DEF Readmit, RecordSection
    <3>2. /\ pc = "record" /\ pc \in WithOutline /\ degraded' = degraded /\ last' = last
      BY <2>3 DEF RecordSection, WithOutline, InSection
    <3>3. Accounted(Append(drafts, d), degraded)
      BY <1>1, <3>1, <3>2, AppendAccounted DEF GapsAccounted, Current
    <3>4. QED
      BY <1>1, <3>1, <3>2, <3>3 DEF GapsAccounted, Accounted, Listed
  <2>4. CASE pc \in WithOutline /\ UNCHANGED <<drafts, degraded, last>>
    BY <2>4, <1>1 DEF GapsAccounted, Accounted, Listed
  <2>5. CASE pc' \notin WithOutline
    BY <2>5 DEF WithOutline, InSection, AfterSection, Ending
  <2>6. QED
    BY <2>1, <2>2, <2>3, <2>4, <2>5 DEF Proceeds, WithOutline, InSection, AfterSection, Ending, Start,
       RecordOutline, CheckpointOutline, ReadDrafts, Readmit, BeginSection, Draft, RetryEmpty,
       Compress, PersistPart, CheckpointPart, Summarise, CheckpointSection, Assemble,
       RecordFinal, CheckpointFinal, Publish, Call, Document
<1>6. (pc = "record" => /\ ~part.reviewed => part.degraded
                        /\ part.degraded => Listed(Current, degraded))'
  <2>1. CASE Review
    <3>1. PICK reviewed \in BOOLEAN, passed \in BOOLEAN :
            /\ part' = [part EXCEPT !.reviewed = reviewed, !.degraded = ~passed]
            /\ passed => reviewed
            /\ ~passed => degraded' = degraded \cup {[section |-> Current, why |-> "gate"]}
      BY <2>1 DEF Review, Verdicts, Passes
    <3>2. part'.reviewed = reviewed /\ part'.degraded = ~passed
      BY <3>1 DEF Typed, TypeOK
    <3>3. ~passed => Listed(Current, degraded')
      <4>1. \A s : [section |-> s, why |-> "gate"].section = s
        OBVIOUS
      <4>2. QED
        BY <3>1, <4>1 DEF Listed
    <3>4. drafts' = drafts
      BY <2>1 DEF Review
    <3>5. QED
      BY <3>1, <3>2, <3>3, <3>4 DEF Listed, Current
  <2>2. CASE pc' # "record"
    BY <2>2
  <2>3. QED
    BY <2>1, <2>2 DEF Proceeds, Start, RecordOutline, CheckpointOutline, ReadDrafts, Readmit, Plan,
       BeginSection, Draft, RetryEmpty, Compress, PersistPart, CheckpointPart, RecordSection,
       Summarise, CheckpointSection, Assemble, RecordFinal, CheckpointFinal, Publish, Call
<1>7. (pc \in Ending => last <= Len(drafts))'
  <2>1. last \in Nat /\ Len(drafts) \in Nat
    BY <1>1 DEF Typed, TypeOK
  <2>2. CASE Plan
    <3>1. last' \in Nat /\ drafts' = drafts
      BY <2>2, <1>1 DEF Plan, Current
    <3>2. QED
      BY <2>2, <3>1, <1>1 DEF Plan, Ending
  <2>3. CASE CheckpointSection
    BY <2>3, <2>1 DEF CheckpointSection, Document, Ending
  <2>4. CASE pc \in Ending /\ UNCHANGED <<drafts, last>>
    BY <2>4, <1>1 DEF GapsAccounted
  <2>5. CASE pc' \notin Ending
    BY <2>5
  <2>6. QED
    BY <2>2, <2>3, <2>4, <2>5 DEF Proceeds, Ending, Start, RecordOutline, CheckpointOutline,
       ReadDrafts, Readmit, BeginSection, Draft, RetryEmpty, Compress, PersistPart, CheckpointPart,
       Review, RecordSection, Summarise, Assemble, RecordFinal, CheckpointFinal, Publish, Call, Document
<1>8. QED
  BY <1>2, <1>3, <1>4, <1>5, <1>6, <1>7 DEF GapsAccounted, WithOutline, InSection, AfterSection, Ending

LEMMA SoundKept ==
  ASSUME Typed, Reported, Proceeds, \A reason : ~Raise(reason)
  PROVE  (SoundWhenUnchecked /\ OnlySoundIsPublished)'
<1>1. /\ drafts \in Seq(AcceptedDraft) /\ SoundWhenUnchecked /\ OnlySoundIsPublished
  BY DEF Typed, TypeOK, Reported
<1>2. (pc = "readmit" => \A i \in DOMAIN drafts : drafts[i].text.sound)'
  <2>1. CASE Readmit
    <3>1. PICK d : drafts' = Append(drafts, d) /\ d.text.sound
      BY <2>1, DraftsStep DEF Readmit, RecordSection
    <3>2. \A i \in DOMAIN drafts' : \/ i \in DOMAIN drafts /\ drafts'[i] = drafts[i]
                                    \/ drafts'[i] = d
      BY <3>1, <1>1
    <3>3. QED
      BY <2>1, <3>1, <3>2, <1>1 DEF Readmit, SoundWhenUnchecked
  <2>2. CASE pc \in Opening /\ UNCHANGED drafts
    BY <2>2 DEF Typed, DraftsFit
  <2>3. CASE pc' # "readmit"
    BY <2>3
  <2>4. QED
    BY <2>1, <2>2, <2>3 DEF Proceeds, Opening, Start, RecordOutline, CheckpointOutline, ReadDrafts,
       Plan, BeginSection, Draft, RetryEmpty, Compress, PersistPart, CheckpointPart, Review,
       RecordSection, Summarise, CheckpointSection, Assemble, RecordFinal, CheckpointFinal,
       Publish, Call, Document
<1>3. (pc \in WithOutline /\ action = "finish_current" =>
         pc \in Ending /\ \A i \in DOMAIN drafts : drafts[i].text.sound)'
  <2>1. CASE Plan
    <3>1. /\ drafts' = drafts /\ pc = "readmit" /\ action' = state.action
          /\ action' = "finish_current" => last' = Len(drafts) /\ pc' = "assemble"
      BY <2>1, <1>1 DEF Plan
    <3>2. QED
      BY <3>1, <1>1 DEF SoundWhenUnchecked, Ending
  <2>2. CASE pc \in WithOutline /\ UNCHANGED <<drafts, action>> /\ (pc \in Ending => pc' \in Ending)
    BY <2>2, <1>1 DEF SoundWhenUnchecked
  <2>3. CASE RecordSection
    <3>1. action # "finish_current" /\ action' = action
      BY <2>3, <1>1 DEF RecordSection, SoundWhenUnchecked, WithOutline, InSection, Ending
    <3>2. QED
      BY <3>1
  <2>4. CASE pc' \notin WithOutline
    BY <2>4 DEF WithOutline, InSection, AfterSection, Ending
  <2>5. QED
    BY <2>1, <2>2, <2>3, <2>4 DEF Proceeds, WithOutline, InSection, AfterSection, Ending, Start,
       RecordOutline, CheckpointOutline, ReadDrafts, Readmit, BeginSection, Draft, RetryEmpty,
       Compress, PersistPart, CheckpointPart, Review, Summarise, CheckpointSection, Assemble,
       RecordFinal, CheckpointFinal, Publish, Call, Document
<1>4. OnlySoundIsPublished'
  <2>1. CASE Assemble
    <3>1. /\ drafts' = drafts /\ pc = "assemble"
          /\ action = "finish_current" \/ Whole
      BY <2>1 DEF Assemble, Document
    <3>2. \A i \in DOMAIN drafts : drafts[i].text.sound
      BY <3>1, <1>1 DEF SoundWhenUnchecked, WithOutline, Ending, Whole
    <3>3. QED
      BY <3>1, <3>2 DEF OnlySoundIsPublished
  <2>2. CASE pc \in {"final", "finalize", "publish", "done"} /\ UNCHANGED drafts
    BY <2>2, <1>1 DEF OnlySoundIsPublished
  <2>3. CASE pc' \notin {"final", "finalize", "publish", "done"}
    BY <2>3 DEF OnlySoundIsPublished
  <2>4. QED
    BY <2>1, <2>2, <2>3 DEF Proceeds, Start, RecordOutline, CheckpointOutline, ReadDrafts, Readmit,
       Plan, BeginSection, Draft, RetryEmpty, Compress, PersistPart, CheckpointPart, Review,
       RecordSection, Summarise, CheckpointSection, RecordFinal, CheckpointFinal, Publish, Call, Document
<1>5. QED
  BY <1>2, <1>3, <1>4 DEF SoundWhenUnchecked, WithOutline, InSection, AfterSection, Ending

LEMMA ReportedKept == Typed /\ Reported /\ Next => Reported'
<1> SUFFICES ASSUME Typed, Reported, Next PROVE Reported'
  OBVIOUS
<1>1. CASE \E reason : Raise(reason)
  BY <1>1, RaiseReported
<1>2. CASE Proceeds /\ \A reason : ~Raise(reason)
  BY <1>2, GapsKept, SoundKept DEF Reported
<1>3. QED
  BY <1>1, <1>2, Cases

-----------------------------------------------------------------------------
(* Fourth layer.                                                            *)

LEMMA InitKept == Init => KeptInMemory
BY NothingTypes
   DEF Init, KeptInMemory, InMemory, PartInMemory, PartIsNext, Opening, WithOutline, InSection,
       AfterSection, Ending

LEMMA RaiseKept ==
  ASSUME NEW reason, Raise(reason)
  PROVE  KeptInMemory'
BY DEF Raise, KeptInMemory, InMemory, PartInMemory, Opening, WithOutline, InSection, AfterSection, Ending

LEMMA MemoryKept ==
  ASSUME Typed, KeptInMemory, Proceeds, \A reason : ~Raise(reason)
  PROVE  InMemory'
<1>1. /\ drafts \in Seq(AcceptedDraft) /\ saved.drafts \in Seq(AcceptedDraft) /\ InMemory
  BY DEF Typed, TypeOK, State, KeptInMemory
<1>2. (pc \in {"outline", "outlined"} => saved = Nothing)'
  BY <1>1 DEF InMemory, Proceeds, Start, RecordOutline, CheckpointOutline, ReadDrafts, Readmit,
     Plan, BeginSection, Draft, RetryEmpty, Compress, PersistPart, CheckpointPart, Review,
     RecordSection, Summarise, CheckpointSection, Assemble, RecordFinal, CheckpointFinal,
     Publish, Call, Durable
<1>3. (pc \in Opening \cup {"readmit"} => state.drafts = saved.drafts /\ state.part = saved.part)'
  <2>1. CASE Start
    BY <2>1, SavedStep DEF Start, CheckpointOutline, CheckpointPart, CheckpointSection,
       CheckpointFinal
  <2>2. CASE CheckpointOutline
    <3>1. saved = Nothing /\ state' = state /\ state.drafts = saved.drafts
          /\ state.part = saved.part /\ saved'.drafts = <<>> /\ saved'.part = NoRef
      BY <2>2, <1>1 DEF CheckpointOutline, InMemory, Opening, Checkpoint
    <3>2. QED
      BY <3>1, NothingTypes
  <2>3. CASE pc \in Opening \cup {"readmit"} /\ UNCHANGED <<state, saved>>
    BY <2>3, <1>1 DEF InMemory
  <2>4. CASE pc' \notin Opening \cup {"readmit"}
    BY <2>4
  <2>5. QED
    BY <2>1, <2>2, <2>3, <2>4 DEF Proceeds, Opening, RecordOutline, ReadDrafts, Readmit,
       Plan, BeginSection, Draft, RetryEmpty, Compress, PersistPart, CheckpointPart, Review,
       RecordSection, Summarise, CheckpointSection, Assemble, RecordFinal, CheckpointFinal,
       Publish, Call, Durable
<1>4. (pc = "readmit" => \A i \in DOMAIN drafts : drafts[i].text = saved.drafts[i].text)'
  <2>1. CASE Readmit
    <3>1. PICK d : drafts' = Append(drafts, d) /\ d.text = state.drafts[Current].text
      BY <2>1, DraftsStep DEF Readmit, RecordSection
    <3>2. \A i \in DOMAIN drafts' : \/ i \in DOMAIN drafts /\ drafts'[i] = drafts[i]
                                    \/ i = Current /\ drafts'[i] = d
      BY <3>1, <1>1 DEF Current
    <3>3. state.drafts = saved.drafts /\ saved' = saved /\ pc = "readmit"
      BY <2>1, <1>1 DEF Readmit, InMemory, Durable
    <3>4. QED
      BY <3>1, <3>2, <3>3, <1>1 DEF InMemory
  <2>2. CASE pc \in Opening /\ UNCHANGED drafts
    BY <2>2 DEF Typed, DraftsFit
  <2>3. CASE pc' # "readmit"
    BY <2>3
  <2>4. QED
    BY <2>1, <2>2, <2>3 DEF Proceeds, Opening, Start, RecordOutline, CheckpointOutline, ReadDrafts,
       Plan, BeginSection, Draft, RetryEmpty, Compress, PersistPart, CheckpointPart, Review,
       RecordSection, Summarise, CheckpointSection, Assemble, RecordFinal, CheckpointFinal,
       Publish, Call, Document
<1>5. (pc \in WithOutline => \A i \in Good(saved.drafts) :
                           i \in DOMAIN drafts /\ drafts[i].text = saved.drafts[i].text)'
  <2>1. CASE Plan
    <3>1. /\ drafts' = drafts /\ saved' = saved /\ pc = "readmit" /\ state.drafts = saved.drafts
          /\ \A i \in DOMAIN saved.drafts : i = Current => ~Readmissible(saved.drafts[i])
          /\ Len(drafts) <= Len(saved.drafts)
      BY <2>1, <1>1 DEF Plan, InMemory, Durable, Typed, DraftsFit
    <3>2. \A i \in Good(saved.drafts) : i \in DOMAIN drafts
      <4>1. SUFFICES ASSUME NEW i \in Good(saved.drafts), i \notin DOMAIN drafts PROVE FALSE
        OBVIOUS
      <4>2. i \in DOMAIN saved.drafts /\ \A j \in 1..i : Readmissible(saved.drafts[j])
        BY <4>1 DEF Good
      <4>3. Current \in 1..i /\ Current \in DOMAIN saved.drafts
        BY <4>1, <4>2, <1>1 DEF Current
      <4>4. QED
        BY <3>1, <4>2, <4>3
    <3>3. QED
      BY <3>1, <3>2, <1>1 DEF InMemory
  <2>2. CASE RecordSection
    <3>1. PICK d : drafts' = Append(drafts, d)
      BY <2>2 DEF RecordSection
    <3>2. \A i \in DOMAIN drafts : i \in DOMAIN drafts' /\ drafts'[i] = drafts[i]
      BY <3>1, <1>1
    <3>3. pc \in WithOutline /\ saved' = saved
      BY <2>2 DEF RecordSection, WithOutline, InSection
    <3>4. QED
      BY <3>2, <3>3, <1>1 DEF InMemory
  <2>3. CASE CheckpointPart \/ CheckpointSection \/ CheckpointFinal
    <3>1. saved'.drafts = drafts /\ drafts' = drafts
      BY <2>3 DEF CheckpointPart, CheckpointSection, CheckpointFinal, Checkpoint, Document
    <3>2. QED
      BY <3>1 DEF Good
  <2>4. CASE pc \in WithOutline /\ UNCHANGED <<drafts, saved>>
    BY <2>4, <1>1 DEF InMemory
  <2>5. CASE pc' \notin WithOutline
    BY <2>5 DEF WithOutline, InSection, AfterSection, Ending
  <2>6. QED
    BY <2>1, <2>2, <2>3, <2>4, <2>5 DEF Proceeds, WithOutline, InSection, AfterSection, Ending, Start,
       RecordOutline, CheckpointOutline, ReadDrafts, Readmit, BeginSection, Draft, RetryEmpty,
       Compress, PersistPart, Review, Summarise, Assemble, RecordFinal, Publish, Call, Document,
       Durable
<1>6. QED
  BY <1>2, <1>3, <1>4, <1>5 DEF InMemory, Opening, WithOutline, InSection, AfterSection, Ending

LEMMA PartMemoryKept ==
  ASSUME Typed, PartsStoredOnce, Reported, KeptInMemory, Proceeds, \A reason : ~Raise(reason)
  PROVE  PartInMemory'
<1>1. /\ drafts \in Seq(AcceptedDraft) /\ saved.drafts \in Seq(AcceptedDraft)
      /\ Len(drafts) \in Nat /\ Len(saved.drafts) \in Nat
      /\ saved.part \in Artifact /\ InMemory /\ PartInMemory /\ SoundWhenUnchecked
  BY DEF Typed, TypeOK, State, KeptInMemory, Reported
<1>2. PartIsNext => PartOf(saved.part, Len(saved.drafts) + 1)
  BY DEF PartIsNext, PartsStoredOnce, PartsAreInStore
<1>3. CASE Plan
  <2>1. SUFFICES ASSUME PartIsNext
                 PROVE  /\ pc' = "section" => saved.part = state.part /\ Len(drafts) = Len(saved.drafts)
                        /\ pc' = "assemble" => action' = "finish_current"
    BY <1>3 DEF Plan, PartInMemory, PartIsNext, Durable, AfterSection, Ending
  <2>2. /\ drafts' = drafts /\ pc = "readmit" /\ state.drafts = saved.drafts
        /\ state.part = saved.part /\ Len(drafts) <= Len(saved.drafts) /\ saved' = saved
    BY <1>3, <1>1 DEF Plan, InMemory, Typed, DraftsFit, Durable
  <2>3. \A i \in DOMAIN saved.drafts : i \in DOMAIN drafts
    <3>1. InMemory' /\ pc' \in WithOutline
      BY <1>3, MemoryKept DEF Plan, WithOutline, InSection, Ending
    <3>2. \A i \in Good(saved.drafts) : i \in DOMAIN drafts
      BY <3>1, <2>2 DEF InMemory
    <3>3. QED
      BY <3>2, <2>1 DEF PartIsNext
  <2>4. Len(drafts) = Len(saved.drafts)
    <3>1. CASE Len(saved.drafts) = 0
      BY <3>1, <2>2, <1>1
    <3>2. CASE Len(saved.drafts) > 0
      <4>1. Len(saved.drafts) \in DOMAIN drafts
        BY <3>2, <2>3, <1>1
      <4>2. QED
        BY <4>1, <2>2, <1>1
    <3>3. QED
      BY <3>1, <3>2, <1>1
  <2>5. Len(drafts) + 1 <= Sections
    <3>1. saved.part.section \in 0..Sections
      BY <1>1 DEF Artifact
    <3>2. QED
      BY <3>1, <2>1, <2>4, <1>1, <1>2 DEF PartOf
  <2>6. pc' = "assemble" => action' = "finish_current"
    BY <1>3, <2>2, <2>5, <1>1 DEF Plan, Current
  <2>7. QED
    BY <2>2, <2>4, <2>6
<1>4. CASE BeginSection
  <2>1. SUFFICES ASSUME PartIsNext
                 PROVE  /\ pc' = "review" /\ part'.text = saved.part.text
                        /\ Len(drafts) = Len(saved.drafts)
    BY <1>4 DEF BeginSection, PartInMemory, PartIsNext, Durable, Document, AfterSection, Ending
  <2>2. saved.part = state.part /\ Len(drafts) = Len(saved.drafts)
    BY <1>4, <2>1, <1>1 DEF BeginSection, PartInMemory
  <2>3. state.part \in ResumedPart(Current) /\ \A a \in ResumedPart(Current) : a = state.part
    BY <2>1, <2>2, <1>2 DEF ResumedPart, PartOf, Current
  <2>4. part' = [NoPart EXCEPT !.text = state.part.text, !.ref = state.part] /\ pc' = "review"
    BY <1>4, <2>3 DEF BeginSection
  <2>5. QED
    BY <2>2, <2>4, NothingTypes
<1>5. CASE CheckpointPart
  <2>1. /\ saved'.drafts = drafts /\ saved'.part = part.ref /\ part.ref.text = part.text
        /\ drafts' = drafts /\ part' = part /\ pc' = "review"
    BY <1>5 DEF CheckpointPart, Checkpoint, Document, PartsStoredOnce, PartsAreInStore
  <2>2. QED
    BY <2>1 DEF PartInMemory, AfterSection, Ending
<1>6. CASE Review
  <2>1. /\ part'.text = part.text /\ drafts' = drafts /\ saved' = saved /\ pc = "review"
        /\ pc' = "record"
    BY <1>6 DEF Review, Typed, TypeOK, Durable
  <2>2. QED
    BY <2>1, <1>1 DEF PartInMemory, PartIsNext, AfterSection, Ending
<1>7. CASE RecordSection
  <2>1. PICK d : drafts' = Append(drafts, d) /\ d.text = part.text
    BY <1>7, DraftsStep DEF Readmit, RecordSection
  <2>2. Len(drafts') = Len(drafts) + 1 /\ drafts'[Len(drafts')] = d
    BY <2>1, <1>1
  <2>3. saved' = saved /\ pc = "record" /\ pc' = "summary"
    BY <1>7 DEF RecordSection
  <2>4. QED
    BY <2>1, <2>2, <2>3, <1>1 DEF PartInMemory, PartIsNext, AfterSection, Ending
<1>8. CASE CheckpointOutline \/ CheckpointSection \/ CheckpointFinal
  <2>1. saved'.part = NoRef
    BY <1>8 DEF CheckpointOutline, CheckpointSection, CheckpointFinal, Checkpoint
  <2>2. QED
    BY <2>1 DEF PartInMemory, PartIsNext, NoRef, NoText
<1>9. CASE /\ UNCHANGED <<saved, drafts, action>>
           /\ \/ pc \in {"draft", "drafted"}
              \/ pc \in AfterSection /\ pc' \in AfterSection
              \/ pc \in Ending /\ pc' \in Ending
  BY <1>9, <1>1 DEF PartInMemory, PartIsNext, AfterSection, Ending
<1>10. CASE pc' \in Opening \cup {"readmit"}
  BY <1>10 DEF PartInMemory, Opening, AfterSection, Ending
<1>11. QED
  BY <1>3, <1>4, <1>5, <1>6, <1>7, <1>8, <1>9, <1>10 DEF Proceeds, Opening, AfterSection, Ending, Start,
     RecordOutline, ReadDrafts, Readmit, Draft, RetryEmpty, Compress, PersistPart, Summarise,
     Assemble, RecordFinal, Publish, Call, Document, Durable

LEMMA KeptKept == Typed /\ PartsStoredOnce /\ Reported /\ KeptInMemory /\ Next => KeptInMemory'
<1> SUFFICES ASSUME Typed, PartsStoredOnce, Reported, KeptInMemory, Next PROVE KeptInMemory'
  OBVIOUS
<1>1. CASE \E reason : Raise(reason)
  BY <1>1, RaiseKept
<1>2. CASE Proceeds /\ \A reason : ~Raise(reason)
  BY <1>2, MemoryKept, PartMemoryKept DEF KeptInMemory
<1>3. QED
  BY <1>1, <1>2, Cases

(* A step that stores a checkpoint keeps what the one before held.          *)
LEMMA CheckpointKeeps ==
  ASSUME Typed, PartsStoredOnce, KeptInMemory, Next
  PROVE  Kept(saved, saved')
<1>1. /\ drafts \in Seq(AcceptedDraft) /\ saved.drafts \in Seq(AcceptedDraft)
      /\ Len(drafts) \in Nat /\ Len(saved.drafts) \in Nat /\ InMemory /\ PartInMemory
  BY DEF Typed, TypeOK, State, KeptInMemory
<1>2. SUFFICES
        /\ \A i \in Good(saved.drafts) :
             i \in DOMAIN saved'.drafts /\ saved'.drafts[i].text = saved.drafts[i].text
        /\ PartIsNext /\ saved'.action # "finish_current" =>
             \/ saved'.part = saved.part
             \/ /\ saved.part.section \in DOMAIN saved'.drafts
                /\ saved'.drafts[saved.part.section].text = saved.part.text
  BY DEF Kept, Good, PartIsNext
<1>3. CASE UNCHANGED saved
  BY <1>3 DEF Good
<1>4. CASE CheckpointOutline
  <2>1. saved = Nothing
    BY <1>4, <1>1 DEF CheckpointOutline, InMemory
  <2>2. QED
    BY <2>1, NothingTypes DEF Good, PartIsNext
<1>5. CASE CheckpointPart
  BY <1>5, <1>1 DEF CheckpointPart, Checkpoint, InMemory, PartInMemory, WithOutline, InSection
<1>6. CASE CheckpointSection
  <2>1. PartIsNext => /\ saved.part.section = Len(drafts) /\ Len(drafts) \in DOMAIN drafts
                      /\ drafts[Len(drafts)].text = saved.part.text
    BY <1>6, <1>1 DEF CheckpointSection, PartInMemory, PartIsNext, AfterSection, PartsStoredOnce, PartsAreInStore,
       PartOf
  <2>2. saved'.drafts = drafts /\ pc \in WithOutline
    BY <1>6 DEF CheckpointSection, Checkpoint, WithOutline, AfterSection
  <2>3. QED
    BY <2>1, <2>2, <1>1 DEF InMemory
<1>7. CASE CheckpointFinal
  BY <1>7, <1>1 DEF CheckpointFinal, Checkpoint, InMemory, PartInMemory, WithOutline, Ending
<1>8. QED
  BY <1>3, <1>4, <1>5, <1>6, <1>7, Cases, SavedStep DEF Raise, Durable

-----------------------------------------------------------------------------
(* Fifth layer.                                                             *)

LEMMA InitFirst == Init => FirstRun
BY DEF Init, FirstRun, CallsOfFirstRun, UnitsOfFirstRun, Opening, AfterSection

LEMMA NumberTypes ==
  ASSUME Typed
  PROVE  /\ budget.maximum \in Nat /\ budget.used \in Nat /\ budget.pending \in Nat
         /\ budget.reserved \in Nat /\ Left \in Int
         /\ calls.used \in Nat /\ calls.compactions \in Nat
         /\ part.empties \in 0..MaxEmptyRetries /\ part.compressions \in 0..MaxCompressions
         /\ SectionUnits(part.text) \in Nat /\ part.text.units \in Nat
         /\ Len(drafts) \in Nat /\ drafts \in Seq(AcceptedDraft) /\ CallsOfASection \in Nat
<1>1. /\ budget.maximum \in Nat /\ budget.used \in Nat /\ budget.pending \in Nat
      /\ budget.reserved \in Nat /\ Left \in Int
  BY DEF Typed, TypeOK, Left
<1>2. calls.used \in Nat /\ calls.compactions \in Nat
  BY LimitTypes DEF Typed, TypeOK, Counts
<1>3. /\ part.empties \in 0..MaxEmptyRetries /\ part.compressions \in 0..MaxCompressions
      /\ SectionUnits(part.text) \in Nat /\ part.text.units \in Nat
  BY DEF Typed, TypeOK, Text, SectionUnits
<1>4. Len(drafts) \in Nat /\ drafts \in Seq(AcceptedDraft)
  BY DEF Typed, TypeOK
<1>5. CallsOfASection \in Nat
  BY DEF CallsOfASection
<1>6. QED
  BY <1>1, <1>2, <1>3, <1>4, <1>5

(* There is always something to write with in the first run.                *)
LEMMA SomeAllowance ==
  ASSUME Typed, FirstRun, runs <= 1, pc = "draft"
  PROVE  Limit > 0
<1>1. /\ budget.maximum - budget.used >= budget.reserved + MinWords
      /\ budget.pending = Overhead
  BY DEF FirstRun, UnitsOfFirstRun, Left
<1>2. /\ budget.maximum \in Nat /\ budget.used \in Nat /\ budget.pending \in Nat
      /\ budget.reserved \in Nat
  BY NumberTypes
<1>3. Remaining(budget) >= budget.reserved + 1
  <2>1. budget.maximum - budget.used - budget.pending >= budget.reserved + 1
    BY <1>2, <1>1
  <2>2. /\ budget.maximum - budget.used - budget.pending \in Int
        /\ budget.maximum - budget.used - budget.pending > 0
    BY <1>2, <2>1
  <2>3. QED
    BY <2>1, <2>2 DEF Remaining, AtLeast0
<1>4. Allowance(budget) \in Int /\ Allowance(budget) > 0
  <2>1. Remaining(budget) \in Int
    BY <1>2 DEF Remaining, AtLeast0
  <2>2. QED
    BY <1>2, <1>3, <2>1 DEF Allowance, AtLeast0
<1>5. PartMaximum \in Int /\ PartMaximum > 0
  <2>1. (MinWords * 5 + 3) \div 4 \in Int
    OBVIOUS
  <2>2. QED
    BY <2>1 DEF PartMaximum, Largest
<1>6. QED
  BY <1>4, <1>5 DEF Limit, Least

LEMMA FailureKept ==
  ASSUME Typed, FirstRun, Next, runs' <= 1
  PROVE  failure' # "document_information_budget_exceeded:no_part_allowance"
<1>1. runs <= 1
  <2>1. runs' = runs \/ runs' = runs + 1
    BY DEF Next, Start, Step, Crash, RecordOutline, CheckpointOutline, ReadDrafts,
       Readmit, Plan, BeginSection, Draft, RetryEmpty, Compress, PersistPart, CheckpointPart,
       Review, RecordSection, Summarise, CheckpointSection, Assemble, RecordFinal,
       CheckpointFinal, Publish, Call, Raise
  <2>2. runs \in Nat
    BY DEF Typed, TypeOK
  <2>3. QED
    BY <2>1, <2>2
<1>2. Draft => ~(Limit <= 0)
  <2>1. Limit \in Int
    <3>1. (MinWords * 5 + 3) \div 4 \in Int
      OBVIOUS
    <3>2. PartMaximum \in Int
      BY <3>1 DEF PartMaximum, Largest
    <3>3. Remaining(budget) \in Int
      BY SMTT(30), NumberTypes DEF Remaining, AtLeast0
    <3>4. Allowance(budget) \in Int
      BY <3>3, NumberTypes DEF Allowance, AtLeast0
    <3>5. QED
      BY <3>2, <3>4 DEF Limit, Least
  <2>2. QED
    BY <1>1, <2>1, SomeAllowance DEF Draft
<1>3. failure # "document_information_budget_exceeded:no_part_allowance"
  BY <1>1 DEF FirstRun
<1>4. QED
  BY <1>2, <1>3 DEF Next, Start, Step, Crash, RecordOutline, CheckpointOutline, ReadDrafts,
     Readmit, Plan, BeginSection, Draft, RetryEmpty, Compress, PersistPart, CheckpointPart,
     Review, RecordSection, Summarise, CheckpointSection, Assemble, RecordFinal,
     CheckpointFinal, Publish, Call, Raise

(* The first run finds no checkpoint, so nothing is readmitted or taken up. *)
LEMMA FirstTakesNothingUp ==
  ASSUME Typed, FirstRun, Proceeds, ~Start, runs <= 1
  PROVE  /\ pc # "down" /\ state.drafts = <<>> /\ state.part = NoRef
         /\ ~Readmit /\ \A s : ResumedPart(s) = {}
<1>1. pc # "down"
  BY DEF Proceeds, Start, RecordOutline, CheckpointOutline, ReadDrafts, Readmit, Plan,
     BeginSection, Draft, RetryEmpty, Compress, PersistPart, CheckpointPart, Review,
     RecordSection, Summarise, CheckpointSection, Assemble, RecordFinal, CheckpointFinal, Publish
<1>2. state.drafts = <<>> /\ state.part = NoRef
  BY <1>1 DEF FirstRun
<1>3. ~Readmit
  <2>1. Len(state.drafts) = 0
    BY <1>2
  <2>2. ~(Current <= 0)
    BY NumberTypes DEF Current
  <2>3. QED
    BY <2>1, <2>2 DEF Readmit
<1>4. \A s : ResumedPart(s) = {}
  BY <1>2 DEF ResumedPart, NoRef
<1>5. QED
  BY <1>1, <1>2, <1>3, <1>4

LEMMA CallsKept ==
  ASSUME Typed, FirstRun, Proceeds, \A reason : ~Raise(reason), ~Start, runs <= 1
  PROVE  CallsOfFirstRun'
<1>1. CallsOfFirstRun /\ (pc = "readmit" => drafts = <<>>)
  BY DEF FirstRun
<1>2. /\ state.drafts = <<>> /\ ~Readmit /\ \A s : ResumedPart(s) = {}
  BY FirstTakesNothingUp
<1> DEFINE base == Len(drafts) * CallsOfASection
<1>3. /\ CallsOfASection = 2 + MaxCompressions + MaxEmptyRetries
      /\ CallsOfASection' = CallsOfASection /\ CallsOfASection \in Nat
  BY DEF CallsOfASection
<1>4. /\ base \in Nat /\ calls.used \in Nat /\ calls.compactions \in Nat /\ Len(drafts) \in Nat
      /\ part.empties \in 0..MaxEmptyRetries /\ part.compressions \in 0..MaxCompressions
      /\ drafts \in Seq(AcceptedDraft) /\ calls \in Counts
  <2>1. \A m, k \in Nat : m * k \in Nat
    OBVIOUS
  <2>2. QED
    BY <1>3, <2>1, NumberTypes DEF Typed, TypeOK
<1>5. \A more : CallsWithin(more) <=> calls.used <= base + calls.compactions + more
  BY DEF CallsWithin
<1>6. drafts' = drafts => Len(drafts') * CallsOfASection' = base
  BY <1>3
<1> HIDE DEF base
<1>7. CASE RecordOutline \/ CheckpointOutline \/ ReadDrafts
  BY <1>1, <1>7 DEF RecordOutline, CheckpointOutline, ReadDrafts, CallsOfFirstRun, Opening, AfterSection
<1>8. CASE Plan
  <2>1. calls' = NoCalls /\ drafts' = <<>> /\ pc' \in {"section", "assemble"}
    BY <1>1, <1>8 DEF Plan, CallsOfFirstRun
  <2>2. CallsWithin(0)'
    BY <2>1, <1>3 DEF CallsWithin, NoCalls
  <2>3. QED
    BY <2>1, <2>2 DEF CallsOfFirstRun, Opening, AfterSection
<1>9. CASE BeginSection
  <2>1. /\ pc' = "draft" /\ part' = NoPart /\ CallsWithin(0) /\ UNCHANGED <<drafts, calls>>
    BY <1>1, <1>2, <1>9 DEF BeginSection, CallsOfFirstRun, Document
  <2>2. CallsWithin(0)'
    BY <2>1, <1>5, <1>6 DEF CallsWithin
  <2>3. QED
    BY <2>1, <2>2 DEF CallsOfFirstRun, Opening, AfterSection
<1>10. CASE Draft \/ RetryEmpty \/ Compress
  <2>1. /\ pc' = "drafted" /\ drafts' = drafts /\ calls' = DraftCall
        /\ \E m \in Int : /\ CallsWithin(m) /\ part'.empties \in Int /\ part'.compressions \in Int
                          /\ 1 + part'.empties + part'.compressions = m + 1
    <3>1. CASE Draft
      <4>1. part = NoPart /\ CallsWithin(0)
        BY <1>1, <3>1 DEF Draft, CallsOfFirstRun
      <4>2. PICK t : part' = [part EXCEPT !.text = t]
        BY <1>10, <3>1 DEF Draft, Call
      <4>3. part'.empties = 0 /\ part'.compressions = 0
        BY <4>1, <4>2 DEF NoPart
      <4>4. pc' = "drafted" /\ drafts' = drafts /\ calls' = DraftCall
        BY <3>1 DEF Draft, Call, Document
      <4>5. 0 \in Int /\ 1 + part'.empties + part'.compressions = 0 + 1
        BY <4>3
      <4>6. QED
        BY <4>1, <4>3, <4>4, <4>5
    <3>2. CASE RetryEmpty
      <4>1. PICK t : part' = [part EXCEPT !.text = t, !.empties = @ + 1]
        BY <3>2 DEF RetryEmpty, Call
      <4>2. part'.empties = part.empties + 1 /\ part'.compressions = part.compressions
        BY <4>1 DEF Typed, TypeOK
      <4>3. /\ pc' = "drafted" /\ drafts' = drafts /\ calls' = DraftCall
            /\ CallsWithin(1 + part.empties + part.compressions)
        BY <1>1, <3>2 DEF RetryEmpty, Call, Document, CallsOfFirstRun
      <4>4. 1 + part.empties + part.compressions \in Int
        BY <1>4
      <4>5. /\ part'.empties \in Int /\ part'.compressions \in Int
            /\ 1 + part'.empties + part'.compressions = (1 + part.empties + part.compressions) + 1
        BY <1>4, <4>2
      <4>6. QED
        BY <4>3, <4>4, <4>5
    <3>3. CASE Compress
      <4>1. PICK t, h : part' = [part EXCEPT !.text = t, !.headed = h, !.compressions = @ + 1]
        BY <3>3 DEF Compress, Call
      <4>2. part'.empties = part.empties /\ part'.compressions = part.compressions + 1
        BY <4>1 DEF Typed, TypeOK
      <4>3. /\ pc' = "drafted" /\ drafts' = drafts /\ calls' = DraftCall
            /\ CallsWithin(1 + part.empties + part.compressions)
        BY <1>1, <3>3 DEF Compress, Call, Document, CallsOfFirstRun
      <4>4. 1 + part.empties + part.compressions \in Int
        BY <1>4
      <4>5. /\ part'.empties \in Int /\ part'.compressions \in Int
            /\ 1 + part'.empties + part'.compressions = (1 + part.empties + part.compressions) + 1
        BY SMTT(30), <1>4, <4>2
      <4>6. QED
        BY <4>3, <4>4, <4>5
    <3>4. QED
      BY <1>10, <3>1, <3>2, <3>3
  <2>2. calls'.used = calls.used + 1 /\ calls'.compactions = calls.compactions
    BY <2>1, <1>4 DEF DraftCall, Counts
  <2>3. PICK m \in Int : /\ CallsWithin(m) /\ part'.empties \in Int /\ part'.compressions \in Int
                         /\ 1 + part'.empties + part'.compressions = m + 1
    BY <2>1
  <2>4. calls.used <= base + calls.compactions + m
    BY <2>3, <1>5
  <2>5. CallsWithin(1 + part.empties + part.compressions)'
    <3>1. calls'.used <= base + calls'.compactions + (1 + part'.empties + part'.compressions)
      BY <1>4, <2>2, <2>3, <2>4
    <3>2. QED
      BY <3>1, <2>1, <1>6 DEF CallsWithin
  <2>6. QED
    BY <2>1, <2>5 DEF CallsOfFirstRun, Opening, AfterSection
<1>11. CASE PersistPart \/ CheckpointPart
  <2>1. calls.used <= base + calls.compactions + (1 + MaxEmptyRetries + MaxCompressions)
    <3>1. CASE PersistPart
      <4>1. calls.used <= base + calls.compactions + (1 + part.empties + part.compressions)
        BY <1>1, <1>5, <3>1 DEF PersistPart, CallsOfFirstRun
      <4>2. part.empties <= MaxEmptyRetries /\ part.compressions <= MaxCompressions
            /\ part.empties \in Int /\ part.compressions \in Int
        BY <1>4
      <4>3. base \in Int /\ calls.used \in Int /\ calls.compactions \in Int
        BY <1>4
      <4>4. QED
        BY <4>1, <4>2, <4>3
    <3>2. CASE CheckpointPart
      BY <1>1, <1>5, <3>2 DEF CheckpointPart, CallsOfFirstRun
    <3>3. QED
      BY <1>11, <3>1, <3>2
  <2>2. pc' \in {"persisted", "review"} /\ UNCHANGED <<drafts, calls>>
    BY <1>11 DEF PersistPart, CheckpointPart, Document
  <2>3. CallsWithin(1 + MaxEmptyRetries + MaxCompressions)'
    BY <2>1, <2>2, <1>6 DEF CallsWithin
  <2>4. QED
    BY <2>2, <2>3 DEF CallsOfFirstRun, Opening, AfterSection
<1>12. CASE Review
  <2>1. /\ pc' = "record" /\ drafts' = drafts /\ (calls' = calls \/ calls' = ReviewCall)
        /\ calls.used <= base + calls.compactions + (1 + MaxEmptyRetries + MaxCompressions)
    BY <1>1, <1>5, <1>12 DEF Review, CallsOfFirstRun
  <2>2. /\ calls'.used \in {calls.used, calls.used + 1}
        /\ calls'.compactions = calls.compactions
    BY <2>1, <1>4 DEF ReviewCall, Counts
  <2>3. calls'.used <= base + calls'.compactions + CallsOfASection
    BY <1>3, <1>4, <2>1, <2>2
  <2>4. CallsWithin(CallsOfASection)'
    BY <2>1, <2>3, <1>3, <1>6 DEF CallsWithin
  <2>5. QED
    BY <2>1, <2>4 DEF CallsOfFirstRun, Opening, AfterSection
<1>13. CASE RecordSection
  <2>1. PICK d : drafts' = Append(drafts, d)
    BY <1>13 DEF RecordSection
  <2>2. Len(drafts') = Len(drafts) + 1
    BY <2>1, <1>4
  <2>3. \A m, k \in Nat : (m + 1) * k = m * k + k
    OBVIOUS
  <2>4. Len(drafts') * CallsOfASection' = base + CallsOfASection
    BY <2>2, <2>3, <1>3, <1>4 DEF base
  <2>5. pc' = "summary" /\ calls' = calls /\ calls.used <= base + calls.compactions + CallsOfASection
    BY <1>1, <1>5, <1>13 DEF RecordSection, CallsOfFirstRun
  <2>6. calls'.used <= (base + CallsOfASection) + calls'.compactions + 0
    BY <1>3, <1>4, <2>5
  <2>7. CallsWithin(0)'
    BY <2>4, <2>6 DEF CallsWithin
  <2>8. QED
    BY <2>5, <2>7 DEF CallsOfFirstRun, Opening, AfterSection
<1>14. CASE Summarise
  <2>1. /\ pc' = "checkpoint" /\ drafts' = drafts /\ (calls' = calls \/ calls' = CompactionCall)
        /\ calls.used <= base + calls.compactions + 0
    BY <1>1, <1>5, <1>14 DEF Summarise, Document, CallsOfFirstRun, AfterSection
  <2>2. \/ calls'.used = calls.used /\ calls'.compactions = calls.compactions
        \/ calls'.used = calls.used + 1 /\ calls'.compactions = calls.compactions + 1
    BY <2>1, <1>4 DEF CompactionCall, Counts
  <2>3. calls'.used <= base + calls'.compactions + 0
    BY <1>4, <2>1, <2>2
  <2>4. CallsWithin(0)'
    BY <2>1, <2>3, <1>6 DEF CallsWithin
  <2>5. QED
    BY <2>1, <2>4 DEF CallsOfFirstRun, Opening, AfterSection
<1>15. CASE CheckpointSection
  <2>1. /\ pc' \in {"section", "assemble"} /\ UNCHANGED <<drafts, calls>>
        /\ calls.used <= base + calls.compactions + 0
    BY <1>1, <1>5, <1>15 DEF CheckpointSection, Document, CallsOfFirstRun, AfterSection
  <2>2. CallsWithin(0)'
    BY <2>1, <1>6 DEF CallsWithin
  <2>3. QED
    BY <2>1, <2>2 DEF CallsOfFirstRun, Opening, AfterSection
<1>16. CASE Assemble \/ RecordFinal \/ CheckpointFinal \/ Publish
  BY <1>16 DEF Assemble, RecordFinal, CheckpointFinal, Publish, CallsOfFirstRun, Opening, AfterSection
<1>17. QED
  BY <1>2, <1>7, <1>8, <1>9, <1>10, <1>11, <1>12, <1>13, <1>14, <1>15, <1>16 DEF Proceeds

LEMMA UnitsKept ==
  ASSUME Typed, FirstRun, Proceeds, \A reason : ~Raise(reason), ~Start, runs <= 1
  PROVE  UnitsOfFirstRun'
<1>1. UnitsOfFirstRun /\ (pc = "readmit" => drafts = <<>>)
  BY DEF FirstRun
<1>2. /\ state.drafts = <<>> /\ ~Readmit /\ \A s : ResumedPart(s) = {}
  BY FirstTakesNothingUp
<1> DEFINE later == (Sections - Current) * MinWords
<1>3. /\ budget.maximum \in Nat /\ budget.used \in Nat /\ budget.pending \in Nat
      /\ budget.reserved \in Nat /\ Len(drafts) \in Nat /\ drafts \in Seq(AcceptedDraft)
      /\ SectionUnits(part.text) \in Nat
      /\ budget \in [maximum : Nat, used : Nat, pending : Nat, reserved : Nat]
  BY NumberTypes DEF Typed, TypeOK
<1>4. pc \in InSection => /\ later \in Nat
                          /\ (Sections - Len(drafts)) * MinWords = later + MinWords
  <2>1. SUFFICES ASSUME pc \in InSection
                 PROVE  /\ later \in Nat
                        /\ (Sections - Len(drafts)) * MinWords = later + MinWords
    OBVIOUS
  <2>2. Sections - Current \in Nat /\ later \in Nat
    BY <2>1, CurrentIsASection
  <2>3. \A m, k \in Nat : (m + 1) * k = m * k + k
    OBVIOUS
  <2>4. Sections - Len(drafts) = (Sections - Current) + 1
    BY <1>3 DEF Current
  <2>5. QED
    BY <2>2, <2>3, <2>4
<1>5. drafts' = drafts => (Sections - Current') * MinWords = later
  BY DEF Current
<1> HIDE DEF later
<1>6. CASE RecordOutline \/ CheckpointOutline \/ ReadDrafts
  BY <1>6 DEF RecordOutline, CheckpointOutline, ReadDrafts, UnitsOfFirstRun, AfterSection
<1>7. CASE Plan
  <2>1. /\ drafts = <<>> /\ drafts' = drafts /\ pc' \in {"section", "assemble"}
        /\ budget' = [NoBudget EXCEPT !.maximum = InitialMaximum, !.used = UnitsOf(drafts)]
    BY <1>1, <1>7 DEF Plan
  <2>2. budget'.maximum = InitialMaximum /\ budget'.used = 0
    BY <2>1, NoUnits DEF NoBudget
  <2>3. InitialMaximum \in Int /\ InitialMaximum >= Sections * MinWords
    <3>1. Sections * MinWords \in Int /\ (Sections * MinWords * 135) \div 100 + Sections * 8 \in Int
      OBVIOUS
    <3>2. QED
      BY <3>1 DEF InitialMaximum, Largest
  <2>4. Len(drafts') = 0
    BY <2>1
  <2>5. (Sections - 0) * MinWords = Sections * MinWords
    OBVIOUS
  <2>6. Left' >= (Sections - Len(drafts')) * MinWords
    BY <2>2, <2>3, <2>4, <2>5 DEF Left
  <2>7. QED
    BY <2>1, <2>6 DEF UnitsOfFirstRun, AfterSection
<1>8. CASE BeginSection
  <2>1. /\ pc' = "draft" /\ drafts' = drafts /\ budget' = Begun(budget, 0, Sections - Current)
        /\ Left >= later + MinWords
    BY <1>1, <1>2, <1>4, <1>8 DEF BeginSection, Document, UnitsOfFirstRun, InSection
  <2>2. /\ budget'.maximum = budget.maximum /\ budget'.used = budget.used
        /\ budget'.pending = 0 + Overhead /\ budget'.reserved = later
    BY <2>1, <1>3 DEF Begun, later
  <2>3. Left' = Left
    BY <2>2 DEF Left
  <2>4. QED
    BY <2>1, <2>2, <2>3, <1>5 DEF UnitsOfFirstRun, AfterSection
<1>9. CASE PersistPart
  <2>1. /\ pc' = "persisted" /\ drafts' = drafts
        /\ \E u \in Nat : budget' = Accepted(budget, u)
        /\ budget.reserved = later /\ Left >= budget.reserved + MinWords
    <3>1. [part.text EXCEPT !.cut = FALSE].units \in Nat
      BY DEF Typed, TypeOK, Text
    <3>2. QED
      BY <3>1, <1>1, <1>9 DEF PersistPart, Document, UnitsOfFirstRun, later
  <2>2. PICK u \in Nat : budget' = Accepted(budget, u)
    BY <2>1
  <2>3. /\ budget'.maximum = budget.maximum + AtLeast0(u - Allowance(budget))
        /\ budget'.used = budget.used /\ budget'.reserved = budget.reserved
    BY <2>2, <1>3 DEF Accepted
  <2>4. AtLeast0(u - Allowance(budget)) \in Nat
    BY <1>3 DEF AtLeast0, Allowance, Remaining
  <2>5. Left' >= Left /\ Left' \in Int /\ Left \in Int
    BY <2>3, <2>4, <1>3 DEF Left
  <2>6. Left' >= budget'.reserved + MinWords
    BY <2>1, <2>3, <2>5, <1>3
  <2>7. QED
    BY <2>1, <2>3, <2>6, <1>5 DEF UnitsOfFirstRun, AfterSection
<1>10. CASE Review
  <2>1. /\ pc' = "record" /\ drafts' = drafts
        /\ budget' = Committed(budget, SectionUnits(part.text))
        /\ budget.reserved = later /\ Left >= budget.reserved + MinWords
    BY <1>1, <1>10 DEF Review, UnitsOfFirstRun, later
  <2> DEFINE u == SectionUnits(part.text)
             over == AtLeast0(u - AtLeast0(budget.maximum - budget.used - budget.reserved))
  <2>2. budget'.maximum = budget.maximum + over /\ budget'.used = budget.used + u
    BY <2>1, <1>3 DEF Committed
  <2>3. over \in Nat /\ u \in Nat
    BY <1>3 DEF AtLeast0
  <2>4. budget.maximum - budget.used >= budget.reserved
    BY <2>1, <1>3 DEF Left
  <2>5. over >= u - (budget.maximum - budget.used - budget.reserved)
    BY <1>3, <2>3, <2>4 DEF AtLeast0
  <2> HIDE DEF over, u
  <2>6. Left' >= budget.reserved
    BY <2>2, <2>3, <2>5, <1>3 DEF Left
  <2>7. QED
    BY <2>1, <2>6, <1>5 DEF UnitsOfFirstRun, AfterSection
<1>11. CASE RecordSection
  <2>1. PICK d : drafts' = Append(drafts, d)
    BY <1>11 DEF RecordSection
  <2>2. Len(drafts') = Current
    BY <2>1, <1>3 DEF Current
  <2>3. pc' = "summary" /\ budget' = budget /\ Left >= later
    BY <1>1, <1>11 DEF RecordSection, UnitsOfFirstRun, later
  <2>4. (Sections - Len(drafts')) * MinWords = later
    BY <2>2 DEF later
  <2>5. Left' = Left
    BY <2>3 DEF Left
  <2>6. QED
    BY <2>3, <2>4, <2>5 DEF UnitsOfFirstRun, AfterSection
<1>12. CASE Draft \/ RetryEmpty \/ Compress \/ CheckpointPart
  <2>1. /\ pc' \in {"drafted", "review"} /\ UNCHANGED <<drafts, budget>>
        /\ budget.reserved = later /\ Left >= budget.reserved + MinWords
    BY <1>1, <1>12 DEF Draft, RetryEmpty, Compress, CheckpointPart, Call, Document,
       UnitsOfFirstRun, later
  <2>2. Left' = Left /\ budget'.reserved = budget.reserved
    BY <2>1 DEF Left
  <2>3. QED
    BY <2>1, <2>2, <1>5 DEF UnitsOfFirstRun, AfterSection
<1>13. CASE Summarise \/ CheckpointSection
  <2>1. /\ pc' \in {"checkpoint", "section", "assemble"} /\ UNCHANGED <<drafts, budget>>
        /\ Left >= (Sections - Len(drafts)) * MinWords
    BY <1>1, <1>13 DEF Summarise, CheckpointSection, Document, UnitsOfFirstRun, AfterSection
  <2>2. QED
    BY <2>1 DEF UnitsOfFirstRun, Left, AfterSection
<1>14. CASE Assemble \/ RecordFinal \/ CheckpointFinal \/ Publish
  BY <1>14 DEF Assemble, RecordFinal, CheckpointFinal, Publish, UnitsOfFirstRun, AfterSection
<1>15. QED
  BY <1>2, <1>6, <1>7, <1>8, <1>9, <1>10, <1>11, <1>12, <1>13, <1>14 DEF Proceeds

LEMMA FirstKept == Typed /\ FirstRun /\ Next => FirstRun'
<1> SUFFICES ASSUME Typed, FirstRun, Next, runs' <= 1
             PROVE  /\ runs' = 0 => pc' = "down" /\ saved' = Nothing
                    /\ pc' # "down" => state'.drafts = <<>> /\ state'.part = NoRef
                    /\ pc' = "readmit" => drafts' = <<>>
                    /\ CallsOfFirstRun' /\ UnitsOfFirstRun'
  BY FailureKept DEF FirstRun, Nothing, NoRef, Checkpoint, NoCalls, NoText
<1>1. /\ runs \in Nat /\ runs <= 1
      /\ runs' = IF Start THEN runs + 1 ELSE runs
  <2>1. runs \in Nat
    BY DEF Typed, TypeOK
  <2>2. runs' = IF Start THEN runs + 1 ELSE runs
    BY DEF Next, Start, Step, Crash, RecordOutline, CheckpointOutline, ReadDrafts,
       Readmit, Plan, BeginSection, Draft, RetryEmpty, Compress, PersistPart, CheckpointPart,
       Review, RecordSection, Summarise, CheckpointSection, Assemble, RecordFinal,
       CheckpointFinal, Publish, Call, Raise
  <2>3. QED
    BY <2>1, <2>2
<1>2. CASE Start
  <2>1. runs = 0 /\ runs' = 1
    BY <1>1, <1>2
  <2>2. saved = Nothing
    BY <2>1 DEF FirstRun
  <2>3. /\ pc' = "outline" /\ calls' = NoCalls
    BY <1>2, <2>2, NothingTypes DEF Start
  <2>4. state'.drafts = <<>> /\ state'.part = NoRef
    <3>1. PICK control : state' = [saved EXCEPT !.action = control]
      BY <1>2 DEF Start
    <3>2. QED
      BY <2>2, <3>1 DEF Nothing, Checkpoint
  <2>5. QED
    BY <2>1, <2>3, <2>4 DEF CallsOfFirstRun, UnitsOfFirstRun, Opening, AfterSection, NoCalls
<1>3. CASE ~Start /\ \E reason : Raise(reason)
  <2>1. pc' = "down" /\ saved' = saved
    BY <1>3 DEF Raise, Durable
  <2>2. runs' = 0 => saved = Nothing
    BY <1>1, <1>3 DEF FirstRun
  <2>3. QED
    BY <2>1, <2>2 DEF CallsOfFirstRun, UnitsOfFirstRun, Opening, AfterSection
<1>4. CASE ~Start /\ Proceeds /\ \A reason : ~Raise(reason)
  <2>1. /\ pc # "down" /\ state.drafts = <<>> /\ state.part = NoRef /\ ~Readmit
    BY <1>1, <1>4, FirstTakesNothingUp
  <2>2. runs' # 0
    BY <1>1, <1>4, <2>1 DEF FirstRun
  <2>3. state' = state
    BY <1>4, SavedStep
  <2>4. pc' = "readmit" => drafts' = <<>>
    <3>1. pc' = "readmit" => pc \in Opening /\ drafts' = drafts
      BY <1>4, <2>1 DEF Proceeds, Opening, RecordOutline, CheckpointOutline, ReadDrafts,
         Plan, BeginSection, Draft, RetryEmpty, Compress, PersistPart, CheckpointPart,
         Review, RecordSection, Summarise, CheckpointSection, Assemble, RecordFinal,
         CheckpointFinal, Publish, Call, Document
    <3>2. QED
      BY <3>1 DEF Typed, DraftsFit
  <2>5. CallsOfFirstRun' /\ UnitsOfFirstRun'
    BY <1>1, <1>4, CallsKept, UnitsKept
  <2>6. QED
    BY <2>1, <2>2, <2>3, <2>4, <2>5
<1>5. QED
  BY <1>2, <1>3, <1>4, Cases

-----------------------------------------------------------------------------
(* What the layers give.                                                    *)

LEMMA InitIInv == Init => IInv
BY InitTyped, InitStored, InitReported, InitKept, InitFirst DEF IInv

LEMMA NextIInv == IInv /\ Next => IInv'
BY TypedKept, StoredKept, ReportedKept, KeptKept, FirstKept DEF IInv

LEMMA StutterIInv == IInv /\ UNCHANGED vars => IInv'
<1> SUFFICES ASSUME IInv, UNCHANGED vars PROVE IInv'
  OBVIOUS
<1> USE DEF IInv, vars
<1>1. Typed'
  BY DEF Typed, TypeOK, AllResumable, Resumable, DraftsFit
<1>2. PartsStoredOnce'
  BY DEF PartsStoredOnce, PartsAreInStore, PartOf, NoPartTwice, Current, NoRef, NoText
<1>3. Reported'
  BY DEF Reported, GapsAccounted, Accounted, Listed, SoundWhenUnchecked, OnlySoundIsPublished,
     WithOutline, InSection, AfterSection, Ending, Current
<1>4. KeptInMemory'
  BY DEF KeptInMemory, InMemory, PartInMemory, PartIsNext, Good, Opening, WithOutline, InSection,
     AfterSection, Ending, NoRef, NoText
<1>5. FirstRun'
  BY DEF FirstRun, CallsOfFirstRun, UnitsOfFirstRun, CallsWithin, Left, Current, NoRef, NoText
<1>6. QED
  BY <1>1, <1>2, <1>3, <1>4, <1>5

LEMMA Inductive == Spec => []IInv
<1>1. IInv /\ [Next]_vars => IInv'
  BY NextIInv, StutterIInv
<1>2. QED
  BY InitIInv, <1>1, PTL DEF Spec

(* The types, and that every counter of the call budget stays within its    *)
(* own limit, in memory and in the checkpoint, over any number of runs.     *)
THEOREM TypeCorrect == Spec => []TypeOK
<1>1. IInv => TypeOK
  BY DEF IInv, Typed
<1>2. QED
  BY Inductive, <1>1, PTL

(* A checkpoint names a prefix of the outline and only what is in the       *)
(* store, and no part is stored twice, wherever the runs were cut off.      *)
THEOREM StoredOnce == Spec => []WorkIsStoredOnce
<1>1. IInv => WorkIsStoredOnce
  BY DEF IInv, Typed, AllResumable, PartsStoredOnce, PartsAreInStore, PartOf, WorkIsStoredOnce,
     CheckpointIsResumable
<1>2. QED
  BY Inductive, <1>1, PTL

(* What author returns has no unsound section, and every section it lacks   *)
(* or that did not pass is listed in degraded_sections.                     *)
THEOREM ResultIsReported == Spec => []PublishedAsReported
<1>1. IInv => PublishedAsReported
  <2> SUFFICES ASSUME IInv PROVE PublishedAsReported
    OBVIOUS
  <2>1. /\ drafts \in Seq(AcceptedDraft) /\ last \in 0..Sections /\ GapsAccounted
        /\ OnlySoundIsPublished
    BY DEF IInv, Typed, TypeOK, Reported
  <2>2. SUFFICES ASSUME pc = "done", NEW s \in 1..Sections,
                        s \notin DOMAIN drafts \/ drafts[s].degraded
                 PROVE  \E e \in degraded : e.section = s
    BY <2>1 DEF PublishedAsReported, GapsAreListed
  <2>3. /\ Accounted(drafts, degraded) /\ last <= Len(drafts)
        /\ \A n \in (last + 1)..Sections : Listed(n, degraded)
    BY <2>1, <2>2 DEF GapsAccounted, WithOutline, Ending
  <2>4. CASE s \in DOMAIN drafts
    BY <2>2, <2>3, <2>4 DEF Accounted, Listed
  <2>5. CASE s \notin DOMAIN drafts
    <3>1. s \in (last + 1)..Sections
      BY <2>1, <2>3, <2>5
    <3>2. QED
      BY <2>3, <3>1 DEF Listed
  <2>6. QED
    BY <2>4, <2>5
<1>2. QED
  BY Inductive, <1>1, PTL

(* A document written in one run never lacks information units, and begins  *)
(* no section without the calls it and the later ones may need.             *)
THEOREM AloneWithinBudget == Spec => []AloneNeverOverBudget
<1>1. IInv => AloneNeverOverBudget
  <2> SUFFICES ASSUME IInv, runs <= 1, pc = "draft"
               PROVE  calls.used + (Sections - Len(drafts)) * (2 + MaxCompressions + MaxEmptyRetries)
                        <= TotalLimit
    BY DEF IInv, FirstRun, AloneNeverOverBudget
  <2> DEFINE K == 2 + MaxCompressions + MaxEmptyRetries
  <2>1. calls.used <= Len(drafts) * K + calls.compactions
    <3>1. CallsWithin(0) /\ Typed
      BY DEF IInv, FirstRun, CallsOfFirstRun
    <3>2. Len(drafts) * K \in Nat /\ calls.compactions \in Nat
      <4>1. \A m, k \in Nat : m * k \in Nat
        OBVIOUS
      <4>2. K \in Nat
        OBVIOUS
      <4>3. QED
        BY <3>1, <4>1, <4>2, NumberTypes
    <3>3. QED
      BY <3>1, <3>2 DEF CallsWithin, CallsOfASection
  <2>2. calls.compactions <= CompactionLimit /\ calls.used \in Nat /\ calls.compactions \in Nat
    BY LimitTypes DEF IInv, Typed, TypeOK, Counts
  <2>3. Len(drafts) \in 0..Sections
    BY CurrentIsASection DEF IInv, Typed, TypeOK, InSection, Current
  <2>4. \A n \in 0..Sections : n * K + (Sections - n) * K = Sections * K
    OBVIOUS
  <2>5. TotalLimit = Sections * K + CompactionLimit
    BY DEF TotalLimit
  <2>6. CompactionLimit \in Nat
    BY LimitTypes
  <2>7. QED
    <3>1. Len(drafts) * K \in Int /\ (Sections - Len(drafts)) * K \in Int /\ Sections * K \in Int
      BY <2>3
    <3>2. Len(drafts) * K + (Sections - Len(drafts)) * K = Sections * K
      BY <2>3, <2>4
    <3> HIDE DEF K
    <3>3. calls.used + (Sections - Len(drafts)) * K <= TotalLimit
      BY <2>1, <2>2, <2>5, <2>6, <3>1, <3>2
    <3>4. QED
      BY <3>3 DEF K
<1>2. QED
  BY Inductive, <1>1, PTL

(* Whatever a run does after it took up a checkpoint, the next checkpoint   *)
(* still holds the sections and the part that were good.                    *)
THEOREM WorkIsNeverLost == Spec => SoundWorkIsKept
<1>1. IInv /\ [Next]_vars => [Kept(saved, saved')]_vars
  BY CheckpointKeeps DEF IInv
<1>2. QED
  BY Inductive, <1>1, PTL DEF Spec, SoundWorkIsKept

HIDE AuthoringAssumption

-----------------------------------------------------------------------------
(* Planned parts (PartExecution).                                           *)

USE PartAssumption

Evidences == Evidence \cup {NoEvidence}
PartFields ==
  [ordinal : Nat \ {0}, covers : SUBSET Section, form : {"planned", "first", "second", "together"},
   max : Nat \ {0}, evidence : Evidences]

\* a part of the original plan keeps what it asks for and its maximum, wherever it moves
Part ==
  {p \in PartFields :
     p.form = "planned" => \E i \in DOMAIN Maxima : p.covers = Quarters(i) /\ p.max = Maxima[i]}

Identities(parts) == [n \in DOMAIN parts |-> Identity(parts[n])]

\* the accepted parts, and what the plan has behind them
Together(s, t) == s \o Dropped(t, Len(s))
AllParts == Together(accepted, plan)

\* they ask for the section, once, and for no more than it was planned for
WholeSection(parts) ==
  /\ Covers(parts) = Section
  /\ \A n, m \in DOMAIN parts : n # m => parts[n].covers \cap parts[m].covers = {}
  /\ \A n \in DOMAIN parts : parts[n].ordinal = n
  /\ Sum(Sizes(parts)) = Sum(Maxima)

CursorIsAt(c, parts) ==
  /\ c.accepted = Identities(parts) /\ c.covered = Digests(parts)

PartPhases == {"start", "generate", "persist", "checkpoint", "done", "exhausted"}

PartShape ==
  /\ run \in [n : 1 .. MaxRunsOfParts, phase : PartPhases, evidence : Evidences]
  /\ plan \in Seq(Part) /\ accepted \in Seq(Part)
  /\ revision \in 1 .. MaxPlanRevisions
  /\ persisted \in Seq({Identity(p) : p \in Part})
  /\ Len(accepted) <= Len(plan)
  /\ run.phase \in {"generate", "persist"} => Len(accepted) < Len(plan)
  /\ run.phase = "done" => Len(accepted) = Len(plan)

CursorAgrees ==
  run.phase # "start" =>
    cursor = [accepted |-> Identities(accepted), covered |-> Digests(accepted),
              remaining |-> Digests(Dropped(plan, Len(accepted))), next |-> Len(accepted) + 1,
              blocking |-> cursor.blocking, revision |-> cursor.revision]

CheckpointAgrees ==
  /\ checkpoint = [parts |-> checkpoint.parts, cursor |-> checkpoint.cursor, revision |-> checkpoint.revision]
  /\ checkpoint.parts \in Seq(Part) /\ checkpoint.revision \in Nat
  /\ CursorIsAt(checkpoint.cursor, checkpoint.parts)
  /\ \A n \in 1 .. Len(checkpoint.parts) : checkpoint.parts[n].ordinal = n
  /\ checkpoint.revision <= 1 => \A n \in 1 .. Len(checkpoint.parts) : Fits(checkpoint.parts[n])

\* a plan that was not revised is the original one, but for the evidence
PlanAgrees ==
  run.phase # "start" =>
    /\ WholeSection(AllParts)
    /\ revision = 1 => /\ \A n \in 1 .. Len(plan) : Fits(plan[n])
                       /\ \A n \in 1 .. Len(accepted) : Fits(accepted[n])

ArePersisted(parts) == \A n \in 1 .. Len(parts) : Contains(persisted, Identity(parts[n]))
PartsAreStored == ArePersisted(accepted) /\ ArePersisted(checkpoint.parts)

(* The inductive invariant of PartExecution.                                *)
PartInv ==
  PartShape /\ CursorAgrees /\ CheckpointAgrees /\ PlanAgrees /\ PartsAreStored

\* what the fields of a part are
LEMMA PartFieldsAre ==
  \A p \in Part :
    /\ p.ordinal \in Nat \ {0} /\ p.covers \subseteq Section /\ p.max \in Nat \ {0} /\ p.evidence \in Evidences
    /\ p.form \in {"planned", "first", "second", "together"}
    /\ p.form = "planned" => \E i \in DOMAIN Maxima : p.covers = Quarters(i) /\ p.max = Maxima[i]
    /\ p = [ordinal |-> p.ordinal, covers |-> p.covers, form |-> p.form, max |-> p.max, evidence |-> p.evidence]
<1> SUFFICES ASSUME NEW p \in Part
             PROVE  /\ p.ordinal \in Nat \ {0} /\ p.covers \subseteq Section /\ p.max \in Nat \ {0} /\ p.evidence \in Evidences
                    /\ p.form \in {"planned", "first", "second", "together"}
                    /\ p.form = "planned" => \E i \in DOMAIN Maxima : p.covers = Quarters(i) /\ p.max = Maxima[i]
                    /\ p = [ordinal |-> p.ordinal, covers |-> p.covers, form |-> p.form, max |-> p.max, evidence |-> p.evidence]
  OBVIOUS
<1>1. p \in PartFields /\ (p.form = "planned" => \E i \in DOMAIN Maxima : p.covers = Quarters(i) /\ p.max = Maxima[i])
  BY DEF Part
<1>2. /\ p.ordinal \in Nat \ {0} /\ p.covers \in SUBSET Section /\ p.max \in Nat \ {0} /\ p.evidence \in Evidences
      /\ p.form \in {"planned", "first", "second", "together"}
      /\ p = [ordinal |-> p.ordinal, covers |-> p.covers, form |-> p.form, max |-> p.max, evidence |-> p.evidence]
  BY <1>1 DEF PartFields
<1>3. QED
  BY <1>1, <1>2

\* a part from its fields
LEMMA PartFromFields ==
  ASSUME NEW p,
         p = [ordinal |-> p.ordinal, covers |-> p.covers, form |-> p.form, max |-> p.max, evidence |-> p.evidence],
         p.ordinal \in Nat \ {0}, p.covers \subseteq Section, p.max \in Nat \ {0}, p.evidence \in Evidences,
         p.form \in {"planned", "first", "second", "together"},
         p.form = "planned" => \E i \in DOMAIN Maxima : p.covers = Quarters(i) /\ p.max = Maxima[i]
  PROVE  p \in Part
<1>1. p \in PartFields
  BY DEF PartFields
<1>2. QED
  BY <1>1 DEF Part

\* the quarters of two parts of the section are others
LEMMA QuartersApart ==
  ASSUME NEW i \in Nat, NEW j \in Nat, i # j
  PROVE  Quarters(i) \cap Quarters(j) = {} /\ Quarters(i) # Quarters(j)
<1>1. 4 * i \in Quarters(i)
  BY DEF Quarters
<1>2. Quarters(i) \cap Quarters(j) = {}
  <2> SUFFICES ASSUME NEW x \in Quarters(i), x \in Quarters(j) PROVE FALSE
    OBVIOUS
  <2>1. x \in Int /\ 4 * i - 3 <= x /\ x <= 4 * i /\ 4 * j - 3 <= x /\ x <= 4 * j
    BY DEF Quarters
  <2>2. QED
    BY <2>1
<1>3. QED
  BY <1>1, <1>2

\* the original plan
LEMMA OriginalIs ==
  /\ Maxima \in Seq(Nat) /\ DOMAIN Maxima = 1 .. Len(Maxima) /\ Len(Maxima) \in Nat /\ Len(Maxima) >= 1
  /\ OriginalPlan \in Seq(Part) /\ Len(OriginalPlan) = Len(Maxima)
  /\ \A n \in 1 .. Len(Maxima) :
       OriginalPlan[n] = [ordinal |-> n, covers |-> Quarters(n), form |-> "planned", max |-> Maxima[n],
                          evidence |-> NoEvidence]
<1>1. Maxima \in Seq(Nat) /\ DOMAIN Maxima = 1 .. Len(Maxima) /\ Len(Maxima) \in Nat /\ Len(Maxima) >= 1
  OBVIOUS
<1>2. \A n \in 1 .. Len(Maxima) : Maxima[n] \in Nat \ {0} /\ n \in Nat \ {0} /\ Quarters(n) \in SUBSET Section
  BY DEF Section
<1>3. \A n \in 1 .. Len(Maxima) :
        OriginalPlan[n] = [ordinal |-> n, covers |-> Quarters(n), form |-> "planned", max |-> Maxima[n],
                          evidence |-> NoEvidence]
  BY <1>1 DEF OriginalPlan
<1>4. NoEvidence \in Evidences
  BY DEF Evidences
<1>5. ASSUME NEW n \in 1 .. Len(Maxima) PROVE OriginalPlan[n] \in Part
  <2>1. n \in Nat \ {0} /\ Quarters(n) \in SUBSET Section /\ Maxima[n] \in Nat \ {0}
    BY <1>2
  <2>2. n \in DOMAIN Maxima
    BY <1>1
  <2> DEFINE p == OriginalPlan[n]
  <2>3. p = [ordinal |-> n, covers |-> Quarters(n), form |-> "planned", max |-> Maxima[n], evidence |-> NoEvidence]
    BY <1>3
  <2> HIDE DEF p
  <2>4. /\ p = [ordinal |-> p.ordinal, covers |-> p.covers, form |-> p.form, max |-> p.max, evidence |-> p.evidence]
        /\ p.ordinal = n /\ p.covers = Quarters(n) /\ p.form = "planned" /\ p.max = Maxima[n] /\ p.evidence = NoEvidence
    BY <2>3
  <2>5. p \in Part
    BY <1>4, <2>1, <2>2, <2>4, PartFromFields
  <2>6. QED
    BY <2>5 DEF p
<1>6. OriginalPlan = [n \in 1 .. Len(Maxima) |-> OriginalPlan[n]]
  BY <1>1 DEF OriginalPlan
<1>7. OriginalPlan \in Seq(Part) /\ Len(OriginalPlan) = Len(Maxima)
  BY <1>1, <1>5, <1>6
<1>8. QED
  BY <1>1, <1>3, <1>7

\* what is left of a sequence of parts
LEMMA DroppedIs ==
  ASSUME NEW s \in Seq(Part), NEW k \in 0 .. Len(s)
  PROVE  /\ Dropped(s, k) \in Seq(Part) /\ Len(Dropped(s, k)) = Len(s) - k
         /\ \A i \in 1 .. Len(s) - k : Dropped(s, k)[i] = s[k + i]
BY DEF Dropped

\* parts, and behind them what a plan has left
LEMMA TogetherIs ==
  ASSUME NEW s \in Seq(Part), NEW t \in Seq(Part), Len(s) <= Len(t)
  PROVE  /\ Together(s, t) \in Seq(Part) /\ Len(Together(s, t)) = Len(t)
         /\ \A n \in 1 .. Len(t) : Together(s, t)[n] = IF n <= Len(s) THEN s[n] ELSE t[n]
<1> DEFINE r == Together(s, t)
           d == Dropped(t, Len(s))
<1>1. Len(s) \in 0 .. Len(t) /\ Len(s) \in Nat /\ Len(t) \in Nat
  OBVIOUS
<1>2. d \in Seq(Part) /\ Len(d) = Len(t) - Len(s) /\ \A i \in 1 .. Len(t) - Len(s) : d[i] = t[Len(s) + i]
  BY <1>1, DroppedIs
<1> HIDE DEF d
<1>3. r = s \o d
  BY DEF d, Together
<1> HIDE DEF r
<1>4. r \in Seq(Part) /\ Len(r) = Len(t)
  BY <1>1, <1>2, <1>3
<1>5. ASSUME NEW n \in 1 .. Len(t) PROVE r[n] = IF n <= Len(s) THEN s[n] ELSE t[n]
  <2>1. CASE n <= Len(s)
    BY <1>1, <1>2, <1>3, <2>1
  <2>2. CASE n > Len(s)
    <3>1. PICK k \in 1 .. Len(t) - Len(s) : Len(s) + k = n /\ n - Len(s) = k
      BY <1>1, <2>2
    <3>2. r[n] = d[k]
      BY <1>1, <1>2, <1>3, <2>2, <3>1
    <3>3. d[k] = t[n]
      BY <1>2, <3>1
    <3>4. ~(n <= Len(s))
      BY <1>1, <2>2
    <3> HIDE DEF d
    <3>5. QED
      BY <3>2, <3>3, <3>4
  <2>3. n <= Len(s) \/ n > Len(s)
    <3>1. n \in Int /\ Len(s) \in Int
      BY <1>1
    <3> HIDE DEF d
    <3>2. QED
      BY <3>1
  <2>4. QED
    BY <2>1, <2>2, <2>3
<1>6. QED
  BY <1>4, <1>5 DEF r

\* what fits the plan is a part of it, with its maximum
LEMMA FittingIs ==
  ASSUME NEW p \in Part, Fits(p)
  PROVE  /\ p.ordinal \in 1 .. Len(Maxima) /\ p.form = "planned"
         /\ p.covers = Quarters(p.ordinal) /\ p.max = Maxima[p.ordinal]
<1> DEFINE o == p.ordinal
<1>1. o \in 1 .. Len(Maxima) /\ Digest(OriginalPlan[o]) = Digest(p)
  BY OriginalIs DEF Fits
<1>2. OriginalPlan[o] = [ordinal |-> o, covers |-> Quarters(o), form |-> "planned", max |-> Maxima[o],
                          evidence |-> NoEvidence]
  BY <1>1, OriginalIs
<1>3. p.form = "planned" /\ p.covers = Quarters(o)
  <2>1. Digest(OriginalPlan[o]) = <<o, "planned", Quarters(o)>>
    BY <1>2 DEF Digest
  <2>2. Digest(p) = <<o, p.form, p.covers>>
    BY DEF Digest
  <2>3. <<o, "planned", Quarters(o)>> = <<o, p.form, p.covers>>
    BY <1>1, <2>1, <2>2
  <2> HIDE DEF o
  <2>4. QED
    BY <2>3
<1>4. PICK i \in DOMAIN Maxima : p.covers = Quarters(i) /\ p.max = Maxima[i]
  BY <1>3, PartFieldsAre
<1>5. i \in Nat /\ o \in Nat
  BY <1>1, OriginalIs
<1>6. i = o
  BY <1>3, <1>4, <1>5, QuartersApart
<1>7. QED
  BY <1>1, <1>3, <1>4, <1>6

\* and a part with its objective fits
LEMMA FitsByDigest ==
  ASSUME NEW p, NEW q, Digest(p) = Digest(q), Fits(p)
  PROVE  Fits(q)
<1>1. p.ordinal = q.ordinal
  BY DEF Digest
<1>2. QED
  BY <1>1 DEF Fits

\* the maxima of parts
LEMMA SizesAre ==
  ASSUME NEW s \in Seq(Part), NEW z, z = Sizes(s)
  PROVE  /\ z \in Seq(Nat) /\ Len(z) = Len(s) /\ DOMAIN z = 1 .. Len(s)
         /\ \A n \in 1 .. Len(s) : z[n] = s[n].max
<1>1. z = [n \in 1 .. Len(s) |-> s[n].max] /\ Len(s) \in Nat
  BY DEF Sizes
<1>2. \A n \in 1 .. Len(s) : s[n].max \in Nat
  BY PartFieldsAre
<1>3. QED
  BY <1>1, <1>2

LEMMA CoversAre ==
  ASSUME NEW s \in Seq(Part)
  PROVE  \A x : x \in Covers(s) <=> \E k \in 1 .. Len(s) : x \in s[k].covers
BY DEF Covers

\* the whole does not depend on forms or on evidence
LEMMA WholeSame ==
  ASSUME NEW s \in Seq(Part), NEW r \in Seq(Part), WholeSection(s), Len(r) = Len(s),
         \A n \in 1 .. Len(s) : r[n].covers = s[n].covers /\ r[n].max = s[n].max /\ r[n].ordinal = s[n].ordinal
  PROVE  WholeSection(r)
<1>1. DOMAIN s = 1 .. Len(s) /\ DOMAIN r = 1 .. Len(s)
  OBVIOUS
<1>2. Covers(r) = Covers(s)
  BY <1>1 DEF Covers
<1>3. Sizes(r) = Sizes(s)
  BY <1>1 DEF Sizes
<1>4. \A n, m \in DOMAIN r : n # m => r[n].covers \cap r[m].covers = {}
  BY <1>1 DEF WholeSection
<1>5. \A n \in DOMAIN r : r[n].ordinal = n
  BY <1>1 DEF WholeSection
<1>6. QED
  BY <1>2, <1>3, <1>4, <1>5 DEF WholeSection

\* the original plan is whole
LEMMA WholeOriginal ==
  ASSUME NEW s \in Seq(Part), Len(s) = Len(Maxima),
         \A n \in 1 .. Len(Maxima) : s[n].covers = Quarters(n) /\ s[n].max = Maxima[n] /\ s[n].ordinal = n
  PROVE  WholeSection(s)
<1>1. DOMAIN s = 1 .. Len(Maxima) /\ DOMAIN Maxima = 1 .. Len(Maxima) /\ Len(Maxima) \in Nat
  BY OriginalIs
<1>2. Covers(s) = Section
  BY <1>1 DEF Covers, Section
<1>3. Sizes(s) = Maxima
  <2>1. Maxima = [n \in 1 .. Len(Maxima) |-> Maxima[n]]
    BY OriginalIs
  <2>2. QED
    BY <1>1, <2>1 DEF Sizes
<1>4. \A n, m \in DOMAIN s : n # m => s[n].covers \cap s[m].covers = {}
  BY <1>1, QuartersApart
<1>5. QED
  BY <1>1, <1>2, <1>3, <1>4 DEF WholeSection

\* a part that becomes two
LEMMA WholeSplit ==
  ASSUME NEW s \in Seq(Part), NEW i \in 1 .. Len(s), NEW r \in Seq(Part), WholeSection(s), Len(r) = Len(s) + 1,
         \A n \in 1 .. i - 1 : r[n].covers = s[n].covers /\ r[n].max = s[n].max,
         r[i].covers \cup r[i + 1].covers = s[i].covers, r[i].covers \cap r[i + 1].covers = {},
         r[i].max + r[i + 1].max = s[i].max,
         \A n \in i + 1 .. Len(s) : r[n + 1].covers = s[n].covers /\ r[n + 1].max = s[n].max,
         \A n \in 1 .. Len(r) : r[n].ordinal = n
  PROVE  WholeSection(r)
<1> DEFINE old(n) == IF n <= i THEN n ELSE n - 1
           L == Len(s)
<1>1. DOMAIN s = 1 .. L /\ DOMAIN r = 1 .. L + 1 /\ L \in Nat /\ i \in Nat /\ i \in 1 .. L
  OBVIOUS
<1> HIDE DEF L
<1>2. ASSUME NEW n \in 1 .. L + 1 PROVE old(n) \in 1 .. L /\ r[n].covers \subseteq s[old(n)].covers
  <2>1. CASE n < i
    <3>1. n \in 1 .. i - 1 /\ n \in 1 .. L /\ old(n) = n
      BY <1>1, <2>1
    <3>2. r[n].covers = s[n].covers
      BY <3>1
    <3>3. QED
      BY <3>1, <3>2
  <2>2. CASE n = i
    BY <1>1, <2>2 DEF L
  <2>3. CASE n = i + 1
    BY <1>1, <2>3 DEF L
  <2>4. CASE n > i + 1
    <3>1. PICK k \in i + 1 .. L : n = k + 1
      BY <1>1, <2>4
    <3>2. old(n) = k /\ k \in 1 .. L
      BY <1>1, <3>1
    <3>3. QED
      BY <3>1, <3>2 DEF L
  <2>5. QED
    BY <1>1, <2>1, <2>2, <2>3, <2>4
<1>3. ASSUME NEW n \in 1 .. L + 1, NEW m \in 1 .. L + 1, n # m PROVE r[n].covers \cap r[m].covers = {}
  <2>1. CASE old(n) # old(m)
    <3>1. s[old(n)].covers \cap s[old(m)].covers = {}
      BY <1>1, <1>2, <2>1 DEF WholeSection
    <3>2. QED
      BY <1>2, <3>1
  <2>2. CASE old(n) = old(m)
    <3>1. (n = i /\ m = i + 1) \/ (n = i + 1 /\ m = i)
      <4>1. n \in Int /\ m \in Int /\ i \in Int
        BY <1>1
      <4>2. n # m
        BY <1>3
      <4>3. CASE n <= i
        BY <2>2, <4>1, <4>2, <4>3
      <4>4. CASE n > i
        BY <2>2, <4>1, <4>2, <4>4
      <4>5. QED
        BY <4>1, <4>3, <4>4
    <3>2. QED
      BY <3>1
  <2>3. QED
    BY <2>1, <2>2
<1>4. Covers(r) = Section
  <2>1. Covers(r) \subseteq Section
    <3>1. ASSUME NEW n \in 1 .. L + 1 PROVE r[n].covers \subseteq Section
      <4>1. r[n] \in Part
        BY <1>1
      <4>2. QED
        BY <4>1, PartFieldsAre
    <3>2. QED
      BY <1>1, <3>1 DEF Covers
  <2>2. ASSUME NEW x \in Section PROVE x \in Covers(r)
    <3>1. PICK k \in 1 .. L : x \in s[k].covers
      <4>1. x \in Covers(s)
        BY DEF WholeSection
      <4>2. QED
        BY <1>1, <4>1 DEF Covers
    <3>2. \E n \in 1 .. L + 1 : x \in r[n].covers
      <4>1. CASE k < i
        <5>1. k \in 1 .. i - 1 /\ k \in 1 .. L + 1
          BY <1>1, <4>1
        <5>2. QED
          BY <3>1, <5>1
      <4>2. CASE k = i
        <5>1. i \in 1 .. L + 1 /\ i + 1 \in 1 .. L + 1
          BY <1>1, <4>2
        <5>2. QED
          BY <3>1, <4>2, <5>1
      <4>3. CASE k > i
        <5>1. k \in i + 1 .. L /\ k + 1 \in 1 .. L + 1
          BY <1>1, <4>3
        <5>2. QED
          BY <3>1, <5>1 DEF L
      <4>4. QED
        BY <1>1, <4>1, <4>2, <4>3
    <3>3. QED
      BY <1>1, <3>2 DEF Covers
  <2>3. QED
    BY <2>1, <2>2
<1>5. Sum(Sizes(r)) = Sum(Sizes(s))
  <2> DEFINE z == Sizes(s)
             y == Sizes(r)
  <2>1. z \in Seq(Nat) /\ Len(z) = L /\ \A n \in 1 .. L : z[n] = s[n].max
    BY SizesAre DEF L
  <2>2. y \in Seq(Nat) /\ Len(y) = Len(r) /\ \A n \in 1 .. Len(r) : y[n] = r[n].max
    BY SizesAre
  <2>3. y[i] + y[i + 1] = z[i] /\ i \in 1 .. Len(z) /\ Len(y) = Len(z) + 1
    <3>1. i \in 1 .. Len(r) /\ i + 1 \in 1 .. Len(r) /\ i \in 1 .. L /\ Len(r) = L + 1
      BY <1>1 DEF L
    <3>2. QED
      BY <2>1, <2>2, <3>1
  <2>4. \A n \in 1 .. i - 1 : y[n] = z[n]
    <3> SUFFICES ASSUME NEW n \in 1 .. i - 1 PROVE y[n] = z[n]
      OBVIOUS
    <3>1. n \in 1 .. Len(r) /\ n \in 1 .. L
      BY <1>1 DEF L
    <3>2. QED
      BY <2>1, <2>2, <3>1
  <2>5. \A n \in i + 1 .. Len(z) : y[n + 1] = z[n]
    <3> SUFFICES ASSUME NEW n \in i + 1 .. L PROVE y[n + 1] = z[n]
      BY <2>1
    <3>1. n + 1 \in 1 .. Len(r) /\ n \in 1 .. L
      BY <1>1 DEF L
    <3>2. r[n + 1].max = s[n].max
      BY DEF L
    <3>3. QED
      BY <2>1, <2>2, <3>1, <3>2
  <2> HIDE DEF z, y
  <2>6. Sum(y) = Sum(z)
    BY <2>1, <2>2, <2>3, <2>4, <2>5, SumSplit
  <2>7. QED
    BY <2>6 DEF y, z
<1>6. QED
  BY <1>1, <1>3, <1>4, <1>5 DEF WholeSection, L

\* r has what t has behind its first parts in one part
Merges(s, t, r, i) ==
  /\ Len(t) = Len(s) /\ Len(r) = i
  /\ \A n \in i .. Len(s) : t[n].covers = s[n].covers /\ t[n].max = s[n].max
  /\ \A n \in 1 .. i - 1 : r[n].covers = s[n].covers /\ r[n].max = s[n].max /\ r[n].ordinal = n
  /\ r[i].covers = Covers(Dropped(t, i - 1)) /\ r[i].max = Sum(Sizes(Dropped(t, i - 1))) /\ r[i].ordinal = i

\* parts that become one
LEMMA WholeMerge ==
  ASSUME NEW s \in Seq(Part), NEW i \in 1 .. Len(s), NEW t \in Seq(Part), NEW r \in Seq(Part),
         WholeSection(s), Merges(s, t, r, i)
  PROVE  WholeSection(r)
<1> USE DEF Merges
<1> DEFINE L == Len(s)
           d == Dropped(t, i - 1)
<1>1. DOMAIN s = 1 .. L /\ DOMAIN r = 1 .. i /\ L \in Nat /\ i \in Nat /\ i - 1 \in 0 .. Len(t) /\ i \in 1 .. L
  OBVIOUS
<1>2. d \in Seq(Part) /\ Len(d) = Len(t) - (i - 1) /\ \A n \in 1 .. Len(t) - (i - 1) : d[n] = t[(i - 1) + n]
  BY <1>1, DroppedIs
<1>3. Len(t) = L
  OBVIOUS
<1> HIDE DEF L, d
<1>4. ASSUME NEW k \in 1 .. Len(d) PROVE d[k].covers = s[(i - 1) + k].covers /\ d[k].max = s[(i - 1) + k].max /\ (i - 1) + k \in i .. L
  <2>1. (i - 1) + k \in i .. L
    BY <1>1, <1>2, <1>3
  <2>2. d[k] = t[(i - 1) + k]
    BY <1>2
  <2>3. QED
    BY <2>1, <2>2 DEF L
<1>5. \A x : x \in r[i].covers <=> \E n \in i .. L : x \in s[n].covers
  <2>1. \A x : x \in r[i].covers <=> \E k \in 1 .. Len(d) : x \in d[k].covers
    <3>1. d \in Seq(Part)
      BY <1>2
    <3>2. r[i].covers = Covers(d)
      BY DEF d
    <3>3. \A x : x \in Covers(d) <=> \E k \in 1 .. Len(d) : x \in d[k].covers
      BY <3>1, CoversAre
    <3>4. QED
      BY <3>2, <3>3
  <2>2. ASSUME NEW n \in i .. L PROVE \E k \in 1 .. Len(d) : (i - 1) + k = n
    <3>1. n - (i - 1) \in 1 .. Len(d) /\ (i - 1) + (n - (i - 1)) = n
      BY <1>1, <1>2, <1>3
    <3>2. QED
      BY <3>1
  <2>3. ASSUME NEW x \in r[i].covers PROVE \E n \in i .. L : x \in s[n].covers
    <3>1. PICK k \in 1 .. Len(d) : x \in d[k].covers
      BY <2>1, <2>3
    <3>2. d[k].covers = s[(i - 1) + k].covers /\ (i - 1) + k \in i .. L
      BY <1>4
    <3>3. QED
      BY <3>1, <3>2
  <2>4. ASSUME NEW n \in i .. L, NEW x \in s[n].covers PROVE x \in r[i].covers
    <3>1. PICK k \in 1 .. Len(d) : (i - 1) + k = n
      BY <2>2
    <3>2. d[k].covers = s[(i - 1) + k].covers
      BY <1>4
    <3>3. x \in d[k].covers
      BY <3>1, <3>2
    <3>4. QED
      BY <2>1, <3>3
  <2>5. QED
    BY <2>3, <2>4
<1>6. \A n \in 1 .. i - 1 : r[n].covers = s[n].covers /\ n \in 1 .. L
  BY <1>1
<1>7. Covers(r) = Section
  <2>1. \A x : x \in Section <=> \E n \in 1 .. L : x \in s[n].covers
    <3>1. Section = Covers(s)
      BY DEF WholeSection
    <3>2. QED
      BY <1>1, <3>1 DEF Covers
  <2>2. ASSUME NEW x \in Covers(r) PROVE x \in Section
    <3>1. PICK n \in 1 .. i : x \in r[n].covers
      BY <1>1, <2>2 DEF Covers
    <3>2. CASE n \in 1 .. i - 1
      BY <1>6, <2>1, <3>1, <3>2
    <3>3. CASE n = i
      <4>1. PICK m \in i .. L : x \in s[m].covers
        BY <1>5, <3>1, <3>3
      <4>2. m \in 1 .. L
        BY <1>1
      <4>3. QED
        BY <2>1, <4>1, <4>2
    <3>4. QED
      BY <1>1, <3>2, <3>3
  <2>3. ASSUME NEW x \in Section PROVE x \in Covers(r)
    <3>1. PICK n \in 1 .. L : x \in s[n].covers
      BY <2>1, <2>3
    <3>2. \E m \in 1 .. i : x \in r[m].covers
      <4>1. CASE n < i
        <5>1. n \in 1 .. i - 1 /\ n \in 1 .. i
          BY <1>1, <4>1
        <5>2. QED
          BY <1>6, <3>1, <5>1
      <4>2. CASE n >= i
        <5>1. n \in i .. L /\ i \in 1 .. i
          BY <1>1, <4>2
        <5>2. QED
          BY <1>5, <3>1, <5>1
      <4>3. QED
        BY <1>1, <4>1, <4>2
    <3>3. QED
      BY <1>1, <3>2 DEF Covers
  <2>4. QED
    BY <2>2, <2>3
<1>8. ASSUME NEW n \in 1 .. i, NEW m \in 1 .. i, n < m PROVE r[n].covers \cap r[m].covers = {}
  <2>1. \A k, j \in 1 .. L : k # j => s[k].covers \cap s[j].covers = {}
    BY <1>1 DEF WholeSection
  <2>2. n \in 1 .. i - 1 /\ n \in 1 .. L
    BY <1>1, <1>8
  <2>3. CASE m < i
    <3>1. m \in 1 .. i - 1 /\ m \in 1 .. L /\ n # m
      BY <1>1, <1>8, <2>3
    <3>2. QED
      BY <1>6, <2>1, <2>2, <3>1
  <2>4. CASE m = i
    <3>1. \A k \in i .. L : k \in 1 .. L /\ n # k
      BY <1>1, <2>2
    <3>2. \A k \in i .. L : s[n].covers \cap s[k].covers = {}
      BY <2>1, <2>2, <3>1
    <3>3. r[n].covers = s[n].covers
      BY <1>6, <2>2
    <3>4. ASSUME NEW x \in r[i].covers PROVE x \notin s[n].covers
      BY <1>5, <3>2, <3>4
    <3>5. QED
      BY <2>4, <3>3, <3>4
  <2>5. QED
    BY <1>1, <2>3, <2>4
<1>9. \A n, m \in DOMAIN r : n # m => r[n].covers \cap r[m].covers = {}
  <2> SUFFICES ASSUME NEW n \in 1 .. i, NEW m \in 1 .. i, n # m PROVE r[n].covers \cap r[m].covers = {}
    BY <1>1
  <2>1. n < m \/ m < n
    BY <1>1
  <2>2. QED
    BY <1>8, <2>1
<1>10. \A n \in DOMAIN r : r[n].ordinal = n
  BY <1>1
<1>11. Sum(Sizes(r)) = Sum(Sizes(s))
  <2> DEFINE z == Sizes(s)
             y == Sizes(r)
             w == Sizes(d)
  <2>1. z \in Seq(Nat) /\ Len(z) = L /\ \A n \in 1 .. L : z[n] = s[n].max
    BY SizesAre DEF L
  <2>2. y \in Seq(Nat) /\ Len(y) = i /\ \A n \in 1 .. i : y[n] = r[n].max
    <3>1. Len(r) = i
      OBVIOUS
    <3> HIDE DEF Merges
    <3>2. y \in Seq(Nat) /\ Len(y) = Len(r) /\ \A n \in 1 .. Len(r) : y[n] = r[n].max
      BY SizesAre
    <3> HIDE DEF y
    <3>3. QED
      BY <3>1, <3>2
  <2>3. w \in Seq(Nat) /\ Len(w) = Len(d) /\ \A n \in 1 .. Len(d) : w[n] = d[n].max
    <3>1. d \in Seq(Part)
      BY <1>2
    <3>2. QED
      BY <3>1, SizesAre
  <2>4. y[i] = Sum(w)
    BY <1>1, <2>2 DEF d
  <2>5. \A n \in 1 .. i - 1 : y[n] = z[n]
    <3> SUFFICES ASSUME NEW n \in 1 .. i - 1 PROVE y[n] = z[n]
      OBVIOUS
    <3>1. n \in 1 .. i /\ n \in 1 .. L /\ r[n].max = s[n].max
      BY <1>1
    <3> HIDE DEF y, z
    <3>2. QED
      BY <2>1, <2>2, <3>1
  <2> HIDE DEF z, y, w
  <2>6. w = SubSeq(z, i, Len(z))
    <3> DEFINE u == SubSeq(z, (i - 1) + 1, Len(z))
    <3>1. i - 1 \in 0 .. Len(z)
      BY <1>1, <2>1
    <3>2. u \in Seq(Nat) /\ Len(u) = L - (i - 1) /\ \A n \in 1 .. L - (i - 1) : u[n] = z[(i - 1) + n]
      BY <2>1, <3>1, RestIs
    <3>3. (i - 1) + 1 = i
      BY <1>1
    <3> HIDE DEF u
    <3>4. \A n \in 1 .. Len(w) : w[n] = u[n]
      <4> SUFFICES ASSUME NEW n \in 1 .. Len(d) PROVE w[n] = u[n]
        BY <2>3
      <4>1. w[n] = s[(i - 1) + n].max /\ (i - 1) + n \in 1 .. L
        BY <1>1, <1>4, <2>3
      <4>2. u[n] = z[(i - 1) + n]
        BY <1>2, <1>3, <3>2
      <4>3. QED
        BY <2>1, <4>1, <4>2
    <3>5. w = u
      BY <1>2, <1>3, <2>3, <3>2, <3>4, SeqEqual
    <3>6. QED
      BY <3>3, <3>5 DEF u
  <2>7. Sum(y) = Sum(z)
    BY <1>1, <2>1, <2>2, <2>4, <2>5, <2>6, SumMerge
  <2>8. QED
    BY <2>7 DEF y, z
<1>12. QED
  BY <1>7, <1>9, <1>10, <1>11 DEF WholeSection

\* the objectives of parts do not depend on their evidence
LEMMA DigestsSame ==
  ASSUME NEW s \in Seq(Part), NEW t \in Seq(Part), Len(s) = Len(t),
         \A n \in 1 .. Len(s) : Digest(s[n]) = Digest(t[n])
  PROVE  Digests(s) = Digests(t)
BY DEF Digests

LEMMA OfNoParts ==
  /\ <<>> \in Seq(Part) /\ Len(<<>>) = 0
  /\ Identities(<<>>) = <<>> /\ Digests(<<>>) = <<>> /\ ArePersisted(<<>>)
<1>1. <<>> \in Seq(Part) /\ Len(<<>>) = 0 /\ DOMAIN <<>> = {}
  OBVIOUS
<1>2. Identities(<<>>) = <<>> /\ Digests(<<>>) = <<>>
  BY <1>1 DEF Identities, Digests
<1>3. QED
  BY <1>1, <1>2 DEF ArePersisted

LEMMA PartInitially == PartInit => PartInv
<1> SUFFICES ASSUME PartInit PROVE PartInv
  OBVIOUS
<1> USE DEF PartInit
<1>1. run.phase = "start" /\ run = [n |-> 1, phase |-> "start", evidence |-> NoEvidence]
  OBVIOUS
<1>2. PartShape
  <2>1. run \in [n : 1 .. MaxRunsOfParts, phase : PartPhases, evidence : Evidences]
    BY <1>1 DEF PartPhases, Evidences
  <2>2. plan \in Seq(Part) /\ accepted \in Seq(Part) /\ Len(accepted) <= Len(plan)
    BY OriginalIs, OfNoParts
  <2>3. persisted \in Seq({Identity(p) : p \in Part}) /\ revision \in 1 .. MaxPlanRevisions
    OBVIOUS
  <2>4. QED
    BY <1>1, <2>1, <2>2, <2>3 DEF PartShape
<1>3. CheckpointAgrees
  <2>1. checkpoint.parts = <<>> /\ checkpoint.revision = 0 /\ checkpoint.cursor = NoCursor
    BY DEF NoCheckpoint
  <2>2. checkpoint = [parts |-> checkpoint.parts, cursor |-> checkpoint.cursor, revision |-> checkpoint.revision]
    BY DEF NoCheckpoint
  <2>3. CursorIsAt(checkpoint.cursor, checkpoint.parts)
    <3>1. NoCursor.accepted = <<>> /\ NoCursor.covered = <<>>
      BY DEF NoCursor
    <3>2. QED
      BY <2>1, <3>1, OfNoParts DEF CursorIsAt
  <2>4. QED
    BY <2>1, <2>2, <2>3, OfNoParts DEF CheckpointAgrees
<1>4. PartsAreStored
  BY OfNoParts DEF PartsAreStored, NoCheckpoint
<1>5. QED
  BY <1>1, <1>2, <1>3, <1>4 DEF PartInv, CursorAgrees, PlanAgrees

\* parts that fit and are in order are first parts of the original plan
LEMMA FittingParts ==
  ASSUME NEW s \in Seq(Part), \A n \in 1 .. Len(s) : s[n].ordinal = n /\ Fits(s[n])
  PROVE  /\ Len(s) <= Len(Maxima)
         /\ \A n \in 1 .. Len(s) : s[n].covers = Quarters(n) /\ s[n].max = Maxima[n]
<1>1. \A n \in 1 .. Len(s) : s[n] \in Part
  OBVIOUS
<1>2. \A n \in 1 .. Len(s) : n \in 1 .. Len(Maxima) /\ s[n].covers = Quarters(n) /\ s[n].max = Maxima[n]
  BY <1>1, FittingIs
<1>3. Len(s) <= Len(Maxima)
  <2>1. CASE Len(s) = 0
    BY <2>1, OriginalIs
  <2>2. CASE Len(s) # 0
    <3>1. Len(s) \in 1 .. Len(s)
      BY <2>2
    <3>2. QED
      BY <1>2, <3>1
  <2>3. QED
    BY <2>1, <2>2
<1>4. QED
  BY <1>2, <1>3

LEMMA OriginalFits == \A n \in 1 .. Len(Maxima) : Fits(OriginalPlan[n])
<1> SUFFICES ASSUME NEW n \in 1 .. Len(Maxima) PROVE Fits(OriginalPlan[n])
  OBVIOUS
<1>1. OriginalPlan[n] = [ordinal |-> n, covers |-> Quarters(n), form |-> "planned", max |-> Maxima[n],
                          evidence |-> NoEvidence]
  BY OriginalIs
<1>3. n \in DOMAIN Maxima
  BY OriginalIs
<1>4. OriginalPlan[n].ordinal = n
  BY <1>1
<1>2. QED
  BY <1>3, <1>4 DEF Fits

\* what a run takes over
LEMMA TakenOver ==
  ASSUME CheckpointAgrees, NEW took, took = IF damaged THEN <<>> ELSE Resumed(checkpoint.parts)
  PROVE  /\ took \in Seq(Part)
         /\ \A n \in 1 .. Len(took) : took[n].ordinal = n /\ Fits(took[n])
         /\ \/ took = checkpoint.parts
            \/ took = <<>> /\ (checkpoint.revision > 1 \/ damaged)
<1>1. checkpoint.parts \in Seq(Part) /\ checkpoint.revision \in Nat
  BY DEF CheckpointAgrees
<1>2. DOMAIN checkpoint.parts = 1 .. Len(checkpoint.parts)
  BY <1>1
<1>3. <<>> \in Seq(Part) /\ Len(<<>>) = 0
  OBVIOUS
<1>4. CASE damaged
  BY <1>3, <1>4
<1>5. CASE ~damaged /\ \E n \in DOMAIN checkpoint.parts : ~Fits(checkpoint.parts[n])
  <2>1. took = <<>>
    BY <1>5 DEF Resumed
  <2>2. ~(checkpoint.revision <= 1)
    BY <1>2, <1>5 DEF CheckpointAgrees
  <2>3. checkpoint.revision > 1
    BY <1>1, <2>2
  <2>4. \A n \in 1 .. Len(took) : FALSE
    BY <1>3, <2>1
  <2>5. QED
    BY <1>3, <2>1, <2>3, <2>4
<1>6. CASE ~damaged /\ \A n \in DOMAIN checkpoint.parts : Fits(checkpoint.parts[n])
  <2>1. took = checkpoint.parts
    BY <1>6 DEF Resumed
  <2>2. QED
    BY <1>1, <1>2, <1>6, <2>1 DEF CheckpointAgrees
<1>7. QED
  BY <1>4, <1>5, <1>6

LEMMA StartKeeps == PartInv /\ StartRun => PartInv'
<1> SUFFICES ASSUME PartInv, StartRun PROVE PartInv'
  OBVIOUS
<1> USE DEF PartInv, StartRun
<1>1. CheckpointAgrees /\ PartShape
  OBVIOUS
<1>2. /\ accepted' \in Seq(Part)
      /\ \A n \in 1 .. Len(accepted') : accepted'[n].ordinal = n /\ Fits(accepted'[n])
      /\ accepted' = checkpoint.parts \/ accepted' = <<>>
  <2>1. accepted' = IF damaged THEN <<>> ELSE Resumed(checkpoint.parts)
    OBVIOUS
  <2>2. QED
    BY <1>1, <2>1, TakenOver
<1>3. /\ Len(accepted') <= Len(Maxima)
      /\ \A n \in 1 .. Len(accepted') : accepted'[n].covers = Quarters(n) /\ accepted'[n].max = Maxima[n]
  BY <1>2, FittingParts
<1>4. plan' = OriginalPlan /\ plan' \in Seq(Part) /\ Len(plan') = Len(Maxima)
  BY OriginalIs
<1>5. PICK e \in Evidence :
        run' = [run EXCEPT !.phase = IF Len(accepted') < Len(plan') THEN "generate" ELSE "done", !.evidence = e]
  OBVIOUS
<1>6. /\ run'.phase = IF Len(accepted') < Len(plan') THEN "generate" ELSE "done"
      /\ run' \in [n : 1 .. MaxRunsOfParts, phase : PartPhases, evidence : Evidences]
  BY <1>1, <1>5 DEF PartShape, PartPhases, Evidences
<1>7. PartShape'
  <2>1. revision' \in 1 .. MaxPlanRevisions /\ persisted' = persisted
    OBVIOUS
  <2>2. Len(accepted') \in Nat /\ Len(plan') \in Nat
    BY <1>2, <1>4
  <2>3. /\ run'.phase \in {"generate", "persist"} => Len(accepted') < Len(plan')
        /\ run'.phase = "done" => Len(accepted') = Len(plan')
    BY <1>3, <1>4, <1>6, <2>2
  <2>4. QED
    BY <1>1, <1>2, <1>3, <1>4, <1>6, <2>1, <2>3 DEF PartShape
<1>8. CursorAgrees'
  BY DEF CursorAgrees, CursorAt, Identities
<1>9. CheckpointAgrees'
  BY <1>1 DEF CheckpointAgrees
<1>10. PlanAgrees'
  <2>1. WholeSection(AllParts')
    <3> DEFINE r == Together(accepted', plan')
    <3>1. /\ r \in Seq(Part) /\ Len(r) = Len(Maxima)
          /\ \A n \in 1 .. Len(Maxima) : r[n] = IF n <= Len(accepted') THEN accepted'[n] ELSE plan'[n]
      <4> DEFINE p == plan'
                 a == accepted'
      <4>1. a \in Seq(Part) /\ p \in Seq(Part) /\ Len(a) <= Len(p) /\ Len(p) = Len(Maxima)
        BY <1>2, <1>3, <1>4
      <4>2. r = Together(a, p)
        OBVIOUS
      <4> HIDE DEF p, a, r
      <4>3. /\ r \in Seq(Part) /\ Len(r) = Len(p)
            /\ \A n \in 1 .. Len(p) : r[n] = IF n <= Len(a) THEN a[n] ELSE p[n]
        BY <4>1, <4>2, TogetherIs
      <4>4. QED
        BY <4>1, <4>3 DEF p, a
    <3>2. \A n \in 1 .. Len(Maxima) : plan'[n].covers = Quarters(n) /\ plan'[n].max = Maxima[n] /\ plan'[n].ordinal = n
      <4> SUFFICES ASSUME NEW n \in 1 .. Len(Maxima)
                   PROVE  /\ OriginalPlan[n].covers = Quarters(n) /\ OriginalPlan[n].max = Maxima[n]
                          /\ OriginalPlan[n].ordinal = n
        BY <1>4
      <4>1. OriginalPlan[n] = [ordinal |-> n, covers |-> Quarters(n), form |-> "planned", max |-> Maxima[n],
                                evidence |-> NoEvidence]
        BY OriginalIs
      <4>2. QED
        BY <4>1
    <3> HIDE DEF r
    <3>3. \A n \in 1 .. Len(Maxima) : r[n].covers = Quarters(n) /\ r[n].max = Maxima[n] /\ r[n].ordinal = n
      <4> SUFFICES ASSUME NEW n \in 1 .. Len(Maxima)
                   PROVE  r[n].covers = Quarters(n) /\ r[n].max = Maxima[n] /\ r[n].ordinal = n
        OBVIOUS
      <4>1. CASE n <= Len(accepted')
        <5>1. n \in 1 .. Len(accepted')
          BY <1>2, <4>1
        <5>2. QED
          BY <1>2, <1>3, <3>1, <4>1, <5>1
      <4>2. CASE ~(n <= Len(accepted'))
        BY <3>1, <3>2, <4>2
      <4>3. QED
        BY <4>1, <4>2
    <3>4. WholeSection(r)
      BY <3>1, <3>3, WholeOriginal
    <3>5. QED
      BY <3>4 DEF r, AllParts, Together
  <2>2. \A n \in 1 .. Len(plan') : Fits(plan'[n])
    BY <1>4, OriginalFits
  <2>3. QED
    BY <1>2, <2>1, <2>2 DEF PlanAgrees
<1>11. PartsAreStored'
  <2>1. ArePersisted(<<>>)' /\ ArePersisted(checkpoint.parts)'
    BY DEF PartsAreStored, ArePersisted
  <2>2. ArePersisted(accepted)'
    BY <1>2, <2>1 DEF ArePersisted
  <2>3. QED
    BY <2>1, <2>2 DEF PartsAreStored
<1>12. QED
  BY <1>7, <1>8, <1>9, <1>10, <1>11 DEF PartInv

WithCurrent == [plan EXCEPT ![Index] = CurrentPart]

LEMMA CurrentIs ==
  ASSUME PartShape, Len(accepted) < Len(plan)
  PROVE  /\ Index \in 1 .. Len(plan) /\ Index = Len(accepted) + 1 /\ Index - 1 = Len(accepted)
         /\ CurrentPart \in Part /\ CurrentPart.covers = plan[Index].covers /\ CurrentPart.max = plan[Index].max
         /\ CurrentPart.ordinal = plan[Index].ordinal /\ CurrentPart.form = plan[Index].form
<1>1. Len(accepted) \in Nat /\ Len(plan) \in Nat /\ run.evidence \in Evidences
  BY DEF PartShape
<1>2. Index \in 1 .. Len(plan) /\ Index = Len(accepted) + 1 /\ Index - 1 = Len(accepted)
  BY <1>1 DEF Index
<1> DEFINE p == plan[Index]
           c == CurrentPart
           e == run.evidence
<1>3. p \in Part
  BY <1>2 DEF PartShape
<1>4. c = [p EXCEPT !.evidence = e] /\ e \in Evidences
  BY <1>1 DEF CurrentPart
<1> HIDE DEF p, c, e
<1>5. p = [ordinal |-> p.ordinal, covers |-> p.covers, form |-> p.form, max |-> p.max, evidence |-> p.evidence]
  BY <1>3, PartFieldsAre
<1>6. c = [ordinal |-> p.ordinal, covers |-> p.covers, form |-> p.form, max |-> p.max, evidence |-> e]
  BY <1>4, <1>5
<1>7. /\ p.ordinal \in Nat \ {0} /\ p.covers \in SUBSET Section /\ p.max \in Nat \ {0}
      /\ p.form \in {"planned", "first", "second", "together"}
      /\ p.form = "planned" => \E i \in DOMAIN Maxima : p.covers = Quarters(i) /\ p.max = Maxima[i]
  <2>1. p.covers \subseteq Section
    BY <1>3, PartFieldsAre
  <2>2. QED
    BY <1>3, <2>1, PartFieldsAre
<1>8. c \in Part
  <2>1. /\ c = [ordinal |-> c.ordinal, covers |-> c.covers, form |-> c.form, max |-> c.max, evidence |-> c.evidence]
        /\ c.ordinal = p.ordinal /\ c.covers = p.covers /\ c.form = p.form /\ c.max = p.max /\ c.evidence = e
    BY <1>6
  <2>2. QED
    BY <1>4, <1>7, <2>1, PartFromFields
<1>9. c.covers = p.covers /\ c.max = p.max /\ c.ordinal = p.ordinal /\ c.form = p.form
  BY <1>6
<1>10. QED
  BY <1>2, <1>8, <1>9 DEF c, p

LEMMA WithCurrentIs ==
  ASSUME PartShape, Len(accepted) < Len(plan)
  PROVE  /\ WithCurrent \in Seq(Part) /\ Len(WithCurrent) = Len(plan)
         /\ \A n \in 1 .. Len(plan) :
              /\ WithCurrent[n].covers = plan[n].covers /\ WithCurrent[n].max = plan[n].max
              /\ WithCurrent[n].ordinal = plan[n].ordinal /\ Digest(WithCurrent[n]) = Digest(plan[n])
<1>1. /\ Index \in 1 .. Len(plan) /\ CurrentPart \in Part /\ CurrentPart.covers = plan[Index].covers
      /\ CurrentPart.max = plan[Index].max /\ CurrentPart.ordinal = plan[Index].ordinal
      /\ CurrentPart.form = plan[Index].form
  BY CurrentIs
<1>2. plan \in Seq(Part)
  BY DEF PartShape
<1> DEFINE c == CurrentPart
           i == Index
           p == WithCurrent
<1>3. p = [plan EXCEPT ![i] = c]
  BY DEF WithCurrent
<1>4. c \in Part /\ i \in 1 .. Len(plan)
  BY <1>1
<1> HIDE DEF c, i, p
<1>5. p \in Seq(Part) /\ Len(p) = Len(plan) /\ \A n \in 1 .. Len(plan) : p[n] = IF n = i THEN c ELSE plan[n]
  BY <1>2, <1>3, <1>4
<1>6. c.covers = plan[i].covers /\ c.max = plan[i].max /\ c.ordinal = plan[i].ordinal /\ Digest(c) = Digest(plan[i])
  BY <1>1 DEF c, i, Digest
<1>7. ASSUME NEW n \in 1 .. Len(plan)
      PROVE  /\ p[n].covers = plan[n].covers /\ p[n].max = plan[n].max
             /\ p[n].ordinal = plan[n].ordinal /\ Digest(p[n]) = Digest(plan[n])
  <2>1. CASE n = i
    BY <1>5, <1>6, <2>1
  <2>2. CASE n # i
    BY <1>5, <2>2
  <2>3. QED
    BY <2>1, <2>2
<1>8. QED
  BY <1>5, <1>7 DEF p

\* a plan with the same parts, other evidence
LEMMA PlanSame ==
  ASSUME PartShape, NEW p \in Seq(Part), Len(p) = Len(plan), WholeSection(AllParts),
         \A n \in 1 .. Len(plan) :
           p[n].covers = plan[n].covers /\ p[n].max = plan[n].max /\ p[n].ordinal = plan[n].ordinal
           /\ Digest(p[n]) = Digest(plan[n])
  PROVE  /\ WholeSection(Together(accepted, p))
         /\ Digests(Dropped(p, Len(accepted))) = Digests(Dropped(plan, Len(accepted)))
<1>1. accepted \in Seq(Part) /\ plan \in Seq(Part) /\ Len(accepted) \in 0 .. Len(plan) /\ Len(accepted) <= Len(plan)
  BY DEF PartShape
<1> DEFINE r == Together(accepted, p)
           s == Together(accepted, plan)
           k == Len(accepted)
<1>2. /\ r \in Seq(Part) /\ Len(r) = Len(plan)
      /\ \A n \in 1 .. Len(plan) : r[n] = IF n <= k THEN accepted[n] ELSE p[n]
  BY <1>1, TogetherIs
<1>3. /\ s \in Seq(Part) /\ Len(s) = Len(plan)
      /\ \A n \in 1 .. Len(plan) : s[n] = IF n <= k THEN accepted[n] ELSE plan[n]
  BY <1>1, TogetherIs
<1>4. WholeSection(s)
  BY DEF AllParts
<1> HIDE DEF r, s
<1>5. \A n \in 1 .. Len(s) : r[n].covers = s[n].covers /\ r[n].max = s[n].max /\ r[n].ordinal = s[n].ordinal
  <2> SUFFICES ASSUME NEW n \in 1 .. Len(plan)
               PROVE  r[n].covers = s[n].covers /\ r[n].max = s[n].max /\ r[n].ordinal = s[n].ordinal
    BY <1>3
  <2>1. CASE n <= k
    BY <1>2, <1>3, <2>1
  <2>2. CASE ~(n <= k)
    BY <1>2, <1>3, <2>2
  <2>3. QED
    BY <2>1, <2>2
<1>6. WholeSection(r)
  BY <1>2, <1>3, <1>4, <1>5, WholeSame
<1> DEFINE d == Dropped(p, k)
           e == Dropped(plan, k)
<1>7. /\ d \in Seq(Part) /\ Len(d) = Len(plan) - k /\ \A i \in 1 .. Len(plan) - k : d[i] = p[k + i]
      /\ e \in Seq(Part) /\ Len(e) = Len(plan) - k /\ \A i \in 1 .. Len(plan) - k : e[i] = plan[k + i]
  BY <1>1, DroppedIs
<1> HIDE DEF d, e
<1>8. \A i \in 1 .. Len(plan) - k : k + i \in 1 .. Len(plan)
  BY <1>1
<1>9. \A i \in 1 .. Len(d) : Digest(d[i]) = Digest(e[i])
  BY <1>7, <1>8
<1>10. Digests(d) = Digests(e)
  BY <1>7, <1>9, DigestsSame
<1>11. QED
  BY <1>6, <1>10 DEF r, d, e

LEMMA GoodKeeps == PartInv /\ GenerateGood => PartInv'
<1> SUFFICES ASSUME PartInv, GenerateGood PROVE PartInv'
  OBVIOUS
<1> USE DEF GenerateGood
<1>1. PartShape /\ CursorAgrees /\ CheckpointAgrees /\ PlanAgrees /\ PartsAreStored
  BY DEF PartInv
<1>2. run.phase = "generate" /\ Len(accepted) < Len(plan) /\ plan' = WithCurrent /\ accepted' = accepted
  BY <1>1 DEF PartShape, WithCurrent
<1>3. /\ plan' \in Seq(Part) /\ Len(plan') = Len(plan)
      /\ \A n \in 1 .. Len(plan) :
           /\ plan'[n].covers = plan[n].covers /\ plan'[n].max = plan[n].max
           /\ plan'[n].ordinal = plan[n].ordinal /\ Digest(plan'[n]) = Digest(plan[n])
  BY <1>1, <1>2, WithCurrentIs
<1>4. /\ run' = [run EXCEPT !.phase = "persist"]
      /\ run' \in [n : 1 .. MaxRunsOfParts, phase : PartPhases, evidence : Evidences] /\ run'.phase = "persist"
  BY <1>1 DEF PartShape, PartPhases
<1>5. PartShape'
  BY <1>1, <1>2, <1>3, <1>4 DEF PartShape
<1>6. WholeSection(AllParts)
  BY <1>1, <1>2 DEF PlanAgrees
<1>7. /\ WholeSection(Together(accepted, plan'))
      /\ Digests(Dropped(plan', Len(accepted))) = Digests(Dropped(plan, Len(accepted)))
  <2> DEFINE p == plan'
  <2>1. p \in Seq(Part) /\ Len(p) = Len(plan)
    BY <1>3
  <2>2. \A n \in 1 .. Len(plan) :
          p[n].covers = plan[n].covers /\ p[n].max = plan[n].max /\ p[n].ordinal = plan[n].ordinal
          /\ Digest(p[n]) = Digest(plan[n])
    BY <1>3
  <2> HIDE DEF p
  <2>3. /\ WholeSection(Together(accepted, p))
        /\ Digests(Dropped(p, Len(accepted))) = Digests(Dropped(plan, Len(accepted)))
    BY <1>1, <1>6, <2>1, <2>2, PlanSame
  <2>4. QED
    BY <2>3 DEF p
<1>8. CursorAgrees'
  <2>1. cursor = [accepted |-> Identities(accepted), covered |-> Digests(accepted),
                  remaining |-> Digests(Dropped(plan, Len(accepted))), next |-> Len(accepted) + 1,
                  blocking |-> cursor.blocking, revision |-> cursor.revision]
    BY <1>1, <1>2 DEF CursorAgrees
  <2>2. cursor' = cursor
    OBVIOUS
  <2>3. Digests(accepted)' = Digests(accepted) /\ Identities(accepted)' = Identities(accepted)
    BY <1>2 DEF Digests, Identities
  <2>4. Digests(Dropped(plan, Len(accepted)))' = Digests(Dropped(plan', Len(accepted)))
    BY <1>2 DEF Digests, Dropped
  <2>5. QED
    BY <1>2, <1>7, <2>1, <2>2, <2>3, <2>4 DEF CursorAgrees
<1>9. CheckpointAgrees'
  BY <1>1 DEF CheckpointAgrees
<1>10. PlanAgrees'
  <2>1. WholeSection(AllParts)'
    BY <1>2, <1>7 DEF AllParts, Together, WholeSection
  <2>2. revision' = 1 => \A n \in 1 .. Len(plan') : Fits(plan'[n])
    <3> SUFFICES ASSUME revision = 1, NEW n \in 1 .. Len(plan) PROVE Fits(plan'[n])
      BY <1>3
    <3>1. Fits(plan[n]) /\ Digest(plan[n]) = Digest(plan'[n])
      BY <1>1, <1>2, <1>3 DEF PlanAgrees
    <3>2. QED
      BY <3>1, FitsByDigest
  <2>3. revision' = 1 => \A n \in 1 .. Len(accepted') : Fits(accepted'[n])
    BY <1>1, <1>2 DEF PlanAgrees
  <2>4. QED
    BY <2>1, <2>2, <2>3 DEF PlanAgrees
<1>11. PartsAreStored'
  BY <1>1 DEF PartsAreStored, ArePersisted
<1>12. QED
  BY <1>5, <1>8, <1>9, <1>10, <1>11 DEF PartInv

LEMMA DamageKeeps == PartInv /\ DamageArtifact => PartInv'
<1> SUFFICES ASSUME PartInv, DamageArtifact PROVE PartInv'
  OBVIOUS
<1>1. UNCHANGED <<run, plan, revision, accepted, cursor, persisted, checkpoint>>
  BY DEF DamageArtifact
<1>2. PartShape' /\ CursorAgrees' /\ CheckpointAgrees'
  BY <1>1 DEF PartInv, PartShape, CursorAgrees, CheckpointAgrees
<1>3. PlanAgrees' /\ PartsAreStored'
  BY <1>1 DEF PartInv, PlanAgrees, PartsAreStored, AllParts, ArePersisted
<1>4. QED
  BY <1>2, <1>3 DEF PartInv

LEMMA RunAgainKeeps == PartInv /\ RunAgain => PartInv'
<1> SUFFICES ASSUME PartInv, RunAgain PROVE PartInv'
  OBVIOUS
<1> USE DEF RunAgain
<1>1. PartShape /\ CheckpointAgrees /\ PartsAreStored
  BY DEF PartInv
<1>2. run' \in [n : 1 .. MaxRunsOfParts, phase : PartPhases, evidence : Evidences] /\ run'.phase = "start"
  <2>1. run.n \in 1 .. MaxRunsOfParts
    BY <1>1 DEF PartShape
  <2>2. run.n + 1 \in 1 .. MaxRunsOfParts
    BY <2>1
  <2>3. QED
    BY <2>2 DEF PartPhases, Evidences
<1>3. plan' \in Seq(Part) /\ accepted' \in Seq(Part) /\ Len(accepted') <= Len(plan')
  BY OriginalIs, OfNoParts
<1>4. PartShape'
  BY <1>1, <1>2, <1>3 DEF PartShape
<1>5. CheckpointAgrees'
  BY <1>1 DEF CheckpointAgrees
<1>6. PartsAreStored'
  <2>1. ArePersisted(accepted)'
    BY OfNoParts DEF ArePersisted
  <2>2. ArePersisted(checkpoint.parts)'
    BY <1>1 DEF ArePersisted, PartsAreStored
  <2>3. QED
    BY <2>1, <2>2 DEF PartsAreStored
<1>7. QED
  BY <1>2, <1>4, <1>5, <1>6 DEF PartInv, CursorAgrees, PlanAgrees

\* one more artifact
LEMMA OneMorePersisted ==
  ASSUME NEW T, NEW s \in Seq(T), NEW x \in T
  PROVE  /\ Append(s, x) \in Seq(T) /\ Contains(Append(s, x), x)
         /\ \A y : Contains(s, y) => Contains(Append(s, x), y)
<1> DEFINE t == Append(s, x)
<1>1. t \in Seq(T) /\ Len(t) = Len(s) + 1 /\ t[Len(s) + 1] = x /\ \A i \in 1 .. Len(s) : t[i] = s[i]
  OBVIOUS
<1>2. Len(s) \in Nat /\ Len(s) + 1 \in 1 .. Len(t) /\ \A i \in 1 .. Len(s) : i \in 1 .. Len(t)
  BY <1>1
<1> HIDE DEF t
<1>3. Contains(t, x)
  BY <1>1, <1>2 DEF Contains
<1>4. ASSUME NEW y, Contains(s, y) PROVE Contains(t, y)
  <2>1. PICK i \in 1 .. Len(s) : s[i] = y
    BY <1>4 DEF Contains
  <2>2. i \in 1 .. Len(t) /\ t[i] = y
    BY <1>1, <1>2, <2>1
  <2>3. QED
    BY <2>2 DEF Contains
<1>5. QED
  BY <1>1, <1>3, <1>4 DEF t

LEMMA AppendedIs ==
  ASSUME NEW a \in Seq(Part), NEW p \in Part
  PROVE  /\ Append(a, p) \in Seq(Part) /\ Len(Append(a, p)) = Len(a) + 1 /\ DOMAIN Append(a, p) = 1 .. Len(a) + 1
         /\ Append(a, p)[Len(a) + 1] = p /\ \A n \in 1 .. Len(a) : Append(a, p)[n] = a[n]
OBVIOUS

\* what holds of the parts and of one more, holds of all
LEMMA UpToOneMore == ASSUME NEW k \in Nat PROVE \A n \in 1 .. k + 1 : n \in 1 .. k \/ n = k + 1
OBVIOUS

LEMMA IdentitiesAppend ==
  ASSUME NEW a \in Seq(Part), NEW p \in Part
  PROVE  Identities(Append(a, p)) = Append(Identities(a), Identity(p))
<1> DEFINE T == {Identity(q) : q \in Part}
           b == Append(a, p)
           k == Len(a)
           x == Append(Identities(a), Identity(p))
           y == Identities(b)
<1>1. /\ b \in Seq(Part) /\ Len(b) = k + 1 /\ DOMAIN b = 1 .. k + 1 /\ b[k + 1] = p
      /\ \A n \in 1 .. k : b[n] = a[n]
  BY AppendedIs
<1>2. k \in Nat /\ DOMAIN a = 1 .. k
  OBVIOUS
<1> HIDE DEF b, k
<1>3. /\ Identities(a) \in Seq(T) /\ Len(Identities(a)) = k
      /\ \A n \in 1 .. k : Identities(a)[n] = Identity(a[n])
  <2>1. Identities(a) = [n \in 1 .. k |-> Identity(a[n])]
    BY <1>2 DEF Identities
  <2>2. \A n \in 1 .. k : a[n] \in Part
    BY <1>2 DEF k
  <2>3. QED
    BY <1>2, <2>1, <2>2
<1>4. y \in Seq(T) /\ Len(y) = k + 1 /\ \A n \in 1 .. k + 1 : y[n] = Identity(b[n])
  <2>1. y = [n \in 1 .. k + 1 |-> Identity(b[n])]
    BY <1>1 DEF Identities
  <2>2. \A n \in 1 .. k + 1 : b[n] \in Part
    BY <1>1, <1>2
  <2>3. QED
    BY <1>2, <2>1, <2>2
<1>5. Identity(p) \in T
  OBVIOUS
<1> HIDE DEF T, y
<1>6. x \in Seq(T) /\ Len(x) = k + 1 /\ x[k + 1] = Identity(p) /\ \A n \in 1 .. k : x[n] = Identity(a[n])
  BY <1>2, <1>3, <1>5
<1> HIDE DEF x
<1>7. \A n \in 1 .. Len(x) : x[n] = y[n]
  BY <1>1, <1>2, <1>4, <1>6, UpToOneMore
<1>8. x = y
  BY <1>4, <1>6, <1>7, SeqEqual
<1>9. QED
  BY <1>8 DEF x, y, b

LEMMA DigestsAppend ==
  ASSUME NEW a \in Seq(Part), NEW p \in Part
  PROVE  Digests(Append(a, p)) = Append(Digests(a), Digest(p))
<1> DEFINE T == {Digest(q) : q \in Part}
           b == Append(a, p)
           k == Len(a)
           x == Append(Digests(a), Digest(p))
           y == Digests(b)
<1>1. /\ b \in Seq(Part) /\ Len(b) = k + 1 /\ DOMAIN b = 1 .. k + 1 /\ b[k + 1] = p
      /\ \A n \in 1 .. k : b[n] = a[n]
  BY AppendedIs
<1>2. k \in Nat /\ DOMAIN a = 1 .. k
  OBVIOUS
<1> HIDE DEF b, k
<1>3. /\ Digests(a) \in Seq(T) /\ Len(Digests(a)) = k
      /\ \A n \in 1 .. k : Digests(a)[n] = Digest(a[n])
  <2>1. Digests(a) = [n \in 1 .. k |-> Digest(a[n])]
    BY <1>2 DEF Digests
  <2>2. \A n \in 1 .. k : a[n] \in Part
    BY <1>2 DEF k
  <2>3. QED
    BY <1>2, <2>1, <2>2
<1>4. y \in Seq(T) /\ Len(y) = k + 1 /\ \A n \in 1 .. k + 1 : y[n] = Digest(b[n])
  <2>1. y = [n \in 1 .. k + 1 |-> Digest(b[n])]
    BY <1>1 DEF Digests
  <2>2. \A n \in 1 .. k + 1 : b[n] \in Part
    BY <1>1, <1>2
  <2>3. QED
    BY <1>2, <2>1, <2>2
<1>5. Digest(p) \in T
  OBVIOUS
<1> HIDE DEF T, y
<1>6. x \in Seq(T) /\ Len(x) = k + 1 /\ x[k + 1] = Digest(p) /\ \A n \in 1 .. k : x[n] = Digest(a[n])
  BY <1>2, <1>3, <1>5
<1> HIDE DEF x
<1>7. \A n \in 1 .. Len(x) : x[n] = y[n]
  BY <1>1, <1>2, <1>4, <1>6, UpToOneMore
<1>8. x = y
  BY <1>4, <1>6, <1>7, SeqEqual
<1>9. QED
  BY <1>8 DEF x, y, b

LEMMA TogetherAppend ==
  ASSUME NEW a \in Seq(Part), NEW t \in Seq(Part), Len(a) < Len(t), NEW p, p = t[Len(a) + 1]
  PROVE  Together(Append(a, p), t) = Together(a, t)
<1> DEFINE k == Len(a)
           b == Append(a, p)
           r == Together(a, t)
           s == Together(b, t)
<1>1. k \in Nat /\ Len(t) \in Nat /\ k < Len(t) /\ p \in Part /\ p = t[k + 1] /\ k <= Len(t) /\ k + 1 <= Len(t)
  OBVIOUS
<1>2. b \in Seq(Part) /\ Len(b) = k + 1 /\ b[k + 1] = p /\ \A n \in 1 .. k : b[n] = a[n]
  BY <1>1, AppendedIs
<1>3. r \in Seq(Part) /\ Len(r) = Len(t) /\ \A n \in 1 .. Len(t) : r[n] = IF n <= k THEN a[n] ELSE t[n]
  BY <1>1, TogetherIs
<1> HIDE DEF r, k, b
<1>4. s \in Seq(Part) /\ Len(s) = Len(t) /\ \A n \in 1 .. Len(t) : s[n] = IF n <= k + 1 THEN b[n] ELSE t[n]
  BY <1>1, <1>2, TogetherIs
<1> HIDE DEF s
<1>5. \A n \in 1 .. Len(s) : s[n] = r[n]
  <2> SUFFICES ASSUME NEW n \in 1 .. Len(t) PROVE s[n] = r[n]
    BY <1>4
  <2>1. CASE n <= k
    <3>1. n \in 1 .. k /\ n <= k + 1
      BY <1>1, <2>1
    <3>2. QED
      BY <1>2, <1>3, <1>4, <2>1, <3>1
  <2>2. CASE n = k + 1
    <3>1. ~(n <= k) /\ n <= k + 1
      BY <1>1, <2>2
    <3>2. QED
      BY <1>1, <1>2, <1>3, <1>4, <2>2, <3>1
  <2>3. CASE n > k + 1
    <3>1. ~(n <= k) /\ ~(n <= k + 1)
      BY <1>1, <2>3
    <3>2. QED
      BY <1>3, <1>4, <3>1
  <2>4. QED
    BY <1>1, <2>1, <2>2, <2>3
<1>6. s = r
  BY <1>3, <1>4, <1>5, SeqEqual
<1>7. QED
  BY <1>6 DEF s, r, b

LEMMA StoreKeeps == PartInv /\ StorePart => PartInv'
<1> SUFFICES ASSUME PartInv, StorePart PROVE PartInv'
  OBVIOUS
<1> DEFINE mine == plan[Index]
           k == Len(accepted)
           a == Append(accepted, mine)
<1>1. PartShape /\ CursorAgrees /\ CheckpointAgrees /\ PlanAgrees /\ PartsAreStored
  BY DEF PartInv
<1>2. /\ run.phase = "persist" /\ k < Len(plan) /\ k \in Nat /\ Len(plan) \in Nat
      /\ accepted \in Seq(Part) /\ plan \in Seq(Part)
  <2>1. run.phase = "persist"
    BY DEF StorePart
  <2>2. k < Len(plan) /\ accepted \in Seq(Part) /\ plan \in Seq(Part)
    BY <1>1, <2>1 DEF PartShape
  <2>3. QED
    BY <2>1, <2>2
<1>3. Index = k + 1
  BY DEF Index
<1>4. k + 1 \in 1 .. Len(plan)
  <2> DEFINE N == Len(plan)
  <2>1. k \in Nat /\ N \in Nat /\ k < N
    BY <1>2
  <2> HIDE DEF k, N
  <2>2. k + 1 \in 1 .. N
    BY <2>1
  <2>3. QED
    BY <2>2 DEF N
<1>5. mine \in Part
  BY <1>2, <1>3, <1>4
<1>6. /\ plan' = plan /\ accepted' = a /\ persisted' = Append(persisted, Identity(mine)) /\ revision' = revision
      /\ checkpoint' = checkpoint /\ run' = [run EXCEPT !.phase = "checkpoint"]
      /\ cursor' = [accepted |-> Append(cursor.accepted, Identity(mine)),
                    covered |-> Append(cursor.covered, Digest(mine)),
                    remaining |-> Digests(Dropped(plan, Index)),
                    next |-> mine.ordinal + 1, blocking |-> "", revision |-> revision]
  BY DEF StorePart
<1>7. /\ a \in Seq(Part) /\ Len(a) = k + 1 /\ a[k + 1] = mine /\ \A n \in 1 .. k : a[n] = accepted[n]
  BY <1>2, <1>5, AppendedIs
<1>8. Identities(a) = Append(Identities(accepted), Identity(mine)) /\ Digests(a) = Append(Digests(accepted), Digest(mine))
  BY <1>2, <1>5, IdentitiesAppend, DigestsAppend
<1>9. Together(a, plan) = Together(accepted, plan)
  BY <1>2, <1>3, TogetherAppend
<1>10. \A n \in 1 .. k + 1 : n \in 1 .. k \/ n = k + 1
  BY <1>2, UpToOneMore
<1>11. WholeSection(Together(accepted, plan))
  BY <1>1, <1>2 DEF PlanAgrees, AllParts
<1>12. mine.ordinal = k + 1
  <2> DEFINE r == Together(accepted, plan)
  <2>1. r \in Seq(Part) /\ Len(r) = Len(plan) /\ \A n \in 1 .. Len(plan) : r[n] = IF n <= k THEN accepted[n] ELSE plan[n]
    BY <1>2, TogetherIs
  <2>2. ~(k + 1 <= k)
    BY <1>2
  <2> HIDE DEF r
  <2>3. r[k + 1] = mine /\ k + 1 \in DOMAIN r
    BY <1>3, <1>4, <2>1, <2>2
  <2>4. r[k + 1].ordinal = k + 1
    BY <1>11, <2>3 DEF WholeSection, r
  <2>5. QED
    BY <2>3, <2>4
<1> HIDE DEF mine, a, k
<1>13. /\ run' \in [n : 1 .. MaxRunsOfParts, phase : PartPhases, evidence : Evidences] /\ run'.phase = "checkpoint"
  BY <1>1, <1>6 DEF PartShape, PartPhases
<1>14. /\ persisted' \in Seq({Identity(p) : p \in Part}) /\ Contains(persisted', Identity(mine))
       /\ \A y : Contains(persisted, y) => Contains(persisted', y)
  <2> DEFINE T == {Identity(p) : p \in Part}
  <2>1. persisted \in Seq(T) /\ Identity(mine) \in T
    BY <1>1, <1>5 DEF PartShape
  <2> HIDE DEF T
  <2>2. /\ Append(persisted, Identity(mine)) \in Seq(T) /\ Contains(Append(persisted, Identity(mine)), Identity(mine))
        /\ \A y : Contains(persisted, y) => Contains(Append(persisted, Identity(mine)), y)
    BY <2>1, OneMorePersisted
  <2>3. QED
    BY <1>6, <2>2 DEF T
<1>15. PartShape'
  <2>1. Len(accepted') <= Len(plan') /\ accepted' \in Seq(Part) /\ plan' \in Seq(Part)
    <3>1. Len(a) <= Len(plan)
      BY <1>2, <1>4, <1>7
    <3>2. QED
      BY <1>2, <1>6, <1>7, <3>1
  <2>2. revision' \in 1 .. MaxPlanRevisions
    BY <1>1, <1>6 DEF PartShape
  <2>3. QED
    BY <1>13, <1>14, <2>1, <2>2 DEF PartShape
<1>16. PlanAgrees'
  <2>1. WholeSection(AllParts)'
    BY <1>6, <1>9, <1>11 DEF AllParts, Together, WholeSection
  <2>2. revision = 1 => (\A n \in 1 .. Len(plan) : Fits(plan[n])) /\ \A n \in 1 .. k : Fits(accepted[n])
    BY <1>1, <1>2 DEF PlanAgrees, k
  <2>3. revision = 1 => Fits(mine)
    BY <1>3, <1>4, <2>2 DEF mine
  <2>4. revision = 1 => \A n \in 1 .. k + 1 : Fits(a[n])
    BY <1>7, <1>10, <2>2, <2>3
  <2>5. QED
    BY <1>6, <1>7, <2>1, <2>2, <2>4 DEF PlanAgrees
<1>17. CursorAgrees'
  <2>1. cursor.accepted = Identities(accepted) /\ cursor.covered = Digests(accepted)
    <3>1. cursor = [accepted |-> Identities(accepted), covered |-> Digests(accepted),
                    remaining |-> Digests(Dropped(plan, Len(accepted))), next |-> Len(accepted) + 1,
                    blocking |-> cursor.blocking, revision |-> cursor.revision]
      BY <1>1, <1>2 DEF CursorAgrees
    <3>2. QED
      BY <3>1
  <2>2. cursor' = [accepted |-> Identities(a), covered |-> Digests(a),
                   remaining |-> Digests(Dropped(plan, Len(a))), next |-> Len(a) + 1,
                   blocking |-> "", revision |-> revision]
    BY <1>3, <1>6, <1>7, <1>8, <1>12, <2>1
  <2>3. cursor'.blocking = "" /\ cursor'.revision = revision
    BY <2>2
  <2>4. /\ Identities(accepted)' = Identities(a) /\ Digests(accepted)' = Digests(a)
        /\ Digests(Dropped(plan, Len(accepted)))' = Digests(Dropped(plan, Len(a)))
    BY <1>6 DEF Identities, Digests, Dropped
  <2>5. QED
    BY <1>6, <2>2, <2>3, <2>4 DEF CursorAgrees
<1>18. CheckpointAgrees'
  BY <1>1, <1>6 DEF CheckpointAgrees
<1>19. PartsAreStored'
  <2>1. ArePersisted(accepted) /\ ArePersisted(checkpoint.parts) /\ checkpoint' = checkpoint
    BY <1>1, <1>6 DEF PartsAreStored
  <2>2. ArePersisted(checkpoint.parts)'
    BY <1>14, <2>1 DEF ArePersisted
  <2>3. \A n \in 1 .. k : Contains(persisted, Identity(accepted[n]))
    BY <2>1 DEF ArePersisted, k
  <2>4. \A n \in 1 .. k + 1 : Contains(persisted', Identity(a[n]))
    BY <1>7, <1>10, <1>14, <2>3
  <2>5. ArePersisted(accepted)'
    BY <1>6, <1>7, <2>4 DEF ArePersisted
  <2>6. QED
    BY <2>2, <2>5 DEF PartsAreStored
<1>20. QED
  BY <1>15, <1>16, <1>17, <1>18, <1>19 DEF PartInv

LEMMA SaveKeeps == PartInv /\ SavePart => PartInv'
<1> SUFFICES ASSUME PartInv, SavePart PROVE PartInv'
  OBVIOUS
<1> USE DEF SavePart
<1>1. PartShape /\ CursorAgrees /\ PlanAgrees /\ PartsAreStored
  BY DEF PartInv
<1>2. /\ run.phase = "checkpoint" /\ checkpoint' = Saved
      /\ UNCHANGED <<plan, revision, accepted, cursor, persisted>>
  OBVIOUS
<1>3. run' = [run EXCEPT !.phase = IF Len(accepted) < Len(plan) THEN "generate" ELSE "done"]
  OBVIOUS
<1>4. /\ run' \in [n : 1 .. MaxRunsOfParts, phase : PartPhases, evidence : Evidences]
      /\ run'.phase = IF Len(accepted) < Len(plan) THEN "generate" ELSE "done"
  BY <1>1, <1>3 DEF PartShape, PartPhases
<1>5. PartShape'
  <2>1. Len(accepted) \in Nat /\ Len(plan) \in Nat /\ Len(accepted) <= Len(plan)
    BY <1>1 DEF PartShape
  <2>2. /\ run'.phase \in {"generate", "persist"} => Len(accepted) < Len(plan)
        /\ run'.phase = "done" => Len(accepted) = Len(plan)
    BY <1>4, <2>1
  <2>3. QED
    BY <1>1, <1>2, <1>4, <2>1, <2>2 DEF PartShape
<1>6. CursorAgrees'
  BY <1>1, <1>2 DEF CursorAgrees
<1>7. PlanAgrees'
  BY <1>1, <1>2 DEF PlanAgrees, AllParts
<1>8. /\ checkpoint'.parts = accepted /\ checkpoint'.cursor = cursor /\ checkpoint'.revision = revision
      /\ checkpoint' = [parts |-> checkpoint'.parts, cursor |-> checkpoint'.cursor, revision |-> checkpoint'.revision]
  BY <1>2 DEF Saved
<1>9. PartsAreStored'
  BY <1>1, <1>2, <1>8 DEF PartsAreStored, ArePersisted
<1>10. CheckpointAgrees'
  <2>1. cursor = [accepted |-> Identities(accepted), covered |-> Digests(accepted),
                  remaining |-> Digests(Dropped(plan, Len(accepted))), next |-> Len(accepted) + 1,
                  blocking |-> cursor.blocking, revision |-> cursor.revision]
    BY <1>1, <1>2 DEF CursorAgrees
  <2>2. CursorIsAt(cursor, accepted)
    <3>1. cursor.accepted = Identities(accepted) /\ cursor.covered = Digests(accepted)
      BY <2>1
    <3>2. QED
      BY <3>1 DEF CursorIsAt
  <2>3. accepted \in Seq(Part) /\ revision \in Nat /\ Len(accepted) <= Len(plan) /\ plan \in Seq(Part)
    BY <1>1 DEF PartShape
  <2>4. \A n \in 1 .. Len(accepted) : accepted[n].ordinal = n
    <3> SUFFICES ASSUME NEW n \in 1 .. Len(accepted) PROVE accepted[n].ordinal = n
      OBVIOUS
    <3> DEFINE r == Together(accepted, plan)
    <3>1. r \in Seq(Part) /\ Len(r) = Len(plan) /\ \A m \in 1 .. Len(plan) : r[m] = IF m <= Len(accepted) THEN accepted[m] ELSE plan[m]
      BY <2>3, TogetherIs
    <3>2. WholeSection(r)
      BY <1>1, <1>2 DEF PlanAgrees, AllParts
    <3> HIDE DEF r
    <3>3. n \in 1 .. Len(plan) /\ n <= Len(accepted)
      BY <2>3
    <3>4. r[n] = accepted[n] /\ n \in DOMAIN r
      BY <3>1, <3>3
    <3>5. QED
      BY <3>2, <3>4 DEF WholeSection
  <2>5. revision <= 1 => \A n \in 1 .. Len(accepted) : Fits(accepted[n])
    <3>1. revision <= 1 => revision = 1
      BY <1>1 DEF PartShape
    <3>2. QED
      BY <1>1, <1>2, <3>1 DEF PlanAgrees
  <2>6. CursorIsAt(checkpoint.cursor, checkpoint.parts)'
    BY <1>8, <2>2 DEF CursorIsAt, Identities, Digests
  <2>7. QED
    BY <1>8, <2>3, <2>4, <2>5, <2>6 DEF CheckpointAgrees
<1>11. QED
  BY <1>5, <1>6, <1>7, <1>9, <1>10 DEF PartInv

LEMMA SumPositive ==
  ASSUME NEW s \in Seq(Nat), Len(s) >= 1, s[Len(s)] \in Nat \ {0}
  PROVE  Sum(s) \in Nat \ {0}
<1>1. Len(s) \in 1 .. Len(s) /\ SubSeq(s, 1, Len(s) - 1) \in Seq(Nat)
  OBVIOUS
<1>2. SubSeq(s, 1, Len(s)) = s
  BY SubSeqFull
<1>3. Sum(s) = Sum(SubSeq(s, 1, Len(s) - 1)) + s[Len(s)]
  BY <1>1, <1>2, SumFirst
<1> DEFINE x == Sum(SubSeq(s, 1, Len(s) - 1))
           y == s[Len(s)]
<1>4. x \in Nat /\ y \in Nat \ {0} /\ Sum(s) = x + y
  BY <1>1, <1>3, SumType
<1> HIDE DEF x, y
<1>5. QED
  BY <1>4

LEMMA HalfOf ==
  ASSUME NEW m \in Nat, m > 2, NEW d, d = m \div 2
  PROVE  d \in Nat \ {0} /\ m - d \in Nat \ {0} /\ d + (m - d) = m
<1>1. m \in Int /\ d \in Int /\ 2 * d <= m /\ m < 2 * d + 2
  OBVIOUS
<1>2. QED
  BY <1>1

LEMMA JoinedParts ==
  ASSUME NEW s \in Seq(Part), NEW t \in Seq(Part)
  PROVE  /\ s \o t \in Seq(Part) /\ Len(s \o t) = Len(s) + Len(t)
         /\ \A n \in 1 .. Len(s) : (s \o t)[n] = s[n]
         /\ \A n \in 1 .. Len(t) : (s \o t)[Len(s) + n] = t[n]
OBVIOUS

\* a sequence with two parts in place of one
Spliced(t, i, x, y) == SubSeq(t, 1, i - 1) \o <<x, y>> \o Dropped(t, i)

LEMMA SpliceIs ==
  ASSUME NEW t \in Seq(Part), NEW i \in 1 .. Len(t), NEW x \in Part, NEW y \in Part
  PROVE  /\ Spliced(t, i, x, y) \in Seq(Part) /\ Len(Spliced(t, i, x, y)) = Len(t) + 1
         /\ Spliced(t, i, x, y)[i] = x /\ Spliced(t, i, x, y)[i + 1] = y
         /\ \A n \in i + 1 .. Len(t) : Spliced(t, i, x, y)[n + 1] = t[n]
<1> DEFINE u == Spliced(t, i, x, y)
           L == Len(t)
           a == SubSeq(t, 1, i - 1)
           b == Dropped(t, i)
           c == a \o <<x, y>>
<1>1. L \in Nat /\ i \in 1 .. L /\ i \in Nat
  OBVIOUS
<1>2. a \in Seq(Part) /\ Len(a) = i - 1
  OBVIOUS
<1>3. b \in Seq(Part) /\ Len(b) = L - i /\ \A n \in 1 .. L - i : b[n] = t[i + n]
  BY DroppedIs
<1> HIDE DEF L, a, b
<1>4. c \in Seq(Part) /\ Len(c) = i + 1 /\ c[i] = x /\ c[i + 1] = y
  <2> DEFINE w == <<x, y>>
  <2>1. w \in Seq(Part) /\ Len(w) = 2 /\ w[1] = x /\ w[2] = y
    OBVIOUS
  <2> HIDE DEF w
  <2>2. c \in Seq(Part) /\ Len(c) = i + 1
    BY <1>1, <1>2, <2>1 DEF w
  <2>3. \A n \in 1 .. 2 : (a \o w)[(i - 1) + n] = w[n]
    <3>1. \A n \in 1 .. Len(w) : (a \o w)[Len(a) + n] = w[n]
      BY <1>2, <2>1, JoinedParts
    <3>2. QED
      BY <1>2, <2>1, <3>1
  <2>4. 1 \in 1 .. 2 /\ 2 \in 1 .. 2 /\ (i - 1) + 1 = i /\ (i - 1) + 2 = i + 1
    BY <1>1
  <2>5. QED
    BY <2>1, <2>2, <2>3, <2>4 DEF w
<1>5. u = c \o b
  BY DEF a, b, Spliced
<1> HIDE DEF c, u
<1>6. u \in Seq(Part) /\ Len(u) = L + 1
  <2>1. c \o b \in Seq(Part) /\ Len(c \o b) = Len(c) + Len(b)
    BY <1>3, <1>4, JoinedParts
  <2>2. Len(c) + Len(b) = L + 1
    BY <1>1, <1>3, <1>4
  <2>3. QED
    BY <1>5, <2>1, <2>2
<1>7. u[i] = x /\ u[i + 1] = y
  <2>1. \A n \in 1 .. i + 1 : (c \o b)[n] = c[n]
    BY <1>1, <1>3, <1>4
  <2>2. i \in 1 .. i + 1 /\ i + 1 \in 1 .. i + 1
    BY <1>1
  <2>3. QED
    BY <1>4, <1>5, <2>1, <2>2
<1>8. ASSUME NEW n \in i + 1 .. L PROVE u[n + 1] = t[n]
  <2>1. PICK m \in 1 .. L - i : n = i + m /\ n + 1 = (i + 1) + m
    <3>1. n - i \in 1 .. L - i /\ n = i + (n - i) /\ n + 1 = (i + 1) + (n - i)
      BY <1>1
    <3>2. QED
      BY <3>1
  <2>2. (c \o b)[(i + 1) + m] = b[m]
    <3>1. \A j \in 1 .. Len(b) : (c \o b)[Len(c) + j] = b[j]
      BY <1>3, <1>4, JoinedParts
    <3>2. QED
      BY <1>3, <1>4, <3>1
  <2>3. QED
    BY <1>3, <1>5, <2>1, <2>2
<1>9. QED
  BY <1>6, <1>7, <1>8 DEF L, u

LEMMA SpliceBehind ==
  ASSUME NEW t \in Seq(Part), NEW i \in 1 .. Len(t), NEW x \in Part, NEW y \in Part, NEW n \in i + 1 .. Len(t)
  PROVE  Spliced(t, i, x, y)[n + 1] = t[n]
BY SpliceIs

LEMMA RenumberedIs ==
  ASSUME NEW u \in Seq(Part)
  PROVE  /\ Renumbered(u) \in Seq(Part) /\ Len(Renumbered(u)) = Len(u)
         /\ \A n \in 1 .. Len(u) :
              /\ Renumbered(u)[n].ordinal = n /\ Renumbered(u)[n].covers = u[n].covers
              /\ Renumbered(u)[n].max = u[n].max
<1> DEFINE r == Renumbered(u)
<1>1. Len(u) \in Nat /\ r = [n \in 1 .. Len(u) |-> [u[n] EXCEPT !.ordinal = n]]
  BY DEF Renumbered
<1> HIDE DEF r
<1>2. ASSUME NEW n \in 1 .. Len(u)
      PROVE  r[n] \in Part /\ r[n].ordinal = n /\ r[n].covers = u[n].covers /\ r[n].max = u[n].max
  <2> DEFINE p == u[n]
             q == r[n]
  <2>1. p \in Part /\ q = [p EXCEPT !.ordinal = n] /\ n \in Nat \ {0}
    BY <1>1
  <2> HIDE DEF p, q
  <2>2. /\ p = [ordinal |-> p.ordinal, covers |-> p.covers, form |-> p.form, max |-> p.max, evidence |-> p.evidence]
        /\ p.covers \subseteq Section /\ p.max \in Nat \ {0} /\ p.evidence \in Evidences
        /\ p.form \in {"planned", "first", "second", "together"}
        /\ p.form = "planned" => \E i \in DOMAIN Maxima : p.covers = Quarters(i) /\ p.max = Maxima[i]
    BY <2>1, PartFieldsAre
  <2>3. q = [ordinal |-> n, covers |-> p.covers, form |-> p.form, max |-> p.max, evidence |-> p.evidence]
    BY <2>1, <2>2
  <2>4. /\ q = [ordinal |-> q.ordinal, covers |-> q.covers, form |-> q.form, max |-> q.max, evidence |-> q.evidence]
        /\ q.ordinal = n /\ q.covers = p.covers /\ q.form = p.form /\ q.max = p.max /\ q.evidence = p.evidence
    BY <2>3
  <2>5. q \in Part
    BY <2>1, <2>2, <2>4, PartFromFields
  <2>6. QED
    BY <2>4, <2>5 DEF p, q
<1>3. r \in Seq(Part) /\ Len(r) = Len(u)
  <2>1. r = [n \in 1 .. Len(u) |-> r[n]]
    BY <1>1
  <2>2. QED
    BY <1>1, <1>2, <2>1
<1>4. QED
  BY <1>2, <1>3 DEF r

\* the two halves of a part
FirstOf(p)  == [p EXCEPT !.covers = FirstHalf(@), !.form = "first", !.max = p.max \div 2]
SecondOf(p) == [p EXCEPT !.covers = @ \ FirstHalf(@), !.form = "second", !.max = p.max - p.max \div 2]

LEMMA HalvesAre ==
  ASSUME NEW p \in Part, p.max > 2
  PROVE  /\ FirstOf(p) \in Part /\ SecondOf(p) \in Part
         /\ FirstOf(p).covers \cup SecondOf(p).covers = p.covers
         /\ FirstOf(p).covers \cap SecondOf(p).covers = {}
         /\ FirstOf(p).max + SecondOf(p).max = p.max
<1> DEFINE c == p.covers
           m == p.max
           x == FirstOf(p)
           y == SecondOf(p)
           h == FirstHalf(c)
           d == m \div 2
<1>1. p = [ordinal |-> p.ordinal, covers |-> c, form |-> p.form, max |-> m, evidence |-> p.evidence]
  BY PartFieldsAre
<1>2. p.ordinal \in Nat \ {0} /\ c \subseteq Section /\ m \in Nat /\ m > 2 /\ p.evidence \in Evidences
  BY PartFieldsAre
<1>3. x = [p EXCEPT !.covers = h, !.form = "first", !.max = d]
  BY DEF FirstOf
<1>4. y = [p EXCEPT !.covers = c \ h, !.form = "second", !.max = m - d]
  BY DEF SecondOf
<1>5. h \subseteq c
  BY DEF FirstHalf
<1>6. d \in Nat \ {0} /\ m - d \in Nat \ {0} /\ d + (m - d) = m
  BY <1>2, HalfOf
<1> HIDE DEF h, d, c, m, x, y
<1>7. x = [ordinal |-> p.ordinal, covers |-> h, form |-> "first", max |-> d, evidence |-> p.evidence]
  BY <1>1, <1>3
<1>8. y = [ordinal |-> p.ordinal, covers |-> c \ h, form |-> "second", max |-> m - d, evidence |-> p.evidence]
  BY <1>1, <1>4
<1>9. /\ x = [ordinal |-> x.ordinal, covers |-> x.covers, form |-> x.form, max |-> x.max, evidence |-> x.evidence]
      /\ x.ordinal = p.ordinal /\ x.covers = h /\ x.form = "first" /\ x.max = d /\ x.evidence = p.evidence
  BY <1>7
<1>10. /\ y = [ordinal |-> y.ordinal, covers |-> y.covers, form |-> y.form, max |-> y.max, evidence |-> y.evidence]
       /\ y.ordinal = p.ordinal /\ y.covers = c \ h /\ y.form = "second" /\ y.max = m - d /\ y.evidence = p.evidence
  BY <1>8
<1>11. h \subseteq Section /\ c \ h \subseteq Section
  BY <1>2, <1>5
<1>12. x \in Part
  BY <1>2, <1>6, <1>9, <1>11, PartFromFields
<1>13. y \in Part
  BY <1>2, <1>6, <1>10, <1>11, PartFromFields
<1>14. QED
  BY <1>5, <1>6, <1>9, <1>10, <1>12, <1>13 DEF c, m, x, y

\* a plan of which the current part is split
LEMMA RepartitionedIs ==
  ASSUME PartShape, Len(accepted) < Len(plan), WholeSection(AllParts), CurrentPart.max > 2
  PROVE  /\ Repartitioned(WithCurrent, Index) \in Seq(Part)
         /\ Len(accepted) < Len(Repartitioned(WithCurrent, Index))
         /\ WholeSection(Together(accepted, Repartitioned(WithCurrent, Index)))
<1> DEFINE t == WithCurrent
           i == Index
           k == Len(accepted)
           L == Len(plan)
           p == t[i]
           x == FirstOf(p)
           y == SecondOf(p)
           u == Spliced(t, i, x, y)
           new == Repartitioned(t, i)
           s == Together(accepted, plan)
           r == Together(accepted, new)
<1>1. /\ i \in 1 .. L /\ i = k + 1 /\ i - 1 = k /\ k \in Nat /\ L \in Nat /\ k < L
      /\ accepted \in Seq(Part) /\ plan \in Seq(Part)
  BY CurrentIs DEF PartShape
<1>2. /\ t \in Seq(Part) /\ Len(t) = L
      /\ \A n \in 1 .. L : t[n].covers = plan[n].covers /\ t[n].max = plan[n].max
  BY WithCurrentIs
<1>3. p \in Part /\ p.max > 2 /\ p.covers = plan[i].covers /\ p.max = plan[i].max
  <2>1. p.covers = plan[i].covers /\ p.max = plan[i].max /\ CurrentPart.max = plan[i].max /\ p \in Part
    BY <1>1, <1>2, CurrentIs
  <2>2. QED
    BY <2>1
<1>4. new = Renumbered(u)
  BY DEF Repartitioned, Spliced, FirstOf, SecondOf
<1> HIDE DEF t, i, k, L, p, new
<1>5. /\ x \in Part /\ y \in Part
      /\ x.covers \cup y.covers = p.covers /\ x.covers \cap y.covers = {} /\ x.max + y.max = p.max
  BY <1>3, HalvesAre
<1> HIDE DEF x, y
<1>6. /\ u \in Seq(Part) /\ Len(u) = L + 1 /\ u[i] = x /\ u[i + 1] = y
      /\ \A n \in i + 1 .. L : u[n + 1] = t[n]
  <2>1. i \in 1 .. Len(t)
    BY <1>1, <1>2
  <2>4. t \in Seq(Part) /\ x \in Part /\ y \in Part
    BY <1>2, <1>5
  <2>5. u \in Seq(Part) /\ Len(u) = Len(t) + 1 /\ u[i] = x /\ u[i + 1] = y
    BY <2>1, <2>4, SpliceIs
  <2>6. ASSUME NEW n \in i + 1 .. Len(t) PROVE u[n + 1] = t[n]
    BY <2>1, <2>4, SpliceBehind
  <2>2. /\ u \in Seq(Part) /\ Len(u) = Len(t) + 1 /\ u[i] = x /\ u[i + 1] = y
        /\ \A n \in i + 1 .. Len(t) : u[n + 1] = t[n]
    BY <2>5, <2>6
  <2> HIDE DEF u
  <2>3. QED
    BY <1>2, <2>2
<1> HIDE DEF u
<1>7. /\ new \in Seq(Part) /\ Len(new) = L + 1
      /\ \A n \in 1 .. L + 1 : new[n].ordinal = n /\ new[n].covers = u[n].covers /\ new[n].max = u[n].max
  BY <1>4, <1>6, RenumberedIs
<1>8. s \in Seq(Part) /\ Len(s) = L /\ \A n \in 1 .. L : s[n] = IF n <= k THEN accepted[n] ELSE plan[n]
  <2>1. Len(accepted) <= Len(plan)
    BY <1>1 DEF k, L
  <2>2. QED
    BY <1>1, <2>1, TogetherIs DEF k, L
<1>9. r \in Seq(Part) /\ Len(r) = L + 1 /\ \A n \in 1 .. L + 1 : r[n] = IF n <= k THEN accepted[n] ELSE new[n]
  <2>1. Len(accepted) <= Len(new)
    BY <1>1, <1>7 DEF k, L
  <2>2. r \in Seq(Part) /\ Len(r) = Len(new) /\ \A n \in 1 .. Len(new) : r[n] = IF n <= Len(accepted) THEN accepted[n] ELSE new[n]
    BY <1>1, <1>7, <2>1, TogetherIs
  <2> HIDE DEF r
  <2>3. QED
    BY <1>7, <2>2 DEF k
<1>10. WholeSection(s)
  BY DEF AllParts
<1> HIDE DEF s, r
<1>11. \A n \in 1 .. i - 1 : r[n] = s[n] /\ r[n].covers = s[n].covers /\ r[n].max = s[n].max /\ s[n].ordinal = n
  <2> SUFFICES ASSUME NEW n \in 1 .. i - 1 PROVE r[n] = s[n] /\ s[n].ordinal = n
    OBVIOUS
  <2>1. n <= k /\ n \in 1 .. L /\ n \in 1 .. L + 1
    BY <1>1
  <2>2. r[n] = s[n]
    BY <1>8, <1>9, <2>1
  <2>3. s[n].ordinal = n
    <3>1. n \in DOMAIN s
      BY <1>8, <2>1
    <3>2. QED
      BY <1>10, <3>1 DEF WholeSection
  <2>4. QED
    BY <2>2, <2>3
<1>12. s[i].covers = p.covers /\ s[i].max = p.max
  <2>1. ~(i <= k)
    BY <1>1
  <2>2. QED
    BY <1>1, <1>3, <1>8, <2>1
<1>13. r[i].covers = x.covers /\ r[i].max = x.max /\ r[i + 1].covers = y.covers /\ r[i + 1].max = y.max
  <2>1. i \in 1 .. L + 1 /\ i + 1 \in 1 .. L + 1 /\ ~(i <= k) /\ ~(i + 1 <= k)
    BY <1>1
  <2>2. QED
    BY <1>6, <1>7, <1>9, <2>1
<1>14. \A n \in i + 1 .. L : r[n + 1].covers = s[n].covers /\ r[n + 1].max = s[n].max
  <2> SUFFICES ASSUME NEW n \in i + 1 .. L PROVE r[n + 1].covers = s[n].covers /\ r[n + 1].max = s[n].max
    OBVIOUS
  <2>1. n \in 1 .. L /\ n + 1 \in 1 .. L + 1 /\ ~(n <= k) /\ ~(n + 1 <= k)
    BY <1>1
  <2>2. r[n + 1] = new[n + 1] /\ s[n] = plan[n] /\ u[n + 1] = t[n]
    BY <1>6, <1>8, <1>9, <2>1
  <2>3. t[n].covers = plan[n].covers /\ t[n].max = plan[n].max
    BY <1>2, <2>1
  <2>4. new[n + 1].covers = u[n + 1].covers /\ new[n + 1].max = u[n + 1].max
    BY <1>7, <2>1
  <2>5. QED
    BY <2>2, <2>3, <2>4
<1>15. \A n \in 1 .. L + 1 : r[n].ordinal = n
  <2> SUFFICES ASSUME NEW n \in 1 .. L + 1 PROVE r[n].ordinal = n
    OBVIOUS
  <2>1. CASE n <= k
    <3>1. n \in 1 .. i - 1
      BY <1>1, <2>1
    <3>2. QED
      BY <1>11, <3>1
  <2>2. CASE ~(n <= k)
    BY <1>7, <1>9, <2>2
  <2>3. QED
    BY <2>1, <2>2
<1>16. WholeSection(r)
  <2>1. i \in 1 .. Len(s) /\ Len(r) = Len(s) + 1
    BY <1>1, <1>8, <1>9
  <2>2. r[i].covers \cup r[i + 1].covers = s[i].covers /\ r[i].covers \cap r[i + 1].covers = {}
    BY <1>5, <1>12, <1>13
  <2>3. r[i].max + r[i + 1].max = s[i].max
    BY <1>5, <1>12, <1>13
  <2>4. \A n \in 1 .. i - 1 : r[n].covers = s[n].covers /\ r[n].max = s[n].max
    BY <1>11
  <2>5. \A n \in i + 1 .. Len(s) : r[n + 1].covers = s[n].covers /\ r[n + 1].max = s[n].max
    BY <1>8, <1>14
  <2>6. \A n \in 1 .. Len(r) : r[n].ordinal = n
    BY <1>9, <1>15
  <2>7. QED
    BY <1>8, <1>9, <1>10, <2>1, <2>2, <2>3, <2>4, <2>5, <2>6, WholeSplit
<1>17. k < Len(new)
  BY <1>1, <1>7
<1>18. QED
  BY <1>7, <1>16, <1>17 DEF r, k, new, t, i

MergedOf(p, left) == [p EXCEPT !.covers = Covers(left), !.form = "together", !.max = Sum(Sizes(left))]

LEMMA MergedIs ==
  ASSUME NEW p \in Part, NEW left \in Seq(Part), Len(left) >= 1
  PROVE  /\ MergedOf(p, left) \in Part /\ MergedOf(p, left).covers = Covers(left)
         /\ MergedOf(p, left).max = Sum(Sizes(left)) /\ MergedOf(p, left).ordinal = p.ordinal
<1> DEFINE q == MergedOf(p, left)
           c == Covers(left)
           z == Sizes(left)
           m == Sum(z)
<1>1. q = [p EXCEPT !.covers = c, !.form = "together", !.max = m]
  BY DEF MergedOf
<1>2. c \subseteq Section
  <2>1. ASSUME NEW x \in c PROVE x \in Section
    <3>1. PICK k \in 1 .. Len(left) : x \in left[k].covers
      BY <2>1, CoversAre
    <3>2. left[k] \in Part
      OBVIOUS
    <3>3. QED
      BY <3>1, <3>2, PartFieldsAre
  <2>2. QED
    BY <2>1
<1>3. m \in Nat \ {0}
  <2>1. z \in Seq(Nat) /\ Len(z) = Len(left) /\ \A n \in 1 .. Len(left) : z[n] = left[n].max
    BY SizesAre
  <2>2. Len(left) \in 1 .. Len(left)
    OBVIOUS
  <2>3. left[Len(left)] \in Part
    BY <2>2
  <2>4. left[Len(left)].max \in Nat \ {0}
    BY <2>3, PartFieldsAre
  <2> HIDE DEF z
  <2>5. z[Len(z)] \in Nat \ {0} /\ Len(z) >= 1
    BY <2>1, <2>2, <2>4
  <2>6. QED
    BY <2>1, <2>5, SumPositive
<1> HIDE DEF q, c, m
<1>4. /\ p = [ordinal |-> p.ordinal, covers |-> p.covers, form |-> p.form, max |-> p.max, evidence |-> p.evidence]
      /\ p.ordinal \in Nat \ {0} /\ p.evidence \in Evidences
  BY PartFieldsAre
<1>5. q = [ordinal |-> p.ordinal, covers |-> c, form |-> "together", max |-> m, evidence |-> p.evidence]
  BY <1>1, <1>4
<1>6. /\ q = [ordinal |-> q.ordinal, covers |-> q.covers, form |-> q.form, max |-> q.max, evidence |-> q.evidence]
      /\ q.ordinal = p.ordinal /\ q.covers = c /\ q.form = "together" /\ q.max = m /\ q.evidence = p.evidence
  BY <1>5
<1>7. q \in Part
  BY <1>2, <1>3, <1>4, <1>6, PartFromFields
<1>8. QED
  BY <1>6, <1>7 DEF q, c, m

\* a plan of which all that is left becomes one part
LEMMA CoalescedIs ==
  ASSUME PartShape, Len(accepted) < Len(plan), WholeSection(AllParts)
  PROVE  /\ Coalesced(WithCurrent, Index) \in Seq(Part)
         /\ Len(accepted) < Len(Coalesced(WithCurrent, Index))
         /\ WholeSection(Together(accepted, Coalesced(WithCurrent, Index)))
<1> DEFINE t == WithCurrent
           i == Index
           k == Len(accepted)
           L == Len(plan)
           p == t[i]
           left == Dropped(t, i - 1)
           q == MergedOf(p, left)
           a == SubSeq(t, 1, i - 1)
           new == Coalesced(t, i)
           s == Together(accepted, plan)
           r == Together(accepted, new)
<1>1. /\ i \in 1 .. L /\ i = k + 1 /\ i - 1 = k /\ k \in Nat /\ L \in Nat /\ k < L
      /\ accepted \in Seq(Part) /\ plan \in Seq(Part)
  BY CurrentIs DEF PartShape
<1>2. /\ t \in Seq(Part) /\ Len(t) = L
      /\ \A n \in 1 .. L : t[n].covers = plan[n].covers /\ t[n].max = plan[n].max /\ t[n].ordinal = plan[n].ordinal
  BY WithCurrentIs
<1>3. new = Append(a, q)
  BY DEF Coalesced, MergedOf
<1> HIDE DEF t, i, k, L, new
<1>4. p \in Part
  BY <1>1, <1>2
<1>5. left \in Seq(Part) /\ Len(left) = L - k /\ Len(left) >= 1
  <2>1. i - 1 \in 0 .. Len(t)
    BY <1>1, <1>2
  <2>2. left \in Seq(Part) /\ Len(left) = Len(t) - (i - 1)
    BY <1>2, <2>1, DroppedIs
  <2> HIDE DEF left
  <2>3. QED
    BY <1>1, <1>2, <2>2
<1> HIDE DEF p, left
<1>6. q \in Part /\ q.covers = Covers(left) /\ q.max = Sum(Sizes(left)) /\ q.ordinal = p.ordinal
  BY <1>4, <1>5, MergedIs
<1>7. a \in Seq(Part) /\ Len(a) = k
  <2>1. \A n \in 1 .. i - 1 : t[n] \in Part
    BY <1>1, <1>2
  <2>2. 1 \in Int /\ i - 1 \in Int /\ (IF 1 <= i - 1 THEN (i - 1) - 1 + 1 ELSE 0) = k
    BY <1>1
  <2>3. a \in Seq(Part) /\ Len(a) = IF 1 <= i - 1 THEN (i - 1) - 1 + 1 ELSE 0
    BY <2>1, <2>2, SubSeqProperties
  <2>4. QED
    BY <2>2, <2>3
<1> HIDE DEF q, a
<1>8. new \in Seq(Part) /\ Len(new) = i /\ new[i] = q
  <2>1. Append(a, q) \in Seq(Part) /\ Len(Append(a, q)) = Len(a) + 1 /\ Append(a, q)[Len(a) + 1] = q
    BY <1>6, <1>7, AppendedIs
  <2>2. QED
    BY <1>1, <1>3, <1>7, <2>1
<1>9. s \in Seq(Part) /\ Len(s) = L /\ \A n \in 1 .. L : s[n] = IF n <= k THEN accepted[n] ELSE plan[n]
  <2>1. Len(accepted) <= Len(plan)
    BY <1>1 DEF k, L
  <2>2. QED
    BY <1>1, <2>1, TogetherIs DEF k, L
<1>10. r \in Seq(Part) /\ Len(r) = i /\ \A n \in 1 .. i : r[n] = IF n <= k THEN accepted[n] ELSE new[n]
  <2>1. Len(accepted) <= Len(new)
    BY <1>1, <1>8 DEF k
  <2>2. r \in Seq(Part) /\ Len(r) = Len(new) /\ \A n \in 1 .. Len(new) : r[n] = IF n <= Len(accepted) THEN accepted[n] ELSE new[n]
    BY <1>1, <1>8, <2>1, TogetherIs
  <2> HIDE DEF r
  <2>3. QED
    BY <1>8, <2>2 DEF k
<1>11. WholeSection(s)
  BY DEF AllParts
<1> HIDE DEF s, r
<1>12. \A n \in 1 .. L : s[n].ordinal = n
  <2>1. DOMAIN s = 1 .. L
    BY <1>9
  <2>2. QED
    BY <1>11, <2>1 DEF WholeSection
<1>13. \A n \in 1 .. i - 1 : r[n].covers = s[n].covers /\ r[n].max = s[n].max /\ r[n].ordinal = n
  <2>1. ASSUME NEW n \in 1 .. i - 1 PROVE r[n] = s[n] /\ s[n].ordinal = n
    <3>1. n <= k /\ n \in 1 .. L /\ n \in 1 .. i
      BY <1>1
    <3>2. QED
      BY <1>9, <1>10, <1>12, <3>1
  <2>2. QED
    BY <2>1
<1>14. \A n \in i .. L : t[n].covers = s[n].covers /\ t[n].max = s[n].max
  <2> SUFFICES ASSUME NEW n \in i .. L PROVE t[n].covers = s[n].covers /\ t[n].max = s[n].max
    OBVIOUS
  <2>1. ~(n <= k) /\ n \in 1 .. L
    BY <1>1
  <2>2. QED
    BY <1>2, <1>9, <2>1
<1>15. ~(i <= k) /\ i \in 1 .. i
  BY <1>1
<1>16. r[i] = q
  BY <1>8, <1>10, <1>15
<1>17. q.ordinal = i
  <2>1. s[i] = plan[i] /\ s[i].ordinal = i
    BY <1>1, <1>9, <1>12, <1>15
  <2>2. p.ordinal = plan[i].ordinal
    BY <1>1, <1>2 DEF p
  <2>3. QED
    BY <1>6, <2>1, <2>2
<1>18. WholeSection(r)
  <2>1. i \in 1 .. Len(s) /\ Len(t) = Len(s) /\ Len(r) = i
    BY <1>1, <1>2, <1>9, <1>10
  <2>2. r[i].covers = Covers(Dropped(t, i - 1))
    BY <1>6, <1>16 DEF left
  <2>3. r[i].max = Sum(Sizes(Dropped(t, i - 1)))
    BY <1>6, <1>16 DEF left
  <2>4. r[i].ordinal = i
    BY <1>16, <1>17
  <2>5. \A n \in i .. Len(s) : t[n].covers = s[n].covers /\ t[n].max = s[n].max
    BY <1>9, <1>14
  <2>6. \A n \in 1 .. i - 1 : r[n].covers = s[n].covers /\ r[n].max = s[n].max /\ r[n].ordinal = n
    BY <1>13
  <2>7. s \in Seq(Part) /\ t \in Seq(Part) /\ r \in Seq(Part) /\ WholeSection(s)
    BY <1>2, <1>9, <1>10, <1>11
  <2>8. Merges(s, t, r, i)
    BY <2>1, <2>2, <2>3, <2>4, <2>5, <2>6 DEF Merges
  <2>9. QED
    BY <2>1, <2>7, <2>8, WholeMerge
<1>19. k < Len(new)
  BY <1>1, <1>8
<1>20. QED
  BY <1>8, <1>18, <1>19 DEF r, k, new, t, i

\* a plan that is revised
Revised(new, issue) ==
  /\ plan' = new /\ revision' = revision + 1
  /\ cursor' = [cursor EXCEPT !.remaining = Digests(Dropped(new, Index - 1)), !.blocking = issue,
                              !.revision = revision + 1]
  /\ UNCHANGED <<run, accepted, persisted, checkpoint, damaged>>

LEMMA RevisedKeeps ==
  ASSUME PartInv, run.phase = "generate", revision < MaxPlanRevisions, NEW new \in Seq(Part), NEW issue,
         Len(accepted) < Len(new), WholeSection(Together(accepted, new)), Revised(new, issue)
  PROVE  PartInv'
<1>1. PartShape /\ CursorAgrees /\ CheckpointAgrees /\ PlanAgrees /\ PartsAreStored
  BY DEF PartInv
<1>2. /\ plan' = new /\ revision' = revision + 1 /\ accepted' = accepted /\ run' = run
      /\ persisted' = persisted /\ checkpoint' = checkpoint
      /\ cursor' = [cursor EXCEPT !.remaining = Digests(Dropped(new, Index - 1)), !.blocking = issue,
                                  !.revision = revision + 1]
  BY DEF Revised
<1>3. PartShape'
  <2>1. Len(accepted) \in Nat /\ Len(new) \in Nat /\ Len(accepted) <= Len(new)
    BY <1>1 DEF PartShape
  <2>2. revision + 1 \in 1 .. MaxPlanRevisions
    BY <1>1 DEF PartShape
  <2>3. QED
    BY <1>1, <1>2, <2>1, <2>2 DEF PartShape
<1>4. CursorAgrees'
  <2>1. cursor = [accepted |-> Identities(accepted), covered |-> Digests(accepted),
                  remaining |-> Digests(Dropped(plan, Len(accepted))), next |-> Len(accepted) + 1,
                  blocking |-> cursor.blocking, revision |-> cursor.revision]
    BY <1>1 DEF CursorAgrees
  <2>2. Index - 1 = Len(accepted)
    BY <1>1 DEF Index, PartShape
  <2> DEFINE ids == Identities(accepted)
             done == Digests(accepted)
             rest == Digests(Dropped(plan, Len(accepted)))
             left == Digests(Dropped(new, Len(accepted)))
             n == Len(accepted) + 1
             b == cursor.blocking
             v == cursor.revision
  <2>7. cursor = [accepted |-> ids, covered |-> done, remaining |-> rest, next |-> n, blocking |-> b, revision |-> v]
    BY <2>1
  <2>8. cursor' = [cursor EXCEPT !.remaining = left, !.blocking = issue, !.revision = revision + 1]
    BY <1>2, <2>2
  <2> HIDE DEF ids, done, rest, left, n, b, v
  <2>9. cursor' = [accepted |-> ids, covered |-> done, remaining |-> left, next |-> n, blocking |-> issue,
                   revision |-> revision + 1]
    BY <2>7, <2>8
  <2>3. cursor' = [accepted |-> Identities(accepted), covered |-> Digests(accepted),
                   remaining |-> Digests(Dropped(new, Len(accepted))), next |-> Len(accepted) + 1,
                   blocking |-> issue, revision |-> revision + 1]
    BY <2>9 DEF ids, done, left, n
  <2>4. cursor'.blocking = issue /\ cursor'.revision = revision + 1
    BY <2>3
  <2>5. /\ Identities(accepted)' = Identities(accepted) /\ Digests(accepted)' = Digests(accepted)
        /\ Digests(Dropped(plan, Len(accepted)))' = Digests(Dropped(new, Len(accepted)))
    BY <1>2 DEF Identities, Digests, Dropped
  <2>6. QED
    BY <1>2, <2>3, <2>4, <2>5 DEF CursorAgrees
<1>5. CheckpointAgrees' /\ PartsAreStored'
  BY <1>1, <1>2 DEF CheckpointAgrees, PartsAreStored, ArePersisted
<1>6. PlanAgrees'
  <2>1. WholeSection(AllParts)'
    BY <1>2 DEF AllParts, Together, WholeSection
  <2>2. revision' # 1
    BY <1>1, <1>2 DEF PartShape
  <2>3. QED
    BY <2>1, <2>2 DEF PlanAgrees
<1>7. QED
  BY <1>3, <1>4, <1>5, <1>6 DEF PartInv

\* the process gives the section up
LEMMA ExhaustedKeeps ==
  ASSUME PartInv, run.phase = "generate", run' = [run EXCEPT !.phase = "exhausted"],
         UNCHANGED <<plan, revision, accepted, cursor, persisted, checkpoint>>
  PROVE  PartInv'
<1>1. PartShape /\ CursorAgrees /\ CheckpointAgrees /\ PlanAgrees /\ PartsAreStored
  BY DEF PartInv
<1>2. /\ run' \in [n : 1 .. MaxRunsOfParts, phase : PartPhases, evidence : Evidences] /\ run'.phase = "exhausted"
  BY <1>1 DEF PartShape, PartPhases
<1>3. PartShape'
  BY <1>1, <1>2 DEF PartShape
<1>4. CursorAgrees' /\ CheckpointAgrees'
  BY <1>1 DEF CursorAgrees, CheckpointAgrees
<1>5. PlanAgrees' /\ PartsAreStored'
  BY <1>1 DEF PlanAgrees, AllParts, PartsAreStored, ArePersisted
<1>6. QED
  BY <1>3, <1>4, <1>5 DEF PartInv

LEMMA RejectedKeeps == PartInv /\ GenerateRejected => PartInv'
<1> SUFFICES ASSUME PartInv, GenerateRejected PROVE PartInv'
  OBVIOUS
<1>1. PartShape /\ PlanAgrees /\ run.phase = "generate"
  BY DEF PartInv, GenerateRejected
<1>2. Len(accepted) < Len(plan) /\ WholeSection(AllParts)
  BY <1>1 DEF PartShape, PlanAgrees
<1>3. revision \in Nat /\ MaxPlanRevisions \in Nat
  BY <1>1 DEF PartShape
<1> DEFINE merges(issue) == issue = "over" /\ Len(plan) > Index
           stuck(issue) == issue # "empty" /\ ~merges(issue) /\ CurrentPart.max <= 2
<1>4. UNCHANGED <<accepted, persisted, checkpoint, damaged>>
  BY DEF GenerateRejected
<1>5. PICK issue \in {"truncated", "over", "empty"} :
        CASE revision >= MaxPlanRevisions \/ stuck(issue) ->
               /\ run' = [run EXCEPT !.phase = "exhausted"]
               /\ UNCHANGED <<plan, revision, cursor>>
          [] revision < MaxPlanRevisions /\ issue = "empty" -> Revised(WithCurrent, issue)
          [] revision < MaxPlanRevisions /\ merges(issue) -> Revised(Coalesced(WithCurrent, Index), issue)
          [] OTHER -> Revised(Repartitioned(WithCurrent, Index), issue)
  BY <1>4 DEF GenerateRejected, Revised, WithCurrent
<1>6. \/ /\ run' = [run EXCEPT !.phase = "exhausted"]
         /\ UNCHANGED <<plan, revision, cursor>>
      \/ revision < MaxPlanRevisions /\ Revised(WithCurrent, issue)
      \/ revision < MaxPlanRevisions /\ Revised(Coalesced(WithCurrent, Index), issue)
      \/ revision < MaxPlanRevisions /\ ~(CurrentPart.max <= 2) /\ Revised(Repartitioned(WithCurrent, Index), issue)
  BY <1>3, <1>5
<1>7. CASE run' = [run EXCEPT !.phase = "exhausted"] /\ UNCHANGED <<plan, revision, cursor>>
  BY <1>1, <1>4, <1>7, ExhaustedKeeps
<1>8. CASE revision < MaxPlanRevisions /\ Revised(WithCurrent, issue)
  <2>1. /\ WithCurrent \in Seq(Part) /\ Len(WithCurrent) = Len(plan)
        /\ \A n \in 1 .. Len(plan) :
             /\ WithCurrent[n].covers = plan[n].covers /\ WithCurrent[n].max = plan[n].max
             /\ WithCurrent[n].ordinal = plan[n].ordinal /\ Digest(WithCurrent[n]) = Digest(plan[n])
    BY <1>1, <1>2, WithCurrentIs
  <2>2. WholeSection(Together(accepted, WithCurrent))
    BY <1>1, <1>2, <2>1, PlanSame
  <2>3. QED
    BY <1>1, <1>2, <1>8, <2>1, <2>2, RevisedKeeps
<1>9. CASE revision < MaxPlanRevisions /\ Revised(Coalesced(WithCurrent, Index), issue)
  <2>1. /\ Coalesced(WithCurrent, Index) \in Seq(Part)
        /\ Len(accepted) < Len(Coalesced(WithCurrent, Index))
        /\ WholeSection(Together(accepted, Coalesced(WithCurrent, Index)))
    BY <1>1, <1>2, CoalescedIs
  <2>2. QED
    BY <1>1, <1>9, <2>1, RevisedKeeps
<1>10. CASE revision < MaxPlanRevisions /\ ~(CurrentPart.max <= 2) /\ Revised(Repartitioned(WithCurrent, Index), issue)
  <2>1. CurrentPart.max > 2
    <3>1. CurrentPart \in Part
      BY <1>1, <1>2, CurrentIs
    <3>2. CurrentPart.max \in Nat
      BY <3>1, PartFieldsAre
    <3>3. QED
      BY <1>10, <3>2
  <2>2. /\ Repartitioned(WithCurrent, Index) \in Seq(Part)
        /\ Len(accepted) < Len(Repartitioned(WithCurrent, Index))
        /\ WholeSection(Together(accepted, Repartitioned(WithCurrent, Index)))
    BY <1>1, <1>2, <2>1, RepartitionedIs
  <2>3. QED
    BY <1>1, <1>10, <2>2, RevisedKeeps
<1>11. QED
  BY <1>6, <1>7, <1>8, <1>9, <1>10

LEMMA PartStep == PartInv /\ [PartNext]_partVars => PartInv'
<1> SUFFICES ASSUME PartInv, [PartNext]_partVars PROVE PartInv'
  OBVIOUS
<1>1. CASE StartRun
  BY <1>1, StartKeeps
<1>2. CASE GenerateGood
  BY <1>2, GoodKeeps
<1>3. CASE GenerateRejected
  BY <1>3, RejectedKeeps
<1>4. CASE StorePart
  BY <1>4, StoreKeeps
<1>5. CASE SavePart
  BY <1>5, SaveKeeps
<1>6. CASE RunAgain
  BY <1>6, RunAgainKeeps
<1>7. CASE DamageArtifact
  BY <1>7, DamageKeeps
<1>8. CASE UNCHANGED partVars
  <2>1. UNCHANGED <<run, plan, revision, accepted, cursor, persisted, checkpoint, damaged>>
    BY <1>8 DEF partVars
  <2>2. PartShape' /\ CursorAgrees' /\ CheckpointAgrees'
    BY <2>1 DEF PartInv, PartShape, CursorAgrees, CheckpointAgrees
  <2>3. PlanAgrees' /\ PartsAreStored'
    BY <2>1 DEF PartInv, PlanAgrees, PartsAreStored, AllParts, ArePersisted
  <2>4. QED
    BY <2>2, <2>3 DEF PartInv
<1>9. QED
  BY <1>1, <1>2, <1>3, <1>4, <1>5, <1>6, <1>7, <1>8 DEF PartNext

LEMMA PartInvariant == PartSpec => []PartInv
<1>1. PartInit => PartInv
  BY PartInitially
<1>2. PartInv /\ [PartNext]_partVars => PartInv'
  BY PartStep
<1>3. QED
  BY <1>1, <1>2, PTL DEF PartSpec

(* Type correctness of PartExecution.                                       *)
THEOREM PartTypeCorrect == PartSpec => []PartTypeOK
<1>1. PartInv => PartTypeOK
  <2> SUFFICES ASSUME PartInv PROVE PartTypeOK
    OBVIOUS
  <2>1. PartShape
    BY DEF PartInv
  <2>2. /\ run.n \in 1 .. MaxRunsOfParts
        /\ run.phase \in {"start", "generate", "persist", "checkpoint", "done", "exhausted"}
    BY <2>1 DEF PartShape, PartPhases
  <2>3. revision \in 1 .. MaxPlanRevisions /\ Len(accepted) <= Len(plan)
    BY <2>1 DEF PartShape
  <2>4. ASSUME NEW n \in DOMAIN plan PROVE plan[n].covers \subseteq Section
    <3>1. plan[n] \in Part
      BY <2>1 DEF PartShape
    <3>2. QED
      BY <3>1, PartFieldsAre
  <2>5. QED
    BY <2>2, <2>3, <2>4 DEF PartTypeOK
<1>2. QED
  BY <1>1, PartInvariant, PTL

\* of a section that is done nothing is left
LEMMA DoneIsCovered ==
  ASSUME PartShape, run.phase = "done"
  PROVE  Covers(AllParts) = Covers(accepted)
<1>1. /\ accepted \in Seq(Part) /\ plan \in Seq(Part) /\ Len(accepted) = Len(plan)
      /\ Len(accepted) \in Nat /\ Len(accepted) <= Len(plan)
  BY DEF PartShape
<1> DEFINE r == AllParts
<1>2. r \in Seq(Part) /\ Len(r) = Len(plan) /\ \A n \in 1 .. Len(plan) : r[n] = IF n <= Len(accepted) THEN accepted[n] ELSE plan[n]
  BY <1>1, TogetherIs DEF AllParts
<1> HIDE DEF r
<1>3. r = accepted
  <2>1. \A n \in 1 .. Len(r) : r[n] = accepted[n]
    <3> SUFFICES ASSUME NEW n \in 1 .. Len(plan) PROVE r[n] = accepted[n]
      BY <1>2
    <3>1. n <= Len(accepted)
      BY <1>1
    <3>2. QED
      BY <1>2, <3>1
  <2>2. QED
    BY <1>1, <1>2, <2>1, SeqEqual
<1>4. QED
  BY <1>3 DEF r

(* SectionIsCoveredOnce: the accepted parts and the rest of the plan ask    *)
(* for the whole section, once, in order, within what was planned, however  *)
(* often execute_planned_parts splits, merges and resumes.                  *)
THEOREM SectionsAreCoveredOnce == PartSpec => []SectionIsCoveredOnce
<1>1. PartInv => SectionIsCoveredOnce
  <2> SUFFICES ASSUME PartInv, run.phase # "start" PROVE SectionIsCoveredOnce
    BY DEF SectionIsCoveredOnce
  <2> DEFINE parts == AllParts
             rest == Digests(Dropped(plan, Len(accepted)))
  <2>1. PartShape /\ CheckpointAgrees /\ WholeSection(parts)
    BY DEF PartInv, PlanAgrees
  <2>2. parts \in Seq(Part)
    <3>1. accepted \in Seq(Part) /\ plan \in Seq(Part) /\ Len(accepted) <= Len(plan)
      BY <2>1 DEF PartShape
    <3>2. QED
      BY <3>1, TogetherIs DEF AllParts
  <2>3. parts = accepted \o Dropped(plan, Len(accepted))
    BY DEF AllParts, Together
  <2>4. cursor.covered = Digests(accepted) /\ cursor.next = Len(accepted) + 1 /\ cursor.remaining = rest
    <3> DEFINE ids == Identities(accepted)
               took == Digests(accepted)
               k == Len(accepted) + 1
               b == cursor.blocking
               v == cursor.revision
    <3>1. cursor = [accepted |-> ids, covered |-> took, remaining |-> rest, next |-> k, blocking |-> b, revision |-> v]
      BY DEF PartInv, CursorAgrees
    <3> HIDE DEF ids, took, k, b, v, rest
    <3>2. cursor.covered = took /\ cursor.next = k /\ cursor.remaining = rest
      BY <3>1
    <3>3. QED
      BY <3>2 DEF took, k
  <2>5. checkpoint.cursor.covered = Digests(checkpoint.parts)
    BY <2>1 DEF CheckpointAgrees, CursorIsAt
  <2>6. run.phase = "done" => Covers(accepted) = Covers(parts)
    BY <2>1, DoneIsCovered
  <2> HIDE DEF parts
  <2>7. ASSUME NEW n \in DOMAIN parts PROVE parts[n].ordinal = n /\ parts[n].max >= 1
    <3>1. parts[n] \in Part
      BY <2>2
    <3>2. parts[n].max \in Nat \ {0}
      BY <3>1, PartFieldsAre
    <3>3. parts[n].max >= 1
      BY <3>2
    <3>4. QED
      BY <2>1, <3>3 DEF WholeSection
  <2>8. /\ Covers(parts) = Section /\ Sum(Sizes(parts)) = Sum(Maxima)
        /\ \A n, m \in DOMAIN parts : n # m => parts[n].covers \cap parts[m].covers = {}
    BY <2>1 DEF WholeSection
  <2>9. run.phase = "done" => Covers(accepted) = Section
    BY <2>6, <2>8
  <2>10. LET ps == parts IN
         /\ Covers(ps) = Section
         /\ \A n, m \in DOMAIN ps : n # m => ps[n].covers \cap ps[m].covers = {}
         /\ \A n \in DOMAIN ps : ps[n].ordinal = n /\ ps[n].max >= 1
         /\ Sum(Sizes(ps)) = Sum(Maxima)
    BY <2>7, <2>8
  <2>11. QED
    BY <2>3, <2>4, <2>5, <2>9, <2>10 DEF SectionIsCoveredOnce
<1>2. QED
  BY <1>1, PartInvariant, PTL

(* ResumeKeepsTheWork: what resumed_parts_from_checkpoint gives the next    *)
(* run is all of the last checkpoint or nothing, and nothing only after a   *)
(* revision or a damaged artifact.                                          *)
THEOREM WorkIsResumed == PartSpec => ResumeKeepsTheWork
<1> DEFINE A == run.phase = "start" /\ run'.phase # "start" =>
                  /\ \/ accepted' = checkpoint.parts /\ cursor'.accepted = checkpoint.cursor.accepted
                     \/ accepted' = <<>> /\ (checkpoint.revision > 1 \/ damaged)
                  /\ \A n \in DOMAIN accepted' : Contains(persisted, Identity(accepted'[n]))
<1>1. PartInv /\ [PartNext]_partVars => [A]_partVars
  <2> SUFFICES ASSUME PartInv, PartNext, run.phase = "start", run'.phase # "start"
               PROVE  /\ \/ accepted' = checkpoint.parts /\ cursor'.accepted = checkpoint.cursor.accepted
                         \/ accepted' = <<>> /\ (checkpoint.revision > 1 \/ damaged)
                      /\ \A n \in DOMAIN accepted' : Contains(persisted, Identity(accepted'[n]))
    OBVIOUS
  <2>1. StartRun
    BY DEF PartNext, GenerateGood, GenerateRejected, StorePart, SavePart, RunAgain, DamageArtifact
  <2>2. CheckpointAgrees /\ ArePersisted(checkpoint.parts)
    BY DEF PartInv, PartsAreStored
  <2>3. accepted' = IF damaged THEN <<>> ELSE Resumed(checkpoint.parts)
    BY <2>1 DEF StartRun
  <2>4. /\ accepted' \in Seq(Part)
        /\ \/ accepted' = checkpoint.parts
           \/ accepted' = <<>> /\ (checkpoint.revision > 1 \/ damaged)
    BY <2>2, <2>3, TakenOver
  <2>5. cursor'.accepted = Identities(accepted')
    BY <2>1 DEF StartRun, CursorAt, Identities
  <2>6. checkpoint.cursor.accepted = Identities(checkpoint.parts)
    BY <2>2 DEF CheckpointAgrees, CursorIsAt
  <2>7. ASSUME NEW n \in DOMAIN accepted' PROVE Contains(persisted, Identity(accepted'[n]))
    <3>1. CASE accepted' = <<>>
      BY <2>7, <3>1
    <3>2. CASE accepted' = checkpoint.parts
      <4>1. n \in 1 .. Len(checkpoint.parts)
        BY <2>4, <2>7, <3>2
      <4>2. QED
        BY <2>2, <3>2, <4>1 DEF ArePersisted
    <3>3. QED
      BY <2>4, <3>1, <3>2
  <2>8. QED
    BY <2>4, <2>5, <2>6, <2>7
<1>2. PartSpec => [][PartNext]_partVars
  BY DEF PartSpec
<1>3. PartSpec => [][A]_partVars
  BY <1>1, <1>2, PartInvariant, PTL
<1>4. QED
  BY <1>3 DEF ResumeKeepsTheWork

HIDE PartAssumption
=============================================================================
