------------------------ MODULE DocumentAuthoring_proofs ------------------------
(***************************************************************************)
(* Proofs about what MCDocumentAuthoring composes: the reader of a graph's *)
(* stream, the finalization of a document, the stream to the client and    *)
(* the text of its sections, each for every value of its constants         *)
(* that its assumption allows; and that the composition is a behaviour of  *)
(* each of them, so that what is proved of one holds of the whole.         *)
(***************************************************************************)
EXTENDS MCDocumentAuthoring, SectionedAuthoring_proofs, Selection_proofs, FiniteSetTheorems, SequenceTheorems, TLAPS

-----------------------------------------------------------------------------
(* The reader of a graph's stream (DocumentStream).                         *)

Items == TextItems \cup Values \cup TaskItems
ActiveTasks == [key : Subtasks \cup {GeneratedKey(n) : n \in Nat}, task : Subtasks]
CallOf(t) == [kind |-> "call", task |-> t]
ResultOf(t) == [kind |-> "result", task |-> t]

\* delivered, and behind it the queue with the marks of the end, are what the graph yielded
QueueIsTheRest ==
  LET m == Len(delivered) IN
  /\ m <= Len(emitted) /\ \A i \in 1 .. m : delivered[i] = emitted[i]
  /\ \A i \in 1 .. Len(queue) : m + i <= Len(emitted) => queue[i] = emitted[m + i]
  /\ graph = "running" => m + Len(queue) = Len(emitted)
  /\ graph \in {"ended", "cancelled"} =>
       m + Len(queue) = Len(emitted) + 1 /\ queue[Len(queue)] = Done
  /\ graph = "raised" =>
       /\ m + Len(queue) = Len(emitted) + 2
       /\ queue[Len(queue) - 1] = Raised /\ queue[Len(queue)] = Done

\* a graph calls a subtask once and returns it once, after that
GraphIsLegal ==
  \A n \in 1 .. Len(emitted), t \in Subtasks :
    /\ emitted[n] = CallOf(t) =>
         \A i \in 1 .. n - 1 : emitted[i] # CallOf(t) /\ emitted[i] # ResultOf(t)
    /\ emitted[n] = ResultOf(t) =>
         /\ \E i \in 1 .. n - 1 : emitted[i] = CallOf(t)
         /\ \A i \in 1 .. n - 1 : emitted[i] # ResultOf(t)

\* the keys of calls without an id
KeysGenerated(tasks, highest) ==
  \A n \in 1 .. Len(tasks) : \E k \in 1 .. highest : tasks[n].key = GeneratedKey(k)

\* the mapper can tell whose result it has
Told == stream.ids \/ ~Overlapped(delivered)

\* what runs is active, and what the mapper has for active runs where it can tell
ActiveIsRunning ==
  /\ \A t \in RunningTasks(delivered) : \E n \in 1 .. Len(active) : active[n].task = t
  /\ Told => \A n \in 1 .. Len(active) : active[n].task \in RunningTasks(delivered)
  /\ stream.ids => \A n \in 1 .. Len(active) : active[n].key = active[n].task
  /\ ~stream.ids /\ Told => Len(active) <= 1
  /\ ~stream.ids => KeysGenerated(active, counter)

\* the reader ends where the graph ended, and its clock is never ahead of the graph's
ReaderAgrees ==
  /\ reader = "complete" => graph \in {"ended", "cancelled"} /\ delivered = emitted
  /\ reader = "failed" => graph = "raised" /\ delivered = emitted
  /\ reader = "complete" /\ stream.reader = "narrative" => narrative = NarrativeOf(emitted)
  /\ queue = <<>> => idle <= silence

StreamShape ==
  /\ stream \in StreamSetup
  /\ graph \in {"running", "ended", "raised", "cancelled"}
  /\ reader \in {"waiting", "holding", "complete", "failed", "timed_out", "left"}
  /\ silence \in 0 .. IdleTimeout + 1 /\ idle \in 0 .. IdleTimeout + 1
  /\ counter \in Nat /\ counter <= Len(delivered)
  /\ emitted \in Seq(Items) /\ Len(emitted) <= MaxItems
  /\ delivered \in Seq(Items)
  /\ queue \in Seq(Items \cup {Raised, Done})
  /\ active \in Seq(ActiveTasks)

LEMMA ActiveTask == \A x \in ActiveTasks : x.task \in Subtasks
  BY DEF ActiveTasks

(* The inductive invariant of DocumentStream.                               *)
StreamInv ==
  StreamShape /\ QueueIsTheRest /\ GraphIsLegal /\ ActiveIsRunning /\ ReaderAgrees

USE StreamAssumption DEF Items

LEMMA StreamInitInv == StreamInit => StreamInv
<1> SUFFICES ASSUME StreamInit PROVE StreamInv
  OBVIOUS
<1>2. StreamShape
  BY DEF StreamInit, StreamShape
<1>3. RunningTasks(delivered) = {} /\ Len(active) = 0 /\ KeysGenerated(active, counter)
  BY DEF StreamInit, RunningTasks, Started, KeysGenerated
<1>4. QED
  BY <1>2, <1>3 DEF StreamInit, StreamInv, QueueIsTheRest, GraphIsLegal, ActiveIsRunning, ReaderAgrees

LEMMA StreamTypes == StreamInv => StreamTypeOK
<1> SUFFICES ASSUME StreamInv PROVE StreamTypeOK
  OBVIOUS
<1>1. Len(delivered) \in Nat /\ Len(emitted) \in Nat
  BY DEF StreamInv, StreamShape
<1>2. counter \in 0 .. MaxItems
  BY <1>1 DEF StreamInv, StreamShape, QueueIsTheRest
<1>3. \A n \in DOMAIN active : active[n].task \in Subtasks
  <2>1. active \in Seq(ActiveTasks)
    BY DEF StreamInv, StreamShape
  <2>2. QED
    BY <2>1, ActiveTask
<1>4. QED
  BY <1>2, <1>3 DEF StreamInv, StreamShape, StreamTypeOK

LEMMA SameActive ==
  ActiveIsRunning /\ UNCHANGED <<stream, delivered, active, counter>> => ActiveIsRunning'
BY DEF ActiveIsRunning, Told

(* Two subtasks that run after the last item overlap, and stay overlapped.  *)
LEMMA Overlaps ==
  ASSUME NEW items \in Seq(Items), NEW item \in Items
  PROVE  /\ Overlapped(items) => Overlapped(Append(items, item))
         /\ ~Overlapped(items) => \A t, u \in RunningTasks(items) : t = u
<1> DEFINE longer == Append(items, item)
<1>1. /\ Len(items) \in Nat /\ DOMAIN items = 1 .. Len(items)
      /\ DOMAIN longer = 1 .. Len(items) + 1
  OBVIOUS
<1>2. ASSUME NEW n \in 1 .. Len(items) PROVE n \in DOMAIN longer /\ SubSeq(longer, 1, n) = SubSeq(items, 1, n)
  <2>1. n \in Nat /\ n <= Len(items) /\ n \in 1 .. Len(items) + 1
    BY <1>1
  <2>2. \A i \in 1 .. n : longer[i] = items[i]
    BY <1>1, <2>1
  <2>3. QED
    BY <1>1, <2>1, <2>2
<1>3. Overlapped(items) => Overlapped(longer)
  <2> SUFFICES ASSUME Overlapped(items) PROVE Overlapped(longer)
    OBVIOUS
  <2>1. PICK n \in 1 .. Len(items) : \E t, u \in RunningTasks(SubSeq(items, 1, n)) : t # u
    BY <1>1 DEF Overlapped
  <2> HIDE DEF longer
  <2>2. QED
    BY <1>2, <2>1 DEF Overlapped
<1>4. ASSUME ~Overlapped(items), NEW t \in RunningTasks(items), NEW u \in RunningTasks(items) PROVE t = u
  <2>1. Len(items) \in DOMAIN items
    <3>1. PICK n \in DOMAIN items : items[n] = [kind |-> "call", task |-> t]
      BY DEF RunningTasks, Started
    <3>2. QED
      BY <1>1, <3>1
  <2>2. SubSeq(items, 1, Len(items)) = items
    BY <1>1
  <2>3. QED
    BY <1>4, <2>1, <2>2 DEF Overlapped
<1>5. QED
  BY <1>3, <1>4

(* What the graph yields stays legal.                                       *)
LEMMA GraphYieldsInv == StreamInv /\ GraphYields => StreamInv'
<1> SUFFICES ASSUME StreamInv, GraphYields PROVE StreamInv'
  OBVIOUS
<1>1. PICK item \in TextItems \cup Values \cup TaskItems :
        CanEmit(item) /\ emitted' = Append(emitted, item) /\ queue' = Append(queue, item)
  BY DEF GraphYields
<1> DEFINE N == Len(emitted)
<1>2. item \in Items /\ N \in Nat /\ N < MaxItems /\ emitted \in Seq(Items)
  BY <1>1 DEF GraphYields, StreamInv, StreamShape
<1>3. /\ emitted' \in Seq(Items) /\ Len(emitted') = N + 1
      /\ emitted'[N + 1] = item /\ \A i \in 1 .. N : emitted'[i] = emitted[i]
  BY <1>1, <1>2
<1>4. StreamShape'
  <2>1. queue' \in Seq(Items \cup {Raised, Done})
    BY <1>1, <1>2 DEF StreamInv, StreamShape
  <2>2. Len(emitted') <= MaxItems /\ silence' \in 0 .. IdleTimeout + 1
    BY <1>2, <1>3 DEF GraphYields
  <2>3. UNCHANGED <<stream, graph, reader, delivered, idle, active, counter>>
    BY DEF GraphYields
  <2>4. QED
    BY <1>3, <2>1, <2>2, <2>3 DEF StreamInv, StreamShape
<1>5. QueueIsTheRest'
  <2>1. graph = "running" /\ graph' = graph /\ delivered' = delivered
    BY DEF GraphYields
  <2>2. Len(queue) \in Nat /\ Len(delivered) \in Nat /\ Len(queue') = Len(queue) + 1
        /\ queue'[Len(queue) + 1] = item /\ \A i \in 1 .. Len(queue) : queue'[i] = queue[i]
    BY <1>1 DEF StreamInv, StreamShape
  <2> DEFINE m == Len(delivered)
  <2>3. m + Len(queue) = N /\ m <= N /\ \A i \in 1 .. m : delivered[i] = emitted[i]
    BY <2>1 DEF StreamInv, QueueIsTheRest
  <2>4. \A i \in 1 .. m : delivered'[i] = emitted'[i]
    BY <1>2, <1>3, <2>1, <2>2, <2>3
  <2>5. ASSUME NEW i \in 1 .. Len(queue'), m + i <= N + 1 PROVE queue'[i] = emitted'[m + i]
    <3>1. CASE i = Len(queue) + 1
      BY <1>2, <1>3, <2>2, <2>3, <3>1
    <3>2. CASE i # Len(queue) + 1
      <4>1. i \in 1 .. Len(queue) /\ m + i \in 1 .. N
        BY <1>2, <2>2, <2>3, <3>2
      <4>2. queue[i] = emitted[m + i]
        BY <4>1 DEF StreamInv, QueueIsTheRest
      <4>3. QED
        BY <1>3, <2>2, <4>1, <4>2
    <3>3. QED
      BY <3>1, <3>2
  <2>6. m + Len(queue') = N + 1
    BY <1>2, <2>2, <2>3
  <2>7. QED
    BY <1>2, <1>3, <2>1, <2>2, <2>3, <2>4, <2>5, <2>6 DEF QueueIsTheRest
<1>6. GraphIsLegal'
  <2>1. stream' = stream
    BY DEF GraphYields
  <2>2. \A i \in 1 .. N : GraphIsLegal => i \in 1 .. N + 1
    BY <1>2
  <2>3. ASSUME NEW t \in Subtasks, item = CallOf(t)
        PROVE  \A i \in 1 .. N : emitted[i] # CallOf(t) /\ emitted[i] # ResultOf(t)
    <3>1. t \notin Started(emitted)
      BY <1>1, <2>3 DEF CanEmit, TextItems, Values, TaskItems, CallOf
    <3>2. \A i \in 1 .. N : emitted[i] # CallOf(t)
      BY <3>1, <1>2 DEF Started, CallOf
    <3>3. \A i \in 1 .. N : emitted[i] # ResultOf(t)
      <4> SUFFICES ASSUME NEW i \in 1 .. N, emitted[i] = ResultOf(t) PROVE FALSE
        OBVIOUS
      <4>1. PICK j \in 1 .. i - 1 : emitted[j] = CallOf(t)
        BY DEF StreamInv, GraphIsLegal
      <4>2. j \in 1 .. N
        BY <1>2
      <4>3. QED
        BY <3>2, <4>1, <4>2
    <3>4. QED
      BY <3>2, <3>3
  <2>4. ASSUME NEW t \in Subtasks, item = ResultOf(t)
        PROVE  /\ \E i \in 1 .. N : emitted[i] = CallOf(t)
               /\ \A i \in 1 .. N : emitted[i] # ResultOf(t)
    <3>1. t \in RunningTasks(emitted)
      BY <1>1, <2>4 DEF CanEmit, TextItems, Values, TaskItems, ResultOf
    <3>2. QED
      BY <1>2, <3>1 DEF RunningTasks, Started, Returned, CallOf, ResultOf
  <2>5. ASSUME NEW n \in 1 .. N + 1, NEW t \in Subtasks
        PROVE  /\ emitted'[n] = CallOf(t) =>
                    \A i \in 1 .. n - 1 : emitted'[i] # CallOf(t) /\ emitted'[i] # ResultOf(t)
               /\ emitted'[n] = ResultOf(t) =>
                    /\ \E i \in 1 .. n - 1 : emitted'[i] = CallOf(t)
                    /\ \A i \in 1 .. n - 1 : emitted'[i] # ResultOf(t)
    <3>1. CASE n = N + 1
      <4>1. emitted'[n] = item /\ n - 1 = N /\ \A i \in 1 .. n - 1 : emitted'[i] = emitted[i]
        BY <1>2, <1>3, <3>1
      <4>2. QED
        BY <4>1, <2>3, <2>4
    <3>2. CASE n # N + 1
      <4>1. n \in 1 .. N
        BY <1>2, <3>2
      <4>2. emitted'[n] = emitted[n] /\ \A i \in 1 .. n - 1 : emitted'[i] = emitted[i]
        BY <1>2, <1>3, <4>1
      <4>3. QED
        BY <4>1, <4>2 DEF StreamInv, GraphIsLegal
    <3>3. QED
      BY <3>1, <3>2
  <2>6. QED
    BY <1>3, <2>5 DEF GraphIsLegal
<1>7. ActiveIsRunning'
  <2>1. stream' = stream /\ delivered' = delivered /\ active' = active /\ counter' = counter
    BY DEF GraphYields
  <2>2. QED
    BY <2>1, SameActive DEF StreamInv
<1>8. ReaderAgrees'
  <2>1. queue' # <<>>
    BY <1>1 DEF StreamInv, StreamShape
  <2>2. reader \notin {"complete", "failed"}
    BY DEF GraphYields, StreamInv, ReaderAgrees
  <2>3. QED
    BY <2>1, <2>2 DEF GraphYields, ReaderAgrees
<1>9. QED
  BY <1>4, <1>5, <1>6, <1>7, <1>8 DEF StreamInv

(* The producer puts the marks of the end behind the items.                 *)
LEMMA GraphEndsInv ==
  ASSUME StreamInv, NEW how \in {"ended", "raised", "cancelled"}, graph = "running", GraphEnds(how),
         UNCHANGED <<stream, emitted, silence, reader, delivered, idle, active, counter, narrative>>
  PROVE  StreamInv'
<1> DEFINE marks == IF how = "raised" THEN <<Raised, Done>> ELSE <<Done>>
           Q == Items \cup {Raised, Done}
<1>1. queue \in Seq(Q) /\ Len(queue) \in Nat /\ marks \in Seq(Q) /\ queue' = queue \o marks
  <2>1. queue \in Seq(Q)
    BY DEF StreamInv, StreamShape
  <2>2. marks \in Seq(Q)
    <3>1. <<Raised, Done>> \in Seq(Q) /\ <<Done>> \in Seq(Q)
      OBVIOUS
    <3>2. QED
      BY <3>1
  <2>3. queue' = queue \o marks
    BY DEF GraphEnds
  <2> HIDE DEF marks, Q
  <2>4. QED
    BY <2>1, <2>2, <2>3
<1>0. Len(queue) \in Nat
  BY <1>1
<1>2. /\ queue' \in Seq(Q) /\ Len(queue') = Len(queue) + Len(marks)
      /\ \A i \in 1 .. Len(queue) : queue'[i] = queue[i]
      /\ \A i \in 1 .. Len(marks) : queue'[Len(queue) + i] = marks[i]
  <2> HIDE DEF marks, Q
  <2>1. QED
    BY <1>1
<1>3. StreamShape'
  BY <1>2 DEF StreamInv, StreamShape, GraphEnds
<1>4. QueueIsTheRest'
  <2>1. Len(delivered) \in Nat /\ Len(emitted) \in Nat /\ Len(delivered) + Len(queue) = Len(emitted)
    BY DEF StreamInv, StreamShape, QueueIsTheRest
  <2>2. \A i \in 1 .. Len(queue') : Len(delivered) + i <= Len(emitted) => queue'[i] = emitted[Len(delivered) + i]
    <3> SUFFICES ASSUME NEW i \in 1 .. Len(queue'), Len(delivered) + i <= Len(emitted)
                 PROVE  queue'[i] = emitted[Len(delivered) + i]
      OBVIOUS
    <3>1. i \in 1 .. Len(queue)
      BY <1>1, <2>1
    <3>2. QED
      BY <1>2, <3>1 DEF StreamInv, QueueIsTheRest
  <2>3. CASE how = "raised"
    <3>1. Len(marks) = 2 /\ marks[1] = Raised /\ marks[2] = Done
      BY <2>3
    <3>2. Len(queue') = Len(queue) + 2 /\ queue'[Len(queue) + 1] = Raised /\ queue'[Len(queue) + 2] = Done
      <4> HIDE DEF marks
      <4>1. QED
        BY <1>1, <1>2, <3>1
    <3>3. graph' = "raised"
      BY <2>3 DEF GraphEnds
    <3>4. queue'[Len(queue') - 1] = Raised /\ queue'[Len(queue')] = Done
      <4>1. Len(queue') - 1 = Len(queue) + 1
        BY <1>1, <3>2
      <4>2. QED
        BY <3>2, <4>1
    <3>5. Len(delivered) + Len(queue') = Len(emitted) + 2
      BY <1>0, <2>1, <3>2
    <3>6. /\ Len(delivered) <= Len(emitted)
          /\ \A i \in 1 .. Len(delivered) : delivered[i] = emitted[i]
      BY DEF StreamInv, QueueIsTheRest
    <3>7. QED
      BY <2>2, <3>3, <3>4, <3>5, <3>6 DEF QueueIsTheRest
  <2>4. CASE how # "raised"
    <3>1. Len(marks) = 1 /\ marks[1] = Done
      BY <2>4
    <3>2. Len(queue') = Len(queue) + 1 /\ queue'[Len(queue) + 1] = Done
      <4> HIDE DEF marks
      <4>1. QED
        BY <1>1, <1>2, <3>1
    <3>3. graph' \in {"ended", "cancelled"}
      BY <2>4 DEF GraphEnds
    <3>4. QED
      BY <1>1, <2>1, <2>2, <3>2, <3>3 DEF StreamInv, QueueIsTheRest
  <2>5. QED
    BY <2>3, <2>4
<1>5. GraphIsLegal' /\ ActiveIsRunning'
  BY SameActive DEF StreamInv, GraphIsLegal
<1>6. ReaderAgrees'
  <2>1. Len(marks) \in Nat /\ Len(marks) >= 1
    OBVIOUS
  <2>2. queue' # <<>>
    <3> HIDE DEF marks, Q
    <3>1. QED
      BY <1>1, <1>2, <2>1
  <2>3. reader \notin {"complete", "failed"}
    BY DEF StreamInv, ReaderAgrees
  <2>4. QED
    BY <2>2, <2>3 DEF ReaderAgrees
<1>7. QED
  BY <1>3, <1>4, <1>5, <1>6 DEF StreamInv


(* What the mapper has for active runs: a call and a result.                *)
LEMMA HandledCall ==
  ASSUME StreamInv, NEW item \in Items, HandleItem(item),
         Len(delivered) < Len(emitted), item = emitted[Len(delivered) + 1], UNCHANGED stream
  PROVE  /\ ActiveIsRunning'
         /\ active' \in Seq(ActiveTasks)
         /\ counter' \in Nat /\ counter' <= counter + 1
<1> DEFINE m == Len(delivered)
<1>1. /\ active \in Seq(ActiveTasks) /\ Len(active) \in Nat /\ m \in Nat /\ Len(emitted) \in Nat
      /\ counter \in Nat /\ stream.ids \in BOOLEAN
  BY DEF StreamInv, StreamShape, StreamSetup
<1>0. Len(active) \in Nat /\ m \in Nat /\ Len(emitted) \in Nat
  BY <1>1
<1>2. delivered' = Append(delivered, item) /\ delivered \in Seq(Items)
  BY DEF HandleItem, StreamInv, StreamShape
<1>3. Len(delivered') = m + 1 /\ delivered'[m + 1] = item /\ \A i \in 1 .. m : delivered'[i] = delivered[i]
  BY <1>2
<1>4. \A i \in 1 .. m : delivered[i] = emitted[i]
  BY DEF StreamInv, QueueIsTheRest
<1>5. PICK n \in 1 .. Len(emitted) : n = m + 1 /\ n - 1 = m /\ emitted[n] = item
  BY <1>0
<1>6. \A t \in Subtasks :
        /\ t \in Started(delivered') <=> t \in Started(delivered) \/ item = CallOf(t)
        /\ t \in Returned(delivered') <=> t \in Returned(delivered) \/ item = ResultOf(t)
  <2> SUFFICES ASSUME NEW t \in Subtasks
               PROVE  /\ t \in Started(delivered') <=> t \in Started(delivered) \/ item = CallOf(t)
                      /\ t \in Returned(delivered') <=> t \in Returned(delivered) \/ item = ResultOf(t)
    OBVIOUS
  <2>0. DOMAIN delivered = 1 .. m /\ DOMAIN delivered' = 1 .. m + 1
    BY <1>0, <1>2, <1>3
  <2>1. /\ t \in Started(delivered) <=> \E i \in 1 .. m : delivered[i] = CallOf(t)
        /\ t \in Returned(delivered) <=> \E i \in 1 .. m : delivered[i] = ResultOf(t)
        /\ t \in Started(delivered') <=> \E i \in 1 .. m + 1 : delivered'[i] = CallOf(t)
        /\ t \in Returned(delivered') <=> \E i \in 1 .. m + 1 : delivered'[i] = ResultOf(t)
    BY <2>0 DEF Started, Returned, CallOf, ResultOf
  <2>2. 1 .. m + 1 = (1 .. m) \cup {m + 1}
    BY <1>1
  <2>3. QED
    BY <1>3, <2>1, <2>2
<1>11. Told' => Told
  BY <1>2, Overlaps DEF Told
<1>12. \A i \in 1 .. Len(active) : active[i].task \in Subtasks
  BY <1>1, ActiveTask
<1>13. \A t \in RunningTasks(delivered) : t \in Subtasks /\ \E i \in 1 .. Len(active) : active[i].task = t
  BY DEF StreamInv, ActiveIsRunning, RunningTasks, Started
<1>7. CASE item.kind \notin {"call", "result"}
  <2>1. \A t \in Subtasks : item # CallOf(t) /\ item # ResultOf(t)
    BY <1>7 DEF CallOf, ResultOf
  <2>2. \A t \in Subtasks : t \in RunningTasks(delivered) <=> t \in RunningTasks(delivered')
    BY <1>6, <2>1 DEF RunningTasks
  <2>3. RunningTasks(delivered') = RunningTasks(delivered)
    BY <2>2 DEF RunningTasks, Started
  <2>4. active' = active /\ counter' = counter /\ stream' = stream
    BY <1>7 DEF HandleItem
  <2>5. QED
    BY <1>1, <1>11, <2>3, <2>4 DEF StreamInv, ActiveIsRunning
<1>8. CASE item.kind = "call"
  <2>1. PICK t \in Subtasks : item = CallOf(t)
    BY <1>8 DEF TextItems, Values, TaskItems, CallOf
  <2>2. item.task = t
    BY <2>1 DEF CallOf
  <2> DEFINE new == [key |-> CallKey(item), task |-> t]
  <2>3. active' = Append(active, new) /\ counter' \in {counter, counter + 1}
    BY <1>8, <2>2 DEF HandleItem, Mapped
  <2>4. CallKey(item) = IF stream.ids THEN t ELSE GeneratedKey(counter + 1)
    BY <1>1, <1>8, <2>2 DEF CallKey
  <2>5. new \in ActiveTasks
    BY <1>1, <2>4 DEF ActiveTasks
  <2>6. /\ active' \in Seq(ActiveTasks) /\ Len(active') = Len(active) + 1
        /\ active'[Len(active) + 1] = new /\ \A i \in 1 .. Len(active) : active'[i] = active[i]
    <3> HIDE DEF new
    <3>1. QED
      BY <1>1, <2>3, <2>5
  <2>16. new.task = t
    OBVIOUS
  <2> HIDE DEF new
  <2>7. \A i \in 1 .. m : emitted[i] # CallOf(t) /\ emitted[i] # ResultOf(t)
    <3>1. \A i \in 1 .. n - 1 : emitted[i] # CallOf(t) /\ emitted[i] # ResultOf(t)
      BY <1>5, <2>1 DEF StreamInv, GraphIsLegal
    <3>2. QED
      BY <1>5, <3>1
  <2>17. t \notin Started(delivered) /\ t \notin Returned(delivered)
    <3>1. \A i \in DOMAIN delivered : delivered[i] # CallOf(t) /\ delivered[i] # ResultOf(t)
      BY <1>2, <1>4, <2>7
    <3>2. QED
      BY <3>1 DEF Started, Returned, CallOf, ResultOf
  <2>18. \A u \in Subtasks : item # ResultOf(u) /\ (item = CallOf(u) => u = t)
    BY <2>1 DEF CallOf, ResultOf
  <2>8. t \in RunningTasks(delivered')
    BY <1>6, <2>1, <2>17, <2>18 DEF RunningTasks
  <2>9. \A u \in Subtasks : u \in RunningTasks(delivered') <=> u \in RunningTasks(delivered) \/ u = t
    BY <1>6, <2>1, <2>17, <2>18 DEF RunningTasks
  <2>10. \A u \in RunningTasks(delivered') : u \in Subtasks /\ \E i \in 1 .. Len(active') : active'[i].task = u
    <3> SUFFICES ASSUME NEW u \in RunningTasks(delivered')
                 PROVE  u \in Subtasks /\ \E i \in 1 .. Len(active') : active'[i].task = u
      OBVIOUS
    <3>1. u \in Subtasks
      BY DEF RunningTasks, Started
    <3>2. CASE u = t
      <4>1. Len(active) + 1 \in 1 .. Len(active') /\ active'[Len(active) + 1].task = u
        BY <1>0, <2>6, <2>16, <3>2
      <4>2. QED
        BY <3>1, <4>1
    <3>3. CASE u # t
      <4>1. PICK i \in 1 .. Len(active) : active[i].task = u
        BY <1>13, <2>9, <3>1, <3>3
      <4>2. i \in 1 .. Len(active') /\ active'[i].task = u
        BY <1>0, <2>6, <4>1
      <4>3. QED
        BY <3>1, <4>2
    <3>4. QED
      BY <3>2, <3>3
  <2>11. Told' => \A i \in 1 .. Len(active') : active'[i].task \in RunningTasks(delivered')
    <3> SUFFICES ASSUME Told', NEW i \in 1 .. Len(active') PROVE active'[i].task \in RunningTasks(delivered')
      OBVIOUS
    <3>1. CASE i = Len(active) + 1
      BY <2>6, <2>8, <2>16, <3>1
    <3>2. CASE i # Len(active) + 1
      <4>1. i \in 1 .. Len(active) /\ active'[i] = active[i]
        BY <1>0, <2>6, <3>2
      <4>2. active[i].task \in RunningTasks(delivered)
        BY <1>11, <4>1 DEF StreamInv, ActiveIsRunning
      <4>3. QED
        BY <1>12, <2>9, <4>1, <4>2
    <3>3. QED
      BY <3>1, <3>2
  <2>12. ASSUME stream.ids PROVE \A i \in 1 .. Len(active') : active'[i].key = active'[i].task
    <3>1. new.key = t /\ new.task = t
      BY <2>4, <2>12 DEF new
    <3>2. \A i \in 1 .. Len(active) : active[i].key = active[i].task
      BY <2>12 DEF StreamInv, ActiveIsRunning
    <3>3. QED
      BY <1>1, <2>6, <3>1, <3>2
  <2>13. ASSUME ~stream.ids, Told' PROVE Len(active) = 0
    <3> SUFFICES ASSUME Len(active) # 0 PROVE FALSE
      OBVIOUS
    <3>1. 1 \in 1 .. Len(active)
      BY <1>0
    <3>2. active[1].task \in RunningTasks(delivered) /\ active[1].task \in Subtasks
      BY <1>11, <1>12, <2>13, <3>1 DEF StreamInv, ActiveIsRunning
    <3>3. active[1].task # t
      BY <2>17, <3>2 DEF RunningTasks
    <3>4. active[1].task \in RunningTasks(delivered')
      BY <2>9, <3>2
    <3>5. ~Overlapped(delivered')
      BY <2>13 DEF Told
    <3>6. delivered' \in Seq(Items)
      BY <1>2
    <3>7. PICK d \in Seq(Items) : d = delivered'
      BY <3>6
    <3>8. PICK x \in Subtasks : x = active[1].task
      BY <3>2
    <3>9. ~Overlapped(d) => \A u, v \in RunningTasks(d) : u = v
      BY <3>7, Overlaps
    <3>10. QED
      BY <2>8, <3>3, <3>4, <3>5, <3>7, <3>8, <3>9
  <2>14. ~stream.ids /\ Told' => Len(active') <= 1
    BY <2>6, <2>13
  <2>19. ASSUME ~stream.ids PROVE KeysGenerated(active', counter')
    <3>1. UsesCounter(item) /\ counter' = counter + 1
      BY <1>8, <2>19 DEF UsesCounter, HandleItem
    <3>2. new.key = GeneratedKey(counter + 1)
      BY <2>4, <2>19 DEF new
    <3>3. KeysGenerated(active, counter)
      BY <2>19 DEF StreamInv, ActiveIsRunning
    <3> SUFFICES ASSUME NEW i \in 1 .. Len(active') PROVE \E k \in 1 .. counter + 1 : active'[i].key = GeneratedKey(k)
      BY <3>1 DEF KeysGenerated
    <3>4. CASE i = Len(active) + 1
      BY <1>1, <2>6, <3>2, <3>4
    <3>5. CASE i # Len(active) + 1
      <4>1. i \in 1 .. Len(active) /\ active'[i] = active[i]
        BY <1>0, <2>6, <3>5
      <4>2. PICK k \in 1 .. counter : active[i].key = GeneratedKey(k)
        BY <3>3, <4>1 DEF KeysGenerated
      <4>3. k \in 1 .. counter + 1
        BY <1>1
      <4>4. QED
        BY <4>1, <4>2, <4>3
    <3>6. QED
      BY <3>4, <3>5
  <2>15. QED
    BY <1>1, <2>3, <2>6, <2>10, <2>11, <2>12, <2>14, <2>19 DEF ActiveIsRunning
<1>9. CASE item.kind = "result"
  <2>1. PICK t \in Subtasks : item = ResultOf(t)
    BY <1>9 DEF TextItems, Values, TaskItems, ResultOf
  <2>2. item.task = t
    BY <2>1 DEF ResultOf
  <2> DEFINE left == {i \in DOMAIN active : active[i].key # CallKey(item)}
  <2>3. active' = Chosen(active, left) /\ counter' \in {counter, counter + 1}
    BY <1>9 DEF HandleItem, Mapped
  <2>4. active' \in Seq(ActiveTasks) /\ Len(active') <= Len(active) /\ Len(active') \in Nat
    BY <1>1, <2>3, ChosenType
  <2>5. PICK at \in [1 .. Len(active') -> 1 .. Len(active)] :
          /\ \A i \in 1 .. Len(active') : at[i] \in left /\ active'[i] = active[at[i]]
          /\ \A k \in 1 .. Len(active) : k \in left => \E i \in 1 .. Len(active') : at[i] = k
    <3> HIDE DEF left
    <3>1. \E at \in [1 .. Len(Chosen(active, left)) -> 1 .. Len(active)] :
            /\ \A i \in 1 .. Len(Chosen(active, left)) : at[i] \in left /\ Chosen(active, left)[i] = active[at[i]]
            /\ \A i, j \in 1 .. Len(Chosen(active, left)) : i < j => at[i] < at[j]
            /\ \A k \in 1 .. Len(active) : k \in left =>
                 \E i \in 1 .. Len(Chosen(active, left)) : at[i] = k
      BY <1>1, ChosenPlaces, SMTT(30)
    <3>2. QED
      BY <2>3, <3>1
  <2>0. Len(active') \in Nat /\ Len(active') <= Len(active) /\ counter' \in Nat /\ counter' <= counter + 1
    BY <1>1, <2>3, <2>4
  <2>6. \A u \in Subtasks : u \in RunningTasks(delivered') <=> u \in RunningTasks(delivered) /\ u # t
    <3>1. \A u \in Subtasks : item # CallOf(u) /\ (item = ResultOf(u) <=> u = t)
      BY <2>1 DEF CallOf, ResultOf
    <3>2. QED
      BY <1>6, <3>1 DEF RunningTasks
  <2>7. \A u \in RunningTasks(delivered') : u \in RunningTasks(delivered) /\ u \in Subtasks /\ u # t
    <3>1. \A u \in RunningTasks(delivered') : u \in Subtasks
      BY DEF RunningTasks, Started
    <3>2. QED
      BY <2>6, <3>1
  <2>11. t \in RunningTasks(delivered)
    <3>1. /\ \E i \in 1 .. n - 1 : emitted[i] = CallOf(t)
          /\ \A i \in 1 .. n - 1 : emitted[i] # ResultOf(t)
      BY <1>5, <2>1 DEF StreamInv, GraphIsLegal
    <3>2. /\ \E i \in 1 .. m : delivered[i] = CallOf(t)
          /\ \A i \in 1 .. m : delivered[i] # ResultOf(t)
      BY <1>4, <1>5, <3>1
    <3>3. QED
      BY <1>2, <3>2 DEF RunningTasks, Started, Returned, CallOf, ResultOf
  <2> HIDE DEF left
  <2>8. CASE stream.ids
    <3>1. CallKey(item) = t
      BY <2>2, <2>8 DEF CallKey
    <3>0. \A i \in 1 .. Len(active) : i \in left <=> active[i].task # t
      BY <1>1, <2>8, <3>1 DEF StreamInv, ActiveIsRunning, left
    <3>2. ASSUME NEW i \in 1 .. Len(active')
          PROVE  active'[i].key = active'[i].task /\ active'[i].task # t
      <4>1. at[i] \in 1 .. Len(active) /\ at[i] \in left /\ active'[i] = active[at[i]]
        BY <2>5
      <4>2. active[at[i]].key = active[at[i]].task
        BY <2>8, <4>1 DEF StreamInv, ActiveIsRunning
      <4>3. QED
        BY <3>0, <4>1, <4>2
    <3>3. \A i \in 1 .. Len(active') : active'[i].task \in RunningTasks(delivered')
      <4> SUFFICES ASSUME NEW i \in 1 .. Len(active') PROVE active'[i].task \in RunningTasks(delivered')
        OBVIOUS
      <4>1. at[i] \in 1 .. Len(active) /\ active'[i] = active[at[i]]
        BY <2>5
      <4>2. active[at[i]].task \in RunningTasks(delivered)
        BY <2>8, <4>1 DEF StreamInv, ActiveIsRunning, Told
      <4>3. active[at[i]].task \in Subtasks /\ active'[i].task = active[at[i]].task
        BY <1>12, <4>1
      <4>4. QED
        BY <2>6, <3>2, <4>2, <4>3
    <3>4. \A u \in RunningTasks(delivered') : \E i \in 1 .. Len(active') : active'[i].task = u
      <4> SUFFICES ASSUME NEW u \in RunningTasks(delivered')
                   PROVE  \E i \in 1 .. Len(active') : active'[i].task = u
        OBVIOUS
      <4>1. PICK k \in 1 .. Len(active) : active[k].task = u
        BY <1>13, <2>7
      <4>2. k \in left
        BY <2>7, <3>0, <4>1
      <4>3. PICK i \in 1 .. Len(active') : at[i] = k
        BY <2>5, <4>2
      <4>4. active'[i] = active[k]
        BY <2>5, <4>3
      <4>5. QED
        BY <4>1, <4>4
    <3>5. ActiveIsRunning'
      BY <2>8, <3>2, <3>3, <3>4 DEF ActiveIsRunning
    <3>6. QED
      BY <2>0, <2>4, <3>5
  <2>9. CASE ~stream.ids /\ Len(active) = 1
    <3>1. CallKey(item) = active[1].key
      BY <1>1, <1>9, <2>9 DEF CallKey
    <3>2. Len(active') = 0
      <4> SUFFICES ASSUME Len(active') # 0 PROVE FALSE
        OBVIOUS
      <4>1. 1 \in 1 .. Len(active')
        BY <2>0
      <4>2. at[1] = 1 /\ at[1] \in left
        BY <2>5, <2>9, <4>1
      <4>3. QED
        BY <3>1, <4>2 DEF left
    <3>3. RunningTasks(delivered') = {}
      <4> SUFFICES ASSUME NEW u \in RunningTasks(delivered') PROVE FALSE
        OBVIOUS
      <4>1. u \in RunningTasks(delivered) /\ u # t
        BY <2>7
      <4>2. active[1].task = u /\ active[1].task = t
        BY <1>13, <2>9, <2>11, <4>1
      <4>3. QED
        BY <4>1, <4>2
    <3>4. ActiveIsRunning'
      BY <2>9, <3>2, <3>3 DEF ActiveIsRunning, KeysGenerated
    <3>5. QED
      BY <2>0, <2>4, <3>4
  <2>10. CASE ~stream.ids /\ Len(active) # 1
    <3>1. Len(active) \in Nat /\ Len(active) >= 2
      <4>1. PICK i \in 1 .. Len(active) : active[i].task = t
        BY <1>13, <2>11
      <4>2. Len(active) # 0 /\ Len(active) # 1
        BY <1>0, <2>10, <4>1
      <4> DEFINE a == Len(active)
      <4>3. a \in Nat /\ a # 0 /\ a # 1
        BY <1>0, <4>2
      <4> HIDE DEF a
      <4>4. a >= 2
        BY <4>3
      <4>5. QED
        BY <4>3, <4>4 DEF a
    <3>2. ~Told'
      BY <1>11, <2>10, <3>1 DEF StreamInv, ActiveIsRunning
    <3>3. UsesCounter(item) /\ counter' = counter + 1 /\ CallKey(item) = GeneratedKey(counter + 1)
      BY <1>9, <2>10 DEF UsesCounter, HandleItem, CallKey
    <3>4. KeysGenerated(active, counter)
      BY <2>10 DEF StreamInv, ActiveIsRunning
    <3>5. ASSUME NEW i \in 1 .. Len(active) PROVE i \in left
      <4>1. PICK k \in 1 .. counter : active[i].key = GeneratedKey(k)
        BY <3>4 DEF KeysGenerated
      <4>2. GeneratedKey(k) # GeneratedKey(counter + 1)
        BY <1>1 DEF GeneratedKey
      <4>3. QED
        BY <1>1, <3>3, <4>1, <4>2 DEF left
    <3>6. \A u \in RunningTasks(delivered') : \E i \in 1 .. Len(active') : active'[i].task = u
      <4> SUFFICES ASSUME NEW u \in RunningTasks(delivered')
                   PROVE  \E i \in 1 .. Len(active') : active'[i].task = u
        OBVIOUS
      <4>1. PICK k \in 1 .. Len(active) : active[k].task = u
        BY <1>13, <2>7
      <4>2. PICK i \in 1 .. Len(active') : at[i] = k
        BY <2>5, <3>5
      <4>3. QED
        BY <2>5, <4>1, <4>2
    <3>7. KeysGenerated(active', counter')
      <4> SUFFICES ASSUME NEW i \in 1 .. Len(active')
                   PROVE  \E k \in 1 .. counter + 1 : active'[i].key = GeneratedKey(k)
        BY <3>3 DEF KeysGenerated
      <4>1. at[i] \in 1 .. Len(active) /\ active'[i] = active[at[i]]
        BY <2>5
      <4>2. PICK k \in 1 .. counter : active[at[i]].key = GeneratedKey(k)
        BY <3>4, <4>1 DEF KeysGenerated
      <4>3. k \in 1 .. counter + 1
        BY <1>1
      <4>4. QED
        BY <4>1, <4>2, <4>3
    <3>8. ActiveIsRunning'
      BY <2>10, <3>2, <3>6, <3>7 DEF ActiveIsRunning, Told
    <3>9. QED
      BY <2>0, <2>4, <3>8
  <2>12. QED
    BY <1>1, <2>8, <2>9, <2>10
<1>10. QED
  BY <1>7, <1>8, <1>9

(* The reader takes the next item of what the graph yielded.                *)
LEMMA NextItem ==
  ASSUME StreamInv, queue # <<>>, IsItem(Head(queue))
  PROVE  /\ Head(queue) \in Items /\ Len(delivered) < Len(emitted)
         /\ Head(queue) = emitted[Len(delivered) + 1]
<1> DEFINE m == Len(delivered)
<1>1. /\ queue \in Seq(Items \cup {Raised, Done}) /\ Len(queue) \in Nat /\ Len(queue) >= 1
      /\ m \in Nat /\ Len(emitted) \in Nat /\ Head(queue) = queue[1] /\ emitted \in Seq(Items)
      /\ m <= Len(emitted)
  BY DEF StreamInv, StreamShape, QueueIsTheRest
<1>0. Len(queue) \in Nat /\ Len(queue) >= 1 /\ m \in Nat /\ Len(emitted) \in Nat /\ m <= Len(emitted)
  BY <1>1
<1>2. ~IsItem(Raised) /\ ~IsItem(Done)
  BY DEF IsItem, Raised, Done
<1>3. queue[1] # Raised /\ queue[1] # Done
  BY <1>1, <1>2
<1>4. m < Len(emitted)
  <2> SUFFICES ASSUME m = Len(emitted) PROVE FALSE
    BY <1>1
  <2>1. graph # "running"
    BY <1>1 DEF StreamInv, QueueIsTheRest
  <2>2. graph \notin {"ended", "cancelled"}
    <3> SUFFICES ASSUME graph \in {"ended", "cancelled"} PROVE FALSE
      OBVIOUS
    <3>0. m + Len(queue) = Len(emitted) + 1
      BY DEF StreamInv, QueueIsTheRest
    <3>1. queue[Len(queue)] = Done
      BY DEF StreamInv, QueueIsTheRest
    <3>2. Len(queue) = 1
      <4> DEFINE q == Len(queue)
                 e == Len(emitted)
      <4>1. q \in Nat /\ e \in Nat /\ m \in Nat /\ m = e /\ m + q = e + 1
        BY <1>0, <3>0
      <4> HIDE DEF m, q, e
      <4>2. q = 1
        BY <4>1
      <4>3. QED
        BY <4>2 DEF q
    <3>3. QED
      BY <1>3, <3>1, <3>2
  <2>3. graph # "raised"
    <3> SUFFICES ASSUME graph = "raised" PROVE FALSE
      OBVIOUS
    <3>0. m + Len(queue) = Len(emitted) + 2
      BY DEF StreamInv, QueueIsTheRest
    <3>1. queue[Len(queue) - 1] = Raised
      BY DEF StreamInv, QueueIsTheRest
    <3>2. Len(queue) - 1 = 1
      <4> DEFINE q == Len(queue)
                 e == Len(emitted)
      <4>1. q \in Nat /\ e \in Nat /\ m \in Nat /\ m = e /\ m + q = e + 2
        BY <1>0, <3>0
      <4> HIDE DEF m, q, e
      <4>2. q - 1 = 1
        BY <4>1
      <4>3. QED
        BY <4>2 DEF q
    <3>3. QED
      BY <1>3, <3>1, <3>2
  <2>4. QED
    BY <2>1, <2>2, <2>3 DEF StreamInv, StreamShape
<1>5. queue[1] = emitted[m + 1]
  BY <1>1, <1>4 DEF StreamInv, QueueIsTheRest
<1>6. QED
  BY <1>1, <1>4, <1>5

LEMMA TakeItemInv == StreamInv /\ TakeItem => StreamInv'
<1> SUFFICES ASSUME StreamInv, TakeItem PROVE StreamInv'
  OBVIOUS
<1> DEFINE m == Len(delivered)
           item == Head(queue)
<1>1. /\ reader = "waiting" /\ queue # <<>> /\ IsItem(Head(queue)) /\ reader' = "holding"
      /\ HandleItem(item) /\ queue' = Tail(queue) /\ idle' = 0
      /\ UNCHANGED <<stream, graph, emitted, silence, narrative>>
  BY DEF TakeItem
<1>2. item \in Items /\ m < Len(emitted) /\ item = emitted[m + 1]
  BY <1>1, NextItem
<1>3. ActiveIsRunning' /\ active' \in Seq(ActiveTasks) /\ counter' \in Nat /\ counter' <= counter + 1
  BY <1>1, <1>2, HandledCall
<1>4. /\ delivered \in Seq(Items) /\ m \in Nat /\ Len(emitted) \in Nat /\ counter \in Nat /\ counter <= m
      /\ queue \in Seq(Items \cup {Raised, Done}) /\ Len(queue) \in Nat /\ Len(queue) >= 1
  BY <1>1 DEF StreamInv, StreamShape
<1>5. delivered' = Append(delivered, item)
  BY <1>1 DEF HandleItem
<1>6. /\ delivered' \in Seq(Items) /\ Len(delivered') = m + 1 /\ delivered'[m + 1] = item
      /\ \A i \in 1 .. m : delivered'[i] = delivered[i]
  <2> HIDE DEF item
  <2>1. QED
    BY <1>2, <1>4, <1>5
<1>7. /\ queue' \in Seq(Items \cup {Raised, Done}) /\ Len(queue') = Len(queue) - 1
      /\ \A i \in 1 .. Len(queue') : queue'[i] = queue[i + 1]
  BY <1>1, <1>4
<1>8. StreamShape'
  <2>1. counter' <= Len(delivered')
    BY <1>3, <1>4, <1>6
  <2>2. QED
    BY <1>1, <1>3, <1>6, <1>7, <2>1 DEF StreamInv, StreamShape
<1>9. QueueIsTheRest'
  <2> HIDE DEF item
  <2>1. \A i \in 1 .. Len(delivered') : delivered'[i] = emitted'[i]
    <3>1. \A i \in 1 .. m : delivered[i] = emitted[i]
      BY DEF StreamInv, QueueIsTheRest
    <3>2. QED
      BY <1>1, <1>2, <1>4, <1>6, <3>1
  <2>2. ASSUME NEW i \in 1 .. Len(queue'), Len(delivered') + i <= Len(emitted)
        PROVE  queue'[i] = emitted[Len(delivered') + i]
    <3>1. i + 1 \in 1 .. Len(queue) /\ m + (i + 1) <= Len(emitted)
      BY <1>4, <1>6, <1>7, <2>2
    <3>2. queue[i + 1] = emitted[m + (i + 1)]
      BY <3>1 DEF StreamInv, QueueIsTheRest
    <3>3. m + (i + 1) = Len(delivered') + i
      BY <1>4, <1>6
    <3>4. QED
      BY <1>7, <3>2, <3>3
  <2>3. m + 1 <= Len(emitted) /\ Len(delivered') + Len(queue') = m + Len(queue)
    BY <1>2, <1>4, <1>6, <1>7
  <2>4. graph = "running" => Len(delivered') + Len(queue') = Len(emitted)
    BY <2>3 DEF StreamInv, QueueIsTheRest
  <2>5. ASSUME graph \in {"ended", "cancelled"}
        PROVE  Len(delivered') + Len(queue') = Len(emitted) + 1 /\ queue'[Len(queue')] = Done
    <3>1. m + Len(queue) = Len(emitted) + 1 /\ queue[Len(queue)] = Done
      BY <2>5 DEF StreamInv, QueueIsTheRest
    <3>2. Len(queue') \in 1 .. Len(queue') /\ Len(queue') + 1 = Len(queue)
      BY <1>2, <1>4, <1>7, <3>1
    <3>3. QED
      BY <1>7, <2>3, <3>1, <3>2
  <2>6. ASSUME graph = "raised"
        PROVE  /\ Len(delivered') + Len(queue') = Len(emitted) + 2
               /\ queue'[Len(queue') - 1] = Raised /\ queue'[Len(queue')] = Done
    <3>1. m + Len(queue) = Len(emitted) + 2 /\ queue[Len(queue) - 1] = Raised /\ queue[Len(queue)] = Done
      BY <2>6 DEF StreamInv, QueueIsTheRest
    <3>2. /\ Len(queue') \in 1 .. Len(queue') /\ Len(queue') + 1 = Len(queue)
          /\ Len(queue') - 1 \in 1 .. Len(queue') /\ Len(queue') - 1 + 1 = Len(queue) - 1
      BY <1>2, <1>4, <1>7, <3>1
    <3>3. queue'[Len(queue')] = queue[Len(queue)] /\ queue'[Len(queue') - 1] = queue[Len(queue) - 1]
      BY <1>7, <3>2
    <3>4. QED
      BY <2>3, <3>1, <3>3
  <2>7. Len(delivered') <= Len(emitted)
    BY <1>6, <2>3
  <2>8. QED
    BY <1>1, <2>1, <2>2, <2>4, <2>5, <2>6, <2>7 DEF QueueIsTheRest
<1>10. GraphIsLegal'
  BY <1>1 DEF StreamInv, GraphIsLegal
<1>11. ReaderAgrees'
  BY <1>1 DEF StreamInv, StreamShape, ReaderAgrees
<1>12. QED
  BY <1>3, <1>8, <1>9, <1>10, <1>11 DEF StreamInv

(* The reader takes the end behind the last item.                           *)
LEMMA TakeEndInv == StreamInv /\ TakeEnd => StreamInv'
<1> SUFFICES ASSUME StreamInv, TakeEnd PROVE StreamInv'
  OBVIOUS
<1> DEFINE m == Len(delivered)
<1>1. /\ reader = "waiting" /\ queue # <<>> /\ ~IsItem(Head(queue))
      /\ UNCHANGED <<stream, graph, emitted, silence, queue, delivered, idle, active, counter>>
  BY DEF TakeEnd
<1>2. /\ queue \in Seq(Items \cup {Raised, Done}) /\ Len(queue) \in Nat /\ Len(queue) >= 1
      /\ m \in Nat /\ Len(emitted) \in Nat /\ Head(queue) = queue[1] /\ emitted \in Seq(Items)
      /\ m <= Len(emitted) /\ delivered \in Seq(Items)
  BY <1>1 DEF StreamInv, StreamShape, QueueIsTheRest
<1>0. Len(queue) \in Nat /\ Len(queue) >= 1 /\ m \in Nat /\ Len(emitted) \in Nat
  BY <1>2
<1>3. \A x \in Items : IsItem(x)
  BY DEF IsItem, TextItems, Values, TaskItems
<1>4. m = Len(emitted)
  <2> SUFFICES ASSUME m < Len(emitted) PROVE FALSE
    BY <1>2
  <2>1. queue[1] = emitted[m + 1]
    BY <1>2 DEF StreamInv, QueueIsTheRest
  <2>2. emitted[m + 1] \in Items
    BY <1>2
  <2>3. QED
    BY <1>1, <1>2, <1>3, <2>1, <2>2
<1>5. delivered = emitted
  <2>1. \A i \in 1 .. m : delivered[i] = emitted[i]
    BY DEF StreamInv, QueueIsTheRest
  <2>2. QED
    BY <1>2, <1>4, <2>1
<1>6. Raised # Done
  BY DEF Raised, Done
<1>7. graph # "running"
  BY <1>2, <1>4 DEF StreamInv, QueueIsTheRest
<1>8. CASE Head(queue) = Raised
  <2>1. graph \notin {"ended", "cancelled"}
    <3> SUFFICES ASSUME graph \in {"ended", "cancelled"} PROVE FALSE
      OBVIOUS
    <3>0. m + Len(queue) = Len(emitted) + 1
      BY DEF StreamInv, QueueIsTheRest
    <3>1. queue[Len(queue)] = Done
      BY DEF StreamInv, QueueIsTheRest
    <3>2. Len(queue) = 1
      <4> DEFINE q == Len(queue)
                 e == Len(emitted)
      <4>1. q \in Nat /\ e \in Nat /\ m \in Nat /\ m = e /\ m + q = e + 1
        BY <1>0, <1>4, <3>0
      <4> HIDE DEF m, q, e
      <4>2. q = 1
        BY <4>1
      <4>3. QED
        BY <4>2 DEF q
    <3>3. QED
      BY <1>2, <1>6, <1>8, <3>1, <3>2
  <2>2. graph = "raised"
    BY <1>7, <2>1 DEF StreamInv, StreamShape
  <2>3. reader' = "failed" /\ narrative' = narrative
    BY <1>8 DEF TakeEnd
  <2>4. QED
    BY <1>1, <1>5, <2>2, <2>3, SameActive
       DEF StreamInv, StreamShape, QueueIsTheRest, GraphIsLegal, ReaderAgrees
<1>9. CASE Head(queue) # Raised
  <2>1. graph # "raised"
    <3> SUFFICES ASSUME graph = "raised" PROVE FALSE
      OBVIOUS
    <3>0. m + Len(queue) = Len(emitted) + 2
      BY DEF StreamInv, QueueIsTheRest
    <3>1. queue[Len(queue) - 1] = Raised
      BY DEF StreamInv, QueueIsTheRest
    <3>2. Len(queue) - 1 = 1
      <4> DEFINE q == Len(queue)
                 e == Len(emitted)
      <4>1. q \in Nat /\ e \in Nat /\ m \in Nat /\ m = e /\ m + q = e + 2
        BY <1>0, <1>4, <3>0
      <4> HIDE DEF m, q, e
      <4>2. q - 1 = 1
        BY <4>1
      <4>3. QED
        BY <4>2 DEF q
    <3>3. QED
      BY <1>2, <1>9, <3>1, <3>2
  <2>2. graph \in {"ended", "cancelled"}
    BY <1>7, <2>1 DEF StreamInv, StreamShape
  <2>3. reader' = "complete" /\ (stream.reader = "narrative" => narrative' = NarrativeOf(delivered))
    BY <1>9 DEF TakeEnd
  <2>4. ReaderAgrees'
    BY <1>1, <1>5, <2>2, <2>3 DEF StreamInv, ReaderAgrees
  <2>5. QED
    BY <1>1, <2>3, <2>4, SameActive DEF StreamInv, StreamShape, QueueIsTheRest, GraphIsLegal
<1>10. QED
  BY <1>8, <1>9

LEMMA IntervalInv == StreamInv /\ Interval => StreamInv'
<1> SUFFICES ASSUME StreamInv, Interval PROVE StreamInv'
  OBVIOUS
<1>1. /\ reader \in {"waiting", "holding"} /\ reader' \in {reader, "timed_out"}
      /\ silence' = Later(silence) /\ idle' = Later(idle)
      /\ UNCHANGED <<stream, graph, emitted, queue, delivered, active, counter, narrative>>
  BY DEF Interval, Over, StreamInv, StreamShape
<1>2. silence \in 0 .. IdleTimeout + 1 /\ idle \in 0 .. IdleTimeout + 1
  BY DEF StreamInv, StreamShape
<1>3. /\ silence' \in 0 .. IdleTimeout + 1 /\ idle' \in 0 .. IdleTimeout + 1
      /\ idle <= silence => idle' <= silence'
  BY <1>1, <1>2 DEF Later
<1>4. StreamShape'
  BY <1>1, <1>3 DEF StreamInv, StreamShape
<1>5. ReaderAgrees'
  BY <1>1, <1>3 DEF StreamInv, ReaderAgrees
<1>6. QED
  BY <1>1, <1>4, <1>5, SameActive DEF StreamInv, QueueIsTheRest, GraphIsLegal

LEMMA StreamStep == StreamInv /\ [StreamNext]_streamVars => StreamInv'
<1> SUFFICES ASSUME StreamInv, [StreamNext]_streamVars PROVE StreamInv'
  OBVIOUS
<1>1. CASE GraphYields
  BY <1>1, GraphYieldsInv
<1>2. CASE ProducerEnds
  BY <1>2, GraphEndsInv DEF ProducerEnds
<1>3. CASE ProducerIsCancelled
  BY <1>3, GraphEndsInv DEF ProducerIsCancelled
<1>4. CASE TakeItem
  BY <1>4, TakeItemInv
<1>5. CASE AskForNext
  BY <1>5, SameActive DEF AskForNext, StreamInv, StreamShape, QueueIsTheRest, GraphIsLegal, ReaderAgrees
<1>6. CASE TakeEnd
  BY <1>6, TakeEndInv
<1>7. CASE LeaveStream
  BY <1>7, SameActive DEF LeaveStream, StreamInv, StreamShape, QueueIsTheRest, GraphIsLegal, ReaderAgrees
<1>8. CASE Interval
  BY <1>8, IntervalInv
<1>9. CASE UNCHANGED streamVars
  BY <1>9, SameActive DEF streamVars, StreamInv, StreamShape, QueueIsTheRest, GraphIsLegal, ReaderAgrees
<1>10. QED
  BY <1>1, <1>2, <1>3, <1>4, <1>5, <1>6, <1>7, <1>8, <1>9 DEF StreamNext

LEMMA StreamInvariant == StreamSpec => []StreamInv
  BY StreamInitInv, StreamStep, PTL DEF StreamSpec

(* The variables of the stream keep their types.                            *)
THEOREM StreamTypeCorrect == StreamSpec => []StreamTypeOK
  BY StreamInvariant, StreamTypes, PTL

(* What is handed on is what the graph yielded, in order, and it ends only  *)
(* where and as the graph ended.                                            *)
THEOREM StreamIsFaithfulHolds == StreamSpec => []StreamIsFaithful
<1>1. StreamInv => StreamIsFaithful
  <2> SUFFICES ASSUME StreamInv PROVE StreamIsFaithful
    OBVIOUS
  <2>1. /\ delivered \in Seq(Items) /\ emitted \in Seq(Items) /\ Len(delivered) <= Len(emitted)
        /\ \A i \in 1 .. Len(delivered) : delivered[i] = emitted[i]
    BY DEF StreamInv, StreamShape, QueueIsTheRest
  <2>2. SubSeq(delivered, 1, Len(delivered)) = SubSeq(emitted, 1, Len(delivered))
    BY <2>1
  <2>3. QED
    BY <2>1, <2>2 DEF StreamInv, ReaderAgrees, StreamIsFaithful, IsPrefix
<1>2. QED
  BY <1>1, StreamInvariant, PTL

(* A subtask is given up only if the graph has been silent for the whole    *)
(* timeout, and the one named runs unless calls without an id overlapped;   *)
(* and no subtask that runs is waited for beyond the timeout.               *)
THEOREM TimeoutsAreEarned == StreamSpec => TimeoutIsEarned
<1> DEFINE Earned ==
      /\ reader # "timed_out" /\ reader' = "timed_out" =>
           /\ silence' >= IdleTimeout
           /\ stream.ids \/ ~Overlapped(emitted) => Last(active).task \in RunningTasks(emitted)
      /\ /\ Interval /\ stream.reader = "subtasks" /\ reader' = "waiting"
         /\ IdleTimeout > 0 /\ idle' >= IdleTimeout
         => RunningTasks(emitted) = {}
<1>1. StreamInv /\ [StreamNext]_streamVars => [Earned]_streamVars
  <2> SUFFICES ASSUME StreamInv, StreamNext PROVE Earned
    OBVIOUS
  <2>0. ASSUME reader = "waiting", queue = <<>>, graph = "running" PROVE delivered = emitted
    <3>1. /\ Len(queue) = 0 /\ Len(delivered) + Len(queue) = Len(emitted)
          /\ \A i \in 1 .. Len(delivered) : delivered[i] = emitted[i]
      BY <2>0 DEF StreamInv, QueueIsTheRest
    <3>2. delivered \in Seq(Items) /\ emitted \in Seq(Items)
      BY DEF StreamInv, StreamShape
    <3>3. Len(delivered) = Len(emitted)
      BY <3>1, <3>2
    <3>4. QED
      BY <3>1, <3>2, <3>3
  <2>1. ASSUME reader # "timed_out", reader' = "timed_out"
        PROVE  /\ silence' >= IdleTimeout
               /\ stream.ids \/ ~Overlapped(emitted) => Last(active).task \in RunningTasks(emitted)
    <3>1. Interval
      BY <2>1 DEF StreamNext, GraphYields, ProducerEnds, ProducerIsCancelled, TakeItem, AskForNext, TakeEnd,
             LeaveStream
    <3>2. /\ reader = "waiting" /\ queue = <<>> /\ graph = "running"
          /\ active # <<>> /\ idle' >= IdleTimeout
          /\ silence' = Later(silence) /\ idle' = Later(idle)
      BY <2>1, <3>1 DEF Interval, GivesUp
    <3>3. silence \in 0 .. IdleTimeout + 1 /\ idle \in 0 .. IdleTimeout + 1 /\ idle <= silence
      BY <3>2 DEF StreamInv, StreamShape, ReaderAgrees
    <3>4. silence' >= idle' /\ silence' \in Nat /\ idle' \in Nat
      BY <3>2, <3>3 DEF Later
    <3>5. silence' >= IdleTimeout
      BY <3>2, <3>4
    <3>6. delivered = emitted
      BY <2>0, <3>2
    <3>7. Len(active) \in 1 .. Len(active)
      BY <3>2 DEF StreamInv, StreamShape
    <3>8. QED
      BY <3>5, <3>6, <3>7 DEF StreamInv, ActiveIsRunning, Told, Last
  <2>2. ASSUME Interval, stream.reader = "subtasks", reader' = "waiting", IdleTimeout > 0, idle' >= IdleTimeout
        PROVE  RunningTasks(emitted) = {}
    <3>1. reader = "waiting" /\ queue = <<>> /\ graph = "running" /\ active = <<>>
      BY <2>2 DEF Interval, GivesUp
    <3>2. delivered = emitted
      BY <2>0, <3>1
    <3>3. \A t \in RunningTasks(delivered) : \E n \in 1 .. Len(active) : active[n].task = t
      BY DEF StreamInv, ActiveIsRunning
    <3>4. Len(active) = 0
      BY <3>1
    <3>5. QED
      BY <3>2, <3>3, <3>4
  <2>3. QED
    BY <2>1, <2>2
<1>2. QED
  BY <1>1, StreamInvariant, PTL DEF StreamSpec, TimeoutIsEarned

HIDE StreamAssumption DEF Items
-----------------------------------------------------------------------------
(* The finalization of a document (DocumentFinalization).                   *)

PlanIds == SectionIds \cup {Fragment} \cup Range(CanonicalIds) \cup {FallbackId(n) : n \in Nat}
Plans == [id : PlanIds, covers : SUBSET (1 .. Criteria)]

\* what the answers of the model can be merged to
MergedPlans == {s \in Seq(Plans) : Len(s) <= MaxSections /\ DistinctIds(s)}

\* two sections of one id: the later one was made up
MadeUpTwice(plans) ==
  \E m, n \in DOMAIN plans : m # n /\ plans[m].id = plans[n].id /\ plans[n].id = FallbackId(n)

\* an outline that may be written
WholeOutline(plans, made) ==
  /\ Len(plans) >= 1
  /\ IF job.fixed THEN plans = CanonicalOutline
     ELSE Len(plans) \in MinSections .. MaxSections /\ Covered(plans) = 1 .. Criteria
  /\ DistinctIds(plans) \/ (made /\ MadeUpTwice(plans))

USE FinalizationAssumption

LEMMA TakenIsMerged ==
  ASSUME NEW known \in MergedPlans, NEW p \in Plans
  PROVE  Taken(known, p) \in MergedPlans
<1> DEFINE K == Len(known)
<1>1. known \in Seq(Plans) /\ K \in Nat /\ K <= MaxSections /\ DistinctIds(known) /\ DOMAIN known = 1 .. K
  BY DEF MergedPlans
<1>2. \A m, n \in 1 .. K : known[m].id = known[n].id => m = n
  BY <1>1 DEF DistinctIds
<1>3. CASE \E n \in DOMAIN known : known[n].id = p.id
  <2> DEFINE new == [n \in DOMAIN known |-> IF known[n].id = p.id THEN p ELSE known[n]]
  <2>1. Taken(known, p) = new
    BY <1>3 DEF Taken
  <2>2. \A n \in 1 .. K : new[n] \in Plans /\ new[n].id = known[n].id
    BY <1>1
  <2>3. new = [n \in 1 .. K |-> new[n]] /\ DOMAIN new = 1 .. K
    BY <1>1
  <2> HIDE DEF new
  <2>4. new \in Seq(Plans) /\ Len(new) = K
    BY <1>1, <2>2, <2>3
  <2>5. DistinctIds(new)
    BY <1>2, <2>2, <2>3 DEF DistinctIds
  <2>6. QED
    BY <1>1, <2>1, <2>4, <2>5 DEF MergedPlans
<1>4. CASE ~(\E n \in DOMAIN known : known[n].id = p.id) /\ K < MaxSections
  <2> DEFINE new == Append(known, p)
  <2>1. Taken(known, p) = new
    BY <1>4 DEF Taken
  <2>2. /\ new \in Seq(Plans) /\ Len(new) = K + 1 /\ new[K + 1] = p /\ DOMAIN new = 1 .. K + 1
        /\ \A n \in 1 .. K : new[n] = known[n]
    BY <1>1
  <2> HIDE DEF new
  <2>3. ASSUME NEW m \in 1 .. K + 1, NEW n \in 1 .. K + 1, new[m].id = new[n].id PROVE m = n
    <3>1. CASE m \in 1 .. K /\ n \in 1 .. K
      BY <1>2, <2>2, <2>3, <3>1
    <3>2. CASE m = K + 1 /\ n \in 1 .. K
      BY <1>1, <1>4, <2>2, <2>3, <3>2
    <3>3. CASE n = K + 1 /\ m \in 1 .. K
      BY <1>1, <1>4, <2>2, <2>3, <3>3
    <3>4. CASE n = K + 1 /\ m = K + 1
      BY <3>4
    <3>5. (m \in 1 .. K \/ m = K + 1) /\ (n \in 1 .. K \/ n = K + 1)
      BY <1>1
    <3>6. QED
      BY <3>1, <3>2, <3>3, <3>4, <3>5
  <2>4. DistinctIds(new)
    BY <2>2, <2>3 DEF DistinctIds
  <2>5. Len(new) <= MaxSections
    BY <1>1, <1>4, <2>2
  <2>6. QED
    BY <2>1, <2>2, <2>4, <2>5 DEF MergedPlans
<1>5. CASE ~(\E n \in DOMAIN known : known[n].id = p.id) /\ ~(K < MaxSections)
  BY <1>5 DEF Taken
<1>6. QED
  BY <1>3, <1>4, <1>5

(* Whatever is merged, no id is there twice and there are not too many.     *)
LEMMA MergedIsMerged ==
  ASSUME NEW plans \in MergedPlans, NEW candidate \in Seq(Plans)
  PROVE  Merged(plans, candidate) \in MergedPlans
<1> DEFINE N == Len(candidate)
           V == MergedPlans
           step == [x \in (1 .. N) \X V |-> Taken(x[2], candidate[x[1]])]
           body(f) == [n \in 0 .. N |-> IF n = 0 THEN plans ELSE Taken(f[n - 1], candidate[n])]
           g == CHOOSE f : f = body(f)
<1>1. N \in Nat /\ \A n \in 1 .. N : candidate[n] \in Plans
  OBVIOUS
<1>2. \A n \in 1 .. N, v \in V : step[<<n, v>>] = Taken(v, candidate[n]) /\ step[<<n, v>>] \in V
  BY <1>1, TakenIsMerged
<1>3. TakesSteps(N, V, step)
  <2> HIDE DEF V, step
  <2>1. QED
    BY <1>2 DEF TakesSteps
<1>4. PICK f : Solves(f, N, V, plans, step)
  <2> HIDE DEF V, step, N
  <2>1. plans \in V
    BY DEF V
  <2>2. QED
    BY <1>1, <1>3, <2>1, RecursionExists
<1>5. f \in [0 .. N -> V] /\ f[0] = plans /\ \A n \in 1 .. N : f[n] = step[<<n, f[n - 1]>>]
  BY <1>4 DEF Solves
<1>6. f = body(f)
  <2>1. \A n \in 0 .. N : f[n] = IF n = 0 THEN plans ELSE Taken(f[n - 1], candidate[n])
    <3>1. ASSUME NEW n \in 0 .. N, n # 0 PROVE f[n] = Taken(f[n - 1], candidate[n])
      <4>1. n \in 1 .. N /\ n - 1 \in 0 .. N
        BY <1>1, <3>1
      <4>2. f[n - 1] \in V
        BY <1>5, <4>1
      <4> HIDE DEF step, V
      <4>3. QED
        BY <1>2, <1>5, <4>1, <4>2
    <3>2. QED
      BY <1>5, <3>1
  <2> HIDE DEF N, V, step
  <2>2. QED
    BY <1>5, <2>1
<1>7. g = body(g)
  <2> HIDE DEF body
  <2>1. QED
    BY <1>6
<1>8. Merged(plans, candidate) = g[N]
  BY DEF Merged
<1> HIDE DEF g
<1>9. \A n \in 0 .. N : n \in {k \in 0 .. N : g[k] \in V}
  <2> DEFINE S == {k \in 0 .. N : g[k] \in V}
  <2>1. g[0] = plans /\ \A n \in 1 .. N : g[n] = Taken(g[n - 1], candidate[n])
    <3>1. \A n \in 0 .. N : g[n] = body(g)[n]
      BY <1>7
    <3>2. \A n \in 0 .. N : g[n] = IF n = 0 THEN plans ELSE Taken(g[n - 1], candidate[n])
      BY <3>1
    <3>3. 0 \in 0 .. N /\ \A n \in 1 .. N : n \in 0 .. N /\ n # 0
      BY <1>1
    <3>4. QED
      BY <3>2, <3>3
  <2>2. 0 \in S
    BY <1>1, <2>1
  <2>3. ASSUME NEW n \in 1 .. N, n - 1 \in S PROVE n \in S
    <3>1. g[n - 1] \in V
      BY <2>3
    <3>2. g[n] \in V
      BY <1>1, <2>1, <3>1, TakenIsMerged
    <3>3. n \in 0 .. N
      BY <1>1
    <3>4. QED
      BY <3>2, <3>3
  <2> HIDE DEF S, N
  <2>4. \A n \in 0 .. N : n \in S
    BY <1>1, <2>2, <2>3, UpTo
  <2>5. QED
    BY <2>4 DEF S
<1>10. QED
  BY <1>1, <1>8, <1>9

(* The outline that is repaired is whole, whatever it was.                  *)
LEMMA RepairedIsWhole ==
  ASSUME NEW plans \in MergedPlans
  PROVE  /\ Repaired(plans) \in Seq(Plans)
         /\ Len(Repaired(plans)) \in MinSections .. MaxSections
         /\ Covered(Repaired(plans)) = 1 .. Criteria
         /\ DistinctIds(Repaired(plans)) \/ MadeUpTwice(Repaired(plans))
<1> DEFINE K == Len(plans)
           missing == IF K < MinSections THEN MinSections - K ELSE 0
           extra   == [n \in 1 .. missing |-> Planned(FallbackId(K + n), {})]
           filled  == plans \o extra
           owner(c) == ((c - 1) % Len(filled)) + 1
           result  == [n \in DOMAIN filled |->
             [filled[n] EXCEPT !.covers = @ \cup {c \in 1 .. Criteria \ Covered(filled) : owner(c) = n}]]
<1>1. Repaired(plans) = result
  BY DEF Repaired
<1>2. plans \in Seq(Plans) /\ K \in Nat /\ K <= MaxSections /\ DistinctIds(plans) /\ DOMAIN plans = 1 .. K
  BY DEF MergedPlans
<1>3. missing \in Nat /\ K + missing \in MinSections .. MaxSections
  BY <1>2
<1>0. missing \in Nat
  BY <1>3
<1>4. \A n \in 1 .. missing : extra[n] \in Plans /\ extra[n].id = FallbackId(K + n)
  <2> SUFFICES ASSUME NEW n \in 1 .. missing
               PROVE  Planned(FallbackId(K + n), {}) \in Plans /\ Planned(FallbackId(K + n), {}).id = FallbackId(K + n)
    OBVIOUS
  <2>1. K + n \in Nat
    BY <1>2, <1>3
  <2>2. FallbackId(K + n) \in PlanIds
    BY <2>1 DEF PlanIds
  <2>3. QED
    BY <2>2 DEF Plans, Planned
<1> HIDE DEF missing
<1>5. extra \in Seq(Plans) /\ Len(extra) = missing
  <2>1. extra = [n \in 1 .. missing |-> extra[n]]
    OBVIOUS
  <2>2. \A n \in 1 .. missing : extra[n] \in Plans
    BY <1>4
  <2> HIDE DEF extra
  <2>3. QED
    BY <1>0, <2>1, <2>2
<1> HIDE DEF extra
<1>6. /\ filled \in Seq(Plans) /\ Len(filled) = K + missing /\ DOMAIN filled = 1 .. K + missing
      /\ \A n \in 1 .. K : filled[n] = plans[n]
      /\ \A n \in 1 .. missing : filled[K + n] = extra[n]
  BY <1>2, <1>3, <1>5, SMTT(30)
<1> DEFINE N == K + missing
<1>7. N \in Nat /\ N >= 1 /\ N \in MinSections .. MaxSections
  BY <1>2, <1>3
<1> HIDE DEF filled, K
<1>8. \A c \in 1 .. Criteria : owner(c) \in 1 .. N
  <2> SUFFICES ASSUME NEW c \in 1 .. Criteria PROVE owner(c) \in 1 .. N
    OBVIOUS
  <2>1. c - 1 \in Nat
    OBVIOUS
  <2> HIDE DEF N
  <2>2. (c - 1) % N \in 0 .. N - 1
    BY <1>7, <2>1
  <2>3. owner(c) = ((c - 1) % N) + 1
    BY <1>6 DEF N
  <2>4. QED
    BY <1>7, <2>2, <2>3
<1> DEFINE rest(n) == {c \in 1 .. Criteria \ Covered(filled) : owner(c) = n}
<1>9. /\ DOMAIN result = 1 .. N
      /\ \A n \in 1 .. N : result[n] = [filled[n] EXCEPT !.covers = @ \cup rest(n)]
  BY <1>6
<1> HIDE DEF result, owner
<1>10. \A n \in 1 .. N : filled[n] \in Plans /\ filled[n].covers \subseteq 1 .. Criteria
  <2>1. \A n \in 1 .. N : filled[n] \in Plans
    BY <1>6
  <2>2. \A p \in Plans : p.covers \subseteq 1 .. Criteria
    BY DEF Plans
  <2>3. QED
    BY <2>1, <2>2
<1>11. \A n \in 1 .. N : /\ result[n] \in Plans /\ result[n].id = filled[n].id
                         /\ result[n].covers = filled[n].covers \cup rest(n)
  <2> SUFFICES ASSUME NEW n \in 1 .. N
               PROVE  /\ result[n] \in Plans /\ result[n].id = filled[n].id
                      /\ result[n].covers = filled[n].covers \cup rest(n)
    OBVIOUS
  <2>1. rest(n) \subseteq 1 .. Criteria
    OBVIOUS
  <2> HIDE DEF rest
  <2>2. filled[n] \in Plans /\ result[n] = [filled[n] EXCEPT !.covers = @ \cup rest(n)]
    BY <1>9, <1>10
  <2>3. QED
    BY <1>10, <2>1, <2>2 DEF Plans
<1>12. result \in Seq(Plans) /\ Len(result) = N
  <2>1. result = [n \in 1 .. N |-> result[n]]
    BY <1>9 DEF result
  <2> HIDE DEF N
  <2>2. QED
    BY <1>7, <1>11, <2>1
<1>13. Covered(result) = 1 .. Criteria
  <2>1. Covered(result) \subseteq 1 .. Criteria
    BY <1>9, <1>11 DEF Covered, Plans
  <2>2. ASSUME NEW c \in 1 .. Criteria PROVE c \in Covered(result)
    <3>1. CASE c \in Covered(filled)
      <4>1. PICK n \in 1 .. N : c \in filled[n].covers
        BY <1>6, <3>1 DEF Covered
      <4>2. c \in result[n].covers
        BY <1>11, <4>1
      <4>3. QED
        BY <1>9, <4>2 DEF Covered
    <3>2. CASE c \notin Covered(filled)
      <4>1. owner(c) \in 1 .. N /\ c \in rest(owner(c))
        BY <1>8, <3>2
      <4>2. c \in result[owner(c)].covers
        BY <1>11, <4>1
      <4>3. QED
        BY <1>9, <4>1, <4>2 DEF Covered
    <3>3. QED
      BY <3>1, <3>2
  <2>3. QED
    BY <2>1, <2>2
<1>14. DistinctIds(result) \/ MadeUpTwice(result)
  <2> SUFFICES ASSUME NEW m \in 1 .. N, NEW n \in 1 .. N, m # n, result[m].id = result[n].id
               PROVE  MadeUpTwice(result)
    BY <1>9 DEF DistinctIds
  <2>1. filled[m].id = filled[n].id
    BY <1>11
  <2>2. \A i \in 1 .. N : i \in 1 .. K \/ filled[i].id = FallbackId(i)
    <3> SUFFICES ASSUME NEW i \in 1 .. N, i \notin 1 .. K PROVE filled[i].id = FallbackId(i)
      OBVIOUS
    <3>0. K \in Nat
      BY <1>2 DEF K
    <3>1. i - K \in 1 .. missing /\ K + (i - K) = i
      BY <1>3, <3>0
    <3>2. filled[K + (i - K)] = extra[i - K] /\ extra[i - K].id = FallbackId(K + (i - K))
      BY <1>4, <1>6, <3>1
    <3>3. QED
      BY <3>1, <3>2
  <2>3. ~(m \in 1 .. K /\ n \in 1 .. K)
    BY <1>2, <1>6, <2>1 DEF DistinctIds
  <2>4. \E i, j \in 1 .. N : i # j /\ result[i].id = result[j].id /\ result[j].id = FallbackId(j)
    BY <1>11, <2>2, <2>3
  <2>5. QED
    BY <1>9, <2>4 DEF MadeUpTwice
<1>15. QED
  BY <1>1, <1>7, <1>12, <1>13, <1>14

\* the fixed shape is an outline too
LEMMA CanonicalIsWhole ==
  CanonicalOutline \in Seq(Plans) /\ Len(CanonicalOutline) >= 1 /\ DistinctIds(CanonicalOutline)
<1> DEFINE N == Len(CanonicalIds)
           ids == Range(CanonicalIds)
<1>1. CanonicalIds \in Seq(ids) /\ N \in Nat /\ N >= 1 /\ DOMAIN CanonicalIds = 1 .. N
  BY DEF ids
<1>2. \A n \in 1 .. N : CanonicalIds[n] \in PlanIds
  <2>1. \A n \in 1 .. N : CanonicalIds[n] \in ids
    BY <1>1
  <2>2. QED
    BY <2>1 DEF PlanIds
<1>3. \A n \in 1 .. N : Planned(CanonicalIds[n], {}) \in Plans /\ Planned(CanonicalIds[n], {}).id = CanonicalIds[n]
  BY <1>2 DEF Planned, Plans
<1>4. /\ CanonicalOutline = [n \in 1 .. N |-> CanonicalOutline[n]] /\ DOMAIN CanonicalOutline = 1 .. N
      /\ \A n \in 1 .. N : CanonicalOutline[n] \in Plans /\ CanonicalOutline[n].id = CanonicalIds[n]
  BY <1>1, <1>3 DEF CanonicalOutline
<1> HIDE DEF N
<1>5. CanonicalOutline \in Seq(Plans) /\ Len(CanonicalOutline) = N
  BY <1>1, <1>4
<1>6. DistinctIds(CanonicalOutline)
  BY <1>1, <1>4 DEF DistinctIds
<1>7. QED
  BY <1>1, <1>5, <1>6

(* The manifest of a whole outline is refused only over a section that was  *)
(* made up.                                                                 *)
LEMMA ManifestOfWhole ==
  ASSUME NEW plans \in Seq(Plans), NEW made, WholeOutline(plans, made)
  PROVE  /\ Manifest(plans, Len(plans)) \in {"published", "refused"}
         /\ Manifest(plans, Len(plans)) = "refused" => made /\ MadeUpTwice(plans)
         /\ Manifest(plans, Len(plans)) = "published" => DistinctIds(plans)
<1>1. SubSeq(plans, 1, Len(plans)) = plans
  OBVIOUS
<1>2. Len(plans) > 0
  BY DEF WholeOutline
<1>3. DistinctIds(plans) \/ (made /\ MadeUpTwice(plans))
  BY DEF WholeOutline
<1> DEFINE fine == DistinctIds(plans)
<1>4. Manifest(plans, Len(plans)) = IF fine THEN "published" ELSE "refused"
  BY <1>1, <1>2 DEF Manifest
<1> HIDE DEF fine
<1>5. QED
  BY <1>3, <1>4 DEF fine

KeptWork == [outline : Seq(Plans), repaired : BOOLEAN, written : Nat]
Outcomes == {"none", "raised", "deadline", "left", "result", "published", "refused"}
Ended == {"returned", "raised", "cancelled"}

FinalTypes ==
  /\ job \in Job
  /\ outline \in Seq(Plans) /\ repaired \in BOOLEAN /\ attempt \in 0 .. 3
  /\ author \in Working \cup {"idle"} \cup Ended
  /\ host \in {"start", "reading", "late", "closing", "over"}
  /\ verdict \in Outcomes
  /\ written \in 0 .. Len(outline)
  /\ pending \in Seq({"phase", "delta", "done"})
  /\ stored \in KeptWork /\ stored.written <= Len(stored.outline)
  /\ Len(outline) <= MaxSections \/ job.fixed

\* where the outline stands in the run, and in the checkpoint
OutlineStands ==
  /\ author = "outline" => ~repaired /\ outline \in MergedPlans
  /\ author \in {"outline", "outlined"} => written = 0
  /\ author \in {"outlined", "writing", "returned"} => WholeOutline(outline, repaired)
  /\ author = "returned" => written = Len(outline)
  /\ IF stored.outline = <<>> THEN ~stored.repaired ELSE WholeOutline(stored.outline, stored.repaired)

\* the mark is the author's last step, and the host's run is over after it
HostFollows ==
  /\ host \in {"start", "over"} => author \notin Working
  /\ host = "start" => author = "idle"
  /\ \A i \in 1 .. Len(pending) : pending[i] = "done" => i = Len(pending) /\ author \in Ended
  /\ verdict \in {"result", "published", "refused"} => host = "over"
  /\ verdict = "result" =>
       author = "returned" /\ written = Len(outline) /\ (job.streamed => pending = <<"done">>)
  /\ verdict = "refused" => repaired /\ MadeUpTwice(outline)
  /\ verdict = "published" => written = Len(outline) /\ DistinctIds(outline)

(* The inductive invariant of DocumentFinalization.                         *)
FinalizationInv == FinalTypes /\ OutlineStands /\ HostFollows

LEMMA FinalizationInitInv == FinalizationInit => FinalizationInv
<1> SUFFICES ASSUME FinalizationInit PROVE FinalizationInv
  OBVIOUS
<1>1. /\ NothingStored \in KeptWork /\ NothingStored.outline = <<>> /\ NothingStored.written = 0
      /\ NothingStored.repaired = FALSE
  BY DEF NothingStored, KeptWork
<1>2. /\ job \in Job /\ outline = <<>> /\ attempt = 0 /\ repaired = FALSE /\ author = "idle" /\ written = 0
      /\ pending = <<>> /\ host = "start" /\ verdict = "none" /\ stored = NothingStored
  BY DEF FinalizationInit
<1>3. outline \in Seq(Plans) /\ Len(outline) = 0 /\ pending \in Seq({"phase", "delta", "done"}) /\ Len(pending) = 0
  BY <1>2
<1>4. written \in 0 .. Len(outline) /\ Len(outline) <= MaxSections /\ stored.written <= Len(stored.outline)
  BY <1>1, <1>2, <1>3
<1>5. stored \in KeptWork
  BY <1>1, <1>2
<1>6. FinalTypes
  <2>1. author \in Working \cup {"idle"} \cup Ended /\ verdict \in Outcomes
    BY <1>2 DEF Outcomes
  <2>4. repaired \in BOOLEAN
    BY <1>2
  <2>5. attempt \in 0 .. 3
    BY <1>2
  <2>2. host \in {"start", "reading", "late", "closing", "over"}
    BY <1>2
  <2>6. QED
    BY <1>2, <1>3, <1>4, <1>5, <2>1, <2>2, <2>4, <2>5 DEF FinalTypes
<1>7. OutlineStands
  BY <1>1, <1>2 DEF OutlineStands
<1>8. HostFollows
  BY <1>2, <1>3 DEF HostFollows, Working
<1>9. QED
  BY <1>6, <1>7, <1>8 DEF FinalizationInv

(* The author ends: the mark is the last entry of its events.               *)
LEMMA AuthorEndsInv ==
  ASSUME FinalizationInv, NEW how \in Ended, author \in Working, host \notin {"start", "over"},
         AuthorEnds(how), attempt' \in 0 .. 3,
         how = "returned" => author = "writing" /\ written = Len(outline),
         UNCHANGED <<job, outline, repaired, written, taken, host, verdict, stored, begun>>
  PROVE  FinalizationInv'
<1>1. author' = how /\ pending' = IF job.streamed THEN Append(pending, "done") ELSE pending
  BY DEF AuthorEnds
<1>2. pending \in Seq({"phase", "delta", "done"}) /\ Len(pending) \in Nat /\ author \notin Ended
  BY DEF FinalizationInv, FinalTypes, Working, Ended
<1>3. /\ pending' \in Seq({"phase", "delta", "done"})
      /\ \A i \in 1 .. Len(pending') : pending'[i] = "done" => i = Len(pending')
  <2>1. \A i \in 1 .. Len(pending) : pending[i] # "done"
    BY <1>2 DEF FinalizationInv, HostFollows
  <2>2. CASE job.streamed
    <3>1. /\ pending' \in Seq({"phase", "delta", "done"}) /\ Len(pending') = Len(pending) + 1
          /\ \A i \in 1 .. Len(pending) : pending'[i] = pending[i]
      BY <1>1, <1>2, <2>2
    <3>2. QED
      BY <1>2, <2>1, <3>1
  <2>3. CASE ~job.streamed
    BY <1>1, <1>2, <2>1, <2>3
  <2>4. QED
    BY <2>2, <2>3
<1>4. FinalTypes'
  BY <1>1, <1>3 DEF FinalizationInv, FinalTypes
<1>5. OutlineStands'
  BY <1>1 DEF FinalizationInv, OutlineStands, WholeOutline, Ended
<1>6. HostFollows'
  <2>1. author' \notin Working
    BY <1>1 DEF Working, Ended
  <2>2. QED
    BY <1>1, <1>3, <2>1 DEF FinalizationInv, HostFollows
<1>7. QED
  BY <1>4, <1>5, <1>6 DEF FinalizationInv

(* The author goes on, with an outline that is whole or still merged.       *)
LEMMA AuthorGoesOnInv ==
  ASSUME FinalizationInv, author \in Working, host \notin {"start", "over"},
         UNCHANGED <<job, taken, host, verdict, begun>>,
         author' \in Working, attempt' \in 0 .. 3, repaired' \in BOOLEAN,
         outline' \in Seq(Plans), Len(outline') <= MaxSections \/ job.fixed,
         written' \in 0 .. Len(outline'),
         author' = "outline" => ~repaired' /\ outline' \in MergedPlans,
         author' \in {"outline", "outlined"} => written' = 0,
         author' # "outline" => WholeOutline(outline', repaired'),
         stored' = stored \/ (/\ stored' = [outline |-> outline', repaired |-> repaired', written |-> written']
                              /\ author' # "outline"),
         pending' \in Seq({"phase", "delta", "done"}),
         \A i \in 1 .. Len(pending') : pending'[i] # "done"
  PROVE  FinalizationInv'
<1>1. stored' \in KeptWork /\ stored'.written <= Len(stored'.outline)
  <2>1. CASE stored' = stored
    BY <2>1 DEF FinalizationInv, FinalTypes
  <2>2. CASE stored' = [outline |-> outline', repaired |-> repaired', written |-> written']
    <3>1. /\ stored'.outline = outline' /\ stored'.written = written'
          /\ Len(outline') \in Nat
      BY <2>2
    <3>2. written' \in Nat /\ written' <= Len(outline')
      BY <3>1
    <3>3. stored' \in KeptWork
      BY <2>2, <3>2 DEF KeptWork
    <3>4. QED
      BY <3>1, <3>2, <3>3
  <2>3. QED
    BY <2>1, <2>2
<1>2. FinalTypes'
  BY <1>1 DEF FinalizationInv, FinalTypes
<1>3. OutlineStands'
  <2>1. author' # "returned" /\ author' \in {"outline", "outlined", "writing"}
    BY DEF Working
  <2>2. WholeOutline(outline, repaired)' <=> WholeOutline(outline', repaired')
    BY DEF WholeOutline
  <2>3. IF stored'.outline = <<>> THEN ~stored'.repaired ELSE WholeOutline(stored.outline, stored.repaired)'
    <3>1. CASE stored' = stored
      BY <3>1 DEF FinalizationInv, OutlineStands, WholeOutline
    <3>2. CASE stored' # stored
      <4>1. /\ stored' = [outline |-> outline', repaired |-> repaired', written |-> written']
            /\ WholeOutline(outline', repaired')
        BY <3>2
      <4>2. stored'.outline = outline' /\ stored'.repaired = repaired'
        BY <4>1
      <4>3. stored'.outline # <<>>
        BY <4>1, <4>2 DEF WholeOutline
      <4>4. QED
        BY <4>1, <4>2, <4>3 DEF WholeOutline
    <3>3. QED
      BY <3>1, <3>2
  <2>4. QED
    BY <2>1, <2>2, <2>3 DEF OutlineStands
<1>4. HostFollows'
  <2>1. verdict \notin {"result", "published", "refused"}
    BY DEF FinalizationInv, HostFollows
  <2>2. QED
    BY <2>1 DEF FinalizationInv, HostFollows
<1>5. QED
  BY <1>2, <1>3, <1>4 DEF FinalizationInv

(* The author is where it was: the host goes on, or ends, beside it.        *)
LEMMA HostGoesOnInv ==
  ASSUME FinalizationInv, UNCHANGED <<job, outline, attempt, repaired, author, written, stored>>,
         host' \in {"reading", "late", "closing", "over"}, host' = "over" => author \notin Working,
         verdict' \in Outcomes, verdict' \in {"result", "published", "refused"} => host' = "over",
         verdict' = "result" =>
           author = "returned" /\ written = Len(outline) /\ (job.streamed => pending' = <<"done">>),
         verdict' = "refused" => repaired /\ MadeUpTwice(outline),
         verdict' = "published" => written = Len(outline) /\ DistinctIds(outline),
         pending' = pending \/ (pending # <<>> /\ pending' = Tail(pending))
  PROVE  FinalizationInv'
<1>1. /\ pending' \in Seq({"phase", "delta", "done"})
      /\ \A i \in 1 .. Len(pending') : pending'[i] = "done" => i = Len(pending') /\ author \in Ended
  <2> DEFINE ends(q) == \A i \in 1 .. Len(q) : q[i] = "done" => i = Len(q) /\ author \in Ended
  <2>1. pending \in Seq({"phase", "delta", "done"}) /\ ends(pending)
    BY DEF FinalizationInv, FinalTypes, HostFollows
  <2>2. CASE pending' = pending
    BY <2>1, <2>2
  <2>3. CASE pending # <<>> /\ pending' = Tail(pending)
    <3>1. /\ Len(pending) \in Nat /\ pending' \in Seq({"phase", "delta", "done"}) /\ Len(pending') = Len(pending) - 1
          /\ \A i \in 1 .. Len(pending') : pending'[i] = pending[i + 1] /\ i + 1 \in 1 .. Len(pending)
      BY <2>1, <2>3
    <3>2. QED
      BY <2>1, <3>1
  <2>4. QED
    BY <2>2, <2>3
<1>2. FinalTypes'
  BY <1>1 DEF FinalizationInv, FinalTypes
<1>3. OutlineStands'
  BY DEF FinalizationInv, OutlineStands, WholeOutline
<1>4. HostFollows'
  <2>1. (MadeUpTwice(outline) <=> MadeUpTwice(outline)') /\ (DistinctIds(outline) <=> DistinctIds(outline)')
    BY DEF MadeUpTwice, DistinctIds
  <2>2. QED
    BY <1>1, <2>1 DEF FinalizationInv, HostFollows
<1>5. QED
  BY <1>2, <1>3, <1>4 DEF FinalizationInv

\* what the facts of a step that the author takes have in common
LEMMA WorkingAuthor ==
  ASSUME FinalizationInv, author \in Working
  PROVE  /\ host \notin {"start", "over"} /\ verdict \notin {"result", "published", "refused"}
         /\ pending \in Seq({"phase", "delta", "done"}) /\ \A i \in 1 .. Len(pending) : pending[i] # "done"
<1>1. author \notin Ended
  BY DEF Working, Ended
<1>2. QED
  BY <1>1 DEF FinalizationInv, HostFollows, FinalTypes

LEMMA TakeCanonicalInv == ASSUME FinalizationInv, TakeCanonical PROVE FinalizationInv'
<1>1. /\ author = "outline" /\ host \in {"reading", "late"} /\ job.fixed
      /\ outline' = CanonicalOutline /\ author' = "outlined"
      /\ UNCHANGED <<job, attempt, repaired, written, pending, taken, host, verdict, stored, begun>>
  BY DEF TakeCanonical, Works
<1>2. author \in Working /\ author' \in Working
  BY <1>1 DEF Working
<1>3. written = 0 /\ ~repaired /\ attempt \in 0 .. 3 /\ repaired \in BOOLEAN
  BY <1>1 DEF FinalizationInv, FinalTypes, OutlineStands
<1>4. outline' \in Seq(Plans) /\ WholeOutline(outline', repaired')
  BY <1>1, CanonicalIsWhole DEF WholeOutline
<1>5. Len(outline') \in Nat
  BY <1>4
<1>6. written' \in 0 .. Len(outline')
  BY <1>1, <1>3, <1>5
<1>7. QED
  BY <1>1, <1>2, <1>3, <1>4, <1>6, WorkingAuthor, AuthorGoesOnInv

\* what the model may propose, once it is parsed
LEMMA ParsedIsPlans == \A proposal \in OutlineProposals : Parsed(proposal) \in Seq(Plans)
<1> SUFFICES ASSUME NEW proposal \in OutlineProposals PROVE Parsed(proposal) \in Seq(Plans)
  OBVIOUS
<1> DEFINE any == {Planned(id, c) : id \in SectionIds, c \in SUBSET (1 .. Criteria)} \cup {Planned(Fragment, {})}
<1>1. \A p \in any : p \in Plans
  <2>1. \A id \in SectionIds \cup {Fragment}, c \in SUBSET (1 .. Criteria) : Planned(id, c) \in Plans
    BY DEF Planned, Plans, PlanIds
  <2>2. SUFFICES ASSUME NEW p \in any PROVE p \in Plans
    OBVIOUS
  <2>3. \/ \E id \in SectionIds, c \in SUBSET (1 .. Criteria) : p = Planned(id, c)
        \/ p = Planned(Fragment, {})
    OBVIOUS
  <2> HIDE DEF any
  <2>4. {} \in SUBSET (1 .. Criteria)
    OBVIOUS
  <2>5. QED
    BY <2>1, <2>3, <2>4
<1>2. PICK n \in Nat : proposal \in [1 .. n -> any]
  <2>1. proposal \in UNION {[1 .. n -> any] : n \in 0 .. MaxProposed}
    BY DEF OutlineProposals, SeqOf
  <2>2. PICK n \in 0 .. MaxProposed : proposal \in [1 .. n -> any]
    BY <2>1
  <2>3. n \in Nat
    OBVIOUS
  <2>4. QED
    BY <2>2, <2>3
<1> HIDE DEF any
<1>3. proposal \in Seq(Plans)
  <2>1. proposal = [i \in 1 .. n |-> proposal[i]] /\ \A i \in 1 .. n : proposal[i] \in Plans
    BY <1>1, <1>2
  <2>2. QED
    BY <2>1
<1>4. QED
  BY <1>3 DEF Parsed

LEMMA OutlineAnsweredInv == ASSUME FinalizationInv, OutlineAnswered PROVE FinalizationInv'
<1>1. /\ author = "outline" /\ host \in {"reading", "late"} /\ ~job.fixed /\ attempt < 3
      /\ UNCHANGED <<job, repaired, written, pending, taken, host, verdict, stored, begun>>
  BY DEF OutlineAnswered, Works
<1>2. PICK proposal \in OutlineProposals : outline' = Merged(outline, Parsed(proposal))
  BY DEF OutlineAnswered
<1>3. \/ Complete(outline') /\ attempt' = 0 /\ author' = "outlined"
      \/ ~Complete(outline') /\ attempt' = attempt + 1 /\ author' = author
  BY DEF OutlineAnswered
<1>4. /\ outline \in MergedPlans /\ written = 0 /\ ~repaired /\ attempt \in 0 .. 3 /\ repaired \in BOOLEAN
      /\ author \in Working
  BY <1>1 DEF FinalizationInv, FinalTypes, OutlineStands, Working
<1>5. outline' \in MergedPlans
  BY <1>2, <1>4, ParsedIsPlans, MergedIsMerged
<1>6. outline' \in Seq(Plans) /\ Len(outline') <= MaxSections /\ DistinctIds(outline') /\ Len(outline') \in Nat
  BY <1>5 DEF MergedPlans
<1>7. Complete(outline') => WholeOutline(outline', repaired')
  <2>1. CASE Complete(outline')
    <3>1. Len(outline') >= MinSections /\ Covered(outline') = 1 .. Criteria
      BY <2>1 DEF Complete
    <3>2. Len(outline') >= 1 /\ Len(outline') \in MinSections .. MaxSections
      BY <1>6, <3>1
    <3>3. QED
      BY <1>1, <1>6, <3>1, <3>2 DEF WholeOutline
  <2>2. QED
    BY <2>1
<1>8. attempt' \in 0 .. 3
  BY <1>1, <1>3, <1>4
<1>9. author' \in Working /\ (author' # "outline" => Complete(outline'))
  BY <1>1, <1>3 DEF Working
<1>10. written' \in 0 .. Len(outline')
  BY <1>1, <1>4, <1>6
<1>11. QED
  BY <1>1, <1>4, <1>5, <1>6, <1>7, <1>8, <1>9, <1>10, WorkingAuthor, AuthorGoesOnInv

LEMMA OutlineFailsInv == ASSUME FinalizationInv, OutlineFails PROVE FinalizationInv'
<1>1. /\ author = "outline" /\ host \in {"reading", "late"} /\ attempt < 3 /\ attempt' = attempt + 1
      /\ UNCHANGED <<job, outline, repaired, written, taken, host, verdict, stored, begun>>
      /\ UNCHANGED <<author, pending>> \/ AuthorEnds("raised")
  BY DEF OutlineFails, Works
<1>2. /\ outline \in MergedPlans /\ written = 0 /\ ~repaired /\ attempt \in 0 .. 3 /\ repaired \in BOOLEAN
      /\ author \in Working
  BY <1>1 DEF FinalizationInv, FinalTypes, OutlineStands, Working
<1>3. attempt' \in 0 .. 3
  BY <1>1, <1>2
<1>4. CASE UNCHANGED <<author, pending>>
  <2>1. outline' \in Seq(Plans) /\ Len(outline') <= MaxSections /\ written' \in 0 .. Len(outline')
    BY <1>1 DEF FinalizationInv, FinalTypes, OutlineStands, MergedPlans
  <2>2. QED
    BY <1>1, <1>2, <1>3, <1>4, <2>1, WorkingAuthor, AuthorGoesOnInv
<1>5. CASE AuthorEnds("raised")
  <2>1. "raised" \in Ended /\ host \notin {"start", "over"}
    BY <1>1 DEF Ended
  <2>2. QED
    BY <1>1, <1>2, <1>3, <1>5, <2>1, AuthorEndsInv
<1>6. QED
  BY <1>1, <1>4, <1>5

LEMMA RepairOutlineInv == ASSUME FinalizationInv, RepairOutline PROVE FinalizationInv'
<1>1. /\ author = "outline" /\ host \in {"reading", "late"} /\ ~job.fixed
      /\ outline' = Repaired(outline) /\ repaired' = TRUE /\ attempt' = 0 /\ author' = "outlined"
      /\ UNCHANGED <<job, written, pending, taken, host, verdict, stored, begun>>
  BY DEF RepairOutline, Works
<1>2. outline \in MergedPlans /\ written = 0 /\ author \in Working
  BY <1>1 DEF FinalizationInv, OutlineStands, Working
<1>3. /\ outline' \in Seq(Plans) /\ Len(outline') \in MinSections .. MaxSections
      /\ Covered(outline') = 1 .. Criteria /\ (DistinctIds(outline') \/ MadeUpTwice(outline'))
  BY <1>1, <1>2, RepairedIsWhole
<1>4. Len(outline') >= 1 /\ Len(outline') <= MaxSections /\ Len(outline') \in Nat
  BY <1>3
<1>5. WholeOutline(outline', repaired')
  BY <1>1, <1>3, <1>4 DEF WholeOutline
<1>6. written' \in 0 .. Len(outline') /\ attempt' \in 0 .. 3
  BY <1>1, <1>2, <1>4
<1>7. author' \in Working /\ author' # "outline" /\ repaired' \in BOOLEAN
  BY <1>1 DEF Working
<1>8. QED
  BY <1>1, <1>2, <1>3, <1>4, <1>5, <1>6, <1>7, WorkingAuthor, AuthorGoesOnInv

\* what the author tells has no mark
LEMMA ToldHasNoMark ==
  ASSUME NEW entries \in Seq({"phase", "delta"}), Tell(entries),
         pending \in Seq({"phase", "delta", "done"}), \A i \in 1 .. Len(pending) : pending[i] # "done"
  PROVE  pending' \in Seq({"phase", "delta", "done"}) /\ \A i \in 1 .. Len(pending') : pending'[i] # "done"
<1>1. CASE job.streamed
  <2>1. pending' = pending \o entries
    BY <1>1 DEF Tell
  <2>2. Len(pending) \in Nat /\ Len(entries) \in Nat /\ \A i \in 1 .. Len(entries) : entries[i] \in {"phase", "delta"}
    OBVIOUS
  <2>3. entries \in Seq({"phase", "delta", "done"})
    <3>1. entries = [i \in 1 .. Len(entries) |-> entries[i]]
      OBVIOUS
    <3>2. \A i \in 1 .. Len(entries) : entries[i] \in {"phase", "delta", "done"}
      BY <2>2
    <3>3. QED
      BY <2>2, <3>1, <3>2
  <2>4. pending' \in Seq({"phase", "delta", "done"}) /\ Len(pending') = Len(pending) + Len(entries)
    BY <2>1, <2>3
  <2>5. ASSUME NEW i \in 1 .. Len(pending') PROVE pending'[i] # "done"
    <3>1. CASE i <= Len(pending)
      <4>1. i \in 1 .. Len(pending) /\ pending'[i] = pending[i]
        BY <2>1, <2>2, <2>3, <2>4, <3>1
      <4>2. QED
        BY <4>1
    <3>2. CASE i > Len(pending)
      <4>1. PICK j \in 1 .. Len(entries) : i = Len(pending) + j
        <5>1. i - Len(pending) \in 1 .. Len(entries) /\ i = Len(pending) + (i - Len(pending))
          BY <2>2, <2>4, <3>2
        <5>2. QED
          BY <5>1
      <4>2. pending'[i] = entries[j]
        BY <2>1, <2>2, <2>3, <4>1
      <4>3. QED
        BY <2>2, <4>2
    <3>3. QED
      BY <2>2, <2>4, <3>1, <3>2
  <2>6. QED
    BY <2>4, <2>5
<1>2. CASE ~job.streamed
  BY <1>2 DEF Tell
<1>3. QED
  BY <1>1, <1>2

LEMMA KeepOutlineInv == ASSUME FinalizationInv, KeepOutline PROVE FinalizationInv'
<1>1. /\ author = "outlined" /\ host \in {"reading", "late"} /\ Tell(<<"phase">>) /\ author' = "writing"
      /\ stored' = stored \/ stored' = [outline |-> outline, repaired |-> repaired, written |-> 0]
      /\ UNCHANGED <<job, outline, attempt, repaired, written, taken, host, verdict, begun>>
  BY DEF KeepOutline, Works, Save
<1>2. /\ written = 0 /\ attempt \in 0 .. 3 /\ repaired \in BOOLEAN /\ outline \in Seq(Plans)
      /\ (Len(outline) <= MaxSections \/ job.fixed) /\ written \in 0 .. Len(outline) /\ WholeOutline(outline, repaired)
  BY <1>1 DEF FinalizationInv, FinalTypes, OutlineStands
<1>3. author \in Working /\ author' \in Working /\ author' \notin {"outline", "outlined"}
  BY <1>1 DEF Working
<1>4. <<"phase">> \in Seq({"phase", "delta"})
  OBVIOUS
<1>5. pending' \in Seq({"phase", "delta", "done"}) /\ \A i \in 1 .. Len(pending') : pending'[i] # "done"
  BY <1>1, <1>3, <1>4, WorkingAuthor, ToldHasNoMark
<1>6. QED
  BY <1>1, <1>2, <1>3, <1>5, WorkingAuthor, AuthorGoesOnInv

LEMMA WriteSectionInv == ASSUME FinalizationInv, WriteSection PROVE FinalizationInv'
<1>1. /\ author = "writing" /\ host \in {"reading", "late"} /\ Tell(<<"delta", "phase">>)
      /\ written < Len(outline) /\ written' = written + 1
      /\ stored' = stored \/ stored' = [outline |-> outline, repaired |-> repaired, written |-> written']
      /\ UNCHANGED <<job, outline, attempt, repaired, author, taken, host, verdict, begun>>
  BY DEF WriteSection, Works, Save
<1>2. /\ attempt \in 0 .. 3 /\ repaired \in BOOLEAN /\ outline \in Seq(Plans)
      /\ (Len(outline) <= MaxSections \/ job.fixed) /\ written \in 0 .. Len(outline) /\ WholeOutline(outline, repaired)
  BY <1>1 DEF FinalizationInv, FinalTypes, OutlineStands
<1>3. author \in Working /\ author' \in Working /\ author' \notin {"outline", "outlined"}
  BY <1>1 DEF Working
<1>4. <<"delta", "phase">> \in Seq({"phase", "delta"})
  OBVIOUS
<1>5. pending' \in Seq({"phase", "delta", "done"}) /\ \A i \in 1 .. Len(pending') : pending'[i] # "done"
  BY <1>1, <1>3, <1>4, WorkingAuthor, ToldHasNoMark
<1>6. written' \in 0 .. Len(outline')
  <2>1. Len(outline) \in Nat
    BY <1>2
  <2>2. QED
    BY <1>1, <1>2, <2>1
<1>7. QED
  BY <1>1, <1>2, <1>3, <1>5, <1>6, WorkingAuthor, AuthorGoesOnInv

\* the author's ends
LEMMA AuthorIsDoneInv ==
  ASSUME FinalizationInv, AuthorReturns \/ AuthorRaises \/ AuthorIsCancelled
  PROVE  FinalizationInv'
<1>1. UNCHANGED <<job, outline, attempt, repaired, written, taken, host, verdict, stored, begun>>
  BY DEF AuthorReturns, AuthorRaises, AuthorIsCancelled
<1>2. attempt \in 0 .. 3
  BY DEF FinalizationInv, FinalTypes
<1>3. author \in Working
  BY DEF AuthorReturns, AuthorRaises, AuthorIsCancelled, Works, Working
<1>4. PICK how \in Ended : AuthorEnds(how) /\ (how = "returned" => author = "writing" /\ written = Len(outline))
  <2>1. CASE AuthorReturns
    BY <2>1 DEF AuthorReturns, Works, Ended
  <2>2. CASE AuthorRaises \/ AuthorIsCancelled
    <3>1. \E how \in {"raised", "cancelled"} : AuthorEnds(how)
      BY <2>2 DEF AuthorRaises, AuthorIsCancelled
    <3>2. QED
      BY <3>1 DEF Ended
  <2>3. QED
    BY <2>1, <2>2
<1>5. attempt' \in 0 .. 3
  BY <1>1, <1>2
<1>6. QED
  BY <1>1, <1>3, <1>4, <1>5, WorkingAuthor, AuthorEndsInv

LEMMA BeginRunInv == ASSUME FinalizationInv, BeginRun PROVE FinalizationInv'
<1>1. /\ host = "start" /\ host' = "reading"
      /\ author' = (IF stored.outline = <<>> THEN "outline" ELSE "writing")
      /\ outline' = stored.outline /\ repaired' = stored.repaired /\ written' = stored.written
      /\ UNCHANGED <<job, attempt, pending, taken, verdict, stored, begun>>
  BY DEF BeginRun
<1>2. /\ stored \in KeptWork /\ stored.written <= Len(stored.outline) /\ job \in Job /\ attempt \in 0 .. 3
      /\ pending \in Seq({"phase", "delta", "done"}) /\ verdict \in Outcomes
  BY DEF FinalizationInv, FinalTypes
<1>3. stored.outline \in Seq(Plans) /\ stored.repaired \in BOOLEAN /\ stored.written \in Nat
  BY <1>2 DEF KeptWork
<1>4. Len(stored.outline) \in Nat
  BY <1>3
<1>5. stored.written \in 0 .. Len(stored.outline)
  BY <1>2, <1>3, <1>4
<1>6. author = "idle" /\ \A i \in 1 .. Len(pending) : pending[i] # "done"
  <2>1. author = "idle"
    BY <1>1 DEF FinalizationInv, HostFollows
  <2>2. author \notin Ended
    BY <2>1 DEF Ended
  <2>3. QED
    BY <2>1, <2>2 DEF FinalizationInv, HostFollows
<1>7. verdict \notin {"result", "published", "refused"}
  BY <1>1 DEF FinalizationInv, HostFollows
<1>8. IF stored.outline = <<>> THEN ~stored.repaired ELSE WholeOutline(stored.outline, stored.repaired)
  BY DEF FinalizationInv, OutlineStands
<1>9. Len(stored.outline) <= MaxSections \/ job.fixed
  <2>1. CASE stored.outline = <<>>
    <3>1. Len(stored.outline) = 0
      BY <2>1
    <3>2. QED
      BY <3>1
  <2>2. CASE stored.outline # <<>>
    BY <1>4, <1>8, <2>2 DEF WholeOutline
  <2>3. QED
    BY <2>1, <2>2
<1>10. <<>> \in MergedPlans
  <2>1. <<>> \in Seq(Plans) /\ Len(<<>>) = 0 /\ DistinctIds(<<>>)
    BY DEF DistinctIds
  <2>2. QED
    BY <2>1 DEF MergedPlans
<1>11. author' \in Working
  BY <1>1 DEF Working
<1>12. FinalTypes'
  <2>1. written' \in 0 .. Len(outline') /\ outline' \in Seq(Plans) /\ repaired' \in BOOLEAN
    BY <1>1, <1>3, <1>5
  <2>2. host' \in {"start", "reading", "late", "closing", "over"}
    BY <1>1
  <2>3. QED
    BY <1>1, <1>2, <1>9, <1>11, <2>1, <2>2 DEF FinalTypes
<1>13. OutlineStands'
  <2>1. CASE stored.outline = <<>>
    <3>1. author' = "outline" /\ ~repaired' /\ outline' = <<>> /\ stored' = stored
      BY <1>1, <1>8, <2>1
    <3>2. Len(stored.outline) = 0
      BY <2>1
    <3>3. written' = 0
      BY <1>1, <1>5, <3>2
    <3>4. QED
      BY <1>8, <1>10, <2>1, <3>1, <3>3 DEF OutlineStands
  <2>2. CASE stored.outline # <<>>
    <3>1. author' = "writing" /\ stored' = stored /\ WholeOutline(stored.outline, stored.repaired)
      BY <1>1, <1>8, <2>2
    <3>2. WholeOutline(outline, repaired)' /\ WholeOutline(stored.outline, stored.repaired)'
      BY <1>1, <3>1 DEF WholeOutline
    <3>3. QED
      BY <2>2, <3>1, <3>2 DEF OutlineStands
  <2>3. QED
    BY <2>1, <2>2
<1>14. HostFollows'
  BY <1>1, <1>6, <1>7 DEF HostFollows
<1>15. QED
  BY <1>12, <1>13, <1>14 DEF FinalizationInv

\* the run is refused, or it reads and its author is left to itself or waited for
LEMMA HostStepsInv ==
  ASSUME FinalizationInv,
         RefuseRun \/ TakeEvent \/ TakeResult \/ DeadlinePasses \/ LateHostCloses \/ ClientLeaves \/ HostCloses
  PROVE  FinalizationInv'
<1>0. /\ host \in {"start", "over"} => author \notin Working
      /\ verdict \in {"result", "published", "refused"} => host = "over"
      /\ verdict \in Outcomes
  BY DEF FinalizationInv, FinalTypes, HostFollows
<1>1. UNCHANGED <<job, outline, attempt, repaired, author, written, stored>>
  BY DEF RefuseRun, TakeEvent, TakeResult, DeadlinePasses, LateHostCloses, ClientLeaves, HostCloses, Leave
<1>2. CASE RefuseRun
  <2>1. host = "start" /\ host' = "over" /\ verdict' = "raised" /\ pending' = pending
    BY <1>2 DEF RefuseRun
  <2>2. verdict' \in Outcomes
    BY <2>1 DEF Outcomes
  <2>3. QED
    BY <1>0, <1>1, <2>1, <2>2, HostGoesOnInv
<1>3. CASE TakeEvent
  <2>1. /\ host = "reading" /\ host' = host /\ verdict' = verdict
        /\ pending # <<>> /\ pending' = Tail(pending)
    BY <1>3 DEF TakeEvent
  <2>2. QED
    BY <1>0, <1>1, <2>1, HostGoesOnInv
<1>4. CASE TakeResult
  <2>1. /\ host = "reading" /\ host' = "over" /\ pending' = pending
        /\ verdict' = (IF author = "returned" THEN "result" ELSE "raised")
        /\ IF job.streamed THEN pending # <<>> /\ Head(pending) = "done" ELSE author \notin Working
    BY <1>4 DEF TakeResult
  <2>2. /\ author \notin Working
        /\ job.streamed => pending = <<"done">>
    <3>1. CASE job.streamed
      <4>1. /\ pending \in Seq({"phase", "delta", "done"}) /\ Len(pending) \in Nat /\ Len(pending) # 0
            /\ pending[1] = "done"
        BY <2>1, <3>1 DEF FinalizationInv, FinalTypes
      <4>2. 1 \in 1 .. Len(pending)
        BY <4>1
      <4>3. 1 = Len(pending) /\ author \in Ended
        BY <4>1, <4>2 DEF FinalizationInv, HostFollows
      <4>4. pending = <<"done">>
        BY <4>1, <4>3
      <4>5. QED
        BY <4>3, <4>4 DEF Working, Ended
    <3>2. CASE ~job.streamed
      BY <2>1, <3>2
    <3>3. QED
      BY <3>1, <3>2
  <2>3. author = "returned" => written = Len(outline)
    BY DEF FinalizationInv, OutlineStands
  <2>4. verdict' \in Outcomes /\ verdict' \notin {"published", "refused"} /\ (verdict' = "result" => author = "returned")
    BY <2>1 DEF Outcomes
  <2>5. QED
    BY <1>1, <2>1, <2>2, <2>3, <2>4, HostGoesOnInv
<1>5. ASSUME NEW how \in {"deadline", "left"}, Leave(how) PROVE FinalizationInv'
  <2>1. /\ host' \in {"closing", "over"} /\ (host' = "over" => author \notin Working)
        /\ verdict' = how /\ pending' = pending
    BY <1>5 DEF Leave
  <2>2. verdict' \in Outcomes /\ verdict' \notin {"result", "published", "refused"}
    BY <2>1 DEF Outcomes
  <2>3. QED
    BY <1>1, <2>1, <2>2, HostGoesOnInv
<1>6. CASE DeadlinePasses
  <2>1. CASE host' = "late" /\ verdict' = "deadline" /\ pending' = pending
    <3>1. verdict' \in Outcomes
      BY <2>1 DEF Outcomes
    <3>2. QED
      BY <1>1, <2>1, <3>1, HostGoesOnInv
  <2>2. CASE Leave("deadline")
    BY <1>5, <2>2
  <2>3. QED
    BY <1>6, <2>1, <2>2 DEF DeadlinePasses
<1>7. CASE LateHostCloses \/ ClientLeaves
  BY <1>5, <1>7 DEF LateHostCloses, ClientLeaves
<1>8. CASE HostCloses
  <2>1. host = "closing" /\ author \notin Working /\ host' = "over" /\ verdict' = verdict /\ pending' = pending
    BY <1>8 DEF HostCloses
  <2>2. QED
    BY <1>0, <1>1, <2>1, HostGoesOnInv
<1>9. QED
  BY <1>2, <1>3, <1>4, <1>6, <1>7, <1>8

LEMMA DeliverInv == ASSUME FinalizationInv, Deliver PROVE FinalizationInv'
<1>1. /\ host = "over" /\ verdict = "result" /\ verdict' = Manifest(outline, written)
      /\ UNCHANGED <<job, outline, attempt, repaired, author, written, pending, taken, host, stored, begun>>
  BY DEF Deliver
<1>2. author = "returned" /\ written = Len(outline) /\ author \notin Working
  BY <1>1 DEF FinalizationInv, HostFollows
<1>3. outline \in Seq(Plans) /\ WholeOutline(outline, repaired)
  BY <1>2 DEF FinalizationInv, FinalTypes, OutlineStands
<1>4. /\ verdict' \in {"published", "refused"}
      /\ verdict' = "refused" => repaired /\ MadeUpTwice(outline)
      /\ verdict' = "published" => DistinctIds(outline)
  BY <1>1, <1>2, <1>3, ManifestOfWhole
<1>5. verdict' \in Outcomes /\ verdict' # "result"
  BY <1>4 DEF Outcomes
<1>6. QED
  BY <1>1, <1>2, <1>4, <1>5, HostGoesOnInv

LEMMA DeliverStoredInv == ASSUME FinalizationInv, DeliverStored PROVE FinalizationInv'
<1>1. /\ host = "start" /\ stored.outline # <<>> /\ stored.written = Len(stored.outline)
      /\ host' = "over" /\ verdict' = Manifest(stored.outline, stored.written)
      /\ outline' = stored.outline /\ repaired' = stored.repaired /\ written' = stored.written
      /\ UNCHANGED <<job, attempt, author, pending, taken, stored, begun>>
  BY DEF DeliverStored
<1>2. /\ stored \in KeptWork /\ job \in Job /\ attempt \in 0 .. 3
      /\ pending \in Seq({"phase", "delta", "done"}) /\ author \in Working \cup {"idle"} \cup Ended
  BY DEF FinalizationInv, FinalTypes
<1>3. stored.outline \in Seq(Plans) /\ stored.repaired \in BOOLEAN /\ Len(stored.outline) \in Nat
  BY <1>2 DEF KeptWork
<1>4. WholeOutline(stored.outline, stored.repaired)
  BY <1>1 DEF FinalizationInv, OutlineStands
<1>5. /\ verdict' \in {"published", "refused"}
      /\ verdict' = "refused" => stored.repaired /\ MadeUpTwice(stored.outline)
      /\ verdict' = "published" => DistinctIds(stored.outline)
  BY <1>1, <1>3, <1>4, ManifestOfWhole
<1>6. author = "idle" /\ author \notin Working
  BY <1>1 DEF FinalizationInv, HostFollows
<1>7. FinalTypes'
  <2>1. written' \in 0 .. Len(outline') /\ outline' \in Seq(Plans) /\ repaired' \in BOOLEAN
    BY <1>1, <1>3
  <2>2. host' \in {"start", "reading", "late", "closing", "over"}
    BY <1>1
  <2>3. verdict' \in Outcomes
    BY <1>5 DEF Outcomes
  <2>4. Len(outline') <= MaxSections \/ job.fixed
    BY <1>1, <1>3, <1>4 DEF WholeOutline
  <2>5. stored' \in KeptWork /\ stored'.written <= Len(stored'.outline)
    BY <1>1, <1>3, <1>2
  <2>6. QED
    BY <1>1, <1>2, <2>1, <2>2, <2>3, <2>4, <2>5 DEF FinalTypes
<1>8. OutlineStands'
  <2>1. WholeOutline(stored.outline, stored.repaired)'
    BY <1>1, <1>4 DEF WholeOutline
  <2>2. QED
    BY <1>1, <1>6, <2>1 DEF OutlineStands
<1>9. HostFollows'
  <2>1. (MadeUpTwice(outline)' <=> MadeUpTwice(stored.outline)) /\ (DistinctIds(outline)' <=> DistinctIds(stored.outline))
    BY <1>1 DEF MadeUpTwice, DistinctIds
  <2>2. \A i \in 1 .. Len(pending) : pending[i] = "done" => i = Len(pending) /\ author \in Ended
    BY DEF FinalizationInv, HostFollows
  <2>3. verdict' # "result"
    BY <1>5
  <2>4. QED
    BY <1>1, <1>5, <1>6, <2>1, <2>2, <2>3 DEF HostFollows
<1>10. QED
  BY <1>7, <1>8, <1>9 DEF FinalizationInv

LEMMA AgainInv == ASSUME FinalizationInv, Again PROVE FinalizationInv'
<1>1. /\ host' = "start" /\ verdict' = "none" /\ outline' = <<>> /\ attempt' = 0 /\ repaired' = FALSE
      /\ author' = "idle" /\ written' = 0 /\ pending' = <<>> /\ UNCHANGED <<job, stored>>
  BY DEF Again
<1>2. stored \in KeptWork /\ stored.written <= Len(stored.outline) /\ job \in Job
  BY DEF FinalizationInv, FinalTypes
<1>3. IF stored.outline = <<>> THEN ~stored.repaired ELSE WholeOutline(stored.outline, stored.repaired)
  BY DEF FinalizationInv, OutlineStands
<1>4. FinalTypes'
  <2>1. /\ outline' \in Seq(Plans) /\ Len(outline') = 0 /\ pending' \in Seq({"phase", "delta", "done"})
    BY <1>1
  <2>2. written' \in 0 .. Len(outline') /\ Len(outline') <= MaxSections
    BY <1>1, <2>1
  <2>3. author' \in Working \cup {"idle"} \cup Ended /\ verdict' \in Outcomes
    BY <1>1 DEF Outcomes
  <2>4. repaired' \in BOOLEAN
    BY <1>1
  <2>5. attempt' \in 0 .. 3 /\ host' \in {"start", "reading", "late", "closing", "over"}
    BY <1>1
  <2>6. QED
    BY <1>1, <1>2, <2>1, <2>2, <2>3, <2>4, <2>5 DEF FinalTypes
<1>5. OutlineStands'
  <2>1. WholeOutline(stored.outline, stored.repaired)' <=> WholeOutline(stored.outline, stored.repaired)
    BY <1>1 DEF WholeOutline
  <2>2. QED
    BY <1>1, <1>3, <2>1 DEF OutlineStands
<1>6. HostFollows'
  <2>1. Len(pending') = 0
    BY <1>1
  <2>2. QED
    BY <1>1, <2>1 DEF HostFollows, Working
<1>7. QED
  BY <1>4, <1>5, <1>6 DEF FinalizationInv

LEMMA FinalizationStep == FinalizationInv /\ [FinalizationNext]_finalVars => FinalizationInv'
<1> SUFFICES ASSUME FinalizationInv, [FinalizationNext]_finalVars PROVE FinalizationInv'
  OBVIOUS
<1>1. CASE TakeCanonical \/ OutlineAnswered \/ OutlineFails \/ RepairOutline \/ KeepOutline \/ WriteSection
  BY <1>1, TakeCanonicalInv, OutlineAnsweredInv, OutlineFailsInv, RepairOutlineInv, KeepOutlineInv, WriteSectionInv
<1>2. CASE AuthorReturns \/ AuthorRaises \/ AuthorIsCancelled
  BY <1>2, AuthorIsDoneInv
<1>3. CASE RefuseRun \/ TakeEvent \/ TakeResult \/ DeadlinePasses \/ LateHostCloses \/ ClientLeaves \/ HostCloses
  BY <1>3, HostStepsInv
<1>4. CASE BeginRun \/ Deliver \/ DeliverStored \/ Again
  BY <1>4, BeginRunInv, DeliverInv, DeliverStoredInv, AgainInv
<1>5. CASE UNCHANGED finalVars
  BY <1>5 DEF finalVars, FinalizationInv, FinalTypes, OutlineStands, HostFollows, WholeOutline, MadeUpTwice, DistinctIds
<1>6. QED
  BY <1>1, <1>2, <1>3, <1>4, <1>5 DEF FinalizationNext

LEMMA FinalizationInvariant == FinalizationSpec => []FinalizationInv
<1>1. QED
  BY FinalizationInitInv, FinalizationStep, PTL DEF FinalizationSpec

(* The state of a finalization has its type in every behaviour: the author, *)
(* the host and the verdict are where they can be, an outline that is not   *)
(* fixed has no more sections than the contract allows, and no more         *)
(* sections are accepted, now or in the checkpoint, than were planned.      *)
THEOREM FinalizationTypeCorrect == FinalizationSpec => []FinalizationTypeOK
<1>1. FinalizationInv => FinalizationTypeOK
  <2> SUFFICES ASSUME FinalizationInv PROVE FinalizationTypeOK
    OBVIOUS
  <2>1. stored \in KeptWork /\ stored.written <= Len(stored.outline)
    BY DEF FinalizationInv, FinalTypes
  <2>2. stored.written \in Nat /\ stored.outline \in Seq(Plans)
    BY <2>1 DEF KeptWork
  <2>3. Len(stored.outline) \in Nat
    BY <2>2
  <2>4. stored.written \in 0 .. Len(stored.outline)
    BY <2>1, <2>2, <2>3
  <2>5. QED
    BY <2>4 DEF FinalizationInv, FinalTypes, FinalizationTypeOK, Outcomes, Ended
<1>2. QED
  BY <1>1, FinalizationInvariant, PTL

(* RunEndsWithItsAuthor: whether the client leaves, the deadline passes or  *)
(* the author raises, no run is over while its author still works, and a    *)
(* result comes from an author that returned with every section, after the  *)
(* client was handed every event.                                           *)
THEOREM RunsEndWithTheirAuthors == FinalizationSpec => []RunEndsWithItsAuthor
<1>1. FinalizationInv => RunEndsWithItsAuthor
  BY DEF FinalizationInv, HostFollows, RunEndsWithItsAuthor
<1>2. QED
  BY <1>1, FinalizationInvariant, PTL

(* OutlineIsWhole, for every contract and whatever the model proposes: the  *)
(* outline that is written is whole, also one that was repaired or taken up *)
(* from a checkpoint, and a document that is published has each section of  *)
(* it once.                                                                 *)
THEOREM OutlinesAreWhole == FinalizationSpec => []OutlineIsWhole
<1>1. FinalizationInv => OutlineIsWhole
  <2> SUFFICES ASSUME FinalizationInv PROVE OutlineIsWhole
    OBVIOUS
  <2>1. ASSUME author \in {"outlined", "writing", "returned"}
        PROVE  /\ IF job.fixed THEN outline = CanonicalOutline
                  ELSE Len(outline) \in MinSections .. MaxSections /\ Covered(outline) = 1 .. Criteria
               /\ DistinctIds(outline) \/ repaired
    BY <2>1 DEF FinalizationInv, OutlineStands, WholeOutline
  <2>2. verdict = "refused" => repaired /\ MadeUpTwice(outline)
    BY DEF FinalizationInv, HostFollows
  <2>3. verdict = "published" => written = Len(outline) /\ DistinctIds(outline)
    BY DEF FinalizationInv, HostFollows
  <2>4. QED
    BY <2>1, <2>2, <2>3 DEF OutlineIsWhole, MadeUpTwice
<1>2. QED
  BY <1>1, FinalizationInvariant, PTL

HIDE FinalizationAssumption

-----------------------------------------------------------------------------
(* The stream to the client (EventStream).                                  *)

RuntimeEvents == {Plain("keepalive"), Plain("done"), Plain("terminal_error"), Plain("error"), Plain("done_mark")}
AnyEntry == Entries(OwnEvents \cup {Usage} \cup RuntimeEvents)

\* what has a number: the handler's own events and the usage reports
Real        == {e \in Entries(OwnEvents \cup {Usage}) : e.n # 0}
Numbered(k) == {e \in Real : e.n = k}
ErrorEntry  == [n |-> 0, event |-> Plain("error")]
Queued      == Real \cup {ErrorEntry, DoneMark}

OwnParts == {Own, OwnOf("artifact"), OwnOf("final")}
Size(q, T) == Len(Where(q, T))
Count(T, w, e, i) == Size(w, T) + (Size(e, T) + Size(i, T))

EventTypes ==
  /\ endpoint \in {"stream", "artifact", "invoke"}
  /\ handler \in {"running", "returned", "raised", "cancelled"}
  /\ gen \in {"reading", "ended", "aborted"} /\ ending \in {"none", "stored", "sent", "lost"}
  /\ Len(produced) <= MaxProduced
  /\ record.status \in {"in_progress", "completed", "failed"}
  /\ second.kind \in {"none", "conflict", "events", "response"}
  /\ endpoint # "invoke" =>
       /\ produced \in Seq(AnyEntry) /\ wire \in Seq(AnyEntry) /\ events \in Seq(AnyEntry) /\ inner \in Seq(AnyEntry)
       /\ \A i \in 1 .. Len(produced) : produced[i] \in Real
       /\ \A i \in 1 .. Len(events) : events[i] \in Queued
       /\ \A i \in 1 .. Len(inner) : inner[i] \in Queued

\* what was produced, p, is on the wire w or on its way through e and i, in order and each
\* entry once
FlowsAs(w, e, i, p) ==
  /\ \A T \in OwnParts : Where(w, T) \o (Where(e, T) \o Where(i, T)) = Where(p, T)
  /\ Count(Real, w, e, i) <= Len(p)
  /\ \A k \in Nat \ {0} :
       Count(Numbered(k), w, e, i) <= 1 /\ (k > Len(p) => Count(Numbered(k), w, e, i) = 0)
  /\ \A n \in 1 .. Len(w) : w[n] = Keepalive \/ (w[n] \in Real /\ ~IsFailure(w[n].event))
  /\ Len(w) = Size(w, {Keepalive}) + Size(w, Real)
  /\ Size(w, {Keepalive}) <= MaxIdle

Flowing == FlowsAs(wire, events, inner, produced)

\* behind the mark of the end there are only usage reports, and before it is the error
\* of a handler that raised
MarksOfTheEnd ==
  /\ endpoint = "stream" => inner = <<>>
  /\ \A i \in 1 .. Len(events) :
       /\ events[i] = ErrorEntry => handler = "raised"
       /\ events[i] = DoneMark =>
            /\ \A j \in 1 .. Len(events) : j > i => events[j].event = Usage
            /\ inner = <<>> /\ handler # "running"
            /\ handler = "raised" => i > 1 /\ events[i - 1] = ErrorEntry
  /\ \A i \in 1 .. Len(inner) :
       /\ inner[i] = ErrorEntry => Len(inner) = i + 1 /\ inner[i + 1] = DoneMark
       /\ inner[i] = DoneMark =>
            /\ i = Len(inner) /\ handler # "running"
            /\ handler \in {"raised", "cancelled"} => i > 1 /\ inner[i - 1] = ErrorEntry

\* a record that is complete is of a stream or an answer that ended without a failure
RecordOfTheEnd ==
  record.status = "completed" =>
    /\ gen = "ended"
    /\ endpoint # "invoke" =>
         record.events = wire /\ \A i \in 1 .. Len(wire) : ~IsFailure(wire[i].event)
    /\ endpoint = "invoke" =>
         wire = <<[n |-> record.response.output, event |-> Plain(record.response.status)]>>

(* The inductive invariant of EventStream.                                  *)
EventInv ==
  /\ EventTypes
  /\ endpoint # "invoke" /\ gen # "ended" => Flowing
  /\ endpoint # "invoke" /\ gen = "reading" => MarksOfTheEnd
  /\ gen # "ended" =>
       ending = "none" /\ record.status # "completed" /\ second.kind \notin {"events", "response"}
  /\ endpoint = "invoke" /\ gen # "ended" => wire = <<>> /\ events = <<>>
  /\ RecordOfTheEnd
  /\ gen = "ended" => StreamTellsWhatHappened /\ Len(wire) <= MaxProduced + MaxIdle + 1

USE EventAssumption

\* what an event is, case by case
LEMMA EventKinds ==
  /\ \A e \in OwnEvents :
       e.kind \in {"content", "artifact", "final", "failed", "needs_confirmation", "status_changed", "progress"}
  /\ Usage.kind = "usage" /\ \A k \in STRING : Plain(k).kind = k
<1>1. \A k : Plain(k).kind = k
  BY DEF Plain
<1>2. \A s, e : Phase(s, e).kind = "status_changed"
  BY DEF Phase, Plain
<1>3. /\ [Plain("content") EXCEPT !.status = "cancelled"].kind = "content"
      /\ [Plain("needs_confirmation") EXCEPT !.status = "needs_confirmation"].kind = "needs_confirmation"
  BY DEF Plain
<1>4. \A e \in HandlerEvents :
        e.kind \in {"content", "artifact", "final", "failed", "needs_confirmation", "status_changed", "progress"}
  <2> SUFFICES ASSUME NEW e \in HandlerEvents
               PROVE  e.kind \in {"content", "artifact", "final", "failed", "needs_confirmation", "status_changed", "progress"}
    OBVIOUS
  <2>1. \/ e \in {Plain("content"), Plain("artifact"), Plain("final"), Plain("failed")}
        \/ e = [Plain("content") EXCEPT !.status = "cancelled"]
        \/ e = [Plain("needs_confirmation") EXCEPT !.status = "needs_confirmation"]
        \/ e \in {Phase("failed", FALSE), Phase("retrying", TRUE), Phase("failed", TRUE)}
    BY DEF HandlerEvents
  <2>2. CASE e \in {Plain("content"), Plain("artifact"), Plain("final"), Plain("failed")}
    BY <1>1, <2>2
  <2>3. CASE e \in {Phase("failed", FALSE), Phase("retrying", TRUE), Phase("failed", TRUE)}
    BY <1>2, <2>3
  <2>4. QED
    BY <1>3, <2>1, <2>2, <2>3
<1>5. \A e \in FacadeEvents \cup FacadeResults :
        e.kind \in {"content", "artifact", "final", "failed", "needs_confirmation", "status_changed", "progress"}
  BY <1>1, <1>3 DEF FacadeEvents, FacadeResults
<1>6. QED
  BY <1>1, <1>4, <1>5 DEF OwnEvents, Usage

FailedEvents == {Plain("failed"), [Plain("content") EXCEPT !.status = "cancelled"], Phase("failed", TRUE)}

\* a plain event fails by its kind alone
LEMMA PlainFailure == \A k : IsFailure(Plain(k)) <=> k \in TerminalKind
<1> SUFFICES ASSUME NEW k PROVE IsFailure(Plain(k)) <=> k \in TerminalKind
  OBVIOUS
<1>1. /\ Plain(k).status = "" /\ Plain(k).kind = k /\ Plain(k).error = FALSE
      /\ Plain(k).meta.status = "" /\ Plain(k).meta.error = FALSE
  BY DEF Plain, NoMeta
<1>2. "" \notin TerminalStatus
  BY DEF TerminalStatus
<1>3. QED
  BY <1>1, <1>2 DEF IsFailure

LEMMA OwnFailures == \A e \in OwnEvents \cup {Usage} : IsFailure(e) <=> e \in FailedEvents
<1> DEFINE cancelled == [Plain("content") EXCEPT !.status = "cancelled"]
           asks == [Plain("needs_confirmation") EXCEPT !.status = "needs_confirmation"]
<1>1. cancelled.status = "cancelled" /\ cancelled.kind = "content"
  BY DEF Plain
<1>2. /\ asks.status = "needs_confirmation" /\ asks.kind = "needs_confirmation" /\ asks.error = FALSE
      /\ asks.meta.status = "" /\ asks.meta.error = FALSE
  BY DEF Plain, NoMeta
<1>3. \A s, b : /\ Phase(s, b).status = "" /\ Phase(s, b).kind = "status_changed" /\ Phase(s, b).error = FALSE
                /\ Phase(s, b).meta = [named |-> TRUE, status |-> s, error |-> b]
  BY DEF Phase, Plain
<1>4. IsFailure(cancelled)
  BY <1>1 DEF IsFailure, TerminalStatus
<1>5. ~IsFailure(asks)
  BY <1>2 DEF IsFailure, TerminalStatus, TerminalKind
<1>14. /\ Phase("failed", TRUE).meta.error /\ Phase("failed", TRUE).meta.status = "failed"
       /\ Phase("retrying", TRUE).meta.named /\ Phase("retrying", TRUE).meta.status = "retrying"
  BY DEF Phase, Plain
<1>15. /\ Phase("failed", FALSE).meta.named /\ ~Phase("failed", FALSE).meta.error
  BY DEF Phase, Plain
<1>6. ~IsFailure(Phase("failed", FALSE))
  BY <1>3, <1>15 DEF IsFailure, TerminalStatus, TerminalKind
<1>7. IsFailure(Phase("failed", TRUE)) /\ ~IsFailure(Phase("retrying", TRUE))
  BY <1>3, <1>14 DEF IsFailure, TerminalStatus, TerminalKind
<1>8. \A k \in {"content", "artifact", "final", "progress", "usage"} : ~IsFailure(Plain(k)) /\ Plain(k) \notin FailedEvents
  <2> SUFFICES ASSUME NEW k \in {"content", "artifact", "final", "progress", "usage"}
               PROVE  ~IsFailure(Plain(k)) /\ Plain(k) \notin FailedEvents
    OBVIOUS
  <2>1. ~IsFailure(Plain(k))
    BY PlainFailure DEF TerminalKind
  <2>2. Plain(k).kind = k /\ Plain(k).status = "" /\ Plain("failed").kind = "failed"
    BY DEF Plain
  <2> HIDE DEF cancelled
  <2>5. k # "failed" /\ k # "status_changed"
    OBVIOUS
  <2>6. Phase("failed", TRUE).kind = "status_changed"
    BY <1>3
  <2>7. Plain(k).status # cancelled.status
    BY <1>1, <2>2
  <2>8. Plain(k) # Plain("failed") /\ Plain(k) # Phase("failed", TRUE)
    BY <2>2, <2>5, <2>6
  <2>3. Plain(k) # Plain("failed") /\ Plain(k) # cancelled /\ Plain(k) # Phase("failed", TRUE)
    BY <2>7, <2>8
  <2>4. QED
    BY <2>1, <2>3 DEF FailedEvents, cancelled
<1>9. IsFailure(Plain("failed"))
  BY PlainFailure DEF TerminalKind
<1>10. \A e \in FailedEvents : IsFailure(e)
  BY <1>4, <1>7, <1>9 DEF FailedEvents
<1>11. \A e \in HandlerEvents : IsFailure(e) => e \in FailedEvents
  BY <1>5, <1>6, <1>7, <1>8 DEF HandlerEvents, FailedEvents
<1>12. \A e \in FacadeEvents \cup FacadeResults \cup {Usage} : IsFailure(e) => e \in FailedEvents
  BY <1>5, <1>8 DEF FacadeEvents, FacadeResults, Usage
<1>13. QED
  BY <1>10, <1>11, <1>12 DEF OwnEvents

\* which entries are what
LEMMA EntryFacts ==
  /\ Real \subseteq AnyEntry /\ {ErrorEntry, DoneMark, Keepalive, ErrorEvent} \subseteq AnyEntry
  /\ \A k \in Nat : [n |-> k, event |-> Plain("done")] \in AnyEntry
  /\ \A e \in Real : /\ ~IsMark(e) /\ ~IsEnd(e) /\ e # Keepalive /\ e.n \in Nat \ {0}
                     /\ e \in Numbered(e.n) /\ (e.event # Usage => e \in Own)
  /\ \A e \in {ErrorEntry, DoneMark} : IsMark(e) /\ e \notin Real
  /\ ErrorEntry # DoneMark /\ ErrorEntry.event.kind = "error" /\ DoneMark.event.kind # "error"
  /\ ~IsEnd(Keepalive) /\ Keepalive \notin Real /\ IsEnd(ErrorEvent) /\ ErrorEvent \notin Real /\ ErrorEvent # Keepalive
  /\ ErrorEvent.event.kind = "terminal_error" /\ IsFailure(ErrorEvent.event) /\ ~IsFailure(Keepalive.event)
<1>1. \A k : Plain(k).kind = k
  BY DEF Plain
<1>2. \A e \in OwnEvents \cup {Usage} : e.kind \notin {"done", "terminal_error", "error", "done_mark", "keepalive"}
  <2>1. \A e \in OwnEvents : e.kind \notin {"done", "terminal_error", "error", "done_mark", "keepalive"}
    BY EventKinds
  <2>2. QED
    BY <2>1, EventKinds
<1>3. \A e \in Real : e.n \in Nat /\ e.n # 0 /\ e.event \in OwnEvents \cup {Usage} /\ e = [n |-> e.n, event |-> e.event]
  BY DEF Real, Entries
<1>4. \A e \in Real : e \in AnyEntry
  BY <1>3 DEF AnyEntry, Entries
<1>5. \A e \in Real : ~IsMark(e) /\ ~IsEnd(e) /\ e # Keepalive /\ e \in Numbered(e.n)
  <2>1. Keepalive.event.kind = "keepalive"
    BY <1>1 DEF Keepalive
  <2>2. QED
    BY <1>2, <1>3, <2>1 DEF IsMark, IsEnd, Numbered
<1>6. \A e \in Real : e.event # Usage => e \in Own
  <2> SUFFICES ASSUME NEW e \in Real, e.event # Usage PROVE e \in Own
    OBVIOUS
  <2>1. e.n \in Nat /\ e.event \in OwnEvents /\ e = [n |-> e.n, event |-> e.event]
    BY <1>3
  <2>2. QED
    BY <2>1 DEF Own, Entries
<1>7. \A k \in Nat, x \in RuntimeEvents : [n |-> k, event |-> x] \in AnyEntry
  BY DEF AnyEntry, Entries
<1>8. Plain("keepalive") \in RuntimeEvents /\ Plain("done") \in RuntimeEvents /\ Plain("terminal_error") \in RuntimeEvents
      /\ Plain("error") \in RuntimeEvents /\ Plain("done_mark") \in RuntimeEvents
  BY DEF RuntimeEvents
<1>9. {ErrorEntry, DoneMark, Keepalive, ErrorEvent} \subseteq AnyEntry
  BY <1>7, <1>8 DEF ErrorEntry, DoneMark, Keepalive, ErrorEvent
<1>10. /\ ErrorEntry.n = 0 /\ DoneMark.n = 0 /\ Keepalive.n = 0 /\ ErrorEvent.n = 0
       /\ ErrorEntry.event.kind = "error" /\ DoneMark.event.kind = "done_mark"
       /\ Keepalive.event.kind = "keepalive" /\ ErrorEvent.event.kind = "terminal_error"
  BY <1>1 DEF ErrorEntry, DoneMark, Keepalive, ErrorEvent
<1>11. IsFailure(ErrorEvent.event) /\ ~IsFailure(Keepalive.event)
  BY PlainFailure DEF ErrorEvent, Keepalive, TerminalKind
<1>12. {ErrorEntry, DoneMark, Keepalive, ErrorEvent} \cap Real = {}
  BY <1>3, <1>10
<1>13. /\ \A e \in {ErrorEntry, DoneMark} : IsMark(e)
       /\ ~IsEnd(Keepalive) /\ IsEnd(ErrorEvent) /\ ErrorEvent # Keepalive /\ ErrorEntry # DoneMark
  BY <1>10 DEF IsMark, IsEnd
<1>14. \A k \in Nat : [n |-> k, event |-> Plain("done")] \in AnyEntry
  BY <1>7, <1>8
<1>15. QED
  BY <1>3, <1>4, <1>5, <1>6, <1>9, <1>10, <1>11, <1>12, <1>13, <1>14

\* what is no part of what the handler said
LEMMA PartFacts ==
  /\ \A T \in OwnParts : T \subseteq Own /\ DoneMark \notin T /\ ErrorEntry \notin T /\ Keepalive \notin T /\ ErrorEvent \notin T
  /\ \A T \in OwnParts, k \in Nat : [n |-> k, event |-> Plain("done")] \notin T /\ [n |-> k, event |-> Usage] \notin T
<1>1. \A k : Plain(k).kind = k
  BY DEF Plain
<1>2. \A e \in OwnEvents : e.kind \notin {"usage", "done", "terminal_error", "error", "done_mark", "keepalive"}
  BY EventKinds
<1>3. \A e \in Own : e.event \in OwnEvents
  BY DEF Own, Entries
<1>4. \A T \in OwnParts : T \subseteq Own
  <2>1. ASSUME NEW some, some \subseteq OwnEvents PROVE Entries(some) \subseteq Own
    BY <2>1 DEF Own, Entries
  <2>2. \A kind : OwnOf(kind) \subseteq Own
    <3> SUFFICES ASSUME NEW kind PROVE OwnOf(kind) \subseteq Own
      OBVIOUS
    <3>1. {event \in OwnEvents : event.kind = kind} \subseteq OwnEvents
      OBVIOUS
    <3>2. QED
      BY <2>1, <3>1 DEF OwnOf
  <2>3. QED
    BY <2>2 DEF OwnParts
<1>5. DoneMark \notin Own /\ ErrorEntry \notin Own /\ Keepalive \notin Own /\ ErrorEvent \notin Own
  BY <1>1, <1>2, <1>3 DEF DoneMark, ErrorEntry, Keepalive, ErrorEvent
<1>6. \A k \in Nat : [n |-> k, event |-> Plain("done")] \notin Own /\ [n |-> k, event |-> Usage] \notin Own
  <2>1. Plain("done").kind = "done" /\ Usage.kind = "usage"
    BY <1>1 DEF Usage
  <2>2. QED
    BY <1>2, <1>3, <2>1
<1>7. QED
  BY <1>4, <1>5, <1>6

\* sequences of entries, put together
LEMMA EntriesConcat ==
  ASSUME NEW s \in Seq(AnyEntry), NEW t \in Seq(AnyEntry)
  PROVE  s \o t \in Seq(AnyEntry) /\ s \o <<>> = s /\ <<>> \o s = s
BY ConcatProperties, ConcatEmptySeq

LEMMA EntriesAppend ==
  ASSUME NEW s \in Seq(AnyEntry), NEW x \in AnyEntry
  PROVE  Append(s, x) = s \o <<x>> /\ Append(s, x) \in Seq(AnyEntry) /\ <<x>> \in Seq(AnyEntry)
<1>1. Append(s, x) = s \o <<x>>
  BY AppendIsConcat
<1>2. QED
  BY <1>1

LEMMA EntriesAssociate ==
  ASSUME NEW s \in Seq(AnyEntry), NEW t \in Seq(AnyEntry), NEW u \in Seq(AnyEntry)
  PROVE  (s \o t) \o u = s \o (t \o u)
BY ConcatAssociative

\* how entries move between three sequences that are read one after the other
IsLast(w, e, i, x) == w \o (e \o Append(i, x)) = Append(w \o (e \o i), x)

LEMMA AppendsToLast ==
  ASSUME NEW w \in Seq(AnyEntry), NEW e \in Seq(AnyEntry), NEW i \in Seq(AnyEntry), NEW x \in AnyEntry
  PROVE  IsLast(w, e, i, x)
<1> DEFINE l == <<x>>
<1>1. Append(i, x) = i \o l /\ l \in Seq(AnyEntry)
  BY EntriesAppend
<1>2. e \o i \in Seq(AnyEntry) /\ w \o (e \o i) \in Seq(AnyEntry)
  BY EntriesConcat
<1>3. Append(w \o (e \o i), x) = (w \o (e \o i)) \o l
  BY <1>2, EntriesAppend
<1> HIDE DEF l
<1>4. (e \o i) \o l = e \o (i \o l)
  BY <1>1, EntriesAssociate, Zenon
<1>5. (w \o (e \o i)) \o l = w \o ((e \o i) \o l)
  BY <1>1, <1>2, EntriesAssociate, ZenonT(60)
<1>6. QED
  BY <1>1, <1>3, <1>4, <1>5 DEF IsLast

LEMMA AppendsToMiddle ==
  ASSUME NEW w \in Seq(AnyEntry), NEW e \in Seq(AnyEntry), NEW x \in AnyEntry
  PROVE  w \o (Append(e, x) \o <<>>) = Append(w \o (e \o <<>>), x)
<1> DEFINE l == <<x>>
<1>1. Append(e, x) = e \o l /\ l \in Seq(AnyEntry) /\ Append(e, x) \in Seq(AnyEntry)
  BY EntriesAppend
<1>2. w \o e \in Seq(AnyEntry) /\ e \o <<>> = e /\ Append(e, x) \o <<>> = Append(e, x)
  BY <1>1, EntriesConcat
<1>3. Append(w \o e, x) = (w \o e) \o l
  BY <1>2, EntriesAppend
<1> HIDE DEF l
<1>4. (w \o e) \o l = w \o (e \o l)
  BY <1>1, EntriesAssociate, Zenon
<1>5. QED
  BY <1>1, <1>2, <1>3, <1>4

LEMMA PrefixOfConcat ==
  ASSUME NEW S, NEW s \in Seq(S), NEW t \in Seq(S)
  PROVE  IsPrefix(s, s \o t)
<1> DEFINE c == s \o t
           N == Len(s)
<1>1. c \in Seq(S) /\ N \in Nat /\ Len(t) \in Nat /\ Len(c) = N + Len(t) /\ \A i \in 1 .. N : c[i] = s[i]
  BY ConcatProperties
<1> HIDE DEF c
<1>2. N <= Len(c)
  BY <1>1
<1>3. /\ SubSeq(s, 1, N) = [i \in 1 .. N |-> s[i]]
      /\ SubSeq(c, 1, N) = [i \in 1 .. N |-> c[i]]
  BY <1>1
<1>4. SubSeq(s, 1, N) = SubSeq(c, 1, N)
  BY <1>1, <1>3
<1>5. QED
  BY <1>2, <1>4 DEF IsPrefix, c

\* while a stream has not ended, what it says is true so far
LEMMA FlowingTells ==
  ASSUME EventTypes, endpoint # "invoke", gen # "ended", ending = "none", Flowing,
         record.status # "completed", second.kind \notin {"events", "response"}
  PROVE  StreamTellsWhatHappened /\ RecordOfTheEnd /\ Len(wire) <= MaxProduced + MaxIdle
<1>1. wire \in Seq(AnyEntry) /\ events \in Seq(AnyEntry) /\ inner \in Seq(AnyEntry) /\ produced \in Seq(AnyEntry)
  BY DEF EventTypes
<1>2. ASSUME NEW T
      PROVE  /\ Where(wire, T) \in Seq(AnyEntry) /\ Where(events, T) \in Seq(AnyEntry) /\ Where(inner, T) \in Seq(AnyEntry)
             /\ Size(wire, T) \in Nat /\ Size(events, T) \in Nat /\ Size(inner, T) \in Nat
  BY <1>1, WhereType DEF Size
<1>3. IsPrefix(HandedYielded, Yielded)
  <2>1. Own \in OwnParts
    BY DEF OwnParts
  <2>2. Yielded = Where(wire, Own) \o (Where(events, Own) \o Where(inner, Own))
    BY <2>1 DEF Flowing, FlowsAs, Yielded
  <2>3. Where(events, Own) \o Where(inner, Own) \in Seq(AnyEntry)
    BY <1>2, ConcatProperties
  <2>4. QED
    BY <1>2, <2>2, <2>3, PrefixOfConcat DEF HandedYielded
<1>4. \A i \in 1 .. Len(wire) : ~IsEnd(wire[i])
  BY EntryFacts DEF Flowing, FlowsAs
<1>5. ASSUME NEW m \in 1 .. Len(wire), NEW n \in 1 .. Len(wire), wire[m] = wire[n], wire[m] # Keepalive
      PROVE  m = n
  <2>1. wire[m] \in Real
    BY <1>5 DEF Flowing, FlowsAs
  <2> DEFINE k == wire[m].n
             T == Numbered(k)
  <2>2. k \in Nat \ {0} /\ wire[m] \in T /\ wire[n] \in T
    BY <1>5, <2>1, EntryFacts
  <2>3. Count(T, wire, events, inner) <= 1
    BY <2>2 DEF Flowing, FlowsAs
  <2> HIDE DEF T, k
  <2>4. Size(wire, T) <= 1
    BY <1>2, <2>3 DEF Count
  <2>5. QED
    BY <1>1, <2>2, <2>4, WhereOnce DEF Size
<1>6. StreamEndsAsItWent
  <2>1. DOMAIN wire = 1 .. Len(wire)
    BY <1>1
  <2>2. QED
    BY <1>3, <1>4, <1>5, <2>1 DEF StreamEndsAsItWent
<1>7. EveryoneIsToldTheSame /\ RecordOfTheEnd
  BY DEF EveryoneIsToldTheSame, RecordOfTheEnd
<1>8. Len(wire) <= MaxProduced + MaxIdle
  <2>1. Size(wire, Real) <= Len(produced)
    <3>1. Count(Real, wire, events, inner) <= Len(produced) /\ Len(produced) \in Nat
      BY <1>1 DEF Flowing, FlowsAs
    <3>2. QED
      BY <1>2, <3>1 DEF Count
  <2>2. Len(wire) = Size(wire, {Keepalive}) + Size(wire, Real) /\ Size(wire, {Keepalive}) <= MaxIdle
    BY DEF Flowing, FlowsAs
  <2>3. Len(produced) <= MaxProduced /\ Len(produced) \in Nat
    BY <1>1 DEF EventTypes
  <2>4. QED
    BY <1>2, <2>1, <2>2, <2>3, SMTT(30)
<1>9. QED
  BY <1>6, <1>7, <1>8 DEF StreamTellsWhatHappened

\* how the parts of a sequence grow with it
LEMMA PartsGrow ==
  ASSUME NEW q \in Seq(AnyEntry), NEW x \in AnyEntry, NEW T
  PROVE  /\ Append(q, x) \in Seq(AnyEntry)
         /\ Where(q, T) \in Seq(AnyEntry) /\ Size(q, T) \in Nat
         /\ x \in T => /\ Where(Append(q, x), T) = Append(Where(q, T), x)
                       /\ Size(Append(q, x), T) = Size(q, T) + 1
         /\ x \notin T => Where(Append(q, x), T) = Where(q, T) /\ Size(Append(q, x), T) = Size(q, T)
<1>1. Where(q, T) \in Seq(AnyEntry) /\ Size(q, T) \in Nat
  BY WhereType DEF Size
<1>2. Where(Append(q, x), T) = IF x \in T THEN Append(Where(q, T), x) ELSE Where(q, T)
  BY WhereAppend
<1>3. Len(Append(Where(q, T), x)) = Size(q, T) + 1
  BY <1>1 DEF Size
<1>4. QED
  BY <1>1, <1>2, <1>3 DEF Size

\* a new entry, with the next number
LEMMA NewEntry ==
  ASSUME NEW p \in Seq(AnyEntry), NEW event \in OwnEvents \cup {Usage}
  PROVE  LET x == [n |-> Len(p) + 1, event |-> event] IN
         /\ x \in Real /\ x \in AnyEntry /\ \A k \in Nat \ {0} : x \in Numbered(k) <=> k = Len(p) + 1
         /\ x \in Queued
<1> DEFINE x == [n |-> Len(p) + 1, event |-> event]
<1>1. Len(p) \in Nat
  OBVIOUS
<1>2. x \in Entries(OwnEvents \cup {Usage}) /\ x.n = Len(p) + 1
  BY <1>1 DEF Entries
<1>3. x \in Real
  BY <1>1, <1>2 DEF Real
<1>4. \A k \in Nat \ {0} : x \in Numbered(k) <=> k = Len(p) + 1
  BY <1>2, <1>3 DEF Numbered
<1>5. x \in AnyEntry
  BY <1>3, EntryFacts
<1>6. QED
  BY <1>3, <1>4, <1>5 DEF Queued


\* the counts while an entry is added to one of three sequences
LEMMA CountIsANumber ==
  ASSUME NEW w \in Seq(AnyEntry), NEW e \in Seq(AnyEntry), NEW i \in Seq(AnyEntry), NEW T
  PROVE  Count(T, w, e, i) \in Nat
<1>1. ASSUME NEW q \in Seq(AnyEntry) PROVE Size(q, T) \in Nat
  BY WhereType DEF Size
<1>2. Size(w, T) \in Nat /\ Size(e, T) \in Nat /\ Size(i, T) \in Nat
  BY <1>1
<1>3. QED
  BY <1>2 DEF Count

LEMMA CountGrowsFirst ==
  ASSUME NEW w \in Seq(AnyEntry), NEW e \in Seq(AnyEntry), NEW i \in Seq(AnyEntry), NEW x \in AnyEntry, NEW T
  PROVE  Count(T, Append(w, x), e, i) = Count(T, w, e, i) + (IF x \in T THEN 1 ELSE 0)
<1>1. Size(w, T) \in Nat /\ Size(e, T) \in Nat /\ Size(i, T) \in Nat
  BY PartsGrow
<1>2. CASE x \in T
  <2>1. Size(Append(w, x), T) = Size(w, T) + 1
    BY <1>2, PartsGrow
  <2>2. QED
    BY <1>1, <1>2, <2>1 DEF Count
<1>3. CASE x \notin T
  <2>1. Size(Append(w, x), T) = Size(w, T)
    BY <1>3, PartsGrow
  <2>2. QED
    BY <1>1, <1>3, <2>1 DEF Count
<1>4. QED
  BY <1>2, <1>3

LEMMA CountGrowsSecond ==
  ASSUME NEW w \in Seq(AnyEntry), NEW e \in Seq(AnyEntry), NEW i \in Seq(AnyEntry), NEW x \in AnyEntry, NEW T
  PROVE  Count(T, w, Append(e, x), i) = Count(T, w, e, i) + (IF x \in T THEN 1 ELSE 0)
<1>1. Size(w, T) \in Nat /\ Size(e, T) \in Nat /\ Size(i, T) \in Nat
  BY PartsGrow
<1>2. CASE x \in T
  <2>1. Size(Append(e, x), T) = Size(e, T) + 1
    BY <1>2, PartsGrow
  <2>2. QED
    BY <1>1, <1>2, <2>1 DEF Count
<1>3. CASE x \notin T
  <2>1. Size(Append(e, x), T) = Size(e, T)
    BY <1>3, PartsGrow
  <2>2. QED
    BY <1>1, <1>3, <2>1 DEF Count
<1>4. QED
  BY <1>2, <1>3

LEMMA CountGrowsThird ==
  ASSUME NEW w \in Seq(AnyEntry), NEW e \in Seq(AnyEntry), NEW i \in Seq(AnyEntry), NEW x \in AnyEntry, NEW T
  PROVE  Count(T, w, e, Append(i, x)) = Count(T, w, e, i) + (IF x \in T THEN 1 ELSE 0)
<1>1. Size(w, T) \in Nat /\ Size(e, T) \in Nat /\ Size(i, T) \in Nat
  BY PartsGrow
<1>2. CASE x \in T
  <2>1. Size(Append(i, x), T) = Size(i, T) + 1
    BY <1>2, PartsGrow
  <2>2. QED
    BY <1>1, <1>2, <2>1 DEF Count
<1>3. CASE x \notin T
  <2>1. Size(Append(i, x), T) = Size(i, T)
    BY <1>3, PartsGrow
  <2>2. QED
    BY <1>1, <1>3, <2>1 DEF Count
<1>4. QED
  BY <1>2, <1>3

\* what the counts are once an entry with the next number is somewhere
CountsOneMore(w, e, i, w1, e1, i1, x) ==
  \A T : /\ Count(T, w, e, i) \in Nat
         /\ Count(T, w1, e1, i1) = Count(T, w, e, i) + (IF x \in T THEN 1 ELSE 0)
HasNumber(x, n) == \A k \in Nat \ {0} : x \in Numbered(k) <=> k = n

LEMMA CountsOfNew ==
  ASSUME NEW w, NEW e, NEW i, NEW w1, NEW e1, NEW i1, NEW p \in Seq(AnyEntry), NEW x \in AnyEntry,
         CountsOneMore(w, e, i, w1, e1, i1, x), FlowsAs(w, e, i, p), HasNumber(x, Len(p) + 1)
  PROVE  /\ Count(Real, w1, e1, i1) <= Len(Append(p, x))
         /\ \A k \in Nat \ {0} : /\ Count(Numbered(k), w1, e1, i1) <= 1
                                 /\ k > Len(Append(p, x)) => Count(Numbered(k), w1, e1, i1) = 0
<1>1. Len(p) \in Nat /\ Len(Append(p, x)) = Len(p) + 1
  OBVIOUS
<1>3. Count(Real, w1, e1, i1) <= Len(p) + 1
  <2> DEFINE c == Count(Real, w, e, i)
             d == Count(Real, w1, e1, i1)
  <2>1. c <= Len(p)
    BY DEF FlowsAs
  <2>2. c \in Nat /\ (d = c \/ d = c + 1)
    BY DEF CountsOneMore
  <2> HIDE DEF c, d
  <2>3. d <= Len(p) + 1
    BY <1>1, <2>1, <2>2
  <2>4. QED
    BY <2>3 DEF d
<1>4. ASSUME NEW k \in Nat \ {0}
      PROVE  /\ Count(Numbered(k), w1, e1, i1) <= 1
             /\ k > Len(p) + 1 => Count(Numbered(k), w1, e1, i1) = 0
  <2> DEFINE c == Count(Numbered(k), w, e, i)
             d == Count(Numbered(k), w1, e1, i1)
  <2>1. c <= 1 /\ (k > Len(p) => c = 0)
    BY DEF FlowsAs
  <2>2. c \in Nat /\ (k = Len(p) + 1 => d = c + 1) /\ (k # Len(p) + 1 => d = c)
    BY DEF CountsOneMore, HasNumber
  <2> HIDE DEF c, d
  <2>4. d <= 1 /\ (k > Len(p) + 1 => d = 0)
    BY <1>1, <2>1, <2>2
  <2>5. QED
    BY <2>4 DEF d
<1>5. QED
  BY <1>1, <1>3, <1>4

\* the parts of the three sequences, one after the other
Line(T, w, e, i) == Where(w, T) \o (Where(e, T) \o Where(i, T))

\* and how they grow
LEMMA LineStays ==
  ASSUME NEW w \in Seq(AnyEntry), NEW e \in Seq(AnyEntry), NEW i \in Seq(AnyEntry), NEW x \in AnyEntry, NEW T,
         x \notin T
  PROVE  /\ Line(T, Append(w, x), e, i) = Line(T, w, e, i)
         /\ Line(T, w, Append(e, x), i) = Line(T, w, e, i)
         /\ Line(T, w, e, Append(i, x)) = Line(T, w, e, i)
<1>1. Where(Append(w, x), T) = Where(w, T) /\ Where(Append(e, x), T) = Where(e, T) /\ Where(Append(i, x), T) = Where(i, T)
  BY PartsGrow
<1>2. QED
  BY <1>1 DEF Line

LEMMA LineGrowsAtEnd ==
  ASSUME NEW w \in Seq(AnyEntry), NEW e \in Seq(AnyEntry), NEW i \in Seq(AnyEntry), NEW x \in AnyEntry, NEW T,
         x \in T
  PROVE  Line(T, w, e, Append(i, x)) = Append(Line(T, w, e, i), x)
<1>1. /\ Where(w, T) \in Seq(AnyEntry) /\ Where(e, T) \in Seq(AnyEntry) /\ Where(i, T) \in Seq(AnyEntry)
      /\ Where(Append(i, x), T) = Append(Where(i, T), x)
  BY PartsGrow
<1> DEFINE a == Where(w, T)
           b == Where(e, T)
           c == Where(i, T)
<1>2. a \in Seq(AnyEntry) /\ b \in Seq(AnyEntry) /\ c \in Seq(AnyEntry)
  BY <1>1
<1>3. Line(T, w, e, i) = a \o (b \o c) /\ Line(T, w, e, Append(i, x)) = a \o (b \o Append(c, x))
  BY <1>1 DEF Line
<1> HIDE DEF a, b, c
<1>4. a \o (b \o Append(c, x)) = Append(a \o (b \o c), x)
  <2>1. x \in AnyEntry
    OBVIOUS
  <2>2. IsLast(a, b, c, x)
    BY <1>2, <2>1, AppendsToLast
  <2>3. QED
    BY <2>2 DEF IsLast
<1>5. QED
  BY <1>3, <1>4

LEMMA LineGrowsInside ==
  ASSUME NEW w \in Seq(AnyEntry), NEW e \in Seq(AnyEntry), NEW x \in AnyEntry, NEW T, x \in T
  PROVE  Line(T, w, Append(e, x), <<>>) = Append(Line(T, w, e, <<>>), x)
<1>1. /\ Where(w, T) \in Seq(AnyEntry) /\ Where(e, T) \in Seq(AnyEntry)
      /\ Where(Append(e, x), T) = Append(Where(e, T), x)
  BY PartsGrow
<1> DEFINE a == Where(w, T)
           b == Where(e, T)
<1>2. a \in Seq(AnyEntry) /\ b \in Seq(AnyEntry)
  BY <1>1
<1>3. Line(T, w, e, <<>>) = a \o (b \o <<>>) /\ Line(T, w, Append(e, x), <<>>) = a \o (Append(b, x) \o <<>>)
  BY <1>1, WhereOfNothing DEF Line
<1> HIDE DEF a, b
<1>4. a \o (Append(b, x) \o <<>>) = Append(a \o (b \o <<>>), x)
  BY <1>2, AppendsToMiddle
<1>5. QED
  BY <1>3, <1>4

\* a usage report goes to the queue e
LEMMA FlowReported ==
  ASSUME NEW w \in Seq(AnyEntry), NEW e \in Seq(AnyEntry), NEW i \in Seq(AnyEntry), NEW p \in Seq(AnyEntry),
         FlowsAs(w, e, i, p), NEW x \in AnyEntry, \A k \in Nat \ {0} : x \in Numbered(k) <=> k = Len(p) + 1,
         \A T \in OwnParts : x \notin T
  PROVE  FlowsAs(w, Append(e, x), i, Append(p, x))
<1>1. x \in AnyEntry
  OBVIOUS
<1>2. \A T \in OwnParts : x \notin T
  OBVIOUS
<1>3. ASSUME NEW T
      PROVE  /\ Count(T, w, e, i) \in Nat
             /\ Count(T, w, Append(e, x), i) = Count(T, w, e, i) + (IF x \in T THEN 1 ELSE 0)
  <2>1. Count(T, w, e, i) \in Nat
    BY CountIsANumber
  <2>2. Count(T, w, Append(e, x), i) = Count(T, w, e, i) + (IF x \in T THEN 1 ELSE 0)
    BY CountGrowsSecond
  <2>3. QED
    BY <2>1, <2>2
<1>4. ASSUME NEW T \in OwnParts PROVE Line(T, w, Append(e, x), i) = Where(Append(p, x), T)
  <2>1. Line(T, w, e, i) = Where(p, T)
    BY DEF FlowsAs, Line
  <2>2. Line(T, w, Append(e, x), i) = Line(T, w, e, i)
    BY <1>2, LineStays
  <2>3. Where(Append(p, x), T) = Where(p, T)
    BY <1>1, <1>2, PartsGrow
  <2>4. QED
    BY <2>1, <2>2, <2>3
<1> DEFINE e1 == Append(e, x)
<1> HIDE DEF e1
<1>5. /\ Count(Real, w, e1, i) <= Len(Append(p, x))
      /\ \A k \in Nat \ {0} : /\ Count(Numbered(k), w, e1, i) <= 1
                              /\ k > Len(Append(p, x)) => Count(Numbered(k), w, e1, i) = 0
  <2>1. CountsOneMore(w, e, i, w, e1, i, x)
    BY <1>3 DEF e1, CountsOneMore
  <2>2. HasNumber(x, Len(p) + 1)
    BY DEF HasNumber
  <2>3. QED
    BY <1>1, <2>1, <2>2, CountsOfNew
<1>6. QED
  BY <1>4, <1>5 DEF FlowsAs, Line, e1

\* an event of the handler's goes to the queue i, or to e if there is none in i
LEMMA FlowYielded ==
  ASSUME NEW w \in Seq(AnyEntry), NEW e \in Seq(AnyEntry), NEW i \in Seq(AnyEntry), NEW p \in Seq(AnyEntry),
         FlowsAs(w, e, i, p), NEW x \in AnyEntry, \A k \in Nat \ {0} : x \in Numbered(k) <=> k = Len(p) + 1
  PROVE  /\ FlowsAs(w, e, Append(i, x), Append(p, x))
         /\ i = <<>> => FlowsAs(w, Append(e, x), i, Append(p, x))
<1>1. x \in AnyEntry
  OBVIOUS
<1>2. ASSUME NEW T
      PROVE  /\ Count(T, w, e, i) \in Nat
             /\ Count(T, w, Append(e, x), i) = Count(T, w, e, i) + (IF x \in T THEN 1 ELSE 0)
             /\ Count(T, w, e, Append(i, x)) = Count(T, w, e, i) + (IF x \in T THEN 1 ELSE 0)
  <2>1. Count(T, w, e, i) \in Nat
    BY CountIsANumber
  <2>2. Count(T, w, Append(e, x), i) = Count(T, w, e, i) + (IF x \in T THEN 1 ELSE 0)
    BY CountGrowsSecond
  <2>3. Count(T, w, e, Append(i, x)) = Count(T, w, e, i) + (IF x \in T THEN 1 ELSE 0)
    BY CountGrowsThird
  <2>4. QED
    BY <2>1, <2>2, <2>3
<1> DEFINE e1 == Append(e, x)
           i1 == Append(i, x)
           p1 == Append(p, x)
<1>3. ASSUME NEW T \in OwnParts
      PROVE  Line(T, w, e, i1) = Where(p1, T) /\ (i = <<>> => Line(T, w, e1, i) = Where(p1, T))
  <2>1. Line(T, w, e, i) = Where(p, T)
    BY DEF FlowsAs, Line
  <2>5. x \notin T => Line(T, w, e1, i) = Line(T, w, e, i) /\ Line(T, w, e, i1) = Line(T, w, e, i)
    BY LineStays
  <2>6. x \in T => Line(T, w, e, i1) = Append(Line(T, w, e, i), x)
    BY LineGrowsAtEnd, SMTT(30)
  <2>7. x \in T /\ i = <<>> => Line(T, w, e1, i) = Append(Line(T, w, e, i), x)
    BY LineGrowsInside
  <2>2. /\ x \notin T => Line(T, w, e1, i) = Line(T, w, e, i) /\ Line(T, w, e, i1) = Line(T, w, e, i)
        /\ x \in T => /\ Line(T, w, e, i1) = Append(Line(T, w, e, i), x)
                      /\ i = <<>> => Line(T, w, e1, i) = Append(Line(T, w, e, i), x)
    BY <2>5, <2>6, <2>7
  <2>3. (x \in T => Where(p1, T) = Append(Where(p, T), x)) /\ (x \notin T => Where(p1, T) = Where(p, T))
    BY <1>1, PartsGrow
  <2> HIDE DEF e1, i1, p1
  <2>4. QED
    BY <2>1, <2>2, <2>3
<1>4. CountsOneMore(w, e, i, w, e, i1, x)
  BY <1>2 DEF CountsOneMore
<1>5. CountsOneMore(w, e, i, w, e1, i, x)
  BY <1>2 DEF CountsOneMore
<1>9. HasNumber(x, Len(p) + 1)
  BY DEF HasNumber
<1> HIDE DEF e1, i1
<1>6. FlowsAs(w, e, i1, p1)
  <2>1. /\ Count(Real, w, e, i1) <= Len(Append(p, x))
        /\ \A k \in Nat \ {0} : /\ Count(Numbered(k), w, e, i1) <= 1
                                /\ k > Len(Append(p, x)) => Count(Numbered(k), w, e, i1) = 0
    BY <1>1, <1>4, <1>9, CountsOfNew
  <2>2. QED
    BY <1>3, <2>1 DEF FlowsAs, Line
<1>7. ASSUME i = <<>> PROVE FlowsAs(w, e1, i, p1)
  <2>1. /\ Count(Real, w, e1, i) <= Len(Append(p, x))
        /\ \A k \in Nat \ {0} : /\ Count(Numbered(k), w, e1, i) <= 1
                                /\ k > Len(Append(p, x)) => Count(Numbered(k), w, e1, i) = 0
    BY <1>1, <1>5, <1>9, CountsOfNew
  <2>2. QED
    BY <1>3, <1>7, <2>1 DEF FlowsAs, Line
<1>8. QED
  BY <1>6, <1>7 DEF e1, i1, p1

\* what is first in a sequence, and its part behind that
LEMMA SizeOfTail ==
  ASSUME NEW q \in Seq(AnyEntry), q # <<>>, NEW T
  PROVE  /\ Size(q, T) = (IF Head(q) \in T THEN 1 ELSE 0) + Size(Tail(q), T)
         /\ Head(q) \in AnyEntry /\ Tail(q) \in Seq(AnyEntry)
<1>2. Head(q) \in AnyEntry /\ Tail(q) \in Seq(AnyEntry)
  OBVIOUS
<1>1. Len(Where(q, T)) = (IF Head(q) \in T THEN 1 ELSE 0) + Len(Where(Tail(q), T))
  <2> DEFINE b == Where(Tail(q), T)
             h == IF Head(q) \in T THEN <<Head(q)>> ELSE <<>>
  <2>1. Where(q, T) = h \o b
    BY WhereTail
  <2>2. b \in Seq(AnyEntry)
    BY <1>2, WhereType
  <2>3. Len(h) = IF Head(q) \in T THEN 1 ELSE 0
    BY <1>2
  <2>6. h \in Seq(AnyEntry)
    BY <1>2
  <2> HIDE DEF b, h
  <2>4. Len(h \o b) = Len(h) + Len(b)
    BY <2>2, <2>6, ConcatProperties
  <2>5. QED
    BY <2>1, <2>3, <2>4 DEF b
<1>3. QED
  BY <1>1, <1>2 DEF Size

LEMMA CountWhenSent ==
  ASSUME NEW w \in Seq(AnyEntry), NEW e \in Seq(AnyEntry), NEW i \in Seq(AnyEntry), e # <<>>, NEW T
  PROVE  Count(T, Append(w, Head(e)), Tail(e), i) = Count(T, w, e, i)
<1> DEFINE x == Head(e)
           t == Tail(e)
<1>1. Size(e, T) = (IF x \in T THEN 1 ELSE 0) + Size(t, T) /\ x \in AnyEntry /\ t \in Seq(AnyEntry)
  BY SizeOfTail
<1> HIDE DEF x, t
<1>2. Size(w, T) \in Nat /\ Size(t, T) \in Nat /\ Size(i, T) \in Nat
  BY <1>1, PartsGrow
<1>3. Size(Append(w, x), T) = Size(w, T) + (IF x \in T THEN 1 ELSE 0)
  <2>1. x \in T => Size(Append(w, x), T) = Size(w, T) + 1
    BY <1>1, PartsGrow
  <2>2. x \notin T => Size(Append(w, x), T) = Size(w, T)
    BY <1>1, PartsGrow
  <2>3. QED
    BY <1>2, <2>1, <2>2
<1>4. Count(T, Append(w, x), t, i) = Count(T, w, e, i)
  BY <1>1, <1>2, <1>3 DEF Count
<1>5. QED
  BY <1>4 DEF x, t

LEMMA CountWhenForwarded ==
  ASSUME NEW w \in Seq(AnyEntry), NEW e \in Seq(AnyEntry), NEW i \in Seq(AnyEntry), i # <<>>, NEW T
  PROVE  Count(T, w, Append(e, Head(i)), Tail(i)) = Count(T, w, e, i)
<1> DEFINE x == Head(i)
           t == Tail(i)
<1>1. Size(i, T) = (IF x \in T THEN 1 ELSE 0) + Size(t, T) /\ x \in AnyEntry /\ t \in Seq(AnyEntry)
  BY SizeOfTail
<1> HIDE DEF x, t
<1>2. Size(w, T) \in Nat /\ Size(t, T) \in Nat /\ Size(e, T) \in Nat
  BY <1>1, PartsGrow
<1>3. Size(Append(e, x), T) = Size(e, T) + (IF x \in T THEN 1 ELSE 0)
  <2>1. x \in T => Size(Append(e, x), T) = Size(e, T) + 1
    BY <1>1, PartsGrow
  <2>2. x \notin T => Size(Append(e, x), T) = Size(e, T)
    BY <1>1, PartsGrow
  <2>3. QED
    BY <1>2, <2>1, <2>2
<1>4. Count(T, w, Append(e, x), t) = Count(T, w, e, i)
  BY <1>1, <1>2, <1>3 DEF Count
<1>5. QED
  BY <1>4 DEF x, t

LEMMA LineWhenSent ==
  ASSUME NEW w \in Seq(AnyEntry), NEW e \in Seq(AnyEntry), NEW i \in Seq(AnyEntry), e # <<>>, NEW T
  PROVE  Line(T, Append(w, Head(e)), Tail(e), i) = Line(T, w, e, i)
<1> DEFINE x == Head(e)
           t == Tail(e)
<1>1. /\ Where(e, T) = (IF x \in T THEN <<x>> ELSE <<>>) \o Where(t, T)
      /\ x \in AnyEntry /\ t \in Seq(AnyEntry)
  BY WhereTail
<1> HIDE DEF x, t
<1> DEFINE l == <<x>>
<1>6. l \in Seq(AnyEntry)
  BY <1>1, EntriesAppend
<1>8. ASSUME NEW p \in Seq(AnyEntry), NEW r \in Seq(AnyEntry)
      PROVE  (p \o l) \o r = p \o (l \o r)
  BY <1>6, EntriesAssociate, ZenonT(60)
<1>9. ASSUME NEW p \in Seq(AnyEntry), NEW r \in Seq(AnyEntry)
      PROVE  (l \o p) \o r = l \o (p \o r)
  BY <1>6, EntriesAssociate, Zenon
<1>7. \A q \in Seq(AnyEntry) : Append(q, x) = q \o l /\ <<>> \o q = q
  BY <1>1, EntriesAppend, EntriesConcat
<1> HIDE DEF l
<1>2. Where(w, T) \in Seq(AnyEntry) /\ Where(t, T) \in Seq(AnyEntry) /\ Where(i, T) \in Seq(AnyEntry)
  BY <1>1, PartsGrow
<1> DEFINE a == Where(w, T)
           b == Where(t, T)
           c == Where(i, T)
<1>3. CASE x \in T
  <2>6. Where(Append(w, x), T) = Append(a, x)
    BY <1>1, <1>3, PartsGrow
  <2>7. Append(a, x) = a \o l
    BY <1>2, <1>7
  <2>8. Where(e, T) = l \o b
    BY <1>1, <1>3 DEF l
  <2>1. Where(Append(w, x), T) = a \o l /\ Where(e, T) = l \o b
    BY <2>6, <2>7, <2>8
  <2>2. Line(T, Append(w, x), t, i) = (a \o l) \o (b \o c) /\ Line(T, w, e, i) = a \o ((l \o b) \o c)
    BY <2>1 DEF Line
  <2>3. a \in Seq(AnyEntry) /\ b \in Seq(AnyEntry) /\ c \in Seq(AnyEntry)
    BY <1>2
  <2> HIDE DEF a, b, c
  <2>4. (a \o l) \o (b \o c) = a \o ((l \o b) \o c)
    <3>1. b \o c \in Seq(AnyEntry)
      BY <2>3, EntriesConcat
    <3>2. (a \o l) \o (b \o c) = a \o (l \o (b \o c))
      BY <1>8, <2>3, <3>1
    <3>3. (l \o b) \o c = l \o (b \o c)
      BY <1>9, <2>3
    <3>4. QED
      BY <3>2, <3>3
  <2>5. QED
    BY <2>2, <2>4 DEF x, t
<1>4. CASE x \notin T
  <2>1. Where(Append(w, x), T) = a
    BY <1>1, <1>4, PartsGrow
  <2>2. Where(e, T) = <<>> \o b
    BY <1>1, <1>4
  <2>3. b \in Seq(AnyEntry)
    BY <1>2
  <2> HIDE DEF a, b, c
  <2>4. <<>> \o b = b
    BY <1>7, <2>3
  <2>5. QED
    BY <2>1, <2>2, <2>4 DEF Line, a, b, c, x, t
<1>5. QED
  BY <1>3, <1>4

LEMMA LineWhenForwarded ==
  ASSUME NEW w \in Seq(AnyEntry), NEW e \in Seq(AnyEntry), NEW i \in Seq(AnyEntry), i # <<>>, NEW T
  PROVE  Line(T, w, Append(e, Head(i)), Tail(i)) = Line(T, w, e, i)
<1> DEFINE x == Head(i)
           t == Tail(i)
<1>1. /\ Where(i, T) = (IF x \in T THEN <<x>> ELSE <<>>) \o Where(t, T)
      /\ x \in AnyEntry /\ t \in Seq(AnyEntry)
  BY WhereTail
<1> HIDE DEF x, t
<1> DEFINE l == <<x>>
<1>6. l \in Seq(AnyEntry)
  BY <1>1, EntriesAppend
<1>8. ASSUME NEW p \in Seq(AnyEntry), NEW r \in Seq(AnyEntry)
      PROVE  (p \o l) \o r = p \o (l \o r)
  BY <1>6, EntriesAssociate, ZenonT(60)
<1>7. \A q \in Seq(AnyEntry) : Append(q, x) = q \o l /\ <<>> \o q = q
  BY <1>1, EntriesAppend, EntriesConcat
<1> HIDE DEF l
<1>2. Where(w, T) \in Seq(AnyEntry) /\ Where(t, T) \in Seq(AnyEntry) /\ Where(e, T) \in Seq(AnyEntry)
  BY <1>1, PartsGrow
<1> DEFINE a == Where(w, T)
           b == Where(e, T)
           c == Where(t, T)
<1>3. CASE x \in T
  <2>6. Where(Append(e, x), T) = Append(b, x)
    BY <1>1, <1>3, PartsGrow
  <2>7. Append(b, x) = b \o l
    BY <1>2, <1>7
  <2>8. Where(i, T) = l \o c
    BY <1>1, <1>3 DEF l
  <2>1. Where(Append(e, x), T) = b \o l /\ Where(i, T) = l \o c
    BY <2>6, <2>7, <2>8
  <2>2. Line(T, w, Append(e, x), t) = a \o ((b \o l) \o c) /\ Line(T, w, e, i) = a \o (b \o (l \o c))
    BY <2>1 DEF Line
  <2>3. a \in Seq(AnyEntry) /\ b \in Seq(AnyEntry) /\ c \in Seq(AnyEntry)
    BY <1>2
  <2> HIDE DEF a, b, c
  <2>4. a \o ((b \o l) \o c) = a \o (b \o (l \o c))
    <3>1. (b \o l) \o c = b \o (l \o c)
      BY <1>8, <2>3
    <3>2. QED
      BY <3>1
  <2>5. QED
    BY <2>2, <2>4 DEF x, t
<1>4. CASE x \notin T
  <2>1. Where(Append(e, x), T) = b
    BY <1>1, <1>4, PartsGrow
  <2>2. Where(i, T) = <<>> \o c
    BY <1>1, <1>4
  <2>3. c \in Seq(AnyEntry)
    BY <1>2
  <2> HIDE DEF a, b, c
  <2>4. <<>> \o c = c
    BY <1>7, <2>3
  <2>5. QED
    BY <2>1, <2>2, <2>4 DEF Line, a, b, c, x, t
<1>5. QED
  BY <1>3, <1>4

\* FlowsAs depends on the parts and the counts alone, but for what is on the wire
LEMMA FlowsAlike ==
  ASSUME NEW w, NEW e, NEW i, NEW e1, NEW i1, NEW p, FlowsAs(w, e, i, p),
         \A T \in OwnParts : Line(T, w, e1, i1) = Line(T, w, e, i),
         Count(Real, w, e1, i1) = Count(Real, w, e, i),
         \A k \in Nat \ {0} : Count(Numbered(k), w, e1, i1) = Count(Numbered(k), w, e, i)
  PROVE  FlowsAs(w, e1, i1, p)
<1>1. \A T \in OwnParts : Line(T, w, e1, i1) = Where(p, T)
  BY DEF FlowsAs, Line
<1>2. Count(Real, w, e1, i1) <= Len(p)
  BY DEF FlowsAs
<1>3. \A k \in Nat \ {0} :
        Count(Numbered(k), w, e1, i1) <= 1 /\ (k > Len(p) => Count(Numbered(k), w, e1, i1) = 0)
  BY DEF FlowsAs
<1>4. QED
  BY <1>1, <1>2, <1>3 DEF FlowsAs, Line

\* a mark is no part of it
LEMMA MarkIsApart ==
  ASSUME NEW m \in {DoneMark, ErrorEntry}
  PROVE  m \in AnyEntry /\ m \notin Real /\ (\A k \in Nat \ {0} : m \notin Numbered(k)) /\ \A T \in OwnParts : m \notin T
<1>1. m \in AnyEntry /\ m \notin Real
  BY EntryFacts
<1>2. \A k : Numbered(k) \subseteq Real
  BY DEF Numbered
<1>3. \A T \in OwnParts : m \notin T
  BY PartFacts
<1>4. QED
  BY <1>1, <1>2, <1>3

LEMMA FlowMarked ==
  ASSUME NEW w \in Seq(AnyEntry), NEW e \in Seq(AnyEntry), NEW i \in Seq(AnyEntry), NEW p,
         FlowsAs(w, e, i, p), NEW m \in {DoneMark, ErrorEntry}
  PROVE  FlowsAs(w, Append(e, m), i, p) /\ FlowsAs(w, e, Append(i, m), p)
<1>1. m \in AnyEntry /\ m \notin Real /\ (\A k \in Nat \ {0} : m \notin Numbered(k)) /\ \A T \in OwnParts : m \notin T
  BY MarkIsApart
<1>2. ASSUME NEW T, m \notin T
      PROVE  Count(T, w, Append(e, m), i) = Count(T, w, e, i) /\ Count(T, w, e, Append(i, m)) = Count(T, w, e, i)
  <2>0. m \in AnyEntry
    BY <1>1
  <2>1. Count(T, w, e, i) \in Nat
    BY CountIsANumber
  <2>2. Count(T, w, Append(e, m), i) = Count(T, w, e, i) + (IF m \in T THEN 1 ELSE 0)
    BY <2>0, CountGrowsSecond
  <2>3. Count(T, w, e, Append(i, m)) = Count(T, w, e, i) + (IF m \in T THEN 1 ELSE 0)
    BY <2>0, CountGrowsThird
  <2>4. QED
    BY <1>2, <2>1, <2>2, <2>3
<1>3. ASSUME NEW T \in OwnParts
      PROVE  Line(T, w, Append(e, m), i) = Line(T, w, e, i) /\ Line(T, w, e, Append(i, m)) = Line(T, w, e, i)
  BY <1>1, LineStays
<1> DEFINE e1 == Append(e, m)
           i1 == Append(i, m)
<1>4. /\ \A T \in OwnParts : Line(T, w, e1, i) = Line(T, w, e, i) /\ Line(T, w, e, i1) = Line(T, w, e, i)
      /\ Count(Real, w, e1, i) = Count(Real, w, e, i) /\ Count(Real, w, e, i1) = Count(Real, w, e, i)
      /\ \A k \in Nat \ {0} : /\ Count(Numbered(k), w, e1, i) = Count(Numbered(k), w, e, i)
                              /\ Count(Numbered(k), w, e, i1) = Count(Numbered(k), w, e, i)
  BY <1>1, <1>2, <1>3
<1> HIDE DEF e1, i1
<1>5. FlowsAs(w, e1, i, p)
  BY <1>4, FlowsAlike
<1>6. FlowsAs(w, e, i1, p)
  BY <1>4, FlowsAlike
<1>7. QED
  BY <1>5, <1>6 DEF e1, i1

LEMMA FlowForwarded ==
  ASSUME NEW w \in Seq(AnyEntry), NEW e \in Seq(AnyEntry), NEW i \in Seq(AnyEntry), NEW p,
         FlowsAs(w, e, i, p), i # <<>>
  PROVE  FlowsAs(w, Append(e, Head(i)), Tail(i), p)
<1>1. \A T : Count(T, w, Append(e, Head(i)), Tail(i)) = Count(T, w, e, i)
  BY CountWhenForwarded
<1>2. \A T : Line(T, w, Append(e, Head(i)), Tail(i)) = Line(T, w, e, i)
  BY LineWhenForwarded
<1> DEFINE e1 == Append(e, Head(i))
           i1 == Tail(i)
<1>3. \A T : Count(T, w, e1, i1) = Count(T, w, e, i) /\ Line(T, w, e1, i1) = Line(T, w, e, i)
  BY <1>1, <1>2
<1> HIDE DEF e1, i1
<1>4. FlowsAs(w, e1, i1, p)
  BY <1>3, FlowsAlike
<1>5. QED
  BY <1>4 DEF e1, i1

\* marks alone can be dropped
LEMMA FlowDropped ==
  ASSUME NEW w \in Seq(AnyEntry), NEW e \in Seq(AnyEntry), NEW i \in Seq(AnyEntry), NEW p,
         FlowsAs(w, e, i, p), \A n \in 1 .. Len(i) : i[n] \in {DoneMark, ErrorEntry}
  PROVE  FlowsAs(w, e, <<>>, p)
<1>1. ASSUME NEW T, DoneMark \notin T, ErrorEntry \notin T PROVE Where(i, T) = <<>> /\ Where(<<>>, T) = <<>>
  <2>1. \A n \in 1 .. Len(i) : i[n] \notin T
    BY <1>1
  <2>2. QED
    BY <2>1, WhereFound, WhereOfNothing
<1> DEFINE i1 == <<>>
<1>2. ASSUME NEW T, DoneMark \notin T, ErrorEntry \notin T
      PROVE  Count(T, w, e, i1) = Count(T, w, e, i) /\ Line(T, w, e, i1) = Line(T, w, e, i)
  BY <1>1, <1>2 DEF Count, Size, Line
<1> HIDE DEF i1
<1>3. /\ \A T \in OwnParts : Line(T, w, e, i1) = Line(T, w, e, i)
      /\ Count(Real, w, e, i1) = Count(Real, w, e, i)
      /\ \A k \in Nat \ {0} : Count(Numbered(k), w, e, i1) = Count(Numbered(k), w, e, i)
  BY <1>2, MarkIsApart
<1>4. FlowsAs(w, e, i1, p)
  BY <1>3, FlowsAlike
<1>5. QED
  BY <1>4 DEF i1

\* an event or a usage report is handed on
LEMMA FlowSent ==
  ASSUME NEW w \in Seq(AnyEntry), NEW e \in Seq(AnyEntry), NEW i \in Seq(AnyEntry), NEW p,
         FlowsAs(w, e, i, p), e # <<>>, Head(e) \in Real, ~IsFailure(Head(e).event)
  PROVE  FlowsAs(Append(w, Head(e)), Tail(e), i, p)
<1> DEFINE x == Head(e)
           t == Tail(e)
<1>1. x \in AnyEntry /\ x \in Real /\ ~IsFailure(x.event) /\ x \notin {Keepalive}
  BY EntryFacts
<1>2. \A T : Count(T, Append(w, x), t, i) = Count(T, w, e, i)
  BY CountWhenSent
<1>3. \A T : Line(T, Append(w, x), t, i) = Line(T, w, e, i)
  BY LineWhenSent
<1> HIDE DEF x, t
<1>4. Len(w) \in Nat /\ Len(Append(w, x)) = Len(w) + 1 /\ Append(w, x)[Len(w) + 1] = x
      /\ \A n \in 1 .. Len(w) : Append(w, x)[n] = w[n]
  BY <1>1
<1>5. Size(Append(w, x), Real) = Size(w, Real) + 1 /\ Size(w, Real) \in Nat
  BY <1>1, PartsGrow
<1>6. Size(Append(w, x), {Keepalive}) = Size(w, {Keepalive}) /\ Size(w, {Keepalive}) \in Nat
  BY <1>1, PartsGrow
<1> DEFINE w1 == Append(w, x)
<1>7. ASSUME NEW n \in 1 .. Len(w1) PROVE w1[n] = Keepalive \/ (w1[n] \in Real /\ ~IsFailure(w1[n].event))
  <2>1. CASE n \in 1 .. Len(w)
    BY <1>4, <2>1 DEF FlowsAs
  <2>2. CASE n = Len(w) + 1
    BY <1>1, <1>4, <2>2
  <2>3. QED
    BY <1>4, <2>1, <2>2
<1>8. Len(w) = Size(w, {Keepalive}) + Size(w, Real) /\ Size(w, {Keepalive}) <= MaxIdle
  BY DEF FlowsAs
<1>9. Len(w1) = Size(w1, {Keepalive}) + Size(w1, Real) /\ Size(w1, {Keepalive}) <= MaxIdle
  BY <1>4, <1>5, <1>6, <1>8
<1>10. /\ \A T \in OwnParts : Line(T, w1, t, i) = Where(p, T)
       /\ Count(Real, w1, t, i) <= Len(p)
       /\ \A k \in Nat \ {0} :
            Count(Numbered(k), w1, t, i) <= 1 /\ (k > Len(p) => Count(Numbered(k), w1, t, i) = 0)
  BY <1>2, <1>3 DEF FlowsAs, Line
<1> HIDE DEF w1
<1>11. FlowsAs(w1, t, i, p)
  BY <1>7, <1>9, <1>10 DEF FlowsAs, Line
<1>12. QED
  BY <1>11 DEF w1, x, t

\* or a keepalive is sent
LEMMA FlowKeptAlive ==
  ASSUME NEW w \in Seq(AnyEntry), NEW e \in Seq(AnyEntry), NEW i \in Seq(AnyEntry), NEW p,
         FlowsAs(w, e, i, p), Size(w, {Keepalive}) < MaxIdle
  PROVE  FlowsAs(Append(w, Keepalive), e, i, p)
<1> DEFINE x == Keepalive
<1>1. x \in AnyEntry /\ x \notin Real /\ x \in {Keepalive} /\ x = Keepalive
  BY EntryFacts
<1>2. (\A k : x \notin Numbered(k)) /\ \A T \in OwnParts : x \notin T
  BY <1>1, PartFacts DEF Numbered
<1> HIDE DEF x
<1>3. ASSUME NEW T, x \notin T PROVE Count(T, Append(w, x), e, i) = Count(T, w, e, i)
  <2>1. Count(T, Append(w, x), e, i) = Count(T, w, e, i) + (IF x \in T THEN 1 ELSE 0)
    BY <1>1, CountGrowsFirst
  <2>2. Count(T, w, e, i) \in Nat
    BY CountIsANumber
  <2>3. QED
    BY <1>3, <2>1, <2>2
<1>4. ASSUME NEW T \in OwnParts PROVE Line(T, Append(w, x), e, i) = Line(T, w, e, i)
  BY <1>1, <1>2, LineStays
<1>5. Len(w) \in Nat /\ Len(Append(w, x)) = Len(w) + 1 /\ Append(w, x)[Len(w) + 1] = x
      /\ \A n \in 1 .. Len(w) : Append(w, x)[n] = w[n]
  BY <1>1
<1>6. Size(Append(w, x), Real) = Size(w, Real) /\ Size(w, Real) \in Nat
  BY <1>1, PartsGrow
<1>7. Size(Append(w, x), {Keepalive}) = Size(w, {Keepalive}) + 1 /\ Size(w, {Keepalive}) \in Nat
  BY <1>1, PartsGrow
<1> DEFINE w1 == Append(w, x)
<1>8. ASSUME NEW n \in 1 .. Len(w1) PROVE w1[n] = Keepalive \/ (w1[n] \in Real /\ ~IsFailure(w1[n].event))
  <2>1. CASE n \in 1 .. Len(w)
    BY <1>5, <2>1 DEF FlowsAs
  <2>2. CASE n = Len(w) + 1
    BY <1>1, <1>5, <2>2
  <2>3. QED
    BY <1>5, <2>1, <2>2
<1>9. Len(w) = Size(w, {Keepalive}) + Size(w, Real)
  BY DEF FlowsAs
<1>10. Len(w1) = Size(w1, {Keepalive}) + Size(w1, Real) /\ Size(w1, {Keepalive}) <= MaxIdle
  BY <1>5, <1>6, <1>7, <1>9
<1>11. /\ \A T \in OwnParts : Line(T, w1, e, i) = Where(p, T)
       /\ Count(Real, w1, e, i) <= Len(p)
       /\ \A k \in Nat \ {0} :
            Count(Numbered(k), w1, e, i) <= 1 /\ (k > Len(p) => Count(Numbered(k), w1, e, i) = 0)
  BY <1>1, <1>2, <1>3, <1>4 DEF FlowsAs, Line
<1> HIDE DEF w1
<1>12. FlowsAs(w1, e, i, p)
  BY <1>8, <1>10, <1>11 DEF FlowsAs, Line
<1>13. QED
  BY <1>1, <1>12 DEF w1

(* What is chosen from what was chosen.                                     *)
LEMMA WhereWithin ==
  ASSUME NEW S, NEW s \in Seq(S), NEW T, NEW U, U \subseteq T
  PROVE  Where(Where(s, T), U) = Where(s, U)
<1> DEFINE N == Len(s)
           u(n) == SubSeq(s, 1, n)
           I == {n \in 0 .. N : Where(Where(u(n), T), U) = Where(u(n), U)}
<1>1. N \in Nat
  OBVIOUS
<1>2. 0 \in I
  <2>1. u(0) = <<>>
    OBVIOUS
  <2>2. Where(Where(<<>>, T), U) = Where(<<>>, U)
    BY WhereOfNothing
  <2>3. Where(Where(u(0), T), U) = Where(u(0), U)
    BY <2>1, <2>2
  <2> HIDE DEF u
  <2>4. QED
    BY <1>1, <2>3
<1>3. ASSUME NEW n \in 1 .. N, n - 1 \in I PROVE n \in I
  <2>1. PICK m \in 0 .. N : n = m + 1 /\ n - 1 = m
    BY <1>1
  <2>2. u(m) \in Seq(S) /\ s[n] \in S /\ u(n) = Append(u(m), s[n])
    BY <1>1, <2>1
  <2>3. Where(Where(u(m), T), U) = Where(u(m), U)
    BY <1>3, <2>1
  <2> DEFINE q == u(m)
             x == s[n]
  <2>4. q \in Seq(S) /\ x \in S /\ Where(Where(q, T), U) = Where(q, U) /\ u(n) = Append(q, x)
    BY <2>2, <2>3
  <2> HIDE DEF u, q, x
  <2>5. /\ x \in T => Where(Append(q, x), T) = Append(Where(q, T), x)
        /\ x \notin T => Where(Append(q, x), T) = Where(q, T)
    BY <2>4, WhereAppend
  <2>6. /\ x \in U => Where(Append(q, x), U) = Append(Where(q, U), x)
        /\ x \notin U => Where(Append(q, x), U) = Where(q, U)
    BY <2>4, WhereAppend
  <2>7. Where(q, T) \in Seq(S)
    BY <2>4, WhereType
  <2>8. /\ x \in U => Where(Append(Where(q, T), x), U) = Append(Where(Where(q, T), U), x)
        /\ x \notin U => Where(Append(Where(q, T), x), U) = Where(Where(q, T), U)
    BY <2>4, <2>7, WhereAppend
  <2>9. Where(Where(Append(q, x), T), U) = Where(Append(q, x), U)
    <3>1. CASE x \in U
      <4>1. x \in T
        BY <3>1
      <4>2. QED
        BY <2>4, <2>5, <2>6, <2>8, <3>1, <4>1
    <3>2. CASE x \notin U /\ x \in T
      BY <2>4, <2>5, <2>6, <2>8, <3>2
    <3>3. CASE x \notin T
      <4>1. x \notin U
        BY <3>3
      <4>2. QED
        BY <2>4, <2>5, <2>6, <3>3, <4>1
    <3>4. QED
      BY <3>1, <3>2, <3>3
  <2>10. Where(Where(u(n), T), U) = Where(u(n), U)
    BY <2>4, <2>9
  <2>11. QED
    BY <2>10
<1>4. N \in I
  <2> HIDE DEF I, N
  <2>1. \A n \in 0 .. N : n \in I
    BY <1>1, <1>2, <1>3, UpTo
  <2>2. QED
    BY <1>1, <2>1
<1>5. u(N) = s
  OBVIOUS
<1>6. QED
  BY <1>4, <1>5

\* what holds of a stream that is being read
Reading == EventInv /\ endpoint # "invoke" /\ gen = "reading"

LEMMA ReadingFacts ==
  ASSUME Reading
  PROVE  /\ EventTypes /\ Flowing /\ MarksOfTheEnd
         /\ wire \in Seq(AnyEntry) /\ events \in Seq(AnyEntry) /\ inner \in Seq(AnyEntry) /\ produced \in Seq(AnyEntry)
         /\ ending = "none" /\ record.status # "completed" /\ second.kind \notin {"events", "response"}
BY DEF Reading, EventInv, EventTypes

\* a step after which it is still read
LEMMA ReadsOn ==
  ASSUME Reading, UNCHANGED <<endpoint, gen, ending, record, second>>,
         handler' \in {"running", "returned", "raised", "cancelled"}, Len(produced') <= MaxProduced,
         produced' \in Seq(AnyEntry), wire' \in Seq(AnyEntry), events' \in Seq(AnyEntry), inner' \in Seq(AnyEntry),
         \A n \in 1 .. Len(produced') : produced'[n] \in Real,
         \A n \in 1 .. Len(events') : events'[n] \in Queued,
         \A n \in 1 .. Len(inner') : inner'[n] \in Queued,
         FlowsAs(wire', events', inner', produced'), MarksOfTheEnd'
  PROVE  EventInv'
<1>1. EventTypes'
  BY DEF EventTypes, Reading, EventInv
<1>2. Flowing' /\ (record.status # "completed")' /\ (second.kind \notin {"events", "response"})' /\ (endpoint # "invoke")'
      /\ (gen = "reading" /\ ending = "none")'
  BY ReadingFacts DEF Flowing, Reading
<1>3. RecordOfTheEnd'
  BY <1>2 DEF RecordOfTheEnd
<1>4. QED
  BY <1>1, <1>2, <1>3 DEF EventInv

\* what is added to a sequence, and what is behind its first element
LEMMA Added ==
  ASSUME NEW q \in Seq(AnyEntry), NEW x \in AnyEntry
  PROVE  /\ Append(q, x) \in Seq(AnyEntry) /\ Len(q) \in Nat /\ Len(Append(q, x)) = Len(q) + 1
         /\ Append(q, x)[Len(q) + 1] = x /\ \A n \in 1 .. Len(q) : Append(q, x)[n] = q[n]
OBVIOUS

LEMMA AddedIn ==
  ASSUME NEW q \in Seq(AnyEntry), NEW x \in AnyEntry, NEW T, x \in T, \A n \in 1 .. Len(q) : q[n] \in T
  PROVE  \A n \in 1 .. Len(Append(q, x)) : Append(q, x)[n] \in T
<1> SUFFICES ASSUME NEW n \in 1 .. Len(Append(q, x)) PROVE Append(q, x)[n] \in T
  OBVIOUS
<1>1. n \in 1 .. Len(q) \/ n = Len(q) + 1
  BY Added
<1>2. QED
  BY <1>1, Added

LEMMA Behind ==
  ASSUME NEW q \in Seq(AnyEntry), q # <<>>
  PROVE  /\ Tail(q) \in Seq(AnyEntry) /\ Head(q) = q[1] /\ 1 \in 1 .. Len(q)
         /\ Len(q) \in Nat /\ Len(Tail(q)) \in Nat /\ Len(q) = Len(Tail(q)) + 1
         /\ \A n \in 1 .. Len(Tail(q)) : n + 1 \in 1 .. Len(q) /\ Tail(q)[n] = q[n + 1]
OBVIOUS

LEMMA ReportUsageKeeps == ASSUME EventInv, ReportUsage PROVE EventInv'
<1>1. Reading
  BY DEF ReportUsage, Reading
<1> DEFINE x == [n |-> Len(produced) + 1, event |-> Usage]
<1>2. /\ produced' = Append(produced, x) /\ events' = Append(events, x) /\ Len(produced) < MaxProduced
      /\ UNCHANGED <<endpoint, handler, inner, wire, gen, ending, record, second>>
  BY DEF ReportUsage, Next_n, Room
<1>3. /\ wire \in Seq(AnyEntry) /\ events \in Seq(AnyEntry) /\ inner \in Seq(AnyEntry) /\ produced \in Seq(AnyEntry)
      /\ Flowing /\ MarksOfTheEnd /\ EventTypes
  BY <1>1, ReadingFacts
<1>4. Usage \in OwnEvents \cup {Usage}
  OBVIOUS
<1>5. x \in Real /\ x \in AnyEntry /\ x \in Queued /\ (\A k \in Nat \ {0} : x \in Numbered(k) <=> k = Len(produced) + 1)
  BY <1>3, <1>4, NewEntry
<1>6. \A T \in OwnParts : x \notin T
  <2> DEFINE k == Len(produced) + 1
  <2>1. k \in Nat
    BY <1>3
  <2> HIDE DEF k
  <2>2. \A T \in OwnParts : [n |-> k, event |-> Usage] \notin T
    BY <2>1, PartFacts
  <2>3. QED
    BY <2>2 DEF k
<1>7. x.event = Usage /\ x # DoneMark /\ x # ErrorEntry
  BY <1>5, EntryFacts
<1> HIDE DEF x
<1>8. FlowsAs(wire', events', inner', produced')
  BY <1>2, <1>3, <1>5, <1>6, FlowReported DEF Flowing
<1>9. MarksOfTheEnd'
  <2>1. events' \in Seq(AnyEntry) /\ Len(events) \in Nat /\ Len(events') = Len(events) + 1 /\ events'[Len(events) + 1] = x
        /\ \A n \in 1 .. Len(events) : events'[n] = events[n]
    BY <1>2, <1>3, <1>5, Added
  <2>2. ASSUME NEW n \in 1 .. Len(events'), events'[n] = ErrorEntry PROVE handler' = "raised"
    BY <1>2, <1>3, <1>7, <2>1, <2>2 DEF MarksOfTheEnd
  <2>3. ASSUME NEW n \in 1 .. Len(events'), events'[n] = DoneMark
        PROVE  /\ \A j \in 1 .. Len(events') : j > n => events'[j].event = Usage
               /\ inner' = <<>> /\ handler' # "running"
               /\ handler' = "raised" => n > 1 /\ events'[n - 1] = ErrorEntry
    <3>1. n \in 1 .. Len(events) /\ events[n] = DoneMark
      BY <1>7, <2>1, <2>3
    <3>2. /\ \A j \in 1 .. Len(events) : j > n => events[j].event = Usage
          /\ inner = <<>> /\ handler # "running"
          /\ handler = "raised" => n > 1 /\ events[n - 1] = ErrorEntry
      BY <1>3, <3>1 DEF MarksOfTheEnd
    <3>3. n > 1 => n - 1 \in 1 .. Len(events)
      BY <2>1, <3>1
    <3>4. ASSUME NEW j \in 1 .. Len(events'), j > n PROVE events'[j].event = Usage
      BY <1>7, <2>1, <3>2, <3>4
    <3>5. QED
      BY <1>2, <2>1, <3>2, <3>3, <3>4
  <2>4. QED
    BY <1>2, <1>3, <2>2, <2>3 DEF MarksOfTheEnd
<1>10. \A n \in 1 .. Len(produced') : produced'[n] \in Real
  BY <1>2, <1>3, <1>5, AddedIn, <1>1 DEF EventTypes, Reading
<1>11. \A n \in 1 .. Len(events') : events'[n] \in Queued
  BY <1>2, <1>3, <1>5, AddedIn, <1>1 DEF EventTypes, Reading
<1>12. /\ produced' \in Seq(AnyEntry) /\ events' \in Seq(AnyEntry) /\ Len(produced') <= MaxProduced
       /\ inner' \in Seq(AnyEntry) /\ wire' \in Seq(AnyEntry)
  BY <1>2, <1>3, <1>5
<1>13. /\ handler' \in {"running", "returned", "raised", "cancelled"}
       /\ \A n \in 1 .. Len(inner') : inner'[n] \in Queued
  BY <1>1, <1>2, <1>3 DEF EventTypes, Reading
<1>14. QED
  BY <1>1, <1>2, <1>8, <1>9, <1>10, <1>11, <1>12, <1>13, ReadsOn

\* while the handler runs, nothing is marked
LEMMA NothingMarked ==
  ASSUME Reading, handler = "running"
  PROVE  /\ \A n \in 1 .. Len(events) : events[n] # DoneMark /\ events[n] # ErrorEntry
         /\ \A n \in 1 .. Len(inner) : inner[n] # DoneMark /\ inner[n] # ErrorEntry
<1>1. MarksOfTheEnd /\ inner \in Seq(AnyEntry)
  BY ReadingFacts
<1>2. \A n \in 1 .. Len(events) : events[n] # DoneMark /\ events[n] # ErrorEntry
  BY <1>1 DEF MarksOfTheEnd
<1>3. \A n \in 1 .. Len(inner) : inner[n] # DoneMark
  BY <1>1 DEF MarksOfTheEnd
<1>4. ASSUME NEW n \in 1 .. Len(inner), inner[n] = ErrorEntry PROVE FALSE
  <2>1. Len(inner) = n + 1 /\ inner[n + 1] = DoneMark
    BY <1>1, <1>4 DEF MarksOfTheEnd
  <2>2. n + 1 \in 1 .. Len(inner)
    BY <1>1, <2>1
  <2>3. QED
    BY <1>3, <2>1, <2>2
<1>5. QED
  BY <1>2, <1>3, <1>4

\* MarksOfTheEnd, where there is no mark
LEMMA Unmarked ==
  ASSUME \A n \in 1 .. Len(events') : events'[n] # DoneMark /\ events'[n] # ErrorEntry,
         \A n \in 1 .. Len(inner') : inner'[n] # DoneMark /\ inner'[n] # ErrorEntry,
         endpoint' = "stream" => inner' = <<>>
  PROVE  MarksOfTheEnd'
BY DEF MarksOfTheEnd

LEMMA HandlerYieldsKeeps == ASSUME EventInv, HandlerYields PROVE EventInv'
<1>1. Reading /\ handler = "running"
  BY DEF HandlerYields, Reading
<1>2. /\ wire \in Seq(AnyEntry) /\ events \in Seq(AnyEntry) /\ inner \in Seq(AnyEntry) /\ produced \in Seq(AnyEntry)
      /\ Flowing /\ MarksOfTheEnd /\ EventTypes
  BY <1>1, ReadingFacts
<1>3. PICK event \in IF Facade THEN FacadeEvents ELSE HandlerEvents :
        /\ produced' = Append(produced, [n |-> Len(produced) + 1, event |-> event])
        /\ IF Facade
           THEN inner' = Append(inner, [n |-> Len(produced) + 1, event |-> event]) /\ UNCHANGED events
           ELSE events' = Append(events, [n |-> Len(produced) + 1, event |-> event]) /\ UNCHANGED inner
  BY DEF HandlerYields, Next_n
<1>4. /\ Len(produced) < MaxProduced
      /\ UNCHANGED <<endpoint, handler, wire, gen, ending, record, second>>
  BY DEF HandlerYields, Room
<1>5. event \in OwnEvents \cup {Usage}
  BY DEF OwnEvents
<1> DEFINE x == [n |-> Len(produced) + 1, event |-> event]
<1>6. x \in Real /\ x \in AnyEntry /\ x \in Queued /\ (\A k \in Nat \ {0} : x \in Numbered(k) <=> k = Len(produced) + 1)
  BY <1>2, <1>5, NewEntry
<1>7. /\ produced' = Append(produced, x)
      /\ \/ endpoint = "artifact" /\ inner' = Append(inner, x) /\ UNCHANGED events
         \/ endpoint # "artifact" /\ events' = Append(events, x) /\ UNCHANGED inner
  BY <1>3 DEF Facade
<1>8. x # DoneMark /\ x # ErrorEntry
  BY <1>6, EntryFacts
<1>9. endpoint # "artifact" => inner = <<>>
  BY <1>1, <1>2 DEF EventTypes, MarksOfTheEnd, Reading
<1> HIDE DEF x
<1>10. /\ \A n \in 1 .. Len(events) : events[n] # DoneMark /\ events[n] # ErrorEntry
       /\ \A n \in 1 .. Len(inner) : inner[n] # DoneMark /\ inner[n] # ErrorEntry
  BY <1>1, NothingMarked
<1>11. FlowsAs(wire', events', inner', produced')
  <2>1. /\ FlowsAs(wire, events, Append(inner, x), Append(produced, x))
        /\ inner = <<>> => FlowsAs(wire, Append(events, x), inner, Append(produced, x))
    BY <1>2, <1>6, FlowYielded DEF Flowing
  <2>2. QED
    BY <1>4, <1>7, <1>9, <2>1
<1>12. MarksOfTheEnd'
  <2> DEFINE M == AnyEntry \ {DoneMark, ErrorEntry}
  <2>1. x \in M /\ (\A n \in 1 .. Len(events) : events[n] \in M) /\ (\A n \in 1 .. Len(inner) : inner[n] \in M)
    BY <1>2, <1>6, <1>8, <1>10
  <2> HIDE DEF M
  <2>2. /\ \A n \in 1 .. Len(events') : events'[n] \in M
        /\ \A n \in 1 .. Len(inner') : inner'[n] \in M
    BY <1>2, <1>6, <1>7, <2>1, AddedIn
  <2>3. endpoint' = "stream" => inner' = <<>>
    BY <1>4, <1>7, <1>9
  <2>4. QED
    BY <2>2, <2>3, Unmarked DEF M
<1>13. /\ \A n \in 1 .. Len(produced) : produced[n] \in Real
       /\ \A n \in 1 .. Len(events) : events[n] \in Queued
       /\ \A n \in 1 .. Len(inner) : inner[n] \in Queued
       /\ handler \in {"running", "returned", "raised", "cancelled"}
  BY <1>1, <1>2 DEF EventTypes, Reading
<1>14. \A n \in 1 .. Len(produced') : produced'[n] \in Real
  BY <1>2, <1>6, <1>7, <1>13, AddedIn
<1>15. /\ \A n \in 1 .. Len(events') : events'[n] \in Queued
       /\ \A n \in 1 .. Len(inner') : inner'[n] \in Queued
  BY <1>2, <1>6, <1>7, <1>13, AddedIn
<1>16. /\ produced' \in Seq(AnyEntry) /\ events' \in Seq(AnyEntry) /\ Len(produced') <= MaxProduced
       /\ inner' \in Seq(AnyEntry) /\ wire' \in Seq(AnyEntry)
  <2>1. /\ Append(produced, x) \in Seq(AnyEntry) /\ Append(events, x) \in Seq(AnyEntry)
        /\ Append(inner, x) \in Seq(AnyEntry) /\ Len(Append(produced, x)) = Len(produced) + 1
        /\ Len(produced) \in Nat
    BY <1>2, <1>6, Added
  <2>2. Len(produced) + 1 <= MaxProduced
    BY <1>4, <2>1
  <2>3. QED
    BY <1>2, <1>4, <1>7, <2>1, <2>2
<1>17. handler' \in {"running", "returned", "raised", "cancelled"}
  BY <1>4, <1>13
<1>18. QED
  BY <1>1, <1>4, <1>11, <1>12, <1>14, <1>15, <1>16, <1>17, ReadsOn

LEMMA MarkEntries == {DoneMark, ErrorEntry} \subseteq AnyEntry /\ {DoneMark, ErrorEntry} \subseteq Queued /\ ErrorEntry # DoneMark
BY EntryFacts DEF Queued

\* the mark of the end, behind a sequence with no mark, or with the error of a handler
\* that raised
LEMMA MarkedAtEnd ==
  ASSUME NEW q \in Seq(AnyEntry), \A n \in 1 .. Len(q) : q[n] # DoneMark /\ q[n] # ErrorEntry
  PROVE  /\ LET r == Append(q, DoneMark) IN
            /\ r \in Seq(AnyEntry) /\ \A n \in 1 .. Len(r) : r[n] # ErrorEntry /\ (r[n] = DoneMark => n = Len(r))
         /\ LET r == Append(Append(q, ErrorEntry), DoneMark) IN
            /\ r \in Seq(AnyEntry)
            /\ \A n \in 1 .. Len(r) :
                 /\ r[n] = ErrorEntry => Len(r) = n + 1 /\ r[n + 1] = DoneMark
                 /\ r[n] = DoneMark => n = Len(r) /\ n > 1 /\ r[n - 1] = ErrorEntry
<1>1. DoneMark \in AnyEntry /\ ErrorEntry \in AnyEntry /\ ErrorEntry # DoneMark
  BY MarkEntries
<1> DEFINE a == Append(q, DoneMark)
           b == Append(q, ErrorEntry)
           c == Append(b, DoneMark)
<1>2. /\ a \in Seq(AnyEntry) /\ Len(q) \in Nat /\ Len(a) = Len(q) + 1 /\ a[Len(q) + 1] = DoneMark
      /\ \A n \in 1 .. Len(q) : a[n] = q[n]
  BY <1>1, Added
<1>3. /\ b \in Seq(AnyEntry) /\ Len(b) = Len(q) + 1 /\ b[Len(q) + 1] = ErrorEntry
      /\ \A n \in 1 .. Len(q) : b[n] = q[n]
  BY <1>1, Added
<1> HIDE DEF b
<1>4. /\ c \in Seq(AnyEntry) /\ Len(c) = Len(b) + 1 /\ c[Len(b) + 1] = DoneMark
      /\ \A n \in 1 .. Len(b) : c[n] = b[n]
  BY <1>1, <1>3, Added
<1> HIDE DEF a, c
<1>5. \A n \in 1 .. Len(a) : a[n] # ErrorEntry /\ (a[n] = DoneMark => n = Len(a))
  BY <1>1, <1>2
<1>6. ASSUME NEW n \in 1 .. Len(c)
      PROVE  /\ c[n] = ErrorEntry => Len(c) = n + 1 /\ c[n + 1] = DoneMark
             /\ c[n] = DoneMark => n = Len(c) /\ n > 1 /\ c[n - 1] = ErrorEntry
  <2>1. n \in 1 .. Len(q) \/ n = Len(q) + 1 \/ n = Len(q) + 2
    BY <1>2, <1>3, <1>4
  <2>2. c[Len(q) + 1] = ErrorEntry /\ c[Len(q) + 2] = DoneMark /\ Len(c) = Len(q) + 2
    BY <1>2, <1>3, <1>4
  <2>3. \A m \in 1 .. Len(q) : c[m] = q[m]
    BY <1>2, <1>3, <1>4
  <2>4. QED
    BY <1>1, <1>2, <2>1, <2>2, <2>3
<1>7. QED
  BY <1>2, <1>4, <1>5, <1>6 DEF a, b, c

LEMMA MarkedPlainly ==
  ASSUME NEW q \in Seq(AnyEntry), \A n \in 1 .. Len(q) : q[n] # DoneMark /\ q[n] # ErrorEntry,
         NEW r, r = Append(q, DoneMark)
  PROVE  r \in Seq(AnyEntry) /\ \A n \in 1 .. Len(r) : r[n] # ErrorEntry /\ (r[n] = DoneMark => n = Len(r))
BY MarkedAtEnd

LEMMA MarkedWithError ==
  ASSUME NEW q \in Seq(AnyEntry), \A n \in 1 .. Len(q) : q[n] # DoneMark /\ q[n] # ErrorEntry,
         NEW r, r = Append(Append(q, ErrorEntry), DoneMark)
  PROVE  /\ r \in Seq(AnyEntry)
         /\ \A n \in 1 .. Len(r) :
              /\ r[n] = ErrorEntry => Len(r) = n + 1 /\ r[n + 1] = DoneMark
              /\ r[n] = DoneMark => n = Len(r) /\ n > 1 /\ r[n - 1] = ErrorEntry
BY MarkedAtEnd

LEMMA HandlerEndsKeeps == ASSUME EventInv, HandlerEnds PROVE EventInv'
<1>1. Reading /\ handler = "running" /\ endpoint = "stream"
  BY DEF HandlerEnds, Reading
<1>2. /\ wire \in Seq(AnyEntry) /\ events \in Seq(AnyEntry) /\ inner \in Seq(AnyEntry) /\ produced \in Seq(AnyEntry)
      /\ Flowing /\ MarksOfTheEnd /\ EventTypes
  BY <1>1, ReadingFacts
<1>3. PICK how \in {"returned", "raised", "cancelled"} :
        handler' = how /\ events' = Append(events \o ErrorMark(how), DoneMark)
  BY DEF HandlerEnds
<1>4. UNCHANGED <<endpoint, produced, inner, wire, gen, ending, record, second>>
  BY DEF HandlerEnds
<1>5. \A n \in 1 .. Len(events) : events[n] # DoneMark /\ events[n] # ErrorEntry
  BY <1>1, NothingMarked
<1>6. inner = <<>>
  BY <1>1, <1>2 DEF MarksOfTheEnd
<1>7. /\ how = "raised" => events' = Append(Append(events, ErrorEntry), DoneMark)
      /\ how # "raised" => events' = Append(events, DoneMark)
  <2>1. ErrorMark("raised") = <<ErrorEntry>> /\ (how # "raised" => ErrorMark(how) = <<>>)
    BY DEF ErrorMark, ErrorEntry
  <2>2. ErrorEntry \in AnyEntry
    BY MarkEntries
  <2>3. events \o <<ErrorEntry>> = Append(events, ErrorEntry) /\ events \o <<>> = events
    BY <1>2, <2>2, EntriesAppend, EntriesConcat
  <2>4. QED
    BY <1>3, <2>1, <2>3
<1>8. FlowsAs(wire', events', inner', produced')
  <2>1. FlowsAs(wire, Append(events, DoneMark), inner, produced)
    BY <1>2, FlowMarked DEF Flowing
  <2>2. FlowsAs(wire, Append(events, ErrorEntry), inner, produced)
    BY <1>2, FlowMarked DEF Flowing
  <2>3. Append(events, ErrorEntry) \in Seq(AnyEntry)
    BY <1>2, MarkEntries, Added
  <2> DEFINE b == Append(events, ErrorEntry)
  <2> HIDE DEF b
  <2>4. FlowsAs(wire, Append(b, DoneMark), inner, produced)
    BY <1>2, <2>2, <2>3, FlowMarked DEF b
  <2>5. QED
    BY <1>4, <1>7, <2>1, <2>4 DEF b
<1>9. events' \in Seq(AnyEntry)
  BY <1>2, <1>5, <1>7, MarkedAtEnd
<1>10. MarksOfTheEnd'
  <2>1. CASE how = "raised"
    <3>1. \A n \in 1 .. Len(events') :
             /\ events'[n] = ErrorEntry => Len(events') = n + 1 /\ events'[n + 1] = DoneMark
             /\ events'[n] = DoneMark => n = Len(events') /\ n > 1 /\ events'[n - 1] = ErrorEntry
      <4>1. events' = Append(Append(events, ErrorEntry), DoneMark)
        BY <1>7, <2>1
      <4> DEFINE r == events'
      <4>2. r = Append(Append(events, ErrorEntry), DoneMark)
        BY <4>1
      <4> HIDE DEF r
      <4>3. \A n \in 1 .. Len(r) :
               /\ r[n] = ErrorEntry => Len(r) = n + 1 /\ r[n + 1] = DoneMark
               /\ r[n] = DoneMark => n = Len(r) /\ n > 1 /\ r[n - 1] = ErrorEntry
        BY <1>2, <1>5, <4>2, MarkedWithError
      <4>4. QED
        BY <4>3 DEF r
    <3>2. ASSUME NEW n \in 1 .. Len(events'), events'[n] = DoneMark
          PROVE  \A j \in 1 .. Len(events') : j > n => events'[j].event = Usage
      <4>1. n = Len(events')
        BY <3>1, <3>2
      <4>2. Len(events') \in Nat
        BY <1>9
      <4>3. QED
        BY <4>1, <4>2
    <3>3. inner' = <<>>
      BY <1>4, <1>6
    <3>4. QED
      BY <1>3, <2>1, <3>1, <3>2, <3>3 DEF MarksOfTheEnd
  <2>2. CASE how # "raised"
    <3>1. \A n \in 1 .. Len(events') : events'[n] # ErrorEntry /\ (events'[n] = DoneMark => n = Len(events'))
      BY <1>2, <1>5, <1>7, <2>2, MarkedPlainly
    <3>2. ASSUME NEW n \in 1 .. Len(events'), events'[n] = DoneMark
          PROVE  \A j \in 1 .. Len(events') : j > n => events'[j].event = Usage
      <4>1. n = Len(events')
        BY <3>1, <3>2
      <4>2. Len(events') \in Nat
        BY <1>9
      <4>3. QED
        BY <4>1, <4>2
    <3>3. inner' = <<>>
      BY <1>4, <1>6
    <3>4. handler' # "raised" /\ handler' # "running"
      BY <1>3, <2>2
    <3>5. QED
      BY <3>1, <3>2, <3>3, <3>4 DEF MarksOfTheEnd
  <2>3. QED
    BY <2>1, <2>2
<1>11. \A n \in 1 .. Len(events') : events'[n] \in Queued
  <2>1. \A n \in 1 .. Len(events) : events[n] \in Queued
    BY <1>1, <1>2 DEF EventTypes
  <2>2. DoneMark \in Queued /\ ErrorEntry \in Queued /\ DoneMark \in AnyEntry /\ ErrorEntry \in AnyEntry
    BY MarkEntries
  <2> DEFINE b == Append(events, ErrorEntry)
  <2>3. b \in Seq(AnyEntry) /\ \A n \in 1 .. Len(b) : b[n] \in Queued
    BY <1>2, <2>1, <2>2, AddedIn
  <2> HIDE DEF b
  <2>4. \A n \in 1 .. Len(Append(b, DoneMark)) : Append(b, DoneMark)[n] \in Queued
    BY <2>2, <2>3, AddedIn
  <2>5. \A n \in 1 .. Len(Append(events, DoneMark)) : Append(events, DoneMark)[n] \in Queued
    BY <1>2, <2>1, <2>2, AddedIn
  <2>6. QED
    BY <1>7, <2>4, <2>5 DEF b
<1>12. /\ \A n \in 1 .. Len(produced') : produced'[n] \in Real
       /\ \A n \in 1 .. Len(inner') : inner'[n] \in Queued
       /\ Len(produced') <= MaxProduced
       /\ produced' \in Seq(AnyEntry) /\ inner' \in Seq(AnyEntry) /\ wire' \in Seq(AnyEntry)
  BY <1>1, <1>2, <1>4 DEF EventTypes
<1>13. handler' \in {"running", "returned", "raised", "cancelled"}
  BY <1>3
<1>14. QED
  BY <1>1, <1>4, <1>8, <1>9, <1>10, <1>11, <1>12, <1>13, ReadsOn

LEMMA FacadeEndsKeeps == ASSUME EventInv, FacadeEnds PROVE EventInv'
<1>1. Reading /\ handler = "running" /\ endpoint = "artifact"
  BY DEF FacadeEnds, Reading, Facade
<1>2. /\ wire \in Seq(AnyEntry) /\ events \in Seq(AnyEntry) /\ inner \in Seq(AnyEntry) /\ produced \in Seq(AnyEntry)
      /\ Flowing /\ MarksOfTheEnd /\ EventTypes
  BY <1>1, ReadingFacts
<1>3. UNCHANGED <<endpoint, events, wire, gen, ending, record, second>>
  BY DEF FacadeEnds
<1>4. /\ \A n \in 1 .. Len(events) : events[n] # DoneMark /\ events[n] # ErrorEntry
      /\ \A n \in 1 .. Len(inner) : inner[n] # DoneMark /\ inner[n] # ErrorEntry
  BY <1>1, NothingMarked
<1>5. /\ \A n \in 1 .. Len(produced) : produced[n] \in Real
      /\ \A n \in 1 .. Len(events) : events[n] \in Queued
      /\ \A n \in 1 .. Len(inner) : inner[n] \in Queued
      /\ Len(produced) <= MaxProduced
  BY <1>1, <1>2 DEF EventTypes
<1>6. DoneMark \in Queued /\ ErrorEntry \in Queued /\ DoneMark \in AnyEntry /\ ErrorEntry \in AnyEntry
  BY MarkEntries
<1>7. events' \in Seq(AnyEntry) /\ wire' \in Seq(AnyEntry) /\ \A n \in 1 .. Len(events') : events'[n] \in Queued
  BY <1>2, <1>3, <1>5
<1>8. CASE /\ Len(produced) < MaxProduced
           /\ \E event \in FacadeResults :
                LET entry == [n |-> Len(produced) + 1, event |-> event] IN
                produced' = Append(produced, entry) /\ inner' = Append(Append(inner, entry), DoneMark)
           /\ handler' = "returned"
  <2>1. PICK event \in FacadeResults :
          /\ produced' = Append(produced, [n |-> Len(produced) + 1, event |-> event])
          /\ inner' = Append(Append(inner, [n |-> Len(produced) + 1, event |-> event]), DoneMark)
    BY <1>8
  <2>2. event \in OwnEvents \cup {Usage}
    BY DEF OwnEvents
  <2> DEFINE x == [n |-> Len(produced) + 1, event |-> event]
             b == Append(inner, x)
  <2>3. x \in Real /\ x \in AnyEntry /\ x \in Queued /\ (\A k \in Nat \ {0} : x \in Numbered(k) <=> k = Len(produced) + 1)
    BY <1>2, <2>2, NewEntry
  <2>4. produced' = Append(produced, x) /\ inner' = Append(b, DoneMark)
    BY <2>1
  <2>5. x # DoneMark /\ x # ErrorEntry
    BY <2>3, EntryFacts
  <2> HIDE DEF x
  <2>6. FlowsAs(wire, events, b, Append(produced, x))
    BY <1>2, <2>3, FlowYielded DEF Flowing
  <2>17. b \in Seq(AnyEntry)
    BY <1>2, <2>3
  <2>18. \A n \in 1 .. Len(b) : b[n] \in Queued
    BY <1>2, <1>5, <2>3, AddedIn
  <2>7. b \in Seq(AnyEntry) /\ \A n \in 1 .. Len(b) : b[n] \in Queued
    BY <2>17, <2>18
  <2>8. \A n \in 1 .. Len(b) : b[n] # DoneMark /\ b[n] # ErrorEntry
    <3> DEFINE M == AnyEntry \ {DoneMark, ErrorEntry}
    <3>1. x \in M /\ \A n \in 1 .. Len(inner) : inner[n] \in M
      BY <1>2, <1>4, <2>3, <2>5
    <3> HIDE DEF M
    <3>2. \A n \in 1 .. Len(b) : b[n] \in M
      BY <1>2, <2>3, <3>1, AddedIn
    <3>3. QED
      BY <3>2 DEF M
  <2> HIDE DEF b
  <2>9. FlowsAs(wire', events', inner', produced')
    BY <1>2, <1>3, <2>4, <2>6, <2>7, FlowMarked
  <2>10. /\ inner' \in Seq(AnyEntry)
         /\ \A n \in 1 .. Len(inner') : inner'[n] # ErrorEntry /\ (inner'[n] = DoneMark => n = Len(inner'))
    BY <2>4, <2>7, <2>8, MarkedAtEnd
  <2>11. MarksOfTheEnd'
    BY <1>1, <1>3, <1>4, <1>8, <2>10 DEF MarksOfTheEnd
  <2>12. \A n \in 1 .. Len(inner') : inner'[n] \in Queued
    BY <1>6, <2>4, <2>7, AddedIn
  <2>13. produced' \in Seq(AnyEntry) /\ \A n \in 1 .. Len(produced') : produced'[n] \in Real
    BY <1>2, <1>5, <2>3, <2>4, AddedIn
  <2>14. Len(produced') <= MaxProduced
    BY <1>2, <1>8, <2>3, <2>4, Added
  <2>15. handler' \in {"running", "returned", "raised", "cancelled"}
    BY <1>8
  <2>16. QED
    BY <1>1, <1>3, <1>7, <2>9, <2>10, <2>11, <2>12, <2>13, <2>14, <2>15, ReadsOn
<1>9. CASE \E how \in {"raised", "cancelled"} :
             /\ handler' = how
             /\ inner' = Append(inner \o <<ErrorEntry>>, DoneMark)
             /\ UNCHANGED produced
  <2>1. PICK how \in {"raised", "cancelled"} :
          handler' = how /\ inner' = Append(inner \o <<ErrorEntry>>, DoneMark) /\ UNCHANGED produced
    BY <1>9
  <2> DEFINE b == Append(inner, ErrorEntry)
  <2>2. inner' = Append(b, DoneMark)
    BY <1>2, <1>6, <2>1, EntriesAppend
  <2>3. FlowsAs(wire, events, b, produced)
    BY <1>2, FlowMarked DEF Flowing
  <2>4. b \in Seq(AnyEntry) /\ \A n \in 1 .. Len(b) : b[n] \in Queued
    BY <1>2, <1>5, <1>6, AddedIn
  <2>5. /\ inner' \in Seq(AnyEntry)
        /\ \A n \in 1 .. Len(inner') :
             /\ inner'[n] = ErrorEntry => Len(inner') = n + 1 /\ inner'[n + 1] = DoneMark
             /\ inner'[n] = DoneMark => n = Len(inner') /\ n > 1 /\ inner'[n - 1] = ErrorEntry
    BY <1>2, <1>4, <2>2, MarkedAtEnd
  <2> HIDE DEF b
  <2>6. FlowsAs(wire', events', inner', produced')
    BY <1>2, <1>3, <2>1, <2>2, <2>3, <2>4, FlowMarked
  <2>7. MarksOfTheEnd'
    BY <1>1, <1>3, <1>4, <2>1, <2>5 DEF MarksOfTheEnd
  <2>8. \A n \in 1 .. Len(inner') : inner'[n] \in Queued
    BY <1>6, <2>2, <2>4, AddedIn
  <2>9. /\ produced' \in Seq(AnyEntry) /\ \A n \in 1 .. Len(produced') : produced'[n] \in Real
        /\ Len(produced') <= MaxProduced
        /\ handler' \in {"running", "returned", "raised", "cancelled"}
    BY <1>2, <1>5, <2>1
  <2>10. QED
    BY <1>1, <1>3, <1>7, <2>5, <2>6, <2>7, <2>8, <2>9, ReadsOn
<1>10. QED
  BY <1>8, <1>9 DEF FacadeEnds, Room, Next_n, ErrorEntry

LEMMA FacadeForwardsKeeps == ASSUME EventInv, FacadeForwards PROVE EventInv'
<1>1. Reading /\ endpoint = "artifact" /\ inner # <<>>
  BY DEF FacadeForwards, Reading, Facade
<1>2. /\ wire \in Seq(AnyEntry) /\ events \in Seq(AnyEntry) /\ inner \in Seq(AnyEntry) /\ produced \in Seq(AnyEntry)
      /\ Flowing /\ MarksOfTheEnd /\ EventTypes
  BY <1>1, ReadingFacts
<1>3. UNCHANGED <<endpoint, handler, produced, wire, gen, ending, record, second>>
  BY DEF FacadeForwards
<1>4. /\ \A n \in 1 .. Len(produced) : produced[n] \in Real
      /\ \A n \in 1 .. Len(events) : events[n] \in Queued
      /\ \A n \in 1 .. Len(inner) : inner[n] \in Queued
      /\ Len(produced) <= MaxProduced /\ handler \in {"running", "returned", "raised", "cancelled"}
  BY <1>1, <1>2 DEF EventTypes
<1>5. DoneMark \in Queued /\ ErrorEntry \in Queued /\ DoneMark \in AnyEntry /\ ErrorEntry \in AnyEntry /\ ErrorEntry # DoneMark
  BY MarkEntries
<1>6. /\ Tail(inner) \in Seq(AnyEntry) /\ Head(inner) = inner[1] /\ 1 \in 1 .. Len(inner)
      /\ Len(inner) \in Nat /\ Len(Tail(inner)) \in Nat /\ Len(inner) = Len(Tail(inner)) + 1
      /\ \A n \in 1 .. Len(Tail(inner)) : n + 1 \in 1 .. Len(inner) /\ Tail(inner)[n] = inner[n + 1]
  BY <1>1, <1>2, Behind
<1>7. \A n \in 1 .. Len(events) : events[n] # DoneMark /\ (events[n] = ErrorEntry => handler = "raised")
  BY <1>1, <1>2 DEF MarksOfTheEnd
<1>8. /\ \A n \in 1 .. Len(produced') : produced'[n] \in Real
      /\ Len(produced') <= MaxProduced /\ produced' \in Seq(AnyEntry) /\ wire' \in Seq(AnyEntry)
      /\ handler' \in {"running", "returned", "raised", "cancelled"}
  BY <1>2, <1>3, <1>4
<1>9. CASE IsMark(Head(inner))
  <2>1. Head(inner) \in {DoneMark, ErrorEntry}
    BY <1>4, <1>6, <1>9, EntryFacts DEF Queued
  <2>2. /\ inner' = <<>>
        /\ Head(inner) = DoneMark => events' = Append(events \o <<>>, DoneMark)
        /\ Head(inner) # DoneMark => events' = Append(events \o ErrorMark(handler), DoneMark)
    BY <1>9 DEF FacadeForwards
  <2>3. ErrorMark("raised") = <<ErrorEntry>> /\ (handler # "raised" => ErrorMark(handler) = <<>>)
    BY DEF ErrorMark, ErrorEntry
  <2>4. events \o <<ErrorEntry>> = Append(events, ErrorEntry) /\ events \o <<>> = events
    BY <1>2, <1>5, EntriesAppend, EntriesConcat
  <2>5. /\ \A n \in 1 .. Len(inner) : inner[n] \in {DoneMark, ErrorEntry}
        /\ handler # "running"
        /\ Head(inner) = DoneMark => handler # "raised"
    <3>4. PICK m \in 1 .. Len(inner) : m = 1 /\ inner[m] = Head(inner) /\ m + 1 = 2
      BY <1>6
    <3>5. /\ inner[m] = ErrorEntry => Len(inner) = m + 1 /\ inner[m + 1] = DoneMark
          /\ inner[m] = DoneMark => m = Len(inner) /\ handler # "running" /\ (handler = "raised" => m > 1)
      BY <1>2 DEF MarksOfTheEnd
    <3>1. CASE Head(inner) = DoneMark
      <4>1. Len(inner) = 1 /\ handler # "running" /\ handler # "raised"
        BY <3>1, <3>4, <3>5
      <4>2. ASSUME NEW n \in 1 .. Len(inner) PROVE inner[n] \in {DoneMark, ErrorEntry}
        <5>1. n = 1
          BY <4>1
        <5>2. QED
          BY <1>6, <3>1, <5>1
      <4>3. QED
        BY <4>1, <4>2
    <3>2. CASE Head(inner) = ErrorEntry
      <4>1. Len(inner) = 2 /\ inner[2] = DoneMark
        BY <3>2, <3>4, <3>5
      <4>2. 2 \in 1 .. Len(inner)
        BY <4>1
      <4>3. handler # "running"
        BY <1>2, <4>1, <4>2 DEF MarksOfTheEnd
      <4>4. ASSUME NEW n \in 1 .. Len(inner) PROVE inner[n] \in {DoneMark, ErrorEntry}
        <5>1. n = 1 \/ n = 2
          BY <4>1
        <5>2. QED
          BY <1>6, <3>2, <4>1, <5>1
      <4>5. QED
        BY <1>5, <3>2, <4>3, <4>4
    <3>6. QED
      BY <2>1, <3>1, <3>2
  <2>6. /\ handler = "raised" => events' = Append(Append(events, ErrorEntry), DoneMark)
        /\ handler # "raised" => events' = Append(events, DoneMark)
    <3>1. CASE Head(inner) = DoneMark
      BY <2>2, <2>4, <2>5, <3>1
    <3>2. CASE Head(inner) # DoneMark /\ handler = "raised"
      BY <2>2, <2>3, <2>4, <3>2
    <3>3. CASE Head(inner) # DoneMark /\ handler # "raised"
      BY <2>2, <2>3, <2>4, <3>3
    <3>4. QED
      BY <3>1, <3>2, <3>3
  <2> DEFINE b == Append(events, ErrorEntry)
             none == <<>>
  <2>7. b \in Seq(AnyEntry)
    BY <1>2, <1>5, Added
  <2>8. none \in Seq(AnyEntry) /\ inner' = none /\ \A n \in 1 .. Len(none) : none[n] \in Queued
    BY <2>2
  <2>9. FlowsAs(wire, events, none, produced)
    BY <1>2, <2>5, FlowDropped DEF Flowing
  <2>10. \A n \in 1 .. Len(b) : b[n] \in Queued
    BY <1>2, <1>4, <1>5, AddedIn
  <2> HIDE DEF none
  <2>11. FlowsAs(wire, b, none, produced)
    BY <1>2, <2>8, <2>9, FlowMarked
  <2>12. FlowsAs(wire, Append(events, DoneMark), none, produced)
    BY <1>2, <2>8, <2>9, FlowMarked
  <2> HIDE DEF b
  <2>13. FlowsAs(wire, Append(b, DoneMark), none, produced)
    BY <1>2, <2>7, <2>8, <2>11, FlowMarked
  <2>14. FlowsAs(wire', events', inner', produced')
    BY <1>3, <2>6, <2>8, <2>12, <2>13 DEF b
  <2>15. events' \in Seq(AnyEntry) /\ \A n \in 1 .. Len(events') : events'[n] \in Queued
    <3>1. Append(b, DoneMark) \in Seq(AnyEntry) /\ Append(events, DoneMark) \in Seq(AnyEntry)
      BY <1>2, <1>5, <2>7, Added
    <3>2. \A n \in 1 .. Len(Append(b, DoneMark)) : Append(b, DoneMark)[n] \in Queued
      BY <1>5, <2>7, <2>10, AddedIn
    <3>3. \A n \in 1 .. Len(Append(events, DoneMark)) : Append(events, DoneMark)[n] \in Queued
      BY <1>2, <1>4, <1>5, AddedIn
    <3>4. QED
      BY <2>6, <3>1, <3>2, <3>3 DEF b
  <2>16. \A n \in 1 .. Len(events') :
           /\ events'[n] = ErrorEntry => handler' = "raised"
           /\ events'[n] = DoneMark => n = Len(events') /\ (handler' = "raised" => n > 1 /\ events'[n - 1] = ErrorEntry)
    <3>1. Len(events) \in Nat
      BY <1>2
    <3>2. CASE handler = "raised"
      <4> DEFINE r == Append(b, DoneMark)
      <4>1. /\ Len(b) = Len(events) + 1 /\ b[Len(events) + 1] = ErrorEntry
            /\ \A n \in 1 .. Len(events) : b[n] = events[n]
        BY <1>2, <1>5, Added DEF b
      <4>2. /\ Len(r) = Len(b) + 1 /\ r[Len(b) + 1] = DoneMark
            /\ \A n \in 1 .. Len(b) : r[n] = b[n]
        BY <1>5, <2>7, Added
      <4>3. events' = r
        BY <2>6, <3>2 DEF b
      <4> HIDE DEF r
      <4>4. ASSUME NEW n \in 1 .. Len(r), r[n] = DoneMark PROVE n = Len(r) /\ n > 1 /\ r[n - 1] = ErrorEntry
        <5>1. n \notin 1 .. Len(events)
          BY <1>7, <3>1, <4>1, <4>2, <4>4
        <5>2. n = Len(events) + 2
          BY <1>5, <3>1, <4>1, <4>2, <4>4, <5>1
        <5>3. r[Len(events) + 1] = ErrorEntry
          BY <3>1, <4>1, <4>2
        <5>4. QED
          BY <3>1, <4>1, <4>2, <5>2, <5>3
      <4>5. QED
        BY <1>3, <3>2, <4>3, <4>4
    <3>3. CASE handler # "raised"
      <4> DEFINE r == Append(events, DoneMark)
      <4>1. /\ Len(r) = Len(events) + 1 /\ r[Len(events) + 1] = DoneMark
            /\ \A n \in 1 .. Len(events) : r[n] = events[n]
        BY <1>2, <1>5, Added
      <4>2. events' = r
        BY <2>6, <3>3
      <4> HIDE DEF r
      <4>3. ASSUME NEW n \in 1 .. Len(r) PROVE r[n] # ErrorEntry /\ (r[n] = DoneMark => n = Len(r))
        BY <1>5, <1>7, <3>1, <3>3, <4>1
      <4>4. QED
        BY <1>3, <3>3, <4>2, <4>3
    <3>4. QED
      BY <3>2, <3>3
  <2>17. ASSUME NEW n \in 1 .. Len(events'), events'[n] = DoneMark
         PROVE  \A j \in 1 .. Len(events') : j > n => events'[j].event = Usage
    <3>1. n = Len(events') /\ Len(events') \in Nat
      BY <2>15, <2>16, <2>17
    <3>2. QED
      BY <3>1
  <2>18. inner' = <<>> /\ handler' # "running"
    BY <1>3, <2>2, <2>5
  <2>19. MarksOfTheEnd'
    BY <2>16, <2>17, <2>18 DEF MarksOfTheEnd
  <2>20. inner' \in Seq(AnyEntry) /\ \A n \in 1 .. Len(inner') : inner'[n] \in Queued
    BY <2>8
  <2>21. QED
    BY <1>1, <1>3, <1>8, <2>14, <2>15, <2>19, <2>20, ReadsOn
<1>10. CASE ~IsMark(Head(inner))
  <2>1. events' = Append(events, Head(inner)) /\ inner' = Tail(inner)
    BY <1>10 DEF FacadeForwards
  <2> DEFINE x == Head(inner)
             t == Tail(inner)
  <2>2. x \in Queued /\ x # DoneMark /\ x # ErrorEntry /\ x = inner[1]
    BY <1>4, <1>6, <1>10, EntryFacts
  <2>3. x \in AnyEntry
    BY <1>1, <1>2
  <2>4. FlowsAs(wire, Append(events, x), t, produced)
    BY <1>1, <1>2, FlowForwarded DEF Flowing
  <2>5. /\ t \in Seq(AnyEntry) /\ Len(inner) \in Nat /\ Len(t) \in Nat /\ Len(inner) = Len(t) + 1
        /\ \A n \in 1 .. Len(t) : n + 1 \in 1 .. Len(inner) /\ t[n] = inner[n + 1]
    BY <1>6
  <2>6. events' = Append(events, x) /\ inner' = t
    BY <2>1
  <2> HIDE DEF x, t
  <2>7. FlowsAs(wire', events', inner', produced')
    BY <1>3, <2>4, <2>6
  <2>8. events' \in Seq(AnyEntry)
    BY <1>2, <2>3, <2>6, Added
  <2>9. \A n \in 1 .. Len(events') : events'[n] \in Queued
    BY <1>2, <1>4, <2>2, <2>3, <2>6, AddedIn
  <2>10. inner' \in Seq(AnyEntry) /\ \A n \in 1 .. Len(inner') : inner'[n] \in Queued
    BY <1>4, <2>5, <2>6
  <2>11. \A n \in 1 .. Len(events') : events'[n] # DoneMark /\ (events'[n] = ErrorEntry => handler' = "raised")
    <3>1. /\ Len(events) \in Nat /\ Len(events') = Len(events) + 1 /\ events'[Len(events) + 1] = x
          /\ \A n \in 1 .. Len(events) : events'[n] = events[n]
      BY <1>2, <2>3, <2>6, Added
    <3>2. QED
      BY <1>3, <1>7, <2>2, <3>1
  <2>12. ASSUME NEW n \in 1 .. Len(t)
         PROVE  /\ t[n] = ErrorEntry => Len(t) = n + 1 /\ t[n + 1] = DoneMark
                /\ t[n] = DoneMark =>
                     /\ n = Len(t) /\ handler # "running"
                     /\ handler \in {"raised", "cancelled"} => n > 1 /\ t[n - 1] = ErrorEntry
    <3>1. n + 1 \in 1 .. Len(inner) /\ t[n] = inner[n + 1]
      BY <2>5
    <3>2. /\ inner[n + 1] = ErrorEntry => Len(inner) = n + 2 /\ inner[n + 2] = DoneMark
          /\ inner[n + 1] = DoneMark =>
               /\ n + 1 = Len(inner) /\ handler # "running"
               /\ handler \in {"raised", "cancelled"} => inner[n] = ErrorEntry
      <4> DEFINE m == n + 1
      <4>1. m \in 1 .. Len(inner) /\ m + 1 = n + 2 /\ m - 1 = n
        BY <3>1
      <4> HIDE DEF m
      <4>2. /\ inner[m] = ErrorEntry => Len(inner) = m + 1 /\ inner[m + 1] = DoneMark
            /\ inner[m] = DoneMark =>
                 /\ m = Len(inner) /\ handler # "running"
                 /\ handler \in {"raised", "cancelled"} => inner[m - 1] = ErrorEntry
        BY <1>2, <4>1 DEF MarksOfTheEnd
      <4>3. QED
        BY <4>1, <4>2 DEF m
    <3>3. CASE t[n] = ErrorEntry
      <4>1. Len(inner) = n + 2 /\ inner[n + 2] = DoneMark
        BY <3>1, <3>2, <3>3
      <4>2. n + 1 \in 1 .. Len(t) /\ Len(t) = n + 1
        BY <2>5, <4>1
      <4>3. t[n + 1] = inner[n + 2]
        BY <2>5, <4>2
      <4>4. QED
        BY <1>5, <3>3, <4>1, <4>2, <4>3
    <3>4. CASE t[n] = DoneMark
      <4>1. /\ n = Len(t) /\ handler # "running"
            /\ handler \in {"raised", "cancelled"} => inner[n] = ErrorEntry
        BY <2>5, <3>1, <3>2, <3>4
      <4>2. ASSUME handler \in {"raised", "cancelled"} PROVE n > 1 /\ t[n - 1] = ErrorEntry
        <5>1. n # 1
          BY <2>2, <4>1, <4>2
        <5>2. PICK m \in 1 .. Len(t) : n = m + 1 /\ n - 1 = m
          BY <2>5, <5>1
        <5>3. t[m] = inner[n]
          BY <2>5, <5>2
        <5>4. QED
          BY <4>1, <4>2, <5>2, <5>3
      <4>3. QED
        BY <1>5, <3>4, <4>1, <4>2
    <3>5. QED
      BY <3>3, <3>4
  <2>13. MarksOfTheEnd'
    BY <1>1, <1>3, <2>6, <2>11, <2>12 DEF MarksOfTheEnd
  <2>14. QED
    BY <1>1, <1>3, <1>8, <2>7, <2>8, <2>9, <2>10, <2>13, ReadsOn
<1>11. QED
  BY <1>9, <1>10

LEMMA SendKeepaliveKeeps == ASSUME EventInv, SendKeepalive PROVE EventInv'
<1>1. Reading
  BY DEF SendKeepalive, Reading
<1>2. /\ wire \in Seq(AnyEntry) /\ events \in Seq(AnyEntry) /\ inner \in Seq(AnyEntry) /\ produced \in Seq(AnyEntry)
      /\ Flowing /\ MarksOfTheEnd /\ EventTypes
  BY <1>1, ReadingFacts
<1>3. /\ wire' = Append(wire, Keepalive) /\ Size(wire, {Keepalive}) < MaxIdle
      /\ UNCHANGED <<endpoint, handler, produced, inner, events, gen, ending, record, second>>
  BY DEF SendKeepalive, Size
<1>4. FlowsAs(wire', events', inner', produced')
  BY <1>2, <1>3, FlowKeptAlive DEF Flowing
<1>5. wire' \in Seq(AnyEntry)
  BY <1>2, <1>3, EntryFacts
<1>6. MarksOfTheEnd'
  BY <1>2, <1>3 DEF MarksOfTheEnd
<1>7. /\ handler' \in {"running", "returned", "raised", "cancelled"} /\ Len(produced') <= MaxProduced
      /\ produced' \in Seq(AnyEntry) /\ events' \in Seq(AnyEntry) /\ inner' \in Seq(AnyEntry)
      /\ \A n \in 1 .. Len(produced') : produced'[n] \in Real
      /\ \A n \in 1 .. Len(events') : events'[n] \in Queued
      /\ \A n \in 1 .. Len(inner') : inner'[n] \in Queued
  BY <1>1, <1>2, <1>3 DEF EventTypes, Reading
<1>8. QED
  BY <1>1, <1>3, <1>4, <1>5, <1>6, <1>7, ReadsOn

\* what is read in _gen is no answer to an /invoke
LEMMA ReadsEvents ==
  ASSUME EventInv, gen = "reading", events # <<>>
  PROVE  /\ Reading /\ Head(events) \in Queued /\ Head(events) \in AnyEntry /\ Tail(events) \in Seq(AnyEntry)
         /\ Head(events) = events[1] /\ 1 \in 1 .. Len(events)
         /\ Len(events) \in Nat /\ Len(Tail(events)) \in Nat /\ Len(events) = Len(Tail(events)) + 1
         /\ \A n \in 1 .. Len(Tail(events)) : n + 1 \in 1 .. Len(events) /\ Tail(events)[n] = events[n + 1]
<1>1. Reading
  BY DEF EventInv, Reading
<1>2. events \in Seq(AnyEntry) /\ \A n \in 1 .. Len(events) : events[n] \in Queued
  BY <1>1, ReadingFacts DEF EventTypes, Reading
<1>3. Head(events) \in AnyEntry
  BY <1>2
<1>4. /\ Tail(events) \in Seq(AnyEntry) /\ Head(events) = events[1] /\ 1 \in 1 .. Len(events)
      /\ Len(events) \in Nat /\ Len(Tail(events)) \in Nat /\ Len(events) = Len(Tail(events)) + 1
      /\ \A n \in 1 .. Len(Tail(events)) : n + 1 \in 1 .. Len(events) /\ Tail(events)[n] = events[n + 1]
  BY <1>2, Behind
<1>5. QED
  BY <1>1, <1>2, <1>3, <1>4

LEMMA SendEventOnKeeps == ASSUME EventInv, SendEvent, ~IsFailure(Head(events).event) PROVE EventInv'
<1>1. gen = "reading" /\ events # <<>> /\ ~IsMark(Head(events))
  BY DEF SendEvent
<1>2. /\ wire' = Append(wire, Head(events)) /\ events' = Tail(events)
      /\ UNCHANGED <<endpoint, handler, produced, inner, gen, ending, record, second>>
  BY DEF SendEvent
<1> DEFINE x == Head(events)
           t == Tail(events)
<1>3. /\ Reading /\ x \in Queued /\ x \in AnyEntry /\ t \in Seq(AnyEntry) /\ x = events[1]
      /\ Len(events) \in Nat /\ Len(t) \in Nat /\ Len(events) = Len(t) + 1
      /\ \A n \in 1 .. Len(t) : n + 1 \in 1 .. Len(events) /\ t[n] = events[n + 1]
  BY <1>1, ReadsEvents
<1>4. /\ wire \in Seq(AnyEntry) /\ events \in Seq(AnyEntry) /\ inner \in Seq(AnyEntry) /\ produced \in Seq(AnyEntry)
      /\ Flowing /\ MarksOfTheEnd /\ EventTypes
  BY <1>3, ReadingFacts
<1>5. x \in Real /\ x # ErrorEntry /\ x # DoneMark
  BY <1>1, <1>3, EntryFacts DEF Queued
<1>6. FlowsAs(Append(wire, x), t, inner, produced)
  BY <1>1, <1>4, <1>5, FlowSent DEF Flowing
<1>7. wire' = Append(wire, x) /\ events' = t
  BY <1>2
<1> HIDE DEF x, t
<1>8. FlowsAs(wire', events', inner', produced')
  BY <1>2, <1>6, <1>7
<1>9. wire' \in Seq(AnyEntry) /\ events' \in Seq(AnyEntry)
  BY <1>3, <1>4, <1>7, Added
<1>10. /\ \A n \in 1 .. Len(events) : events[n] \in Queued
       /\ \A n \in 1 .. Len(inner) : inner[n] \in Queued
       /\ \A n \in 1 .. Len(produced) : produced[n] \in Real
       /\ Len(produced) <= MaxProduced /\ handler \in {"running", "returned", "raised", "cancelled"}
  BY <1>3, <1>4 DEF EventTypes, Reading
<1>11. \A n \in 1 .. Len(events') : events'[n] \in Queued
  BY <1>3, <1>7, <1>10
<1>12. ASSUME NEW n \in 1 .. Len(t)
       PROVE  /\ t[n] = ErrorEntry => handler = "raised"
              /\ t[n] = DoneMark =>
                   /\ \A j \in 1 .. Len(t) : j > n => t[j].event = Usage
                   /\ inner = <<>> /\ handler # "running"
                   /\ handler = "raised" => n > 1 /\ t[n - 1] = ErrorEntry
  <2>1. n + 1 \in 1 .. Len(events) /\ t[n] = events[n + 1]
    BY <1>3
  <2> DEFINE m == n + 1
  <2>2. m \in 1 .. Len(events) /\ m - 1 = n /\ t[n] = events[m]
    BY <2>1
  <2> HIDE DEF m
  <2>3. /\ events[m] = ErrorEntry => handler = "raised"
        /\ events[m] = DoneMark =>
             /\ \A j \in 1 .. Len(events) : j > m => events[j].event = Usage
             /\ inner = <<>> /\ handler # "running"
             /\ handler = "raised" => events[m - 1] = ErrorEntry
    BY <1>4, <2>2 DEF MarksOfTheEnd
  <2>4. ASSUME t[n] = DoneMark, NEW j \in 1 .. Len(t), j > n PROVE t[j].event = Usage
    <3>1. j + 1 \in 1 .. Len(events) /\ t[j] = events[j + 1] /\ j + 1 > m
      BY <1>3, <2>4 DEF m
    <3>2. QED
      BY <2>2, <2>3, <2>4, <3>1
  <2>5. ASSUME t[n] = DoneMark, handler = "raised" PROVE n > 1 /\ t[n - 1] = ErrorEntry
    <3>1. events[n] = ErrorEntry
      BY <2>2, <2>3, <2>5
    <3>2. n # 1
      BY <1>3, <1>5, <3>1
    <3>3. PICK k \in 1 .. Len(t) : n = k + 1 /\ n - 1 = k
      BY <1>3, <3>2
    <3>4. t[k] = events[n]
      BY <1>3, <3>3
    <3>5. QED
      BY <3>1, <3>3, <3>4
  <2>6. QED
    BY <2>2, <2>3, <2>4, <2>5
<1>13. MarksOfTheEnd'
  BY <1>2, <1>4, <1>7, <1>12 DEF MarksOfTheEnd
<1>14. /\ handler' \in {"running", "returned", "raised", "cancelled"} /\ Len(produced') <= MaxProduced
       /\ produced' \in Seq(AnyEntry) /\ inner' \in Seq(AnyEntry)
       /\ \A n \in 1 .. Len(produced') : produced'[n] \in Real
       /\ \A n \in 1 .. Len(inner') : inner'[n] \in Queued
  BY <1>2, <1>4, <1>10
<1>15. QED
  BY <1>2, <1>3, <1>8, <1>9, <1>11, <1>13, <1>14, ReadsOn

\* the end of a stream is behind all that was sent, and is nothing else that was sent
LEMMA EndOfStream ==
  ASSUME Reading, NEW x \in AnyEntry, IsEnd(x), wire' = Append(wire, x)
  PROVE  /\ wire' \in Seq(AnyEntry) /\ DOMAIN wire' = 1 .. Len(wire') /\ Last(wire') = x
         /\ Len(wire') = Len(wire) + 1 /\ wire'[Len(wire) + 1] = x /\ \A n \in 1 .. Len(wire) : wire'[n] = wire[n]
         /\ Len(wire') <= MaxProduced + MaxIdle + 1
         /\ \A n, m \in DOMAIN wire' : wire'[n] = wire'[m] /\ wire'[n] # Keepalive => n = m
         /\ \A n \in DOMAIN wire' : IsEnd(wire'[n]) => n = Len(wire')
<1> DEFINE v == wire'
<1>12. v = Append(wire, x)
  OBVIOUS
<1> HIDE DEF v
<1>1. /\ wire \in Seq(AnyEntry) /\ Flowing /\ EventTypes /\ record.status # "completed"
      /\ second.kind \notin {"events", "response"} /\ endpoint # "invoke" /\ gen = "reading" /\ ending = "none"
  BY ReadingFacts DEF Reading
<1>2. StreamTellsWhatHappened /\ Len(wire) <= MaxProduced + MaxIdle
  BY <1>1, FlowingTells
<1>3. DOMAIN wire = 1 .. Len(wire) /\ Len(wire) \in Nat
  BY <1>1
<1>4. /\ \A n, m \in 1 .. Len(wire) : wire[n] = wire[m] /\ wire[n] # Keepalive => n = m
      /\ \A n \in 1 .. Len(wire) : ~IsEnd(wire[n])
  BY <1>1, <1>2, <1>3 DEF StreamTellsWhatHappened, StreamEndsAsItWent
<1>5. /\ v \in Seq(AnyEntry) /\ Len(v) = Len(wire) + 1 /\ v[Len(wire) + 1] = x
      /\ \A n \in 1 .. Len(wire) : v[n] = wire[n]
  BY <1>1, <1>12, Added
<1>6. DOMAIN v = 1 .. Len(v)
  BY <1>5
<1>7. Last(v) = x
  BY <1>3, <1>5 DEF Last
<1>8. Len(v) <= MaxProduced + MaxIdle + 1
  BY <1>2, <1>3, <1>5
<1>9. ASSUME NEW n \in DOMAIN v, NEW m \in DOMAIN v, v[n] = v[m], v[n] # Keepalive PROVE n = m
  <2>1. (n \in 1 .. Len(wire) \/ n = Len(wire) + 1) /\ (m \in 1 .. Len(wire) \/ m = Len(wire) + 1)
    BY <1>3, <1>5, <1>6
  <2>2. \A k \in 1 .. Len(wire) : v[k] # x
    BY <1>4, <1>5
  <2>3. QED
    BY <1>4, <1>5, <1>9, <2>1, <2>2
<1>10. ASSUME NEW n \in DOMAIN v, IsEnd(v[n]) PROVE n = Len(v)
  <2>1. n \in 1 .. Len(wire) \/ n = Len(wire) + 1
    BY <1>3, <1>5, <1>6
  <2>2. QED
    BY <1>4, <1>5, <1>10, <2>1
<1>11. QED
  BY <1>5, <1>6, <1>7, <1>8, <1>9, <1>10 DEF v

\* the types, after the end
LEMMA TypesAtEnd ==
  ASSUME Reading, UNCHANGED <<endpoint, handler, produced, inner, second>>, gen' = "ended", ending' = "stored",
         wire' \in Seq(AnyEntry), events # <<>>, events' = Tail(events),
         record'.status \in {"in_progress", "completed", "failed"}
  PROVE  EventTypes'
<1>1. EventTypes /\ endpoint # "invoke"
  BY ReadingFacts DEF Reading
<1>2. events' \in Seq(AnyEntry) /\ \A n \in 1 .. Len(events') : events'[n] \in Queued
  <2>1. events \in Seq(AnyEntry) /\ \A n \in 1 .. Len(events) : events[n] \in Queued
    BY <1>1 DEF EventTypes
  <2>2. /\ Tail(events) \in Seq(AnyEntry)
        /\ \A n \in 1 .. Len(Tail(events)) : n + 1 \in 1 .. Len(events) /\ Tail(events)[n] = events[n + 1]
    BY <2>1, Behind
  <2>3. QED
    BY <2>1, <2>2
<1>3. QED
  BY <1>1, <1>2 DEF EventTypes

\* the end of a stream that failed
LEMMA EndsInError ==
  ASSUME Reading, wire' = Append(wire, ErrorEvent), gen' = "ended", ending' = "stored", record' = Failed,
         UNCHANGED <<endpoint, handler, produced, inner, second>>, events # <<>>, events' = Tail(events),
         handler = "raised" \/ \E n \in DOMAIN Yielded : Yielded[n].event \in FailedEvents
  PROVE  EventInv'
<1>1. /\ wire \in Seq(AnyEntry) /\ Flowing /\ EventTypes /\ record.status # "completed"
      /\ second.kind \notin {"events", "response"} /\ endpoint # "invoke" /\ gen = "reading" /\ ending = "none"
  BY ReadingFacts DEF Reading
<1>2. StreamTellsWhatHappened
  BY <1>1, FlowingTells
<1>3. ErrorEvent \in AnyEntry /\ IsEnd(ErrorEvent) /\ ErrorEvent.event.kind = "terminal_error"
  BY EntryFacts
<1> DEFINE v == wire'
<1>4. v = Append(wire, ErrorEvent)
  OBVIOUS
<1> HIDE DEF v
<1>5. /\ v \in Seq(AnyEntry) /\ Last(v) = ErrorEvent /\ Len(v) <= MaxProduced + MaxIdle + 1
      /\ \A n, m \in DOMAIN v : v[n] = v[m] /\ v[n] # Keepalive => n = m
      /\ \A n \in DOMAIN v : IsEnd(v[n]) => n = Len(v)
  BY <1>3, EndOfStream DEF v
<1>6. Where(v, Own) = Where(wire, Own)
  <2>1. Own \in OwnParts
    BY DEF OwnParts
  <2>2. ErrorEvent \notin Own
    BY <2>1, PartFacts
  <2>3. QED
    BY <1>1, <1>3, <1>4, <2>2, PartsGrow
<1>7. HandedYielded' = HandedYielded /\ Yielded' = Yielded
  BY <1>6 DEF HandedYielded, Yielded, v
<1>8. StreamEndsAsItWent'
  <2>1. IsPrefix(HandedYielded, Yielded)'
    BY <1>1, <1>2, <1>7 DEF StreamTellsWhatHappened, StreamEndsAsItWent
  <2>2. /\ (\A n, m \in DOMAIN wire : wire[n] = wire[m] /\ wire[n] # Keepalive => n = m)'
        /\ (\A n \in DOMAIN wire : IsEnd(wire[n]) => n = Len(wire) /\ gen = "ended")'
        /\ (gen = "ended" => IsEnd(Last(wire)))'
        /\ (Last(wire).event.kind = "terminal_error")'
    BY <1>3, <1>5 DEF v
  <2>3. (handler = "raised" \/ \E n \in DOMAIN Yielded : Yielded[n].event \in FailedEvents)'
    BY <1>7
  <2>4. QED
    BY <2>1, <2>2, <2>3 DEF StreamEndsAsItWent, FailedEvents
<1>9. record'.status = "failed"
  BY DEF Failed, InProgress
<1>10. EveryoneIsToldTheSame' /\ RecordOfTheEnd'
  BY <1>1, <1>3, <1>5, <1>9 DEF EveryoneIsToldTheSame, RecordOfTheEnd, v
<1>11. EventTypes'
  BY <1>5, <1>9, TypesAtEnd DEF v
<1>12. QED
  BY <1>5, <1>8, <1>10, <1>11 DEF EventInv, StreamTellsWhatHappened, v

\* what is in the queue was yielded
LEMMA QueuedWasYielded ==
  ASSUME Reading, NEW n \in 1 .. Len(events), events[n] \in Own
  PROVE  \E m \in DOMAIN Yielded : Yielded[m] = events[n]
<1>1. /\ wire \in Seq(AnyEntry) /\ events \in Seq(AnyEntry) /\ inner \in Seq(AnyEntry)
      /\ produced \in Seq(AnyEntry) /\ Flowing
  BY ReadingFacts
<1> DEFINE a == Where(wire, Own)
           b == Where(events, Own)
           c == Where(inner, Own)
<1>2. Yielded = a \o (b \o c)
  BY <1>1 DEF Flowing, FlowsAs, OwnParts, Yielded
<1>3. a \in Seq(AnyEntry) /\ b \in Seq(AnyEntry) /\ c \in Seq(AnyEntry)
  BY <1>1, WhereType
<1>4. PICK k \in 1 .. Len(b) : b[k] = events[n]
  BY <1>1, WhereFound, SMTT(30)
<1> HIDE DEF a, b, c
<1> DEFINE d == b \o c
<1>5. d \in Seq(AnyEntry) /\ Len(d) = Len(b) + Len(c) /\ k \in 1 .. Len(d) /\ d[k] = b[k]
  BY <1>3
<1> HIDE DEF d
<1>6. k + Len(a) \in DOMAIN (a \o d) /\ (a \o d)[k + Len(a)] = d[k]
  BY <1>3, <1>5
<1>7. QED
  BY <1>2, <1>4, <1>5, <1>6 DEF d

LEMMA SendEventFailsKeeps == ASSUME EventInv, SendEvent, IsFailure(Head(events).event) PROVE EventInv'
<1>1. /\ gen = "reading" /\ events # <<>> /\ ~IsMark(Head(events))
      /\ wire' = Append(wire, ErrorEvent) /\ gen' = "ended" /\ ending' = "stored" /\ record' = Failed
      /\ events' = Tail(events)
      /\ UNCHANGED <<endpoint, handler, produced, inner, second>>
  BY DEF SendEvent, EndStream
<1>2. Reading /\ Head(events) \in Queued /\ Head(events) = events[1] /\ 1 \in 1 .. Len(events)
  BY <1>1, ReadsEvents
<1> DEFINE x == Head(events)
<1>3. x \in Real
  BY <1>1, <1>2, EntryFacts DEF Queued
<1>4. x.event \in OwnEvents \cup {Usage} /\ IsFailure(x.event)
  BY <1>3 DEF Real, Entries
<1>5. x.event \in FailedEvents
  BY <1>4, OwnFailures
<1>6. x.event # Usage
  <2>1. ~IsFailure(Usage)
    BY PlainFailure DEF Usage, TerminalKind
  <2>2. QED
    BY <1>4, <2>1
<1>7. x \in Own
  BY <1>3, <1>6, EntryFacts
<1>8. PICK n \in 1 .. Len(events) : events[n] = x
  BY <1>2
<1> HIDE DEF x
<1>9. \E m \in DOMAIN Yielded : Yielded[m].event \in FailedEvents
  BY <1>2, <1>5, <1>7, <1>8, QueuedWasYielded
<1>10. QED
  BY <1>1, <1>2, <1>9, EndsInError

LEMMA SendErrorKeeps == ASSUME EventInv, SendError PROVE EventInv'
<1>1. /\ gen = "reading" /\ events # <<>> /\ Head(events).event.kind = "error"
      /\ wire' = Append(wire, ErrorEvent) /\ gen' = "ended" /\ ending' = "stored" /\ record' = Failed
      /\ events' = Tail(events)
      /\ UNCHANGED <<endpoint, handler, produced, inner, second>>
  BY DEF SendError, EndStream
<1>2. Reading /\ Head(events) \in Queued /\ Head(events) = events[1] /\ 1 \in 1 .. Len(events)
  BY <1>1, ReadsEvents
<1>3. IsMark(Head(events))
  BY <1>1 DEF IsMark
<1>4. Head(events) = ErrorEntry
  BY <1>1, <1>2, <1>3, EntryFacts DEF Queued
<1>5. PICK n \in 1 .. Len(events) : events[n] = ErrorEntry
  BY <1>2, <1>4
<1>6. handler = "raised"
  BY <1>2, <1>5, ReadingFacts DEF MarksOfTheEnd
<1>7. QED
  BY <1>1, <1>2, <1>6, EndsInError

\* the outputs in a sequence have numbers, and the last one is among them
LEMMA OutputIsANumber ==
  ASSUME NEW q \in Seq(AnyEntry)
  PROVE  /\ \A kind : Numbers(q, kind) \in Seq(Nat)
         /\ TerminalOutput(q) \in Nat
<1>1. ASSUME NEW kind PROVE Numbers(q, kind) \in Seq(Nat)
  <2> DEFINE w == Where(q, OwnOf(kind))
             z == [n \in DOMAIN w |-> w[n].n]
  <2>1. w \in Seq(AnyEntry)
    BY WhereType
  <2>2. \A e \in AnyEntry : e.n \in Nat
    BY DEF AnyEntry, Entries
  <2> HIDE DEF w
  <2>3. DOMAIN w = 1 .. Len(w) /\ Len(w) \in Nat /\ \A n \in 1 .. Len(w) : w[n].n \in Nat
    BY <2>1, <2>2
  <2>4. z \in Seq(Nat)
    BY <2>3
  <2>5. QED
    BY <2>4 DEF Numbers, w
<1>2. ASSUME NEW z \in Seq(Nat), z # <<>> PROVE Last(z) \in Nat
  BY <1>2 DEF Last
<1>3. TerminalOutput(q) \in Nat
  BY <1>1, <1>2 DEF TerminalOutput
<1>4. QED
  BY <1>1, <1>3

\* the last output depends on the outputs alone
LEMMA OutputOfParts ==
  ASSUME NEW q, NEW r, Where(q, OwnOf("final")) = Where(r, OwnOf("final")),
         Where(q, OwnOf("artifact")) = Where(r, OwnOf("artifact"))
  PROVE  TerminalOutput(q) = TerminalOutput(r)
<1>1. Numbers(q, "final") = Numbers(r, "final") /\ Numbers(q, "artifact") = Numbers(r, "artifact")
  BY DEF Numbers
<1>2. QED
  BY <1>1 DEF TerminalOutput

LEMMA UsageIsNotOwn == \A e \in Own : e.event # Usage
<1>1. \A e \in Own : e.event \in OwnEvents
  BY DEF Own, Entries
<1>2. QED
  BY <1>1, EventKinds

\* the sentinel is the end, and is no failure
LEMMA SentinelFacts ==
  ASSUME NEW q \in Seq(AnyEntry)
  PROVE  /\ SentinelOf(q) \in AnyEntry /\ IsEnd(SentinelOf(q)) /\ SentinelOf(q).event.kind = "done"
         /\ ~IsFailure(SentinelOf(q).event) /\ SentinelOf(q).n = TerminalOutput(q)
         /\ \A T \in OwnParts : SentinelOf(q) \notin T
<1> DEFINE k == TerminalOutput(q)
<1>1. k \in Nat
  BY OutputIsANumber
<1> HIDE DEF k
<1>2. [n |-> k, event |-> Plain("done")] \in AnyEntry /\ \A T \in OwnParts : [n |-> k, event |-> Plain("done")] \notin T
  BY <1>1, EntryFacts, PartFacts
<1>3. ~IsFailure(Plain("done")) /\ Plain("done").kind = "done"
  <2>1. ~IsFailure(Plain("done"))
    BY PlainFailure DEF TerminalKind
  <2>2. QED
    BY <2>1 DEF Plain
<1>4. SentinelOf(q) = [n |-> k, event |-> Plain("done")]
  BY DEF SentinelOf, k
<1>5. SentinelOf(q).event.kind = "done" /\ ~IsFailure(SentinelOf(q).event) /\ SentinelOf(q).n = TerminalOutput(q)
  BY <1>3, <1>4 DEF k
<1>6. IsEnd(SentinelOf(q))
  BY <1>5 DEF IsEnd
<1>7. QED
  BY <1>2, <1>4, <1>5, <1>6

\* at the mark of the end, all that was yielded has been sent
LEMMA AllIsSent ==
  ASSUME Reading, events # <<>>, Head(events) = DoneMark
  PROVE  handler \in {"returned", "cancelled"} /\ \A T \in OwnParts : Where(wire, T) = Where(produced, T)
<1>1. /\ wire \in Seq(AnyEntry) /\ events \in Seq(AnyEntry) /\ inner \in Seq(AnyEntry) /\ produced \in Seq(AnyEntry)
      /\ Flowing /\ MarksOfTheEnd /\ EventTypes
  BY ReadingFacts
<1>2. Head(events) = events[1] /\ 1 \in 1 .. Len(events) /\ Len(events) \in Nat
  BY <1>1, Behind
<1>3. PICK m \in 1 .. Len(events) : m = 1 /\ events[m] = DoneMark
  BY <1>2
<1>4. /\ \A j \in 1 .. Len(events) : j > m => events[j].event = Usage
      /\ inner = <<>> /\ handler # "running" /\ (handler = "raised" => m > 1)
  BY <1>1, <1>3 DEF MarksOfTheEnd
<1>5. handler \in {"returned", "cancelled"}
  BY <1>1, <1>3, <1>4 DEF EventTypes
<1>6. ASSUME NEW T \in OwnParts PROVE Where(wire, T) = Where(produced, T)
  <2>1. T \subseteq Own /\ DoneMark \notin T
    BY PartFacts
  <2>2. ASSUME NEW n \in 1 .. Len(events) PROVE events[n] \notin T
    <3>1. CASE n = 1
      BY <1>3, <2>1, <3>1
    <3>2. CASE n > 1
      BY <1>3, <1>4, <2>1, <3>2, UsageIsNotOwn
    <3>3. QED
      BY <3>1, <3>2
  <2>3. Where(events, T) = <<>>
    BY <1>1, <2>2, WhereFound
  <2>4. Where(inner, T) = <<>>
    BY <1>4, WhereOfNothing
  <2>5. Where(wire, T) \in Seq(AnyEntry)
    BY <1>1, WhereType
  <2>6. Where(produced, T) = Where(wire, T) \o (Where(events, T) \o Where(inner, T))
    BY <1>1 DEF Flowing, FlowsAs
  <2> DEFINE a == Where(wire, T)
             none == <<>>
  <2>7. none \in Seq(AnyEntry)
    OBVIOUS
  <2>8. a \o none = a /\ none \o none = none
    BY <2>5, <2>7, EntriesConcat
  <2>9. Where(produced, T) = a \o (none \o none)
    BY <2>3, <2>4, <2>6
  <2> HIDE DEF a, none
  <2>10. QED
    BY <2>8, <2>9 DEF a
<1>7. QED
  BY <1>5, <1>6

LEMMA SendSentinelKeeps == ASSUME EventInv, SendSentinel PROVE EventInv'
<1>1. /\ gen = "reading" /\ events # <<>> /\ Head(events) = DoneMark
      /\ wire' = Append(wire, SentinelOf(wire)) /\ gen' = "ended" /\ ending' = "stored" /\ record' = Stored(wire)
      /\ events' = Tail(events)
      /\ UNCHANGED <<endpoint, handler, produced, inner, second>>
  BY DEF SendSentinel, EndStream
<1>2. Reading
  BY <1>1, ReadsEvents
<1>3. /\ wire \in Seq(AnyEntry) /\ produced \in Seq(AnyEntry) /\ Flowing /\ EventTypes /\ record.status # "completed"
      /\ second.kind \notin {"events", "response"} /\ endpoint # "invoke" /\ gen = "reading" /\ ending = "none"
  BY <1>2, ReadingFacts DEF Reading
<1>4. StreamTellsWhatHappened
  BY <1>3, FlowingTells
<1>5. handler \in {"returned", "cancelled"} /\ \A T \in OwnParts : Where(wire, T) = Where(produced, T)
  BY <1>1, <1>2, AllIsSent
<1> DEFINE s == SentinelOf(wire)
           v == wire'
<1>6. /\ s \in AnyEntry /\ IsEnd(s) /\ s.event.kind = "done" /\ ~IsFailure(s.event) /\ s.n = TerminalOutput(wire)
      /\ \A T \in OwnParts : s \notin T
  BY <1>3, SentinelFacts
<1>7. v = Append(wire, s) /\ record' = [status |-> "completed", events |-> v, response |-> StreamResponse(v)]
  BY <1>1 DEF Stored
<1> HIDE DEF s
<1>8. /\ v \in Seq(AnyEntry) /\ DOMAIN v = 1 .. Len(v) /\ Last(v) = s
      /\ Len(v) = Len(wire) + 1 /\ v[Len(wire) + 1] = s /\ \A n \in 1 .. Len(wire) : v[n] = wire[n]
      /\ Len(v) <= MaxProduced + MaxIdle + 1
      /\ \A n, m \in DOMAIN v : v[n] = v[m] /\ v[n] # Keepalive => n = m
      /\ \A n \in DOMAIN v : IsEnd(v[n]) => n = Len(v)
  BY <1>2, <1>6, <1>7, EndOfStream
<1> HIDE DEF v
<1>9. ASSUME NEW T \in OwnParts PROVE Where(v, T) = Where(wire, T)
  BY <1>3, <1>6, <1>7, PartsGrow
<1>10. Own \in OwnParts /\ OwnOf("artifact") \in OwnParts /\ OwnOf("final") \in OwnParts
  BY DEF OwnParts
<1>11. HandedYielded' = HandedYielded /\ Yielded' = Yielded /\ Yielded = Where(wire, Own)
  BY <1>1, <1>5, <1>9, <1>10 DEF HandedYielded, Yielded, v
<1>12. ASSUME NEW n \in 1 .. Len(v) PROVE ~IsFailure(v[n].event)
  <2>1. CASE n \in 1 .. Len(wire)
    BY <1>3, <1>8, <2>1, EntryFacts DEF Flowing, FlowsAs
  <2>2. CASE n = Len(wire) + 1
    BY <1>6, <1>8, <2>2
  <2>3. Len(wire) \in Nat
    BY <1>3
  <2>4. QED
    BY <1>8, <2>1, <2>2, <2>3
<1>13. ASSUME NEW n \in DOMAIN Yielded
       PROVE  Yielded[n].event.kind # "failed" /\ Yielded[n].event.status # "cancelled"
  <2>1. Where(wire, Own) \in Seq(AnyEntry)
    BY <1>3, WhereType
  <2>2. n \in 1 .. Len(Where(wire, Own))
    BY <1>11, <2>1
  <2>3. PICK m \in 1 .. Len(wire) : Where(wire, Own)[n] = wire[m]
    BY <1>3, <2>2, WhereFound
  <2>4. ~IsFailure(wire[m].event)
    BY <1>3, EntryFacts DEF Flowing, FlowsAs
  <2>5. wire[m].event.kind # "failed" /\ wire[m].event.status # "cancelled"
    BY <2>4 DEF IsFailure, TerminalKind, TerminalStatus
  <2>6. QED
    BY <1>11, <2>3, <2>5
<1>14. StreamEndsAsItWent'
  <2>1. IsPrefix(HandedYielded, Yielded)'
    BY <1>3, <1>4, <1>11 DEF StreamTellsWhatHappened, StreamEndsAsItWent
  <2>2. /\ (\A n, m \in DOMAIN wire : wire[n] = wire[m] /\ wire[n] # Keepalive => n = m)'
        /\ (\A n \in DOMAIN wire : IsEnd(wire[n]) => n = Len(wire) /\ gen = "ended")'
        /\ (gen = "ended" => IsEnd(Last(wire)))'
        /\ (Last(wire).event.kind # "terminal_error")'
    BY <1>1, <1>6, <1>8 DEF v
  <2>3. /\ (HandedYielded = Yielded /\ handler \in {"returned", "cancelled"})'
        /\ (\A n \in DOMAIN Yielded : Yielded[n].event.kind # "failed" /\ Yielded[n].event.status # "cancelled")'
    BY <1>1, <1>5, <1>11, <1>13 DEF HandedYielded
  <2>4. QED
    BY <2>1, <2>2, <2>3 DEF StreamEndsAsItWent
<1>15. TerminalOutput(v) = TerminalOutput(wire)
  BY <1>9, <1>10, OutputOfParts
<1>16. StreamResponse(v).status = "completed" /\ StreamResponse(v).output = s.n
  BY <1>6, <1>8, <1>12, <1>15 DEF StreamResponse
<1>17. ASSUME NEW kind \in {"artifact", "final"} PROVE Numbers(Yielded, kind) = Numbers(wire, kind)
  <2>1. OwnOf(kind) \in OwnParts
    BY <1>10
  <2>2. OwnOf(kind) \subseteq Own
    BY <2>1, PartFacts
  <2>3. Where(Where(wire, Own), OwnOf(kind)) = Where(wire, OwnOf(kind))
    BY <1>3, <2>2, WhereWithin
  <2>4. QED
    BY <1>11, <2>3 DEF Numbers
<1>18. Numbers(Yielded, "artifact") # <<>> /\ Numbers(Yielded, "final") = <<>> => s.n = Last(Numbers(Yielded, "artifact"))
  <2>1. Numbers(Yielded, "artifact") = Numbers(wire, "artifact") /\ Numbers(Yielded, "final") = Numbers(wire, "final")
    BY <1>17
  <2>2. QED
    BY <1>6, <2>1 DEF TerminalOutput
<1>19. EveryoneIsToldTheSame'
  <2>1. (second.kind \notin {"events", "response"})'
    BY <1>1, <1>3
  <2>2. record'.response.status = "completed" /\ record'.response.output = s.n
    <3>1. record'.response = StreamResponse(v)
      BY <1>7
    <3>2. QED
      BY <1>16, <3>1
  <2>3. Last(wire').n = s.n
    BY <1>8 DEF v
  <2>4. QED
    BY <1>6, <1>7, <1>8, <1>11, <1>18, <2>1, <2>2, <2>3 DEF EveryoneIsToldTheSame, v
<1>20. RecordOfTheEnd'
  BY <1>1, <1>3, <1>7, <1>12 DEF RecordOfTheEnd, v
<1>21. EventTypes'
  BY <1>1, <1>2, <1>7, <1>8, TypesAtEnd DEF v
<1>22. QED
  BY <1>1, <1>8, <1>14, <1>19, <1>20, <1>21 DEF EventInv, StreamTellsWhatHappened, v

LEMMA ClientGoesKeeps == ASSUME EventInv, ClientGoes PROVE EventInv'
<1>1. /\ gen = "reading" /\ gen' = "aborted" /\ record' = Failed
      /\ UNCHANGED <<endpoint, handler, produced, inner, events, wire, ending, second>>
  BY DEF ClientGoes
<1>2. record'.status = "failed"
  BY <1>1 DEF Failed, InProgress
<1>3. EventTypes'
  BY <1>1, <1>2 DEF EventInv, EventTypes
<1>4. endpoint # "invoke" => Flowing'
  BY <1>1 DEF EventInv, Flowing
<1>5. second.kind \notin {"events", "response"} /\ (endpoint = "invoke" => wire = <<>> /\ events = <<>>)
  BY <1>1 DEF EventInv
<1>6. RecordOfTheEnd'
  BY <1>2 DEF RecordOfTheEnd
<1>7. QED
  BY <1>1, <1>2, <1>3, <1>4, <1>5, <1>6 DEF EventInv

\* the last event, and what becomes of the record if it is lost
LEMMA EndIsSentKeeps == ASSUME EventInv, EndIsSent PROVE EventInv'
<1>1. /\ ending = "stored" /\ ending' = "sent"
      /\ UNCHANGED <<endpoint, handler, produced, inner, events, wire, gen, record, second>>
  BY DEF EndIsSent
<1>2. gen = "ended"
  BY <1>1 DEF EventInv
<1>3. EventTypes' /\ RecordOfTheEnd'
  BY <1>1 DEF EventInv, EventTypes, RecordOfTheEnd
<1>4. StreamTellsWhatHappened' /\ Len(wire') <= MaxProduced + MaxIdle + 1
  BY <1>1, <1>2 DEF EventInv, StreamTellsWhatHappened, StreamEndsAsItWent, EveryoneIsToldTheSame, HandedYielded, Yielded
<1>5. QED
  BY <1>1, <1>2, <1>3, <1>4 DEF EventInv

LEMMA EndIsLostKeeps == ASSUME EventInv, EndIsLost PROVE EventInv'
<1>1. /\ ending = "stored" /\ ending' = "lost" /\ record' \in {record, Failed}
      /\ UNCHANGED <<endpoint, handler, produced, inner, events, wire, gen, second>>
  BY DEF EndIsLost
<1>2. gen = "ended" /\ Failed.status = "failed"
  BY <1>1 DEF EventInv, Failed, InProgress
<1>3. EventTypes'
  BY <1>1, <1>2 DEF EventInv, EventTypes
<1>4. RecordOfTheEnd'
  BY <1>1, <1>2 DEF EventInv, RecordOfTheEnd
<1>5. StreamEndsAsItWent' /\ Len(wire') <= MaxProduced + MaxIdle + 1
  BY <1>1, <1>2 DEF EventInv, StreamTellsWhatHappened, StreamEndsAsItWent, HandedYielded, Yielded
<1>6. EveryoneIsToldTheSame'
  BY <1>1, <1>2 DEF EventInv, StreamTellsWhatHappened, EveryoneIsToldTheSame, Yielded
<1>7. QED
  BY <1>1, <1>2, <1>3, <1>4, <1>5, <1>6 DEF EventInv, StreamTellsWhatHappened

\* what /invoke answers, and whether it is stored
LEMMA InvokeReturnsKeeps == ASSUME EventInv, InvokeReturns PROVE EventInv'
<1>1. /\ endpoint = "invoke" /\ gen = "reading" /\ handler' = "returned" /\ gen' = "ended" /\ ending' = "stored"
      /\ UNCHANGED <<endpoint, inner, events, second>> /\ wire = <<>>
  BY DEF InvokeReturns, EndStream, EventInv
<1>2. PICK event \in HandlerEvents :
        LET entry == [n |-> 1, event |-> event]
            response == InvokeResponse(entry) IN
        /\ produced' = <<entry>>
        /\ record' = IF response.status = "failed" THEN Failed
                     ELSE [status |-> "completed", events |-> <<>>, response |-> response]
        /\ wire' = Append(wire, [n |-> response.output, event |-> Plain(response.status)])
  BY DEF InvokeReturns, EndStream
<1> DEFINE response == InvokeResponse([n |-> 1, event |-> event])
<1>3. /\ record' = IF response.status = "failed" THEN Failed
                   ELSE [status |-> "completed", events |-> <<>>, response |-> response]
      /\ wire' = <<[n |-> response.output, event |-> Plain(response.status)]>>
      /\ Len(produced') = 1
  BY <1>1, <1>2
<1> HIDE DEF response
<1>4. second.kind \notin {"events", "response"} /\ second.kind \in {"none", "conflict", "events", "response"}
  BY <1>1 DEF EventInv, EventTypes
<1>5. record'.status \in {"completed", "failed"} /\ (record'.status = "completed" => record'.response = response)
  BY <1>3 DEF Failed, InProgress
<1>6. EventTypes'
  BY <1>1, <1>3, <1>4, <1>5, EventAssumption DEF EventTypes
<1>7. RecordOfTheEnd'
  BY <1>1, <1>3, <1>5 DEF RecordOfTheEnd
<1>8. StreamTellsWhatHappened'
  BY <1>1, <1>4 DEF StreamTellsWhatHappened, StreamEndsAsItWent, EveryoneIsToldTheSame
<1>9. Len(wire') <= MaxProduced + MaxIdle + 1
  BY <1>3, EventAssumption
<1>10. QED
  BY <1>1, <1>6, <1>7, <1>8, <1>9 DEF EventInv

LEMMA InvokeRaisesKeeps == ASSUME EventInv, InvokeRaises PROVE EventInv'
<1>1. /\ endpoint = "invoke" /\ gen = "reading" /\ handler' = "raised" /\ gen' = "ended" /\ ending' = "stored"
      /\ wire' = Append(wire, ErrorEvent) /\ record' = Failed
      /\ UNCHANGED <<endpoint, produced, inner, events, second>>
  BY DEF InvokeRaises, EndStream
<1>2. second.kind \notin {"events", "response"} /\ wire = <<>> /\ EventTypes
  BY <1>1 DEF EventInv
<1>3. record'.status = "failed"
  BY <1>1 DEF Failed, InProgress
<1>4. EventTypes'
  BY <1>1, <1>2, <1>3 DEF EventTypes
<1>5. RecordOfTheEnd'
  BY <1>3 DEF RecordOfTheEnd
<1>6. StreamTellsWhatHappened'
  BY <1>1, <1>2 DEF StreamTellsWhatHappened, StreamEndsAsItWent, EveryoneIsToldTheSame
<1>7. Len(wire') = 1
  BY <1>1, <1>2
<1>8. Len(wire') <= MaxProduced + MaxIdle + 1
  BY <1>7, EventAssumption
<1>9. QED
  BY <1>1, <1>4, <1>5, <1>6, <1>8 DEF EventInv

\* what the duplicate is answered is what is on record
LEMMA DuplicateKeeps == ASSUME EventInv, Duplicate PROVE EventInv'
<1>1. /\ second = NoReply /\ second' = ReplyOf(record)
      /\ UNCHANGED <<endpoint, handler, produced, inner, events, wire, gen, ending, record>>
  BY DEF Duplicate
<1>2. /\ record.status # "completed" => second'.kind = "conflict"
      /\ record.status = "completed" /\ endpoint = "invoke" => second'.kind = "response" /\ second'.response = record.response
      /\ record.status = "completed" /\ endpoint # "invoke" => second'.kind = "events" /\ second'.events = Sanitized(record.events)
  <2>1. CASE record.status # "completed"
    BY <1>1, <2>1 DEF ReplyOf
  <2>2. CASE record.status = "completed" /\ endpoint = "invoke"
    BY <1>1, <2>2 DEF ReplyOf
  <2>3. CASE record.status = "completed" /\ endpoint # "invoke"
    BY <1>1, <2>3 DEF ReplyOf
  <2>4. QED
    BY <2>1, <2>2, <2>3
<1>3. EventTypes /\ RecordOfTheEnd
  BY DEF EventInv
<1>4. record.status = "completed" /\ endpoint # "invoke" => second'.events = wire
  <2> SUFFICES ASSUME record.status = "completed", endpoint # "invoke" PROVE second'.events = wire
    OBVIOUS
  <2>1. record.events = wire /\ (\A i \in 1 .. Len(wire) : ~IsFailure(wire[i].event)) /\ wire \in Seq(AnyEntry)
    BY <1>3 DEF RecordOfTheEnd, EventTypes
  <2>2. DOMAIN wire = 1 .. Len(wire)
    BY <2>1
  <2>3. Sanitized(record.events) = wire
    BY <2>1, <2>2 DEF Sanitized
  <2>4. QED
    BY <1>2, <2>3
<1>5. EventTypes'
  BY <1>1, <1>2, <1>3 DEF EventTypes
<1>6. RecordOfTheEnd'
  BY <1>1, <1>3 DEF RecordOfTheEnd
<1>7. ASSUME gen = "ended" PROVE StreamTellsWhatHappened' /\ Len(wire') <= MaxProduced + MaxIdle + 1
  <2>1. StreamTellsWhatHappened /\ Len(wire) <= MaxProduced + MaxIdle + 1
    BY <1>7 DEF EventInv
  <2>2. StreamEndsAsItWent'
    BY <1>1, <2>1 DEF StreamTellsWhatHappened, StreamEndsAsItWent, HandedYielded, Yielded
  <2>8. (endpoint # "invoke" /\ ending \in {"stored", "sent"} =>
           (Last(wire).event.kind = "done" <=> record.status = "completed"))'
    BY <1>1, <2>1 DEF StreamTellsWhatHappened, EveryoneIsToldTheSame
  <2>3. (endpoint # "invoke" /\ record.status = "completed" =>
           /\ record.response.status = "completed"
           /\ record.response.output = Last(wire).n
           /\ Numbers(Yielded, "artifact") # <<>> /\ Numbers(Yielded, "final") = <<>> =>
                Last(wire).n = Last(Numbers(Yielded, "artifact")))'
    BY <1>1, <2>1 DEF StreamTellsWhatHappened, EveryoneIsToldTheSame, Yielded
  <2>4. second'.kind = "events" => gen' = "ended" /\ second'.events = wire'
    BY <1>1, <1>2, <1>4, <1>7
  <2>5. second'.kind = "response" =>
          gen' = "ended" /\ wire' = <<[n |-> second'.response.output, event |-> Plain(second'.response.status)]>>
    BY <1>1, <1>2, <1>3, <1>7 DEF RecordOfTheEnd
  <2>6. EveryoneIsToldTheSame'
    BY <2>3, <2>4, <2>5, <2>8 DEF EveryoneIsToldTheSame
  <2>7. QED
    BY <1>1, <2>1, <2>2, <2>6 DEF StreamTellsWhatHappened
<1>8. ASSUME gen # "ended"
      PROVE  /\ record'.status # "completed" /\ second'.kind \notin {"events", "response"}
             /\ endpoint # "invoke" => Flowing'
             /\ endpoint = "invoke" => wire' = <<>> /\ events' = <<>>
             /\ endpoint # "invoke" /\ gen = "reading" => MarksOfTheEnd'
  <2>1. record'.status # "completed" /\ second'.kind \notin {"events", "response"}
    BY <1>1, <1>2, <1>8 DEF EventInv
  <2>2. endpoint # "invoke" => Flowing'
    BY <1>1, <1>8 DEF EventInv, Flowing
  <2>3. endpoint # "invoke" /\ gen = "reading" => MarksOfTheEnd'
    BY <1>1, <1>8 DEF EventInv, MarksOfTheEnd
  <2>4. QED
    BY <1>1, <1>8, <2>1, <2>2, <2>3 DEF EventInv
<1>9. QED
  BY <1>1, <1>5, <1>6, <1>7, <1>8 DEF EventInv

LEMMA NothingSaid == ASSUME EventInv, UNCHANGED eventVars PROVE EventInv'
<1>1. UNCHANGED <<endpoint, handler, produced, inner, events, wire, gen, ending, record, second>>
  BY DEF eventVars
<1>2. EventTypes' = EventTypes /\ Flowing' = Flowing /\ MarksOfTheEnd' = MarksOfTheEnd /\ RecordOfTheEnd' = RecordOfTheEnd
  BY <1>1 DEF EventTypes, Flowing, MarksOfTheEnd, RecordOfTheEnd
<1>3. StreamTellsWhatHappened' = StreamTellsWhatHappened
  BY <1>1 DEF StreamTellsWhatHappened, StreamEndsAsItWent, EveryoneIsToldTheSame, HandedYielded, Yielded
<1>4. QED
  BY <1>1, <1>2, <1>3 DEF EventInv

LEMMA EventStarts == EventInit => EventInv
<1> SUFFICES ASSUME EventInit PROVE EventInv
  OBVIOUS
<1>1. /\ endpoint \in {"stream", "artifact", "invoke"} /\ handler = "running" /\ gen = "reading" /\ ending = "none"
      /\ produced = <<>> /\ inner = <<>> /\ events = <<>> /\ wire = <<>> /\ record = InProgress /\ second = NoReply
  BY EventAssumption DEF EventInit
<1>2. record.status = "in_progress" /\ second.kind = "none"
  BY <1>1 DEF InProgress, NoReply
<1> DEFINE q == <<>>
<1>3. q \in Seq(AnyEntry) /\ Len(q) = 0 /\ q \o (q \o q) = q
  OBVIOUS
<1>4. produced = q /\ inner = q /\ events = q /\ wire = q
  BY <1>1
<1>5. \A T : Where(q, T) = q /\ Size(q, T) = 0
  BY WhereOfNothing DEF Size
<1> HIDE DEF q
<1>6. EventTypes
  BY <1>1, <1>2, <1>3, <1>4, EventAssumption DEF EventTypes
<1>7. \A T : Count(T, q, q, q) = 0
  BY <1>5 DEF Count
<1>8. FlowsAs(q, q, q, q)
  <2>1. \A T \in OwnParts : Where(q, T) \o (Where(q, T) \o Where(q, T)) = Where(q, T)
    BY <1>3, <1>5
  <2>2. Count(Real, q, q, q) <= Len(q) /\ Size(q, {Keepalive}) <= MaxIdle
    BY <1>3, <1>5, <1>7, EventAssumption
  <2>3. \A k \in Nat \ {0} : Count(Numbered(k), q, q, q) <= 1 /\ (k > Len(q) => Count(Numbered(k), q, q, q) = 0)
    BY <1>7
  <2>4. Len(q) = Size(q, {Keepalive}) + Size(q, Real)
    BY <1>3, <1>5
  <2>5. \A n \in 1 .. Len(q) : q[n] = Keepalive \/ (q[n] \in Real /\ ~IsFailure(q[n].event))
    BY <1>3
  <2>6. QED
    BY <2>1, <2>2, <2>3, <2>4, <2>5 DEF FlowsAs
<1>9. Flowing
  BY <1>4, <1>8 DEF Flowing
<1>10. MarksOfTheEnd
  BY <1>1, <1>3, <1>4 DEF MarksOfTheEnd
<1>11. QED
  BY <1>1, <1>2, <1>6, <1>9, <1>10 DEF EventInv, RecordOfTheEnd

LEMMA EventInvariant == EventSpec => []EventInv
<1>1. EventInv /\ [EventNext]_eventVars => EventInv'
  BY ReportUsageKeeps, HandlerYieldsKeeps, HandlerEndsKeeps, FacadeEndsKeeps, FacadeForwardsKeeps,
     SendKeepaliveKeeps, SendEventOnKeeps, SendEventFailsKeeps, SendErrorKeeps, SendSentinelKeeps,
     ClientGoesKeeps, EndIsSentKeeps, EndIsLostKeeps, InvokeReturnsKeeps, InvokeRaisesKeeps, DuplicateKeeps, NothingSaid DEF EventNext
<1>2. QED
  BY EventStarts, <1>1, PTL DEF EventSpec

(* Types and bounds hold in every run of a stream.                          *)
THEOREM EventTypeCorrect == EventSpec => []EventTypeOK
<1>1. EventInv => EventTypeOK
  <2> SUFFICES ASSUME EventInv PROVE EventTypeOK
    OBVIOUS
  <2>1. EventTypes
    BY DEF EventInv
  <2>2. Len(wire) <= MaxProduced + MaxIdle + 1
    <3>1. CASE gen = "ended"
      BY <3>1 DEF EventInv
    <3>2. CASE gen # "ended" /\ endpoint = "invoke"
      <4>1. Len(wire) = 0
        BY <3>2 DEF EventInv
      <4>2. QED
        BY <4>1, EventAssumption
    <3>3. CASE gen # "ended" /\ endpoint # "invoke"
      <4>1. Len(wire) <= MaxProduced + MaxIdle
        BY <3>3, FlowingTells DEF EventInv
      <4>2. Len(wire) \in Nat
        BY <2>1, <3>3 DEF EventTypes
      <4>3. QED
        BY <4>1, <4>2, EventAssumption
    <3>4. QED
      BY <3>1, <3>2, <3>3
  <2>3. QED
    BY <2>1, <2>2 DEF EventTypes, EventTypeOK
<1>2. QED
  BY EventInvariant, <1>1, PTL

(* Whoever reads a stream, first client, duplicate or a later /invoke, is   *)
(* told all that happened, once and in order, and how it ended              *)
(* (StreamTellsWhatHappened), however many events there are.                *)
THEOREM StreamsTellWhatHappened == EventSpec => []StreamTellsWhatHappened
<1>1. EventInv => StreamTellsWhatHappened
  <2> SUFFICES ASSUME EventInv PROVE StreamTellsWhatHappened
    OBVIOUS
  <2>1. CASE gen = "ended"
    BY <2>1 DEF EventInv
  <2>2. CASE gen # "ended" /\ endpoint = "invoke"
    BY <2>2 DEF EventInv, StreamTellsWhatHappened, StreamEndsAsItWent, EveryoneIsToldTheSame
  <2>3. CASE gen # "ended" /\ endpoint # "invoke"
    BY <2>3, FlowingTells DEF EventInv
  <2>4. QED
    BY <2>1, <2>2, <2>3
<1>2. QED
  BY EventInvariant, <1>1, PTL

HIDE EventAssumption

-----------------------------------------------------------------------------
(* The text of a document (DocumentAssembly).                               *)
(* Sets of places in a text.                                                *)

\* n is the greatest of a set of numbers, or the least
IsGreatest(n, S) == n \in S /\ \A m \in S : m <= n
IsLeast(n, S)    == n \in S /\ \A m \in S : n <= m

LEMMA MaxIs ==
  ASSUME NEW N \in Nat, NEW S, S \subseteq 0 .. N, S # {}
  PROVE  Max(S) \in 0 .. N /\ IsGreatest(Max(S), S)
<1> DEFINE T == {N - n : n \in S}
<1>1. T \subseteq Nat /\ T # {}
  <2>1. \A n \in S : N - n \in Nat
    OBVIOUS
  <2>2. QED
    BY <2>1
<1>2. PICK k \in T : \A m \in T : ~(m < k)
  BY <1>1, LeastNumber
<1>3. PICK n \in S : k = N - n
  OBVIOUS
<1>4. \A m \in S : m <= n
  <2> SUFFICES ASSUME NEW m \in S PROVE m <= n
    OBVIOUS
  <2>1. N - m \in T
    OBVIOUS
  <2>2. ~(N - m < N - n)
    BY <1>2, <1>3, <2>1
  <2>3. m \in 0 .. N /\ n \in 0 .. N
    OBVIOUS
  <2>4. QED
    BY <2>2, <2>3
<1>5. \E x \in S : \A y \in S : x >= y
  <2>1. \A y \in S : n >= y
    BY <1>3, <1>4
  <2>2. QED
    BY <1>3, <2>1
<1>6. Max(S) \in S /\ \A y \in S : Max(S) >= y
  BY <1>5 DEF Max
<1>7. QED
  BY <1>6 DEF IsGreatest

LEMMA MinIs ==
  ASSUME NEW S, S \subseteq Nat, S # {}
  PROVE  IsLeast(Min(S), S)
<1>1. PICK n \in S : \A m \in S : ~(m < n)
  BY LeastNumber
<1>2. \A y \in S : n <= y
  BY <1>1
<1>3. Min(S) \in S /\ \A y \in S : Min(S) <= y
  BY <1>2 DEF Min
<1>4. QED
  BY <1>3 DEF IsLeast

\* LastOf is the last of some places, and zero if there is none
LEMMA LastOfIs ==
  ASSUME NEW N \in Nat, NEW S, S \subseteq 1 .. N
  PROVE  /\ LastOf(S) \in 0 .. N /\ \A m \in S : m <= LastOf(S)
         /\ S = {} => LastOf(S) = 0
         /\ S # {} => LastOf(S) \in S
         /\ LastOf(S) # 0 => LastOf(S) \in S
<1> DEFINE T == {0} \cup S
<1>1. T \subseteq 0 .. N /\ T # {}
  OBVIOUS
<1>2. Max(T) \in 0 .. N /\ IsGreatest(Max(T), T)
  <2> HIDE DEF T
  <2>1. QED
    BY <1>1, MaxIs
<1>3. LastOf(S) = Max(T)
  BY DEF LastOf
<1> HIDE DEF T
<1>4. /\ LastOf(S) \in 0 .. N /\ LastOf(S) \in T /\ \A m \in T : m <= LastOf(S)
  BY <1>2, <1>3 DEF IsGreatest
<1>5. S # {} => LastOf(S) # 0
  <2> SUFFICES ASSUME S # {} PROVE LastOf(S) # 0
    OBVIOUS
  <2>1. PICK m \in S : TRUE
    OBVIOUS
  <2>2. m \in 1 .. N /\ m <= LastOf(S)
    BY <1>4 DEF T
  <2>3. QED
    BY <1>4, <2>2
<1>6. QED
  BY <1>4, <1>5 DEF T

LEMMA SubsetSize ==
  ASSUME NEW N \in Nat, NEW S, S \subseteq 1 .. N, NEW R, R \subseteq S
  PROVE  /\ IsFiniteSet(S) /\ IsFiniteSet(R)
         /\ Cardinality(S) \in Nat /\ Cardinality(R) \in Nat /\ Cardinality(R) <= Cardinality(S)
<1>1. IsFiniteSet(1 .. N)
  BY FS_Interval
<1>2. IsFiniteSet(S)
  BY <1>1, FS_Subset
<1>3. QED
  BY <1>2, FS_Subset, FS_CardinalityType

\* as many places further on
LEMMA ShiftedSize ==
  ASSUME NEW N \in Nat, NEW S, S \subseteq 1 .. N, NEW k \in Nat
  PROVE  /\ IsFiniteSet({n + k : n \in S})
         /\ Cardinality({n + k : n \in S}) = Cardinality(S)
<1> DEFINE T == {n + k : n \in S}
           f == [n \in S |-> n + k]
<1>1. IsFiniteSet(S)
  BY SubsetSize
<1>2. f \in Bijection(S, T)
  <2>1. f \in [S -> T]
    OBVIOUS
  <2>2. \A a, b \in S : f[a] = f[b] => a = b
    OBVIOUS
  <2>3. \A t \in T : \E s \in S : f[s] = t
    OBVIOUS
  <2> HIDE DEF f, T
  <2>4. QED
    BY <2>1, <2>2, <2>3 DEF Bijection, Injection, Surjection, IsInjective
<1> HIDE DEF f
<1>3. QED
  BY <1>1, <1>2, FS_Bijection DEF ExistsBijection

-----------------------------------------------------------------------------
(* Pieces of a text.                                                        *)

LEMMA PieceIs ==
  ASSUME NEW S, NEW t \in Seq(S), NEW a \in 1 .. Len(t) + 1, NEW b \in 0 .. Len(t), a <= b + 1
  PROVE  /\ SubSeq(t, a, b) \in Seq(S) /\ Len(SubSeq(t, a, b)) = b - a + 1
         /\ \A n \in 1 .. b - a + 1 : SubSeq(t, a, b)[n] = t[a + n - 1] /\ a + n - 1 \in 1 .. Len(t)
<1> DEFINE q == SubSeq(t, a, b)
           L == b - a + 1
<1>1. L \in Nat /\ \A n \in 1 .. L : a + n - 1 \in 1 .. Len(t)
  OBVIOUS
<1>2. q = [n \in 1 .. L |-> t[a + n - 1]]
  OBVIOUS
<1>3. \A n \in 1 .. L : t[a + n - 1] \in S
  BY <1>1
<1> HIDE DEF q, L
<1>4. QED
  BY <1>1, <1>2, <1>3 DEF q, L

LEMMA TextsJoined ==
  ASSUME NEW S, NEW s \in Seq(S), NEW t \in Seq(S)
  PROVE  /\ s \o t \in Seq(S) /\ Len(s \o t) = Len(s) + Len(t)
         /\ \A i \in 1 .. Len(s) : (s \o t)[i] = s[i]
         /\ \A i \in 1 .. Len(t) : (s \o t)[Len(s) + i] = t[i]
BY ConcatProperties, SMTT(30)

LEMMA TextCut ==
  ASSUME NEW S, NEW t \in Seq(S), NEW k \in 0 .. Len(t)
  PROVE  /\ SubSeq(t, 1, k) \in Seq(S) /\ SubSeq(t, k + 1, Len(t)) \in Seq(S)
         /\ t = SubSeq(t, 1, k) \o SubSeq(t, k + 1, Len(t))
<1>1. SubSeq(t, 1, k) \in Seq(S)
  OBVIOUS
<1>2. SubSeq(t, k + 1, Len(t)) \in Seq(S)
  BY PieceIs
<1>3. 1 \in 1 .. Len(t) + 1 /\ k \in 1 - 1 .. Len(t) /\ Len(t) \in k .. Len(t)
  OBVIOUS
<1>4. SubSeq(t, 1, k) \o SubSeq(t, k + 1, Len(t)) = SubSeq(t, 1, Len(t))
  BY <1>3, ConcatAdjacentSubSeq
<1>5. SubSeq(t, 1, Len(t)) = t
  BY SubSeqFull
<1>6. QED
  BY <1>1, <1>2, <1>4, <1>5

\* strip leaves what is from the first to the last mark that is not blank
IsStripped(q, t) ==
  \/ q = <<>> /\ \A n \in 1 .. Len(t) : t[n].kind = "blank"
  \/ \E a, b \in 1 .. Len(t) :
       /\ a <= b /\ q = SubSeq(t, a, b) /\ t[a].kind # "blank" /\ t[b].kind # "blank"
       /\ \A n \in 1 .. Len(t) : n < a \/ n > b => t[n].kind = "blank"

LEMMA StrippedIs == ASSUME NEW S, NEW t \in Seq(S) PROVE IsStripped(Stripped(t), t)
<1> DEFINE solid == DOMAIN t \ Places(t, {"blank"})
<1>1. \A n \in 1 .. Len(t) : n \in solid <=> t[n].kind # "blank"
  BY DEF Places
<1>2. solid \subseteq 0 .. Len(t) /\ solid \subseteq 1 .. Len(t) /\ solid \subseteq Nat /\ Len(t) \in Nat
  OBVIOUS
<1>3. Stripped(t) = IF solid = {} THEN <<>> ELSE SubSeq(t, Min(solid), Max(solid))
  BY DEF Stripped
<1> HIDE DEF solid
<1>4. CASE solid = {}
  BY <1>1, <1>3, <1>4 DEF IsStripped
<1>5. CASE solid # {}
  <2>1. IsLeast(Min(solid), solid) /\ IsGreatest(Max(solid), solid)
    BY <1>2, <1>5, MinIs, MaxIs
  <2> DEFINE a == Min(solid)
             b == Max(solid)
  <2> HIDE DEF a, b
  <2>2. a \in solid /\ b \in solid /\ \A n \in solid : a <= n /\ n <= b
    BY <2>1 DEF a, b, IsLeast, IsGreatest
  <2>3. a \in 1 .. Len(t) /\ b \in 1 .. Len(t) /\ a <= b /\ t[a].kind # "blank" /\ t[b].kind # "blank"
    BY <1>1, <1>2, <2>2
  <2>4. \A n \in 1 .. Len(t) : n < a \/ n > b => t[n].kind = "blank"
    BY <1>1, <2>2, <2>3
  <2>5. Stripped(t) = SubSeq(t, a, b)
    BY <1>3, <1>5 DEF a, b
  <2>6. QED
    BY <2>3, <2>4, <2>5 DEF IsStripped
<1>6. QED
  BY <1>4, <1>5

\* a text that neither begins nor ends with a blank line
Trimmed(t) == t # <<>> => t[1].kind # "blank" /\ t[Len(t)].kind # "blank"

LEMMA StrippedText ==
  ASSUME NEW S, NEW t \in Seq(S)
  PROVE  /\ Stripped(t) \in Seq(S) /\ Trimmed(Stripped(t))
         /\ \A i \in 1 .. Len(Stripped(t)) : \E n \in 1 .. Len(t) : Stripped(t)[i] = t[n]
<1> DEFINE q == Stripped(t)
<1>1. IsStripped(q, t)
  BY StrippedIs
<1> HIDE DEF q
<1>2. CASE q = <<>>
  BY <1>2 DEF q, Trimmed
<1>3. CASE \E a, b \in 1 .. Len(t) : a <= b /\ q = SubSeq(t, a, b) /\ t[a].kind # "blank" /\ t[b].kind # "blank"
  <2>1. PICK a \in 1 .. Len(t), b \in 1 .. Len(t) :
          a <= b /\ q = SubSeq(t, a, b) /\ t[a].kind # "blank" /\ t[b].kind # "blank"
    BY <1>3
  <2>2. a \in 1 .. Len(t) + 1 /\ b \in 0 .. Len(t) /\ a <= b + 1
    BY <2>1
  <2>3. /\ q \in Seq(S) /\ Len(q) = b - a + 1
        /\ \A n \in 1 .. b - a + 1 : q[n] = t[a + n - 1] /\ a + n - 1 \in 1 .. Len(t)
    BY <2>1, <2>2, PieceIs
  <2>4. q[1] = t[a] /\ q[Len(q)] = t[b]
    BY <2>1, <2>3, SMTT(30)
  <2>5. QED
    BY <2>1, <2>3, <2>4 DEF q, Trimmed
<1>4. QED
  BY <1>1, <1>2, <1>3 DEF IsStripped

LEMMA StrippedSame ==
  ASSUME NEW S, NEW t \in Seq(S), Trimmed(t)
  PROVE  Stripped(t) = t
<1> DEFINE q == Stripped(t)
<1>1. IsStripped(q, t)
  BY StrippedIs
<1> HIDE DEF q
<1>2. CASE t = <<>>
  <2>1. Len(t) = 0
    BY <1>2
  <2>2. QED
    BY <1>1, <1>2, <2>1 DEF IsStripped, q
<1>3. CASE t # <<>>
  <2>1. 1 \in 1 .. Len(t) /\ Len(t) \in 1 .. Len(t) /\ t[1].kind # "blank" /\ t[Len(t)].kind # "blank"
    BY <1>3 DEF Trimmed
  <2>2. PICK a \in 1 .. Len(t), b \in 1 .. Len(t) :
          q = SubSeq(t, a, b) /\ \A n \in 1 .. Len(t) : n < a \/ n > b => t[n].kind = "blank"
    BY <1>1, <2>1 DEF IsStripped
  <2>3. a = 1 /\ b = Len(t)
    BY <2>1, <2>2
  <2>4. SubSeq(t, 1, Len(t)) = t
    BY SubSeqFull
  <2>5. QED
    BY <2>2, <2>3, <2>4 DEF q
<1>4. QED
  BY <1>2, <1>3

\* what strip leaves of the beginning of a text that does not begin with a blank line
LEMMA StrippedBeginning ==
  ASSUME NEW S, NEW t \in Seq(S), Trimmed(t), NEW n \in 0 .. Len(t)
  PROVE  /\ n = 0 => Stripped(Beginning(t, n)) = <<>>
         /\ n > 0 => \E b \in 1 .. n :
              /\ Stripped(Beginning(t, n)) = Beginning(t, b) /\ t[b].kind # "blank"
              /\ \A m \in b + 1 .. n : t[m].kind = "blank"
<1> DEFINE u == Beginning(t, n)
           q == Stripped(u)
<1>1. u \in Seq(S) /\ Len(u) = n /\ \A m \in 1 .. n : u[m] = t[m]
  BY DEF Beginning
<1> HIDE DEF u
<1>2. IsStripped(q, u)
  BY <1>1, StrippedIs
<1> HIDE DEF q
<1>3. n = 0 => q = <<>>
  BY <1>1, <1>2 DEF IsStripped
<1>4. ASSUME n > 0 PROVE \E b \in 1 .. n : q = Beginning(t, b) /\ t[b].kind # "blank" /\ \A m \in b + 1 .. n : t[m].kind = "blank"
  <2>1. t # <<>> /\ 1 \in 1 .. n /\ u[1].kind # "blank"
    BY <1>1, <1>4 DEF Trimmed
  <2>2. PICK a \in 1 .. n, b \in 1 .. n :
          /\ q = SubSeq(u, a, b) /\ u[b].kind # "blank"
          /\ \A m \in 1 .. n : m < a \/ m > b => u[m].kind = "blank"
    BY <1>1, <1>2, <2>1 DEF IsStripped
  <2>3. a = 1
    BY <2>1, <2>2
  <2>4. SubSeq(SubSeq(t, 1, n), 1, b) = SubSeq(t, 1, b)
    <3>1. SubSeq(t, 1, n) = [i \in 1 .. n |-> t[i]] /\ SubSeq(t, 1, b) = [i \in 1 .. b |-> t[i]]
      OBVIOUS
    <3>2. SubSeq(SubSeq(t, 1, n), 1, b) = [i \in 1 .. b |-> SubSeq(t, 1, n)[i]]
      OBVIOUS
    <3>3. \A i \in 1 .. b : SubSeq(t, 1, n)[i] = t[i]
      BY <3>1
    <3>4. QED
      BY <3>1, <3>2, <3>3
  <2>5. q = Beginning(t, b)
    BY <2>2, <2>3, <2>4 DEF u, Beginning
  <2>6. \A m \in b + 1 .. n : t[m].kind = "blank"
    BY <1>1, <2>2
  <2>7. t[b].kind # "blank"
    BY <1>1, <2>2
  <2>8. QED
    BY <2>5, <2>6, <2>7
<1>5. QED
  BY <1>3, <1>4 DEF q, u

-----------------------------------------------------------------------------
(* The section that was asked for.                                          *)

LEMMA MarkIn ==
  /\ Marks \subseteq AnyMark
  /\ \A n \in Nat : H2(n) \in Marks /\ H3(n) \in Marks
  /\ Full \in Marks /\ Clause \in Marks /\ Open \in Marks /\ Item \in Marks /\ Fence \in Marks /\ Blank \in Marks
  /\ Welded \in AnyMark /\ Bridge \in AnyMark /\ Closing \in AnyMark
BY DEF Marks, AnyMark, H2, H3, Full, Clause, Open, Item, Fence, Blank, Welded, Bridge, Closing, Mark, Foreign

LEMMA UnderText ==
  ASSUME NEW S, NEW t \in Seq(S), NEW n \in 1 .. Len(t)
  PROVE  Under(t, n) \in Seq(S)
<1> DEFINE ends == {m \in Places(t, {"h2"}) : m > n}
<1>1. ends \subseteq Nat /\ \A m \in ends : m \in 1 .. Len(t) /\ m > n
  BY DEF Places
<1>2. Under(t, n) = SubSeq(t, n + 1, IF ends = {} THEN Len(t) ELSE Min(ends) - 1)
  BY DEF Under
<1> HIDE DEF ends
<1>3. CASE ends = {}
  <2>1. n + 1 \in 1 .. Len(t) + 1 /\ Len(t) \in 0 .. Len(t) /\ n + 1 <= Len(t) + 1
    OBVIOUS
  <2>2. QED
    BY <1>2, <1>3, <2>1, PieceIs
<1>4. CASE ends # {}
  <2>1. Min(ends) \in ends
    BY <1>1, <1>4, MinIs DEF IsLeast
  <2> DEFINE k == Min(ends) - 1
  <2>5. ASSUME NEW m, m \in 1 .. Len(t), m > n
        PROVE  n + 1 \in 1 .. Len(t) + 1 /\ m - 1 \in 0 .. Len(t) /\ n + 1 <= m - 1 + 1
    BY <2>5
  <2>2. n + 1 \in 1 .. Len(t) + 1 /\ k \in 0 .. Len(t) /\ n + 1 <= k + 1
    BY <1>1, <2>1, <2>5
  <2>3. Under(t, n) = SubSeq(t, n + 1, k)
    BY <1>2, <1>4
  <2> HIDE DEF k
  <2>4. QED
    BY <2>2, <2>3, PieceIs
<1>5. QED
  BY <1>3, <1>4

LEMMA IsolatedText ==
  ASSUME NEW t \in Seq(Marks), NEW title \in Nat
  PROVE  Isolated(t, title) \in Seq(Marks)
<1> DEFINE asked == {n \in Places(t, {"h2"}) : t[n].title = title}
           any == Places(t, {"h2"})
<1>1. any \subseteq 1 .. Len(t) /\ asked \subseteq 1 .. Len(t) /\ any \subseteq Nat /\ asked \subseteq Nat
  BY DEF Places
<1>2. H2(title) \in Marks /\ Blank \in Marks
  BY MarkIn
<1>3. Isolated(t, title) =
        CASE asked # {} -> Stripped(<<H2(title)>> \o Under(t, Min(asked)))
          [] asked = {} /\ any # {} -> Stripped(<<H2(title), Blank>> \o Stripped(Under(t, Min(any))))
          [] any = {} -> IF Contains(t, H3(title)) THEN t ELSE Stripped(<<H2(title), Blank>> \o t)
  BY DEF Isolated
<1>6. any = {} => asked = {}
  OBVIOUS
<1> HIDE DEF asked, any
<1>4. ASSUME NEW p \in Seq(Marks), NEW q \in Seq(Marks) PROVE Stripped(p \o q) \in Seq(Marks)
  <2>1. p \o q \in Seq(Marks)
    OBVIOUS
  <2>2. QED
    BY <2>1, StrippedText
<1>5. <<H2(title)>> \in Seq(Marks) /\ <<H2(title), Blank>> \in Seq(Marks)
  BY <1>2
<1>7. CASE asked # {}
  <2>1. Min(asked) \in 1 .. Len(t)
    BY <1>1, <1>7, MinIs DEF IsLeast
  <2>2. Under(t, Min(asked)) \in Seq(Marks)
    BY <2>1, UnderText
  <2>3. QED
    BY <1>3, <1>4, <1>5, <1>6, <1>7, <2>2
<1>8. CASE asked = {} /\ any # {}
  <2>1. Min(any) \in 1 .. Len(t)
    BY <1>1, <1>8, MinIs DEF IsLeast
  <2>2. Under(t, Min(any)) \in Seq(Marks)
    BY <2>1, UnderText
  <2>3. Stripped(Under(t, Min(any))) \in Seq(Marks)
    BY <2>2, StrippedText
  <2>4. QED
    BY <1>3, <1>4, <1>5, <1>8, <2>3
<1>9. CASE any = {}
  BY <1>3, <1>4, <1>5, <1>6, <1>9
<1>10. QED
  BY <1>7, <1>8, <1>9

(* What is chosen from a sequence all of which is to be chosen.             *)
LEMMA WhereAll ==
  ASSUME NEW S, NEW s \in Seq(S), NEW T, \A n \in 1 .. Len(s) : s[n] \in T
  PROVE  Where(s, T) = s
<1> DEFINE N == Len(s)
           I == {n \in 0 .. N : Where(SubSeq(s, 1, n), T) = SubSeq(s, 1, n)}
<1>1. N \in Nat
  OBVIOUS
<1>2. 0 \in I
  <2>1. SubSeq(s, 1, 0) = <<>>
    OBVIOUS
  <2>2. Where(SubSeq(s, 1, 0), T) = SubSeq(s, 1, 0)
    BY <2>1, WhereOfNothing
  <2>3. QED
    BY <1>1, <2>2
<1>3. ASSUME NEW n \in 1 .. N, n - 1 \in I PROVE n \in I
  <2> DEFINE q == SubSeq(s, 1, n - 1)
             r == SubSeq(s, 1, n)
  <2>1. q \in Seq(S) /\ s[n] \in S /\ r = Append(q, s[n]) /\ s[n] \in T
    OBVIOUS
  <2>2. Where(q, T) = q
    BY <1>3
  <2> HIDE DEF q, r
  <2>3. Where(Append(q, s[n]), T) = Append(Where(q, T), s[n])
    BY <2>1, WhereAppend
  <2>4. Where(r, T) = r
    BY <2>1, <2>2, <2>3
  <2>5. QED
    BY <2>4 DEF r
<1>4. N \in I
  <2> HIDE DEF I, N
  <2>1. \A n \in 0 .. N : n \in I
    BY <1>1, <1>2, <1>3, UpTo
  <2>2. QED
    BY <1>1, <2>1
<1>5. SubSeq(s, 1, N) = s
  OBVIOUS
<1>6. QED
  BY <1>4, <1>5

\* the text of a section, without the heading of the section and without another of its level
IsBody(t, title) ==
  /\ Trimmed(t)
  /\ \A n \in 1 .. Len(t) : t[n].kind # "h2" /\ t[n] # H3(title)

LEMMA NormalisedBody ==
  ASSUME NEW t \in Seq(Marks), NEW title \in Nat
  PROVE  Normalised(t, title) \in Seq(Marks) /\ IsBody(Normalised(t, title), title)
<1> DEFINE T == AnyMark \ {H2(title), H3(title)}
           rest == Where(t, T)
           mapped == [n \in DOMAIN rest |-> IF rest[n].kind = "h2" THEN H3(rest[n].title) ELSE rest[n]]
<1>1. rest \in Seq(Marks) /\ rest \in Seq(T)
  BY WhereType
<1> HIDE DEF rest
<1>2. \A n \in 1 .. Len(rest) : rest[n] \in Marks /\ rest[n] # H2(title) /\ rest[n] # H3(title)
  BY <1>1
<1>3. \A m \in Marks : m.title \in Nat /\ (m.kind = "h2" => m = H2(m.title))
  BY DEF Marks, H2, Mark
<1>4. \A n \in Nat : H3(n) \in Marks /\ H3(n).kind # "h2" /\ (H3(n) = H3(title) => n = title)
  BY MarkIn DEF H3, Mark
<1>5. \A n \in 1 .. Len(rest) : mapped[n] \in Marks /\ mapped[n].kind # "h2" /\ mapped[n] # H3(title)
  <2> SUFFICES ASSUME NEW n \in 1 .. Len(rest)
               PROVE  mapped[n] \in Marks /\ mapped[n].kind # "h2" /\ mapped[n] # H3(title)
    OBVIOUS
  <2>1. n \in DOMAIN rest
    BY <1>1
  <2>2. CASE rest[n].kind = "h2"
    <3>1. mapped[n] = H3(rest[n].title)
      BY <2>1, <2>2
    <3>2. rest[n].title \in Nat /\ rest[n].title # title
      BY <1>2, <1>3, <2>2
    <3>3. QED
      BY <1>4, <3>1, <3>2
  <2>3. CASE rest[n].kind # "h2"
    BY <1>2, <2>1, <2>3
  <2>4. QED
    BY <2>2, <2>3
<1>6. mapped = [n \in 1 .. Len(rest) |-> mapped[n]] /\ Len(rest) \in Nat
  BY <1>1
<1> DEFINE q == Stripped(mapped)
<1>7. Normalised(t, title) = q
  BY DEF Normalised, rest
<1> HIDE DEF mapped
<1>8. mapped \in Seq(Marks) /\ Len(mapped) = Len(rest)
  BY <1>5, <1>6
<1>9. q \in Seq(Marks) /\ Trimmed(q) /\ \A i \in 1 .. Len(q) : \E n \in 1 .. Len(mapped) : q[i] = mapped[n]
  BY <1>8, StrippedText
<1> HIDE DEF q
<1>10. \A i \in 1 .. Len(q) : q[i].kind # "h2" /\ q[i] # H3(title)
  BY <1>5, <1>8, <1>9
<1>11. QED
  BY <1>7, <1>9, <1>10 DEF IsBody

LEMMA NormalisedSame ==
  ASSUME NEW t \in Seq(AnyMark), NEW title \in Nat, IsBody(t, title)
  PROVE  Normalised(t, title) = t
<1> DEFINE T == AnyMark \ {H2(title), H3(title)}
           rest == Where(t, T)
           mapped == [n \in DOMAIN rest |-> IF rest[n].kind = "h2" THEN H3(rest[n].title) ELSE rest[n]]
<1>1. \A n \in 1 .. Len(t) : t[n] \in T
  <2> SUFFICES ASSUME NEW n \in 1 .. Len(t) PROVE t[n] \in T
    OBVIOUS
  <2>1. t[n] \in AnyMark /\ t[n].kind # "h2" /\ t[n] # H3(title)
    BY DEF IsBody
  <2>2. H2(title).kind = "h2"
    BY DEF H2, Mark
  <2>3. QED
    BY <2>1, <2>2
<1>2. rest = t
  <2> HIDE DEF T
  <2>1. QED
    BY <1>1, WhereAll
<1>3. Normalised(t, title) = Stripped(mapped)
  BY DEF Normalised
<1>4. mapped = t
  <2>1. mapped = [n \in DOMAIN t |-> IF t[n].kind = "h2" THEN H3(t[n].title) ELSE t[n]]
    BY <1>2
  <2>2. \A n \in DOMAIN t : t[n].kind # "h2"
    BY DEF IsBody
  <2>3. t = [n \in DOMAIN t |-> t[n]]
    OBVIOUS
  <2> HIDE DEF mapped
  <2>4. QED
    BY <2>1, <2>2, <2>3
<1>5. Stripped(t) = t
  BY StrippedSame DEF IsBody
<1>6. QED
  BY <1>3, <1>4, <1>5

\* the section under its heading
LEMMA TitledIs ==
  ASSUME NEW t \in Seq(AnyMark), t # <<>>, NEW title \in Nat, IsBody(t, title)
  PROVE  /\ Titled(t, title) = <<H2(title), Blank>> \o t
         /\ Titled(t, title) \in Seq(AnyMark)
<1> DEFINE h == <<H2(title), Blank>>
           q == h \o t
<1>1. Normalised(t, title) = t
  BY NormalisedSame
<1>2. H2(title) \in AnyMark /\ Blank \in AnyMark
  BY MarkIn
<1>3. h \in Seq(AnyMark) /\ Len(h) = 2 /\ Len(t) \in Nat /\ Len(t) > 0
  BY <1>2
<1>4. q \in Seq(AnyMark) /\ Len(q) = Len(t) + 2 /\ q[1] = h[1] /\ q[Len(t) + 2] = t[Len(t)]
  <2> HIDE DEF h
  <2>1. /\ q \in Seq(AnyMark) /\ Len(q) = Len(h) + Len(t)
        /\ \A i \in 1 .. Len(h) : q[i] = h[i]
        /\ \A i \in 1 .. Len(t) : q[Len(h) + i] = t[i]
    <3>1. h \in Seq(AnyMark)
      BY <1>3
    <3>2. QED
      BY <3>1, SMT
  <2>2. 1 \in 1 .. Len(h) /\ Len(t) \in 1 .. Len(t) /\ Len(t) + 2 = Len(h) + Len(t)
    BY <1>3
  <2> HIDE DEF q
  <2>3. QED
    BY <1>3, <2>1, <2>2
<1>5. q[1].kind # "blank"
  BY <1>4 DEF H2, Mark
<1>6. q[Len(q)].kind # "blank"
  BY <1>4 DEF IsBody, Trimmed
<1>7. Titled(t, title) = Stripped(q)
  BY <1>1 DEF Titled
<1> HIDE DEF q
<1>8. Stripped(q) = q
  BY <1>4, <1>5, <1>6, StrippedSame DEF Trimmed
<1>9. QED
  BY <1>4, <1>7, <1>8 DEF q

-----------------------------------------------------------------------------
(* Blocks of code and units of texts that are put together.                 *)

LEMMA PlacesIn ==
  ASSUME NEW S, NEW t \in Seq(S), NEW kinds
  PROVE  /\ Places(t, kinds) \subseteq 1 .. Len(t)
         /\ \A n \in 1 .. Len(t) : n \in Places(t, kinds) <=> t[n].kind \in kinds
BY DEF Places

LEMMA PlacesJoined ==
  ASSUME NEW S, NEW s \in Seq(S), NEW t \in Seq(S), NEW kinds
  PROVE  Places(s \o t, kinds) = Places(s, kinds) \cup {n + Len(s) : n \in Places(t, kinds)}
<1> DEFINE u == s \o t
           P == Places(u, kinds)
           Q == {n + Len(s) : n \in Places(t, kinds)}
<1>1. /\ Len(u) = Len(s) + Len(t) /\ Len(s) \in Nat /\ Len(t) \in Nat /\ u \in Seq(S)
      /\ \A i \in 1 .. Len(s) : u[i] = s[i]
      /\ \A i \in 1 .. Len(t) : u[Len(s) + i] = t[i]
  OBVIOUS
<1> HIDE DEF u
<1>2. P \subseteq 1 .. Len(u) /\ \A n \in 1 .. Len(u) : n \in P <=> u[n].kind \in kinds
  BY <1>1, PlacesIn
<1>3. Places(t, kinds) \subseteq 1 .. Len(t) /\ \A n \in 1 .. Len(t) : n \in Places(t, kinds) <=> t[n].kind \in kinds
  BY PlacesIn
<1>4. Places(s, kinds) \subseteq 1 .. Len(s) /\ \A n \in 1 .. Len(s) : n \in Places(s, kinds) <=> s[n].kind \in kinds
  BY PlacesIn
<1> HIDE DEF P
<1>5. Q \subseteq Len(s) + 1 .. Len(u)
  BY <1>1, <1>3
<1>6. \A n \in Len(s) + 1 .. Len(u) : n \in Q <=> n - Len(s) \in Places(t, kinds)
  BY <1>1, <1>3
<1> HIDE DEF Q
<1>7. \A n \in 1 .. Len(u) : n \in P <=> n \in Places(s, kinds) \/ n \in Q
  <2> SUFFICES ASSUME NEW n \in 1 .. Len(u) PROVE n \in P <=> n \in Places(s, kinds) \/ n \in Q
    OBVIOUS
  <2>1. CASE n <= Len(s)
    <3>1. n \in 1 .. Len(s) /\ n \notin Q
      BY <1>1, <1>5, <2>1
    <3>2. QED
      BY <1>1, <1>2, <1>4, <3>1
  <2>2. CASE n > Len(s)
    <3>1. n \in Len(s) + 1 .. Len(u) /\ n - Len(s) \in 1 .. Len(t) /\ n \notin Places(s, kinds)
      BY <1>1, <1>4, <2>2
    <3>2. u[n] = t[n - Len(s)]
      <4>1. n = Len(s) + (n - Len(s))
        BY <1>1, <3>1
      <4>2. u[Len(s) + (n - Len(s))] = t[n - Len(s)]
        BY <1>1, <3>1
      <4>3. QED
        BY <4>1, <4>2
    <3>3. QED
      BY <1>2, <1>3, <1>6, <3>1, <3>2
  <2>3. QED
    BY <1>1, <2>1, <2>2
<1>8. P = Places(s, kinds) \cup Q
  <2>1. Places(s, kinds) \subseteq 1 .. Len(u) /\ Q \subseteq 1 .. Len(u)
    BY <1>1, <1>4, <1>5
  <2>2. QED
    BY <1>2, <1>7, <2>1
<1>9. QED
  BY <1>8 DEF P, Q, u

LEMMA OddOfBoth ==
  ASSUME NEW N \in Nat, NEW A, A \subseteq 1 .. N, NEW M \in Nat, NEW B, B \subseteq 1 .. M
  PROVE  Odd(A \cup {n + N : n \in B}) <=> ~(Odd(A) <=> Odd(B))
<1> DEFINE C == {n + N : n \in B}
<1>1. IsFiniteSet(A) /\ Cardinality(A) \in Nat /\ Cardinality(B) \in Nat
  BY SubsetSize
<1>2. IsFiniteSet(C) /\ Cardinality(C) = Cardinality(B)
  BY ShiftedSize
<1>3. A \cap C = {}
  OBVIOUS
<1> HIDE DEF C
<1>4. Cardinality(A \cup C) = Cardinality(A) + Cardinality(B)
  <2>1. Cardinality(A \cup C) = Cardinality(A) + Cardinality(C) - Cardinality(A \cap C)
    BY <1>1, <1>2, FS_Union
  <2>2. Cardinality(A \cap C) = 0
    BY <1>3, FS_EmptySet
  <2>3. QED
    BY <1>1, <1>2, <2>1, <2>2
<1>5. ASSUME NEW a \in Nat, NEW b \in Nat PROVE (a + b) % 2 = 1 <=> ~(a % 2 = 1 <=> b % 2 = 1)
  OBVIOUS
<1>6. QED
  BY <1>1, <1>4, <1>5 DEF Odd, C

\* the fences that count for what is open at the end of a text
LastWelded(t) == LastOf(Places(t, {"welded"}))
FencesAfter(t, n) == {m \in Places(t, {"fence"}) : m > n}

LEMMA UnclosedIs ==
  ASSUME NEW t
  PROVE  Unclosed(t) <=> (LastWelded(t) = 0 <=> Odd(FencesAfter(t, LastWelded(t))))
BY DEF Unclosed, LastWelded, FencesAfter, Odd

LEMMA LastWeldedIs ==
  ASSUME NEW S, NEW t \in Seq(S)
  PROVE  /\ LastWelded(t) \in 0 .. Len(t)
         /\ \A n \in Places(t, {"welded"}) : n <= LastWelded(t)
         /\ Places(t, {"welded"}) = {} => LastWelded(t) = 0
         /\ Places(t, {"welded"}) # {} => LastWelded(t) \in Places(t, {"welded"})
         /\ LastWelded(t) # 0 => LastWelded(t) \in Places(t, {"welded"})
<1>1. Places(t, {"welded"}) \subseteq 1 .. Len(t) /\ Len(t) \in Nat
  BY PlacesIn
<1>2. QED
  BY <1>1, LastOfIs DEF LastWelded

\* after a text that has left no block of code open, it is as if there were none before
LEMMA UnclosedJoined ==
  ASSUME NEW S, NEW s \in Seq(S), NEW t \in Seq(S), ~Unclosed(s)
  PROVE  Unclosed(s \o t) <=> Unclosed(t)
<1> DEFINE u == s \o t
           N == Len(s)
           W == Places(t, {"welded"})
           V == Places(s, {"welded"})
<1>1. u \in Seq(S) /\ Len(u) = N + Len(t) /\ N \in Nat /\ Len(t) \in Nat
  OBVIOUS
<1>2. Places(u, {"welded"}) = V \cup {n + N : n \in W}
  BY PlacesJoined
<1>3. Places(u, {"fence"}) = Places(s, {"fence"}) \cup {n + N : n \in Places(t, {"fence"})}
  BY PlacesJoined
<1>4. /\ W \subseteq 1 .. Len(t) /\ Places(t, {"fence"}) \subseteq 1 .. Len(t)
      /\ V \subseteq 1 .. N /\ Places(s, {"fence"}) \subseteq 1 .. N
  BY PlacesIn
<1> DEFINE l == LastWelded(t)
           k == LastWelded(s)
           m == LastWelded(u)
<1>5. l \in 0 .. Len(t) /\ (\A n \in W : n <= l) /\ (W = {} => l = 0) /\ (W # {} => l \in W)
  BY LastWeldedIs
<1>6. k \in 0 .. N /\ (\A n \in V : n <= k) /\ (V = {} => k = 0) /\ (V # {} => k \in V)
  BY LastWeldedIs
<1> HIDE DEF u
<1>7. /\ m \in 0 .. Len(u) /\ \A n \in Places(u, {"welded"}) : n <= m
      /\ (Places(u, {"welded"}) = {} => m = 0) /\ (Places(u, {"welded"}) # {} => m \in Places(u, {"welded"}))
  BY <1>1, LastWeldedIs
<1> HIDE DEF N, l, k, m
<1>8. CASE W # {}
  <2>1. l \in W /\ l > 0 /\ l + N \in Places(u, {"welded"})
    BY <1>2, <1>4, <1>5, <1>8
  <2>2. \A n \in Places(u, {"welded"}) : n <= l + N
    BY <1>1, <1>2, <1>4, <1>5
  <2>3. m \in Places(u, {"welded"})
    BY <1>7, <2>1
  <2>4. m = l + N
    BY <1>1, <1>5, <1>7, <2>1, <2>2, <2>3
  <2>5. FencesAfter(u, m) = {n + N : n \in FencesAfter(t, l)}
    <3>1. \A n \in Places(s, {"fence"}) : ~(n > l + N)
      BY <1>1, <1>4, <1>5
    <3>2. \A n \in Places(t, {"fence"}) : n + N > l + N <=> n > l
      BY <1>1, <1>4, <1>5
    <3>3. QED
      BY <1>3, <2>4, <3>1, <3>2 DEF FencesAfter
  <2>6. Cardinality(FencesAfter(u, m)) = Cardinality(FencesAfter(t, l))
    <3>1. FencesAfter(t, l) \subseteq 1 .. Len(t)
      BY <1>4 DEF FencesAfter
    <3>2. QED
      BY <1>1, <2>5, <3>1, ShiftedSize
  <2>7. m # 0 /\ l # 0
    BY <1>1, <1>5, <2>1, <2>4
  <2>8. Odd(FencesAfter(u, m)) <=> Odd(FencesAfter(t, l))
    BY <2>6 DEF Odd
  <2>9. QED
    BY <2>7, <2>8, UnclosedIs DEF u, m, l
<1>9. CASE W = {}
  <2>1. l = 0
    BY <1>5, <1>9
  <2>2. Places(u, {"welded"}) = V
    BY <1>2, <1>9
  <2>3. m = k
    BY <1>1, <1>6, <1>7, <2>2
  <2>4. FencesAfter(u, m) = FencesAfter(s, k) \cup {n + N : n \in FencesAfter(t, l)}
    <3>1. \A n \in Places(t, {"fence"}) : n + N > k /\ n > 0
      BY <1>1, <1>4, <1>6
    <3>2. QED
      BY <1>3, <2>1, <2>3, <3>1 DEF FencesAfter
  <2>5. FencesAfter(s, k) \subseteq 1 .. N /\ FencesAfter(t, l) \subseteq 1 .. Len(t)
    BY <1>4 DEF FencesAfter
  <2>6. Odd(FencesAfter(u, m)) <=> ~(Odd(FencesAfter(s, k)) <=> Odd(FencesAfter(t, l)))
    <3> DEFINE A == FencesAfter(s, k)
               B == FencesAfter(t, l)
    <3>1. A \subseteq 1 .. N /\ B \subseteq 1 .. Len(t) /\ FencesAfter(u, m) = A \cup {n + N : n \in B}
      BY <2>4, <2>5
    <3> HIDE DEF A, B
    <3>2. Odd(A \cup {n + N : n \in B}) <=> ~(Odd(A) <=> Odd(B))
      BY <1>1, <3>1, OddOfBoth
    <3>3. QED
      BY <3>1, <3>2 DEF A, B
  <2>7. ~(k = 0 <=> Odd(FencesAfter(s, k)))
    BY UnclosedIs DEF k
  <2>8. (m = 0 <=> Odd(FencesAfter(u, m))) <=> Odd(FencesAfter(t, l))
    BY <2>3, <2>6, <2>7
  <2>9. QED
    BY <2>1, <2>8, UnclosedIs DEF u, m, l
<1>10. QED
  BY <1>8, <1>9

\* a text without a welded fence is closed by an even number of fences
LEMMA PlainlyClosed ==
  ASSUME NEW t \in Seq(AnyMark), \A n \in 1 .. Len(t) : t[n].kind # "welded"
  PROVE  Unclosed(t) <=> OddFences(t)
<1>1. Places(t, {"welded"}) = {}
  BY PlacesIn
<1>2. LastWelded(t) = 0
  BY <1>1, LastWeldedIs
<1>3. FencesAfter(t, 0) = Places(t, Fences)
  <2>1. \A n \in 1 .. Len(t) : n \in Places(t, {"fence"}) <=> n \in Places(t, Fences)
    BY PlacesIn DEF Fences
  <2>2. Places(t, {"fence"}) \subseteq 1 .. Len(t) /\ Places(t, Fences) \subseteq 1 .. Len(t)
    BY PlacesIn
  <2>3. \A n \in Places(t, {"fence"}) : n > 0
    BY <2>2
  <2>4. QED
    BY <2>1, <2>2, <2>3 DEF FencesAfter
<1>4. QED
  BY <1>2, <1>3, UnclosedIs DEF OddFences

Counted == Prose \cup {"h2", "h3", "item"}
FencesBefore(t, n) == {m \in Places(t, Fences) : m < n}

\* the marks that information_units counts
UnitPlaces(t) ==
  {n \in Places(t, Counted) : Odd(FencesBefore(t, n)) => \A m \in Places(t, Fences) : m < n}

LEMMA UnitsAre == \A t : Units(t) = Cardinality(UnitPlaces(t))
BY DEF Units, UnitPlaces, Counted, FencesBefore, Odd

LEMMA UnitsNumber ==
  ASSUME NEW S, NEW t \in Seq(S)
  PROVE  UnitPlaces(t) \subseteq 1 .. Len(t) /\ IsFiniteSet(UnitPlaces(t)) /\ Units(t) \in Nat
<1>1. UnitPlaces(t) \subseteq 1 .. Len(t) /\ Len(t) \in Nat
  BY DEF UnitPlaces, Places
<1>2. QED
  BY <1>1, UnitsAre, SubsetSize

LEMMA UnitsOfNothing == Units(<<>>) = 0
<1>1. DOMAIN <<>> = {}
  OBVIOUS
<1>2. UnitPlaces(<<>>) = {}
  BY <1>1 DEF UnitPlaces, Places
<1>3. QED
  BY <1>2, UnitsAre, FS_EmptySet

\* the heading of a section counts too
LEMMA UnitsTitled ==
  ASSUME NEW t \in Seq(AnyMark), NEW title \in Nat
  PROVE  Units(<<H2(title), Blank>> \o t) >= Units(t) + 1
<1> DEFINE h == <<H2(title), Blank>>
           u == h \o t
           U == {n + 2 : n \in UnitPlaces(t)}
<1>1. h \in Seq(AnyMark) /\ Len(h) = 2 /\ h[1].kind = "h2" /\ h[2].kind = "blank"
  <2>1. H2(title) \in AnyMark /\ Blank \in AnyMark
    BY MarkIn
  <2>2. QED
    BY <2>1 DEF H2, Blank, Mark
<1> HIDE DEF h
<1>15. h \in Seq(AnyMark)
  BY <1>1
<1>2. u \in Seq(AnyMark) /\ Len(u) = 2 + Len(t) /\ u[1] = h[1]
  <2>1. /\ u \in Seq(AnyMark) /\ Len(u) = Len(h) + Len(t)
        /\ \A i \in 1 .. Len(h) : u[i] = h[i]
    BY <1>15, TextsJoined, SMT
  <2>2. 1 \in 1 .. Len(h)
    BY <1>1
  <2> HIDE DEF u
  <2>3. QED
    BY <1>1, <2>1, <2>2
<1>3. Places(h, Fences) = {} /\ 1 \in Places(h, Counted)
  <2>1. \A n \in 1 .. Len(h) : n = 1 \/ n = 2
    BY <1>1
  <2>2. QED
    BY <1>1, <2>1, PlacesIn DEF Fences, Counted
<1>16. \A kinds : Places(u, kinds) = Places(h, kinds) \cup {n + Len(h) : n \in Places(t, kinds)}
  BY <1>15, PlacesJoined
<1>4. Places(u, Fences) = {n + 2 : n \in Places(t, Fences)}
  BY <1>1, <1>3, <1>16
<1>5. Places(u, Counted) = Places(h, Counted) \cup {n + 2 : n \in Places(t, Counted)}
  BY <1>1, <1>16
<1> HIDE DEF u
<1>6. Places(t, Fences) \subseteq 1 .. Len(t) /\ Places(t, Counted) \subseteq 1 .. Len(t)
  BY PlacesIn
<1>7. 1 \in UnitPlaces(u)
  <2>1. FencesBefore(u, 1) = {}
    BY <1>4, <1>6 DEF FencesBefore
  <2>2. ~Odd({})
    BY FS_EmptySet DEF Odd
  <2>3. QED
    BY <1>3, <1>5, <2>1, <2>2 DEF UnitPlaces
<1>8. U \subseteq UnitPlaces(u)
  <2> SUFFICES ASSUME NEW n \in UnitPlaces(t) PROVE n + 2 \in UnitPlaces(u)
    OBVIOUS
  <2>1. n \in Places(t, Counted) /\ n \in 1 .. Len(t) /\ n + 2 \in Places(u, Counted)
    BY <1>5, <1>6 DEF UnitPlaces
  <2>2. FencesBefore(u, n + 2) = {m + 2 : m \in FencesBefore(t, n)}
    <3>1. \A m \in Places(t, Fences) : m + 2 < n + 2 <=> m < n
      BY <1>6, <2>1
    <3>2. QED
      BY <1>4, <3>1 DEF FencesBefore
  <2>3. Cardinality(FencesBefore(u, n + 2)) = Cardinality(FencesBefore(t, n))
    <3> DEFINE B == FencesBefore(t, n)
    <3>1. B \subseteq 1 .. Len(t) /\ Len(t) \in Nat
      BY <1>6 DEF FencesBefore
    <3>2. FencesBefore(u, n + 2) = {m + 2 : m \in B}
      BY <2>2
    <3> HIDE DEF B
    <3>3. Cardinality({m + 2 : m \in B}) = Cardinality(B)
      BY <3>1, ShiftedSize
    <3>4. QED
      BY <3>2, <3>3 DEF B
  <2>4. (\A m \in Places(t, Fences) : m < n) => \A m \in Places(u, Fences) : m < n + 2
    BY <1>4, <1>6, <2>1
  <2>5. Odd(FencesBefore(u, n + 2)) <=> Odd(FencesBefore(t, n))
    BY <2>3 DEF Odd
  <2>6. Odd(FencesBefore(t, n)) => \A m \in Places(t, Fences) : m < n
    BY DEF UnitPlaces
  <2>7. QED
    BY <2>1, <2>4, <2>5, <2>6 DEF UnitPlaces
<1>9. UnitPlaces(t) \subseteq 1 .. Len(t) /\ Len(t) \in Nat
  BY UnitsNumber
<1>10. Cardinality(U) = Units(t) /\ IsFiniteSet(U) /\ 1 \notin U /\ Units(t) \in Nat
  <2>1. Cardinality(U) = Cardinality(UnitPlaces(t)) /\ IsFiniteSet(U)
    BY <1>9, ShiftedSize
  <2>2. 1 \notin U
    BY <1>9
  <2>3. QED
    BY <2>1, <2>2, UnitsAre, UnitsNumber
<1> HIDE DEF U
<1>11. Cardinality(U \cup {1}) = Units(t) + 1
  BY <1>10, FS_AddElement
<1>12. Cardinality(U \cup {1}) <= Cardinality(UnitPlaces(u))
  BY <1>2, <1>7, <1>8, UnitsNumber, FS_Subset
<1>13. Units(u) \in Nat
  BY <1>2, UnitsNumber
<1>14. QED
  BY <1>10, <1>11, <1>12, <1>13, UnitsAre DEF u, h

\* cutting off what is outside of a block of code takes no units from what is left
LEMMA UnitsOfBeginning ==
  ASSUME NEW S, NEW t \in Seq(S), NEW b \in 0 .. Len(t), NEW c \in b .. Len(t), ~OddFences(Beginning(t, b))
  PROVE  Units(Beginning(t, b)) <= Units(Beginning(t, c))
<1> DEFINE p == Beginning(t, b)
           q == Beginning(t, c)
<1>1. /\ p \in Seq(S) /\ Len(p) = b /\ \A n \in 1 .. b : p[n] = t[n]
      /\ q \in Seq(S) /\ Len(q) = c /\ \A n \in 1 .. c : q[n] = t[n]
  BY DEF Beginning
<1> HIDE DEF p, q
<1>2. \A kinds : /\ Places(p, kinds) \subseteq 1 .. b /\ \A n \in 1 .. b : n \in Places(p, kinds) <=> t[n].kind \in kinds
                 /\ Places(q, kinds) \subseteq 1 .. c /\ \A n \in 1 .. c : n \in Places(q, kinds) <=> t[n].kind \in kinds
  <2> SUFFICES ASSUME NEW kinds
               PROVE  /\ Places(p, kinds) \subseteq 1 .. b /\ \A n \in 1 .. b : n \in Places(p, kinds) <=> t[n].kind \in kinds
                      /\ Places(q, kinds) \subseteq 1 .. c /\ \A n \in 1 .. c : n \in Places(q, kinds) <=> t[n].kind \in kinds
    OBVIOUS
  <2>1. Places(p, kinds) \subseteq 1 .. Len(p) /\ \A n \in 1 .. Len(p) : n \in Places(p, kinds) <=> p[n].kind \in kinds
    BY <1>1, PlacesIn
  <2>2. Places(q, kinds) \subseteq 1 .. Len(q) /\ \A n \in 1 .. Len(q) : n \in Places(q, kinds) <=> q[n].kind \in kinds
    BY <1>1, PlacesIn
  <2>3. QED
    BY <1>1, <2>1, <2>2
<1>3. UnitPlaces(p) \subseteq UnitPlaces(q)
  <2> SUFFICES ASSUME NEW n \in UnitPlaces(p) PROVE n \in UnitPlaces(q)
    OBVIOUS
  <2>1. n \in Places(p, Counted) /\ n \in 1 .. b /\ n \in 1 .. c
    BY <1>2 DEF UnitPlaces
  <2>2. n \in Places(q, Counted)
    BY <1>2, <2>1
  <2>3. FencesBefore(q, n) = FencesBefore(p, n)
    <3>1. \A m \in 1 .. c : m < n => m \in 1 .. b
      BY <2>1
    <3>2. \A m \in 1 .. b : m \in 1 .. c
      OBVIOUS
    <3>3. QED
      BY <1>2, <3>1, <3>2 DEF FencesBefore
  <2>4. ~Odd(FencesBefore(p, n))
    <3> SUFFICES ASSUME Odd(FencesBefore(p, n)) PROVE FALSE
      OBVIOUS
    <3>1. \A m \in Places(p, Fences) : m < n
      BY DEF UnitPlaces
    <3>2. FencesBefore(p, n) = Places(p, Fences)
      BY <3>1 DEF FencesBefore
    <3>3. QED
      BY <3>2 DEF OddFences, p
  <2>5. QED
    BY <2>2, <2>3, <2>4 DEF UnitPlaces
<1>4. Cardinality(UnitPlaces(p)) <= Cardinality(UnitPlaces(q))
  BY <1>1, <1>3, UnitsNumber, FS_Subset
<1>5. QED
  BY <1>4, UnitsAre DEF p, q

\* texts with the same fences and the same marks that count
LEMMA UnitsSame ==
  ASSUME NEW s, NEW t, Places(s, Fences) = Places(t, Fences), Places(s, Counted) = Places(t, Counted)
  PROVE  Units(s) = Units(t)
<1>1. UnitPlaces(s) = UnitPlaces(t)
  BY DEF UnitPlaces, FencesBefore
<1>2. QED
  BY <1>1, UnitsAre

-----------------------------------------------------------------------------
(* The end of a section that was not finished.                              *)

Enough(s, t, tenths) == Units(s) >= Max({1, (Units(t) * tenths) \div 10})
Mended(s)       == IF OddFences(s) THEN Append(s, Fence) ELSE s
UpToLast(t, kind) == Stripped(Beginning(t, LastOf(Places(t, {kind}))))
WithoutLine(t)  == Stripped(Beginning(t, LineStart(t) - 1))
BeforeClause(t) == Beginning(t, LastOf(Places(t, {"clause"})) - 1)

LEMMA ClosedIs ==
  ASSUME NEW t
  PROVE  Closed(t) =
           IF t = <<>> \/ Last(t).kind = "full" THEN t
           ELSE IF UpToLast(t, "full") # <<>> /\ Enough(UpToLast(t, "full"), t, 5) THEN Mended(UpToLast(t, "full"))
           ELSE IF UpToLast(t, "blank") # <<>> /\ Enough(UpToLast(t, "blank"), t, 6) THEN Mended(UpToLast(t, "blank"))
           ELSE IF WithoutLine(t) # <<>> /\ Enough(WithoutLine(t), t, 6) THEN Mended(WithoutLine(t))
           ELSE IF Places(t, {"clause"}) = {} \/ ~Enough(Append(BeforeClause(t), Open), t, 7) THEN <<>>
           ELSE IF OddFences(BeforeClause(t)) THEN BeforeClause(t) \o <<Open, Welded>>
           ELSE Append(BeforeClause(t), Full)
BY DEF Closed, Enough, Mended, UpToLast, WithoutLine, BeforeClause

LEMMA GreaterIs ==
  ASSUME NEW a \in Nat, NEW b \in Nat
  PROVE  a >= Max({1, b}) <=> a >= 1 /\ a >= b
<1> DEFINE S == {1, b}
           N == b + 1
<1>1. S \subseteq 0 .. N /\ S # {} /\ N \in Nat
  OBVIOUS
<1>2. IsGreatest(Max(S), S) /\ Max(S) \in Nat
  <2> HIDE DEF S, N
  <2>1. Max(S) \in 0 .. N /\ IsGreatest(Max(S), S)
    BY <1>1, MaxIs
  <2>2. QED
    BY <1>1, <2>1
<1>3. Max(S) \in {1, b} /\ 1 <= Max(S) /\ b <= Max(S)
  BY <1>2 DEF IsGreatest
<1>4. QED
  BY <1>2, <1>3

LEMMA EnoughIs ==
  ASSUME NEW s \in Seq(AnyMark), NEW t \in Seq(AnyMark)
  PROVE  /\ Enough(s, t, 5) <=> Units(s) >= 1 /\ Units(s) >= (Units(t) * 5) \div 10
         /\ Enough(s, t, 6) <=> Units(s) >= 1 /\ Units(s) >= (Units(t) * 6) \div 10
         /\ Enough(s, t, 7) <=> Units(s) >= 1 /\ Units(s) >= (Units(t) * 7) \div 10
<1>1. Units(s) \in Nat /\ Units(t) \in Nat
  BY UnitsNumber
<1>2. (Units(t) * 5) \div 10 \in Nat /\ (Units(t) * 6) \div 10 \in Nat /\ (Units(t) * 7) \div 10 \in Nat
  BY <1>1
<1>3. QED
  BY <1>1, <1>2, GreaterIs DEF Enough

\* of two texts of which the first is long enough for a later case, and not shorter
LEMMA EnoughOfMore ==
  ASSUME NEW s \in Seq(AnyMark), NEW r \in Seq(AnyMark), NEW t \in Seq(AnyMark), Units(s) <= Units(r),
         Enough(s, t, 6) \/ Enough(s, t, 7)
  PROVE  Enough(r, t, 5)
<1>1. Units(s) \in Nat /\ Units(t) \in Nat /\ Units(r) \in Nat
  BY UnitsNumber
<1>2. \A u \in Nat : (u * 5) \div 10 <= (u * 6) \div 10 /\ (u * 5) \div 10 <= (u * 7) \div 10
  OBVIOUS
<1>3. \A u \in Nat : (u * 5) \div 10 \in Nat /\ (u * 6) \div 10 \in Nat /\ (u * 7) \div 10 \in Nat
  OBVIOUS
<1>4. Units(s) >= 1 /\ (Units(s) >= (Units(t) * 6) \div 10 \/ Units(s) >= (Units(t) * 7) \div 10)
  BY EnoughIs
<1>5. ASSUME NEW a \in Nat, NEW b \in Nat, NEW x \in Nat, NEW y \in Nat, NEW z \in Nat,
             a <= b, a >= 1, x <= y, x <= z, a >= y \/ a >= z
      PROVE  b >= 1 /\ b >= x
  BY <1>5
<1>6. Units(r) >= 1 /\ Units(r) >= (Units(t) * 5) \div 10
  BY <1>1, <1>2, <1>3, <1>4, <1>5
<1>7. QED
  BY <1>6, EnoughIs

LEMMA EnoughIsHalf ==
  ASSUME NEW s \in Seq(AnyMark), NEW t \in Seq(AnyMark),
         Enough(s, t, 5) \/ Enough(s, t, 6) \/ Enough(s, t, 7)
  PROVE  2 * Units(s) >= Units(t) - 1
<1>1. Units(s) \in Nat /\ Units(t) \in Nat
  BY UnitsNumber
<1>2. /\ Enough(s, t, 5) => Units(s) >= (Units(t) * 5) \div 10
      /\ Enough(s, t, 6) => Units(s) >= (Units(t) * 6) \div 10
      /\ Enough(s, t, 7) => Units(s) >= (Units(t) * 7) \div 10
  BY EnoughIs
<1>3. ASSUME NEW a \in Nat, NEW u \in Nat, a >= (u * 5) \div 10 \/ a >= (u * 6) \div 10 \/ a >= (u * 7) \div 10
      PROVE  2 * a >= u - 1
  BY <1>3
<1>4. QED
  BY <1>1, <1>2, <1>3

\* the places of a text and of one that is a mark longer
LEMMA PlacesAppend ==
  ASSUME NEW S, NEW s \in Seq(S), NEW x \in S, NEW kinds
  PROVE  Places(Append(s, x), kinds) =
           IF x.kind \in kinds THEN Places(s, kinds) \cup {Len(s) + 1} ELSE Places(s, kinds)
<1> DEFINE u == Append(s, x)
<1>1. DOMAIN u = 1 .. Len(s) + 1 /\ u[Len(s) + 1] = x /\ Len(s) \in Nat /\ DOMAIN s = 1 .. Len(s)
  OBVIOUS
<1>2. \A n \in 1 .. Len(s) : u[n] = s[n]
  OBVIOUS
<1> HIDE DEF u
<1>3. \A n \in 1 .. Len(s) + 1 : n \in 1 .. Len(s) \/ n = Len(s) + 1
  BY <1>1
<1>4. \A n \in 1 .. Len(s) : n \in 1 .. Len(s) + 1 /\ n # Len(s) + 1
  BY <1>1
<1>5. Places(u, kinds) = {n \in 1 .. Len(s) + 1 : u[n].kind \in kinds} /\ Places(s, kinds) = {n \in 1 .. Len(s) : s[n].kind \in kinds}
  BY <1>1 DEF Places
<1>6. QED
  BY <1>1, <1>2, <1>3, <1>4, <1>5 DEF u

LEMMA CountIs ==
  ASSUME NEW S, NEW t \in Seq(S), NEW kind
  PROVE  CountOf(t, kind) = Len(Where(t, [kind : {kind}, title : Nat])) /\ CountOf(t, kind) \in Nat
BY WhereType DEF CountOf, Those

\* the mark of a kind that is looked for
LEMMA ThoseIn ==
  ASSUME NEW m \in AnyMark, NEW kinds
  PROVE  m \in [kind : kinds, title : Nat] <=> m.kind \in kinds
BY DEF AnyMark

\* what is cut off without a mark of some kind takes none of them away
LEMMA CountOfBeginning ==
  ASSUME NEW t \in Seq(AnyMark), NEW b \in 0 .. Len(t), NEW kind,
         \A n \in b + 1 .. Len(t) : t[n].kind # kind
  PROVE  CountOf(Beginning(t, b), kind) = CountOf(t, kind)
<1> DEFINE T == [kind : {kind}, title : Nat]
           p == SubSeq(t, 1, b)
           r == SubSeq(t, b + 1, Len(t))
<1>1. p \in Seq(AnyMark) /\ r \in Seq(AnyMark) /\ t = p \o r
  BY TextCut
<1>2. Len(r) = Len(t) - b /\ \A n \in 1 .. Len(t) - b : r[n] = t[b + n]
  OBVIOUS
<1> HIDE DEF p, r
<1>3. \A n \in 1 .. Len(r) : r[n] \notin T
  <2> SUFFICES ASSUME NEW n \in 1 .. Len(r) PROVE r[n] \notin T
    OBVIOUS
  <2>1. b + n \in b + 1 .. Len(t) /\ r[n] = t[b + n] /\ r[n] \in AnyMark
    BY <1>1, <1>2
  <2>2. r[n].kind # kind
    BY <2>1
  <2>3. QED
    BY <2>1, <2>2, ThoseIn
<1> HIDE DEF T
<1>4. Len(Where(r, T)) = 0
  BY <1>1, <1>3, WhereFound
<1>5. Len(Where(p \o r, T)) = Len(Where(p, T)) + Len(Where(r, T))
  BY <1>1, WhereConcat
<1>6. Len(Where(p, T)) \in Nat
  BY <1>1, WhereType
<1>7. Len(Where(t, T)) = Len(Where(p, T))
  BY <1>1, <1>4, <1>5, <1>6
<1>8. QED
  BY <1>7 DEF CountOf, Those, T, p, Beginning

LEMMA CountOfAppend ==
  ASSUME NEW t \in Seq(AnyMark), NEW x \in AnyMark, NEW kind
  PROVE  CountOf(Append(t, x), kind) = CountOf(t, kind) + (IF x.kind = kind THEN 1 ELSE 0)
<1> DEFINE T == [kind : {kind}, title : Nat]
<1>1. x \in T <=> x.kind = kind
  BY ThoseIn
<1> HIDE DEF T
<1>2. Where(Append(t, x), T) = IF x \in T THEN Append(Where(t, T), x) ELSE Where(t, T)
  BY WhereAppend
<1>3. Where(t, T) \in Seq(AnyMark)
  BY WhereType
<1>4. Len(Append(Where(t, T), x)) = Len(Where(t, T)) + 1 /\ Len(Where(t, T)) \in Nat
  BY <1>3
<1>5. Len(Where(Append(t, x), T)) = Len(Where(t, T)) + (IF x \in T THEN 1 ELSE 0)
  BY <1>2, <1>4
<1>6. QED
  BY <1>1, <1>5 DEF CountOf, Those, T

\* a text that is cut off and closed, if it is not empty: it has no heading that the text did
\* not have, what is lost, and that it is closed
KeepsEnough(p, t) == CountOf(p, "full") >= CountOf(t, "full") /\ 2 * Units(p) >= Units(t) - 1
CutWell(p, t, title) ==
  /\ p \in Seq(AnyMark) /\ p # <<>> /\ IsBody(p, title)
  /\ p[Len(p)].kind \in Fences \/ KeepsEnough(p, t)
  /\ (\E n \in 1 .. Len(p) : p[n] = Welded) \/ ~Unclosed(p)

LEMMA BeginningIs ==
  ASSUME NEW S, NEW t \in Seq(S), NEW b \in 0 .. Len(t)
  PROVE  Beginning(t, b) \in Seq(S) /\ Len(Beginning(t, b)) = b /\ \A n \in 1 .. b : Beginning(t, b)[n] = t[n]
BY DEF Beginning

LEMMA OwnMarks ==
  /\ Fence \in AnyMark /\ Fence.kind = "fence" /\ Full \in AnyMark /\ Full.kind = "full"
  /\ Open \in AnyMark /\ Open.kind = "open" /\ Welded \in AnyMark /\ Welded.kind = "welded"
  /\ \A title : H3(title).kind = "h3"
BY MarkIn DEF Fence, Full, Open, Welded, H3, Mark

\* a section of which the end is closed by other marks
LEMMA BodyAppend ==
  ASSUME NEW t \in Seq(AnyMark), NEW title, NEW b \in 0 .. Len(t), IsBody(t, title),
         NEW x \in {Fence, Full, Open, Welded}
  PROVE  Append(Beginning(t, b), x) \in Seq(AnyMark) /\ IsBody(Append(Beginning(t, b), x), title)
<1> DEFINE s == Beginning(t, b)
           q == Append(s, x)
<1>1. s \in Seq(AnyMark) /\ Len(s) = b /\ \A n \in 1 .. b : s[n] = t[n]
  BY BeginningIs
<1>2. x \in AnyMark /\ x.kind \in {"fence", "full", "open", "welded"}
  BY OwnMarks
<1> HIDE DEF s
<1>3. /\ q \in Seq(AnyMark) /\ Len(q) = b + 1 /\ q[b + 1] = x
      /\ \A n \in 1 .. b : q[n] = t[n]
  BY <1>1, <1>2
<1> HIDE DEF q
<1>4. \A n \in 1 .. b + 1 : n \in 1 .. b \/ n = b + 1
  OBVIOUS
<1>5. \A n \in 1 .. b : n \in 1 .. Len(t)
  OBVIOUS
<1>6. x.kind # "h2" /\ x # H3(title) /\ x.kind # "blank"
  BY <1>2, OwnMarks
<1>7. \A n \in 1 .. Len(q) : q[n].kind # "h2" /\ q[n] # H3(title)
  BY <1>3, <1>4, <1>5, <1>6 DEF IsBody
<1>8. q[1].kind # "blank"
  <2>1. CASE b = 0
    BY <1>3, <1>6, <2>1
  <2>2. CASE b > 0
    <3>1. 1 \in 1 .. b /\ t # <<>>
      BY <2>2
    <3>2. QED
      BY <1>3, <3>1 DEF IsBody, Trimmed
  <2>3. QED
    BY <2>1, <2>2
<1>9. Trimmed(q)
  BY <1>3, <1>6, <1>8 DEF Trimmed
<1>10. QED
  BY <1>3, <1>7, <1>9 DEF IsBody, q, s

LEMMA BodyCut ==
  ASSUME NEW t \in Seq(AnyMark), NEW title, NEW b \in 1 .. Len(t), IsBody(t, title), t[b].kind # "blank"
  PROVE  IsBody(Beginning(t, b), title) /\ Beginning(t, b) # <<>>
<1> DEFINE s == Beginning(t, b)
<1>1. s \in Seq(AnyMark) /\ Len(s) = b /\ \A n \in 1 .. b : s[n] = t[n]
  BY BeginningIs
<1> HIDE DEF s
<1>2. 1 \in 1 .. b /\ b \in 1 .. b /\ t # <<>> /\ s # <<>>
  BY <1>1
<1>3. Trimmed(s)
  BY <1>1, <1>2 DEF IsBody, Trimmed
<1>4. \A n \in 1 .. Len(s) : s[n].kind # "h2" /\ s[n] # H3(title)
  BY <1>1 DEF IsBody
<1>5. QED
  BY <1>2, <1>3, <1>4 DEF IsBody, s

\* a text that is cut and closed by a fence where the cut is in a block of code
LEMMA MendedIsCutWell ==
  ASSUME NEW t \in Seq(Marks), NEW title \in Nat, IsBody(t, title), NEW b \in 1 .. Len(t), t[b].kind # "blank",
         Enough(Beginning(t, b), t, 5) \/ Enough(Beginning(t, b), t, 6),
         ~OddFences(Beginning(t, b)) => \A n \in b + 1 .. Len(t) : t[n].kind # "full"
  PROVE  CutWell(Mended(Beginning(t, b)), t, title)
<1> DEFINE s == Beginning(t, b)
<1>1. t \in Seq(AnyMark) /\ \A n \in 1 .. Len(t) : t[n].kind # "welded"
  <2>1. \A n \in 1 .. Len(t) : t[n] \in Marks
    OBVIOUS
  <2>2. \A m \in Marks : m \in AnyMark /\ m.kind # "welded"
    BY MarkIn DEF Marks
  <2>3. QED
    BY <2>1, <2>2
<1>2. s \in Seq(AnyMark) /\ Len(s) = b /\ \A n \in 1 .. b : s[n] = t[n]
  BY <1>1, BeginningIs
<1>3. \A n \in 1 .. Len(s) : s[n].kind # "welded"
  BY <1>1, <1>2
<1>4. CASE ~OddFences(s)
  <2>1. Mended(s) = s
    BY <1>4 DEF Mended
  <2>2. IsBody(s, title) /\ s # <<>>
    BY <1>1, BodyCut
  <2>3. ~Unclosed(s)
    <3> HIDE DEF s
    <3>1. QED
      BY <1>2, <1>3, <1>4, PlainlyClosed
  <2>4. CountOf(s, "full") = CountOf(t, "full") /\ CountOf(s, "full") \in Nat
    <3>1. CountOf(s, "full") = CountOf(t, "full")
      BY <1>1, <1>4, CountOfBeginning
    <3>2. QED
      BY <1>2, <3>1, CountIs
  <2>5. 2 * Units(s) >= Units(t) - 1
    BY <1>1, <1>2, EnoughIsHalf
  <2>6. KeepsEnough(s, t)
    <3> HIDE DEF s
    <3>1. CountOf(s, "full") >= CountOf(t, "full")
      BY <2>4
    <3>2. QED
      BY <2>5, <3>1 DEF KeepsEnough
  <2> HIDE DEF s
  <2>7. QED
    BY <1>2, <2>1, <2>2, <2>3, <2>6 DEF CutWell, s
<1>5. CASE OddFences(s)
  <2> DEFINE q == Append(s, Fence)
  <2>1. Mended(s) = q
    BY <1>5 DEF Mended
  <2>2. q \in Seq(AnyMark) /\ IsBody(q, title)
    <3>1. b \in 0 .. Len(t) /\ Fence \in {Fence, Full, Open, Welded}
      OBVIOUS
    <3>2. QED
      BY <1>1, <3>1, BodyAppend
  <2>9. Fence \in AnyMark /\ Fence.kind = "fence"
    BY OwnMarks
  <2> HIDE DEF s
  <2>3. Len(q) = b + 1 /\ q[b + 1] = Fence /\ \A n \in 1 .. b : q[n] = s[n]
    BY <1>2, <2>9
  <2>4. Places(q, Fences) = Places(s, Fences) \cup {b + 1}
    BY <1>2, <2>9, PlacesAppend DEF Fences
  <2> HIDE DEF q
  <2>5. ~OddFences(q)
    <3>1. Places(s, Fences) \subseteq 1 .. b /\ b \in Nat
      BY <1>2, PlacesIn
    <3> DEFINE A == Places(s, Fences)
    <3>2. IsFiniteSet(A) /\ Cardinality(A) \in Nat /\ b + 1 \notin A
      <4>1. b + 1 \notin A
        BY <3>1
      <4>2. QED
        BY <3>1, <4>1, SubsetSize
    <3>3. Cardinality(A) % 2 = 1
      BY <1>5 DEF OddFences, Odd
    <3> HIDE DEF A
    <3>4. Cardinality(A \cup {b + 1}) = Cardinality(A) + 1
      BY <3>2, FS_AddElement
    <3>5. \A n \in Nat : n % 2 = 1 => (n + 1) % 2 # 1
      OBVIOUS
    <3>6. QED
      BY <2>4, <3>2, <3>3, <3>4, <3>5 DEF OddFences, Odd, A
  <2>6. \A n \in 1 .. Len(q) : q[n].kind # "welded"
    <3>1. \A n \in 1 .. b + 1 : n \in 1 .. b \/ n = b + 1
      OBVIOUS
    <3>2. QED
      BY <1>2, <1>3, <2>3, <2>9, <3>1
  <2>7. ~Unclosed(q)
    BY <2>2, <2>5, <2>6, PlainlyClosed
  <2>8. q # <<>> /\ q[Len(q)].kind \in Fences
    BY <2>2, <2>3, <2>9 DEF Fences
  <2>10. QED
    BY <2>1, <2>2, <2>7, <2>8 DEF CutWell, s
<1>6. QED
  BY <1>4, <1>5

\* where no full stop follows a cut that is outside of a block of code: a later one would
\* have given more text, and that is tried first
LEMMA NoFullAfter ==
  ASSUME NEW t \in Seq(AnyMark), Trimmed(t),
         ~(UpToLast(t, "full") # <<>> /\ Enough(UpToLast(t, "full"), t, 5)),
         NEW b \in 0 .. Len(t), ~OddFences(Beginning(t, b)), NEW s \in Seq(AnyMark),
         Units(s) = Units(Beginning(t, b)), Enough(s, t, 6) \/ Enough(s, t, 7)
  PROVE  \A n \in b + 1 .. Len(t) : t[n].kind # "full"
<1> SUFFICES ASSUME NEW n \in b + 1 .. Len(t), t[n].kind = "full" PROVE FALSE
  OBVIOUS
<1> DEFINE P == Places(t, {"full"})
           l == LastOf(P)
<1>1. P \subseteq 1 .. Len(t) /\ (\A m \in 1 .. Len(t) : m \in P <=> t[m].kind = "full") /\ Len(t) \in Nat
  BY PlacesIn
<1> HIDE DEF P
<1>2. l \in 0 .. Len(t) /\ (\A m \in P : m <= l) /\ (l # 0 => l \in P)
  BY <1>1, LastOfIs
<1> HIDE DEF l
<1>3. n \in 1 .. Len(t) /\ n \in P
  BY <1>1
<1>4. n <= l
  BY <1>2, <1>3
<1>5. l \in 1 .. Len(t) /\ l \in b .. Len(t) /\ t[l].kind = "full"
  <2>1. l # 0 /\ l \in b .. Len(t)
    BY <1>2, <1>3, <1>4
  <2>2. l \in P /\ l \in 1 .. Len(t)
    BY <1>1, <1>2, <2>1
  <2>3. QED
    BY <1>1, <2>1, <2>2
<1>6. UpToLast(t, "full") = Beginning(t, l)
  <2>1. PICK k \in 1 .. l : /\ Stripped(Beginning(t, l)) = Beginning(t, k)
                            /\ \A m \in k + 1 .. l : t[m].kind = "blank"
    BY <1>2, <1>5, StrippedBeginning
  <2>2. k = l
    <3> SUFFICES ASSUME k # l PROVE FALSE
      OBVIOUS
    <3>1. l \in k + 1 .. l
      BY <1>2, <2>1
    <3>2. QED
      BY <1>5, <2>1, <3>1
  <2>3. QED
    BY <2>1, <2>2 DEF UpToLast, l, P
<1> DEFINE r == Beginning(t, l)
           p == Beginning(t, b)
<1>7. r \in Seq(AnyMark) /\ Len(r) = l
  BY <1>5, BeginningIs
<1>8. Units(p) <= Units(r)
  BY <1>5, UnitsOfBeginning
<1> HIDE DEF r, p
<1>9. Units(s) <= Units(r)
  BY <1>8 DEF p
<1>10. Enough(r, t, 5)
  BY <1>7, <1>9, EnoughOfMore
<1>11. r # <<>>
  <2>1. l > 0
    BY <1>5
  <2>2. QED
    BY <1>7, <2>1
<1>12. QED
  BY <1>6, <1>10, <1>11 DEF r

\* what strip leaves of a beginning, where it is long enough
LEMMA StrippedIsCutWell ==
  ASSUME NEW t \in Seq(Marks), NEW title \in Nat, IsBody(t, title), NEW n \in 0 .. Len(t),
         NEW s, s = Stripped(Beginning(t, n)), s # <<>>,
         \/ n = LastOf(Places(t, {"full"})) /\ Enough(s, t, 5)
         \/ ~(UpToLast(t, "full") # <<>> /\ Enough(UpToLast(t, "full"), t, 5)) /\ Enough(s, t, 6)
  PROVE  CutWell(Mended(s), t, title)
<1>1. t \in Seq(AnyMark) /\ Trimmed(t)
  <2>1. t \in Seq(AnyMark)
    <3>1. Marks \subseteq AnyMark
      BY MarkIn
    <3>2. QED
      BY <3>1
  <2>2. QED
    BY <2>1 DEF IsBody
<1>2. n > 0
  BY <1>1, StrippedBeginning
<1>3. PICK b \in 1 .. n : /\ s = Beginning(t, b) /\ t[b].kind # "blank"
                          /\ \A m \in b + 1 .. n : t[m].kind = "blank"
  BY <1>1, <1>2, StrippedBeginning
<1>4. b \in 1 .. Len(t) /\ b \in 0 .. Len(t) /\ n \in Nat /\ Len(t) \in Nat
  BY <1>3
<1>5. Enough(s, t, 5) \/ Enough(s, t, 6)
  OBVIOUS
<1>6. ASSUME ~OddFences(s) PROVE \A m \in b + 1 .. Len(t) : t[m].kind # "full"
  <2>1. CASE n = LastOf(Places(t, {"full"}))
    <3> DEFINE P == Places(t, {"full"})
    <3>1. P \subseteq 1 .. Len(t) /\ \A m \in 1 .. Len(t) : m \in P <=> t[m].kind = "full"
      BY PlacesIn
    <3> HIDE DEF P
    <3>2. \A m \in P : m <= n
      BY <1>4, <2>1, <3>1, LastOfIs DEF P
    <3> SUFFICES ASSUME NEW m \in b + 1 .. Len(t), t[m].kind = "full" PROVE FALSE
      OBVIOUS
    <3>3. m \in 1 .. Len(t) /\ m <= n
      <4>1. m \in 1 .. Len(t)
        BY <1>4
      <4>2. QED
        BY <3>1, <3>2, <4>1
    <3>4. m \in b + 1 .. n
      BY <1>4, <3>3
    <3>5. QED
      BY <1>3, <3>4
  <2>2. CASE ~(UpToLast(t, "full") # <<>> /\ Enough(UpToLast(t, "full"), t, 5)) /\ Enough(s, t, 6)
    <3>1. s \in Seq(AnyMark)
      BY <1>1, <1>3, <1>4, BeginningIs
    <3>2. ~OddFences(Beginning(t, b)) /\ Units(s) = Units(Beginning(t, b))
      BY <1>3, <1>6
    <3>3. QED
      BY <1>1, <1>4, <2>2, <3>1, <3>2, NoFullAfter
  <2>3. QED
    BY <2>1, <2>2
<1>7. QED
  BY <1>3, <1>4, <1>5, <1>6, MendedIsCutWell

\* what is put in the place of a clause and what follows
LEMMA ClauseIsCutWell ==
  ASSUME NEW t \in Seq(Marks), NEW title \in Nat, IsBody(t, title),
         ~(UpToLast(t, "full") # <<>> /\ Enough(UpToLast(t, "full"), t, 5)),
         Places(t, {"clause"}) # {}, Enough(Append(BeforeClause(t), Open), t, 7)
  PROVE  IF OddFences(BeforeClause(t)) THEN CutWell(BeforeClause(t) \o <<Open, Welded>>, t, title)
         ELSE CutWell(Append(BeforeClause(t), Full), t, title)
<1> DEFINE C == Places(t, {"clause"})
           c == LastOf(C)
           b == c - 1
           s == Beginning(t, b)
<1>1. t \in Seq(AnyMark) /\ Trimmed(t) /\ \A n \in 1 .. Len(t) : t[n].kind # "welded"
  <2>1. Marks \subseteq AnyMark
    BY MarkIn
  <2>2. t \in Seq(AnyMark)
    BY <2>1
  <2>3. \A n \in 1 .. Len(t) : t[n] \in Marks
    OBVIOUS
  <2>4. \A m \in Marks : m.kind # "welded"
    BY DEF Marks
  <2>5. QED
    BY <2>2, <2>3, <2>4 DEF IsBody
<1>2. C \subseteq 1 .. Len(t) /\ (\A m \in 1 .. Len(t) : m \in C <=> t[m].kind = "clause") /\ Len(t) \in Nat
  BY PlacesIn
<1> HIDE DEF C
<1>3. c \in C
  BY <1>2, LastOfIs DEF C
<1> HIDE DEF c
<1>4. c \in 1 .. Len(t) /\ b \in 0 .. Len(t) /\ b + 1 = c /\ t[c].kind = "clause" /\ t[c] \in AnyMark
  BY <1>1, <1>2, <1>3
<1>5. s = BeforeClause(t)
  BY DEF BeforeClause, c, C
<1> HIDE DEF b
<1>6. s \in Seq(AnyMark) /\ Len(s) = b /\ \A n \in 1 .. b : s[n] = t[n]
  BY <1>1, <1>4, BeginningIs
<1>7. \A n \in 1 .. Len(s) : s[n].kind # "welded"
  <2>1. \A n \in 1 .. b : n \in 1 .. Len(t)
    BY <1>4
  <2>2. QED
    BY <1>1, <1>6, <2>1
<1>8. CASE OddFences(s)
  <2> DEFINE q == Append(s, Open)
             r == Append(q, Welded)
  <2>1. q \in Seq(AnyMark) /\ IsBody(q, title)
    <3>1. Open \in {Fence, Full, Open, Welded}
      OBVIOUS
    <3>2. QED
      BY <1>1, <1>4, <3>1, BodyAppend
  <2>2. r \in Seq(AnyMark) /\ IsBody(r, title)
    <3> HIDE DEF q
    <3>1. Welded \in {Fence, Full, Open, Welded} /\ Len(q) \in 0 .. Len(q)
      BY <2>1
    <3>2. Beginning(q, Len(q)) = q
      BY <2>1, SubSeqFull DEF Beginning
    <3>3. Append(Beginning(q, Len(q)), Welded) \in Seq(AnyMark) /\ IsBody(Append(Beginning(q, Len(q)), Welded), title)
      BY <2>1, <3>1, BodyAppend
    <3>4. QED
      BY <3>2, <3>3
  <2>3. s \o <<Open, Welded>> = r
    <3> HIDE DEF s
    <3>1. ASSUME NEW x \in AnyMark, NEW y \in AnyMark PROVE s \o <<x, y>> = Append(Append(s, x), y)
      BY <1>6
    <3>2. QED
      BY <3>1, OwnMarks
  <2>4. Len(r) = Len(q) + 1 /\ r[Len(q) + 1] = Welded /\ Len(q) \in Nat
    <3> HIDE DEF q
    <3>1. QED
      BY <2>1, OwnMarks
  <2> HIDE DEF r
  <2>5. r # <<>> /\ r[Len(r)] = Welded /\ Len(r) \in 1 .. Len(r)
    BY <2>2, <2>4
  <2>6. Welded.kind \in Fences
    BY OwnMarks DEF Fences
  <2>7. CutWell(r, t, title)
    BY <2>2, <2>5, <2>6 DEF CutWell
  <2>8. QED
    BY <1>5, <1>8, <2>3, <2>7
<1>9. CASE ~OddFences(s)
  <2> DEFINE q == Append(s, Full)
             o == Append(s, Open)
  <2>1. q \in Seq(AnyMark) /\ IsBody(q, title)
    <3>1. Full \in {Fence, Full, Open, Welded}
      OBVIOUS
    <3>2. QED
      BY <1>1, <1>4, <3>1, BodyAppend
  <2>2. Full \in AnyMark /\ Full.kind = "full" /\ Open \in AnyMark /\ Open.kind = "open"
    BY OwnMarks
  <2>3. Beginning(t, c) = Append(s, t[c])
    <3>1. SubSeq(t, 1, b + 1) = Append(SubSeq(t, 1, b), t[b + 1])
      BY <1>1, <1>4
    <3>2. QED
      BY <1>4, <3>1 DEF Beginning
  <2> HIDE DEF s
  <2>4. ASSUME NEW x \in AnyMark, x.kind \in {"full", "open", "clause"}
        PROVE  /\ Places(Append(s, x), Fences) = Places(s, Fences)
               /\ Places(Append(s, x), Counted) = Places(s, Counted) \cup {b + 1}
    <3>1. x.kind \notin Fences /\ x.kind \in Counted
      BY <2>4 DEF Fences, Counted, Prose, Sentences
    <3>2. QED
      BY <1>6, <3>1, PlacesAppend
  <2>5. /\ Places(q, Fences) = Places(s, Fences) /\ Places(q, Counted) = Places(s, Counted) \cup {b + 1}
        /\ Places(o, Fences) = Places(s, Fences) /\ Places(o, Counted) = Places(s, Counted) \cup {b + 1}
        /\ Places(Beginning(t, c), Fences) = Places(s, Fences)
        /\ Places(Beginning(t, c), Counted) = Places(s, Counted) \cup {b + 1}
    BY <1>4, <2>2, <2>3, <2>4
  <2>6. Units(q) = Units(o) /\ Units(o) = Units(Beginning(t, c))
    BY <2>5, UnitsSame
  <2>7. o \in Seq(AnyMark)
    BY <1>6, <2>2
  <2>8. Enough(o, t, 7)
    BY <1>5
  <2>9. ~OddFences(Beginning(t, c))
    BY <1>9, <2>5 DEF OddFences
  <2> HIDE DEF o
  <2>10. \A n \in c + 1 .. Len(t) : t[n].kind # "full"
    <3>1. c \in 0 .. Len(t)
      BY <1>4
    <3>2. QED
      BY <1>1, <2>6, <2>7, <2>8, <2>9, <3>1, NoFullAfter
  <2>11. CountOf(s, "full") = CountOf(t, "full") /\ CountOf(s, "full") \in Nat
    <3>1. \A n \in b + 1 .. Len(t) : n = c \/ n \in c + 1 .. Len(t)
      BY <1>4
    <3>2. \A n \in b + 1 .. Len(t) : t[n].kind # "full"
      BY <1>4, <2>10, <3>1
    <3>3. CountOf(Beginning(t, b), "full") = CountOf(t, "full")
      BY <1>1, <1>4, <3>2, CountOfBeginning
    <3>4. QED
      BY <1>6, <3>3, CountIs DEF s
  <2>12. CountOf(q, "full") = CountOf(s, "full") + 1
    BY <1>6, <2>2, CountOfAppend
  <2>13. 2 * Units(q) >= Units(t) - 1
    BY <1>1, <2>6, <2>7, <2>8, EnoughIsHalf
  <2>14. KeepsEnough(q, t)
    <3>1. CountOf(q, "full") >= CountOf(t, "full")
      BY <2>11, <2>12
    <3>2. QED
      BY <2>13, <3>1 DEF KeepsEnough
  <2>15. Len(q) = b + 1 /\ q[b + 1] = Full /\ \A n \in 1 .. b : q[n] = s[n]
    BY <1>6, <2>2
  <2> HIDE DEF q
  <2>16. \A n \in 1 .. Len(q) : q[n].kind # "welded"
    <3>1. \A n \in 1 .. b + 1 : n \in 1 .. b \/ n = b + 1
      BY <1>4
    <3>2. QED
      BY <1>6, <1>7, <2>2, <2>15, <3>1
  <2>17. ~Unclosed(q)
    <3>1. ~OddFences(q)
      BY <1>9, <2>5 DEF OddFences
    <3>2. QED
      BY <2>1, <2>16, <3>1, PlainlyClosed
  <2>18. q # <<>>
    BY <1>4, <2>1, <2>15
  <2>19. CutWell(q, t, title)
    BY <2>1, <2>14, <2>17, <2>18 DEF CutWell
  <2>20. QED
    BY <1>5, <1>9, <2>19 DEF q
<1>10. QED
  BY <1>8, <1>9

LEMMA ClosedIsCutWell ==
  ASSUME NEW t \in Seq(Marks), NEW title \in Nat, IsBody(t, title), HasOpenTail(t), Closed(t) # <<>>
  PROVE  CutWell(Closed(t), t, title)
<1>1. t # <<>> /\ Last(t).kind # "full" /\ Len(t) \in Nat
  BY DEF HasOpenTail
<1> DEFINE full == UpToLast(t, "full") # <<>> /\ Enough(UpToLast(t, "full"), t, 5)
           blank == UpToLast(t, "blank") # <<>> /\ Enough(UpToLast(t, "blank"), t, 6)
           line == WithoutLine(t) # <<>> /\ Enough(WithoutLine(t), t, 6)
           clause == Places(t, {"clause"}) # {} /\ Enough(Append(BeforeClause(t), Open), t, 7)
<1>2. \A kind : LastOf(Places(t, {kind})) \in 0 .. Len(t)
  <2> SUFFICES ASSUME NEW kind PROVE LastOf(Places(t, {kind})) \in 0 .. Len(t)
    OBVIOUS
  <2>1. Places(t, {kind}) \subseteq 1 .. Len(t)
    BY PlacesIn
  <2>2. QED
    BY <1>1, <2>1, LastOfIs
<1>3. LineStart(t) - 1 \in 0 .. Len(t)
  <2> DEFINE P == {n \in DOMAIN t : n < Len(t) /\ ~(t[n].kind \in Prose /\ t[n + 1].kind \in Prose)}
  <2>1. P \subseteq 1 .. Len(t)
    OBVIOUS
  <2>2. LineStart(t) = 1 + LastOf(P)
    BY DEF LineStart
  <2> HIDE DEF P
  <2>3. LastOf(P) \in 0 .. Len(t)
    BY <1>1, <2>1, LastOfIs
  <2>4. QED
    BY <2>2, <2>3
<1>4. CASE full
  <2>1. Closed(t) = Mended(UpToLast(t, "full"))
    BY <1>1, <1>4, ClosedIs
  <2>2. QED
    BY <1>2, <1>4, <2>1, StrippedIsCutWell DEF UpToLast
<1>5. CASE ~full /\ blank
  <2>1. Closed(t) = Mended(UpToLast(t, "blank"))
    BY <1>1, <1>5, ClosedIs
  <2>2. UpToLast(t, "blank") = Stripped(Beginning(t, LastOf(Places(t, {"blank"}))))
    BY DEF UpToLast
  <2>3. QED
    BY <1>2, <1>5, <2>1, <2>2, StrippedIsCutWell
<1>6. CASE ~full /\ ~blank /\ line
  <2>1. Closed(t) = Mended(WithoutLine(t))
    BY <1>1, <1>6, ClosedIs
  <2>2. WithoutLine(t) = Stripped(Beginning(t, LineStart(t) - 1))
    BY DEF WithoutLine
  <2>3. QED
    BY <1>3, <1>6, <2>1, <2>2, StrippedIsCutWell
<1>7. CASE ~full /\ ~blank /\ ~line
  <2>1. clause
    BY <1>1, <1>7, ClosedIs
  <2>2. Closed(t) = IF OddFences(BeforeClause(t)) THEN BeforeClause(t) \o <<Open, Welded>>
                    ELSE Append(BeforeClause(t), Full)
    BY <1>1, <1>7, <2>1, ClosedIs
  <2>3. QED
    BY <1>7, <2>1, <2>2, ClauseIsCutWell
<1>8. QED
  BY <1>4, <1>5, <1>6, <1>7

-----------------------------------------------------------------------------
(* A chapter: the section under its heading.                                *)

Asked(answer, title)       == Normalised(Isolated(answer, title), title)
PartWritten(answer, title) == Finished(Asked(answer, title))
ChapterOf(answer, title)   == Titled(PartWritten(answer, title), title)

LEMMA PartIs ==
  ASSUME NEW answer \in Seq(Marks), NEW title \in Nat, Units(PartWritten(answer, title)) > 0
  PROVE  LET t == Asked(answer, title)
             p == PartWritten(answer, title) IN
         /\ t \in Seq(AnyMark) /\ p \in Seq(AnyMark) /\ p # <<>> /\ IsBody(p, title)
         /\ p = t \/ CutWell(p, t, title)
<1> DEFINE t == Asked(answer, title)
           p == PartWritten(answer, title)
<1>1. Isolated(answer, title) \in Seq(Marks)
  BY IsolatedText
<1>2. t \in Seq(Marks) /\ IsBody(t, title)
  BY <1>1, NormalisedBody DEF Asked
<1>3. p = IF HasOpenTail(t) /\ Units(t) <= MaxUnits /\ Closed(t) # <<>> THEN Closed(t) ELSE t
  BY DEF PartWritten, Finished
<1>4. p # <<>>
  BY UnitsOfNothing
<1> HIDE DEF t, p
<1>5. t \in Seq(AnyMark)
  <2>1. Marks \subseteq AnyMark
    BY MarkIn
  <2>2. QED
    BY <1>2, <2>1
<1>6. p = t \/ CutWell(p, t, title)
  BY <1>2, <1>3, ClosedIsCutWell
<1>7. p \in Seq(AnyMark) /\ IsBody(p, title)
  BY <1>2, <1>5, <1>6 DEF CutWell
<1>8. QED
  BY <1>4, <1>5, <1>6, <1>7 DEF t, p

LEMMA WhereOfTwo ==
  ASSUME NEW S, NEW x \in S, NEW y \in S, NEW T
  PROVE  Where(<<x, y>>, T) = (IF x \in T THEN <<x>> ELSE <<>>) \o (IF y \in T THEN <<y>> ELSE <<>>)
<1> DEFINE e == <<>>
           f == <<x>>
           g == <<x, y>>
<1>1. e \in Seq(S) /\ f = Append(e, x) /\ f \in Seq(S) /\ g = Append(f, y) /\ Where(e, T) = <<>>
  BY WhereOfNothing
<1> HIDE DEF e, f, g
<1>2. Where(f, T) = IF x \in T THEN Append(<<>>, x) ELSE <<>>
  BY <1>1, WhereAppend
<1>3. Where(g, T) = IF y \in T THEN Append(Where(f, T), y) ELSE Where(f, T)
  <2>1. f \in Seq(S)
    BY <1>1
  <2>2. Where(Append(f, y), T) = IF y \in T THEN Append(Where(f, T), y) ELSE Where(f, T)
    BY <2>1, WhereAppend
  <2>3. QED
    BY <1>1, <2>2
<1>4. Append(<<>>, x) = <<x>> /\ Append(<<>>, y) = <<y>> /\ Append(<<x>>, y) = <<x>> \o <<y>>
  OBVIOUS
<1>5. <<x>> \o <<>> = <<x>> /\ <<>> \o <<y>> = <<y>> /\ <<>> \o <<>> = <<>>
  OBVIOUS
<1>6. QED
  BY <1>2, <1>3, <1>4, <1>5 DEF g

\* what a chapter is made of
TitleMarks(title) == <<H2(title), Blank>>
LEMMA OpeningIs ==
  ASSUME NEW title \in Nat
  PROVE  /\ TitleMarks(title) \in Seq(AnyMark) /\ Len(TitleMarks(title)) = 2
         /\ TitleMarks(title)[1] = H2(title) /\ TitleMarks(title)[2] = Blank
         /\ H2(title) \in AnyMark /\ H2(title).kind = "h2" /\ Blank \in AnyMark /\ Blank.kind = "blank"
         /\ ~Unclosed(TitleMarks(title))
<1>1. H2(title) \in AnyMark /\ H2(title).kind = "h2" /\ Blank \in AnyMark /\ Blank.kind = "blank"
  BY MarkIn DEF H2, Blank, Mark
<1> DEFINE h == TitleMarks(title)
<1>2. h \in Seq(AnyMark) /\ Len(h) = 2 /\ h[1] = H2(title) /\ h[2] = Blank
  BY <1>1 DEF TitleMarks
<1> HIDE DEF h
<1>3. \A n \in 1 .. Len(h) : h[n].kind \in {"h2", "blank"}
  <2>1. \A n \in 1 .. 2 : n = 1 \/ n = 2
    OBVIOUS
  <2>2. QED
    BY <1>1, <1>2, <2>1
<1>4. Places(h, Fences) = {}
  BY <1>2, <1>3, PlacesIn DEF Fences
<1>5. ~OddFences(h)
  BY <1>4, FS_EmptySet DEF OddFences, Odd
<1>6. ~Unclosed(h)
  BY <1>2, <1>3, <1>5, PlainlyClosed
<1>7. QED
  BY <1>1, <1>2, <1>6 DEF h

LEMMA ChapterIs ==
  ASSUME NEW p \in Seq(AnyMark), p # <<>>, NEW title \in Nat, IsBody(p, title)
  PROVE  LET c == Titled(p, title) IN
         /\ c = TitleMarks(title) \o p /\ c \in Seq(AnyMark) /\ Len(c) = 2 + Len(p)
         /\ Head(c) = H2(title) /\ Last(c) = p[Len(p)] /\ Headings2(c) = <<H2(title)>>
         /\ CountOf(c, "full") = CountOf(p, "full") /\ Units(c) >= Units(p) + 1
         /\ Unclosed(c) <=> Unclosed(p)
         /\ (\E n \in 1 .. Len(p) : p[n] = Welded) => Contains(c, Welded)
<1> DEFINE h == TitleMarks(title)
           c == h \o p
<1>1. Titled(p, title) = c
  BY TitledIs DEF TitleMarks
<1>2. /\ h \in Seq(AnyMark) /\ Len(h) = 2 /\ h[1] = H2(title) /\ h[2] = Blank
      /\ H2(title) \in AnyMark /\ H2(title).kind = "h2" /\ Blank \in AnyMark /\ Blank.kind = "blank"
      /\ ~Unclosed(h)
  BY OpeningIs
<1>3. \A T : Where(h, T) = (IF H2(title) \in T THEN <<H2(title)>> ELSE <<>>) \o (IF Blank \in T THEN <<Blank>> ELSE <<>>)
  BY <1>2, WhereOfTwo DEF TitleMarks
<1>4. Units(c) >= Units(p) + 1
  BY UnitsTitled DEF TitleMarks
<1> HIDE DEF h
<1>5. h \in Seq(AnyMark)
  BY <1>2
<1>6. /\ c \in Seq(AnyMark) /\ Len(c) = Len(h) + Len(p)
      /\ \A i \in 1 .. Len(h) : c[i] = h[i]
      /\ \A i \in 1 .. Len(p) : c[Len(h) + i] = p[i]
  BY <1>5, TextsJoined, SMT
<1>7. Unclosed(c) <=> Unclosed(p)
  BY <1>2, <1>5, UnclosedJoined
<1>8. \A T : Where(c, T) = Where(h, T) \o Where(p, T) /\ Len(Where(c, T)) = Len(Where(h, T)) + Len(Where(p, T))
  BY <1>5, WhereConcat
<1> HIDE DEF c
<1>9. Len(p) \in Nat /\ Len(p) > 0
  OBVIOUS
<1>10. Len(c) = 2 + Len(p) /\ c[1] = H2(title) /\ c[Len(c)] = p[Len(p)] /\ Len(c) > 0
  <2>1. 1 \in 1 .. Len(h) /\ Len(p) \in 1 .. Len(p)
    BY <1>2, <1>9
  <2>2. QED
    BY <1>2, <1>6, <1>9, <2>1
<1>11. Head(c) = H2(title) /\ Last(c) = p[Len(p)]
  BY <1>10 DEF Last
<1>12. Headings2(c) = <<H2(title)>>
  <2> DEFINE T == [kind : {"h2"}, title : Nat]
  <2>1. H2(title) \in T /\ Blank \notin T /\ \A n \in 1 .. Len(p) : p[n] \notin T
    <3>1. \A m \in AnyMark : m \in T <=> m.kind = "h2"
      BY ThoseIn
    <3>2. \A n \in 1 .. Len(p) : p[n] \in AnyMark /\ p[n].kind # "h2"
      BY DEF IsBody
    <3> HIDE DEF T
    <3>3. QED
      BY <1>2, <3>1, <3>2
  <2> HIDE DEF T
  <2>2. Where(p, T) = <<>>
    BY <2>1, WhereFound
  <2>3. Where(h, T) = <<H2(title)>> \o <<>>
    BY <1>3, <2>1
  <2>4. <<H2(title)>> \o <<>> \o <<>> = <<H2(title)>>
    OBVIOUS
  <2>5. Where(c, T) = <<H2(title)>>
    BY <1>8, <2>2, <2>3, <2>4
  <2>6. QED
    BY <2>5 DEF Headings2, Those, T
<1>13. CountOf(c, "full") = CountOf(p, "full")
  <2> DEFINE T == [kind : {"full"}, title : Nat]
  <2>1. H2(title) \notin T /\ Blank \notin T
    BY <1>2
  <2> HIDE DEF T
  <2>2. Len(Where(h, T)) = 0
    <3>1. Where(h, T) = <<>> \o <<>>
      BY <1>3, <2>1
    <3>2. QED
      BY <3>1
  <2>3. Len(Where(p, T)) \in Nat
    BY WhereType
  <2>4. Len(Where(c, T)) = Len(Where(p, T))
    BY <1>8, <2>2, <2>3
  <2>5. QED
    BY <2>4 DEF CountOf, Those, T
<1>14. (\E n \in 1 .. Len(p) : p[n] = Welded) => Contains(c, Welded)
  <2> SUFFICES ASSUME NEW n \in 1 .. Len(p), p[n] = Welded PROVE Contains(c, Welded)
    OBVIOUS
  <2>1. 2 + n \in 1 .. Len(c) /\ c[2 + n] = Welded
    BY <1>2, <1>6, <1>10
  <2>2. QED
    BY <2>1 DEF Contains
<1>15. QED
  BY <1>1, <1>4, <1>6, <1>7, <1>10, <1>11, <1>12, <1>13, <1>14 DEF c, h

(* Each chapter has the text the model wrote for its section.               *)
LEMMA WrittenChapterIsKept ==
  ASSUME NEW answer \in Seq(Marks), NEW title \in Nat, Units(PartWritten(answer, title)) > 0
  PROVE  /\ ChapterIsKept(answer, title, ChapterOf(answer, title))
         /\ ChapterOf(answer, title) \in Seq(AnyMark) /\ Len(ChapterOf(answer, title)) > 0
<1> DEFINE t == Asked(answer, title)
           p == PartWritten(answer, title)
           c == ChapterOf(answer, title)
<1>1. /\ t \in Seq(AnyMark) /\ p \in Seq(AnyMark) /\ p # <<>> /\ IsBody(p, title)
      /\ p = t \/ CutWell(p, t, title)
  BY PartIs
<1>2. c = Titled(p, title)
  BY DEF ChapterOf
<1> HIDE DEF p, c, t
<1>3. /\ c \in Seq(AnyMark) /\ Len(c) = 2 + Len(p)
      /\ Head(c) = H2(title) /\ Last(c) = p[Len(p)] /\ Headings2(c) = <<H2(title)>>
      /\ CountOf(c, "full") = CountOf(p, "full") /\ Units(c) >= Units(p) + 1
      /\ Unclosed(c) <=> Unclosed(p)
      /\ (\E n \in 1 .. Len(p) : p[n] = Welded) => Contains(c, Welded)
  BY <1>1, <1>2, ChapterIs
<1>4. Units(c) \in Nat /\ Units(p) \in Nat /\ Units(t) \in Nat /\ CountOf(p, "full") \in Nat /\ CountOf(t, "full") \in Nat
  BY <1>1, <1>3, UnitsNumber, CountIs
<1>5. \/ Last(c).kind \in Fences
      \/ CountOf(c, "full") >= CountOf(t, "full") /\ 2 * Units(c) > Units(t)
  <2>1. CASE p = t
    <3>1. CountOf(c, "full") >= CountOf(t, "full")
      BY <1>3, <1>4, <2>1
    <3>2. Units(c) >= Units(t) + 1
      BY <1>3, <2>1
    <3>3. 2 * Units(c) > Units(t)
      BY <1>4, <3>2
    <3>4. QED
      BY <3>1, <3>3
  <2>2. CASE CutWell(p, t, title)
    <3>1. CASE p[Len(p)].kind \in Fences
      BY <1>3, <3>1
    <3>2. CASE KeepsEnough(p, t)
      <4>1. CountOf(c, "full") >= CountOf(t, "full")
        BY <1>3, <3>2 DEF KeepsEnough
      <4>2. 2 * Units(c) > Units(t)
        <5>1. 2 * Units(p) >= Units(t) - 1 /\ Units(c) >= Units(p) + 1
          BY <1>3, <3>2 DEF KeepsEnough
        <5>2. QED
          BY <1>4, <5>1
      <4>3. QED
        BY <4>1, <4>2
    <3>3. QED
      BY <2>2, <3>1, <3>2 DEF CutWell
  <2>3. QED
    BY <1>1, <2>1, <2>2
<1>6. Contains(c, Welded) \/ (~Unclosed(t) => ~Unclosed(c))
  BY <1>1, <1>3 DEF CutWell
<1>7. ChapterIsKept(answer, title, c)
  BY <1>3, <1>5, <1>6 DEF ChapterIsKept, t, Asked
<1>8. Len(c) > 0
  BY <1>1, <1>3
<1>9. QED
  BY <1>3, <1>7, <1>8 DEF c

-----------------------------------------------------------------------------
(* Chapters that are joined.                                                *)

JoinedUpTo(ts) ==
  CHOOSE all : all = [n \in 0 .. Len(ts) |->
    IF n = 0 THEN <<>> ELSE IF all[n - 1] = <<>> THEN ts[n] ELSE all[n - 1] \o <<Blank>> \o ts[n]]

LEMMA JoinedExists ==
  ASSUME NEW ts \in Seq(Seq(AnyMark))
  PROVE  /\ JoinedUpTo(ts) \in [0 .. Len(ts) -> Seq(AnyMark)]
         /\ JoinedUpTo(ts)[0] = <<>>
         /\ \A n \in 1 .. Len(ts) :
              JoinedUpTo(ts)[n] = IF JoinedUpTo(ts)[n - 1] = <<>> THEN ts[n]
                                  ELSE JoinedUpTo(ts)[n - 1] \o <<Blank>> \o ts[n]
         /\ Joined(ts) = JoinedUpTo(ts)[Len(ts)]
<1> DEFINE N == Len(ts)
           V == Seq(AnyMark)
           more(v, t) == IF v = <<>> THEN t ELSE v \o <<Blank>> \o t
           step == [x \in (1 .. N) \X V |-> more(x[2], ts[x[1]])]
<1>1. N \in Nat /\ <<>> \in V /\ \A n \in 1 .. N : ts[n] \in V
  OBVIOUS
<1>2. \A v \in V : \A t \in V : more(v, t) \in V
  <2>1. Blank \in AnyMark
    BY MarkIn
  <2>2. ASSUME NEW S, NEW v \in Seq(S), NEW t \in Seq(S), NEW b \in S PROVE v \o <<b>> \o t \in Seq(S)
    OBVIOUS
  <2>3. \A v \in V : \A t \in V : v \o <<Blank>> \o t \in V
    BY <2>1, <2>2
  <2>4. QED
    BY <2>3
<1> HIDE DEF more
<1>3. TakesSteps(N, V, step) /\ \A n \in 1 .. N : \A v \in V : step[<<n, v>>] = more(v, ts[n])
  <2> HIDE DEF V
  <2>1. \A n \in 1 .. N : \A v \in V : step[<<n, v>>] = more(v, ts[n])
    OBVIOUS
  <2> HIDE DEF step
  <2>2. QED
    BY <1>1, <1>2, <2>1 DEF TakesSteps
<1> HIDE DEF V, step
<1>4. PICK f \in [0 .. N -> V] : f[0] = <<>> /\ \A n \in 1 .. N : f[n] = step[<<n, f[n - 1]>>]
  <2> HIDE DEF N
  <2>1. \E f : Solves(f, N, V, <<>>, step)
    BY <1>1, <1>3, RecursionExists
  <2>2. QED
    BY <2>1 DEF Solves
<1>5. \A n \in 1 .. N : n - 1 \in 0 .. N /\ n # 0 /\ n \in 0 .. N
  BY <1>1
<1>6. \A n \in 1 .. N : f[n] = more(f[n - 1], ts[n])
  BY <1>3, <1>4, <1>5
<1>7. \A n \in 0 .. N : n # 0 => n \in 1 .. N
  BY <1>1
<1> DEFINE Q(g) == g = [n \in 0 .. N |-> IF n = 0 THEN <<>> ELSE more(g[n - 1], ts[n])]
<1>8. Q(f)
  <2>1. f = [n \in 0 .. N |-> f[n]]
    OBVIOUS
  <2>2. ASSUME NEW n \in 0 .. N PROVE f[n] = IF n = 0 THEN <<>> ELSE more(f[n - 1], ts[n])
    <3> HIDE DEF more
    <3>1. CASE n = 0
      BY <1>4, <3>1
    <3>2. CASE n # 0
      BY <1>6, <1>7, <3>2
    <3>3. QED
      BY <3>1, <3>2
  <2>3. QED
    BY <2>1, <2>2
<1> DEFINE p == JoinedUpTo(ts)
<1>9. Q(p)
  BY <1>8 DEF JoinedUpTo, more
<1>10. Joined(ts) = p[N]
  BY DEF Joined, JoinedUpTo
<1> HIDE DEF p
<1>11. DOMAIN p = 0 .. N /\ p[0] = <<>> /\ \A n \in 1 .. N : p[n] = more(p[n - 1], ts[n])
  <2>1. 0 \in 0 .. N
    BY <1>1
  <2>2. DOMAIN p = 0 .. N /\ \A n \in 0 .. N : p[n] = IF n = 0 THEN <<>> ELSE more(p[n - 1], ts[n])
    BY <1>9
  <2>3. QED
    BY <1>5, <2>1, <2>2
<1> DEFINE I == {n \in 0 .. N : p[n] \in V}
<1>12. 0 \in I
  BY <1>1, <1>11
<1>13. ASSUME NEW n \in 1 .. N, n - 1 \in I PROVE n \in I
  BY <1>1, <1>2, <1>5, <1>11, <1>13
<1> HIDE DEF I
<1>14. \A n \in 0 .. N : n \in I
  BY <1>1, <1>12, <1>13, UpTo
<1>15. p \in [0 .. N -> V]
  <2>1. p = [n \in 0 .. N |-> p[n]]
    BY <1>9
  <2>2. \A n \in 0 .. N : p[n] \in V
    BY <1>14 DEF I
  <2>3. QED
    BY <2>1, <2>2
<1>16. QED
  BY <1>10, <1>11, <1>15 DEF p, V, more

LEMMA JoinedAppend ==
  ASSUME NEW ts \in Seq(Seq(AnyMark)), NEW t \in Seq(AnyMark)
  PROVE  /\ Joined(ts) \in Seq(AnyMark)
         /\ Joined(Append(ts, t)) = IF Joined(ts) = <<>> THEN t ELSE Joined(ts) \o <<Blank>> \o t
<1> DEFINE N == Len(ts)
           us == Append(ts, t)
           p == JoinedUpTo(ts)
           q == JoinedUpTo(us)
           S == {n \in 0 .. N : p[n] = q[n]}
<1>1. us \in Seq(Seq(AnyMark)) /\ Len(us) = N + 1 /\ N \in Nat /\ us[N + 1] = t /\ \A n \in 1 .. N : us[n] = ts[n]
  OBVIOUS
<1>2. /\ p \in [0 .. N -> Seq(AnyMark)] /\ p[0] = <<>> /\ Joined(ts) = p[N]
      /\ \A n \in 1 .. N : p[n] = IF p[n - 1] = <<>> THEN ts[n] ELSE p[n - 1] \o <<Blank>> \o ts[n]
  BY JoinedExists
<1>3. /\ q[0] = <<>> /\ Joined(us) = q[Len(us)]
      /\ \A n \in 1 .. Len(us) : q[n] = IF q[n - 1] = <<>> THEN us[n] ELSE q[n - 1] \o <<Blank>> \o us[n]
  <2> HIDE DEF us
  <2>1. QED
    BY <1>1, JoinedExists
<1> HIDE DEF p, q, us
<1>4. 0 \in S
  BY <1>1, <1>2, <1>3
<1>5. ASSUME NEW n \in 1 .. N, n - 1 \in S PROVE n \in S
  <2>1. n \in 1 .. Len(us) /\ us[n] = ts[n] /\ n - 1 \in 0 .. N /\ p[n - 1] = q[n - 1]
    BY <1>1, <1>5
  <2>2. p[n] = IF p[n - 1] = <<>> THEN ts[n] ELSE p[n - 1] \o <<Blank>> \o ts[n]
    BY <1>2
  <2>3. q[n] = IF q[n - 1] = <<>> THEN us[n] ELSE q[n - 1] \o <<Blank>> \o us[n]
    BY <1>3, <2>1
  <2>4. p[n] = q[n]
    BY <2>1, <2>2, <2>3
  <2>5. n \in 0 .. N
    BY <1>1
  <2>6. QED
    BY <2>4, <2>5
<1>6. N \in S
  <2> HIDE DEF S
  <2>1. \A n \in 0 .. N : n \in S
    BY <1>1, <1>4, <1>5, UpTo
  <2>2. QED
    BY <1>1, <2>1
<1>7. Joined(us) = IF q[N] = <<>> THEN t ELSE q[N] \o <<Blank>> \o t
  <2>1. N + 1 \in 1 .. Len(us) /\ (N + 1) - 1 = N
    BY <1>1
  <2>2. QED
    BY <1>1, <1>3, <2>1
<1>8. p[N] = q[N]
  BY <1>6
<1>9. Joined(ts) \in Seq(AnyMark)
  <2>1. N \in 0 .. N
    BY <1>1
  <2>2. QED
    BY <1>2, <2>1
<1>10. QED
  BY <1>2, <1>7, <1>8, <1>9 DEF us

LEMMA JoinedOfNone == Joined(<<>>) = <<>>
<1> DEFINE e == <<>>
<1>1. e \in Seq(Seq(AnyMark)) /\ Len(e) = 0
  OBVIOUS
<1> HIDE DEF e
<1>2. Joined(e) = JoinedUpTo(e)[Len(e)] /\ JoinedUpTo(e)[0] = <<>>
  BY <1>1, JoinedExists
<1>3. QED
  BY <1>1, <1>2 DEF e

\* the first of some chapters, and one more
LEMMA JoinedNext ==
  ASSUME NEW ts \in Seq(Seq(AnyMark)), NEW k \in 0 .. Len(ts) - 1, \A n \in 1 .. Len(ts) : ts[n] # <<>>
  PROVE  /\ Joined(Beginning(ts, k)) \in Seq(AnyMark) /\ ts[k + 1] \in Seq(AnyMark)
         /\ k = 0 => Joined(Beginning(ts, k + 1)) = ts[1]
         /\ Joined(Beginning(ts, k)) # <<>> =>
              Joined(Beginning(ts, k + 1)) = Joined(Beginning(ts, k)) \o <<Blank>> \o ts[k + 1]
         /\ Joined(Beginning(ts, k + 1)) # <<>>
<1> DEFINE s == Beginning(ts, k)
           r == Beginning(ts, k + 1)
           t == ts[k + 1]
<1>1. s \in Seq(Seq(AnyMark)) /\ t \in Seq(AnyMark) /\ r = Append(s, t) /\ t # <<>>
  <2>1. k + 1 \in 1 .. Len(ts) /\ k \in Nat
    OBVIOUS
  <2>2. t \in Seq(AnyMark) /\ t # <<>>
    BY <2>1
  <2>3. s \in Seq(Seq(AnyMark))
    BY <2>1 DEF Beginning
  <2>4. r = Append(s, t)
    BY <2>1 DEF Beginning
  <2>5. QED
    BY <2>2, <2>3, <2>4
<1>6. k = 0 => s = <<>> /\ t = ts[1]
  BY DEF Beginning
<1> HIDE DEF s, r, t
<1>2. Joined(s) \in Seq(AnyMark) /\ Joined(r) = IF Joined(s) = <<>> THEN t ELSE Joined(s) \o <<Blank>> \o t
  BY <1>1, JoinedAppend
<1>3. k = 0 => Joined(s) = <<>>
  BY <1>6, JoinedOfNone
<1>4. Joined(r) # <<>>
  <2>1. Blank \in AnyMark
    BY MarkIn
  <2>2. ASSUME NEW S, NEW a \in Seq(S), NEW b \in Seq(S), NEW x \in S, b # <<>> PROVE a \o <<x>> \o b # <<>>
    <3>1. Len(a \o <<x>> \o b) = Len(a) + 1 + Len(b)
      OBVIOUS
    <3>2. Len(a \o <<x>> \o b) > 0
      BY <3>1
    <3>3. QED
      BY <3>2
  <2>3. Joined(s) \o <<Blank>> \o t # <<>>
    BY <1>1, <1>2, <2>1, <2>2
  <2>4. QED
    BY <1>1, <1>2, <2>3
<1>5. QED
  BY <1>1, <1>2, <1>3, <1>4, <1>6 DEF s, r, t

-----------------------------------------------------------------------------
(* The document: chapters that are joined, and its last sentence.           *)

WordMarks == [kind : {"h2", "h3", "full", "clause", "open", "item", "fence", "welded"}, title : Nat]

LEMMA OwnSentences ==
  /\ Blank \in AnyMark /\ Blank.kind = "blank" /\ Bridge \in AnyMark /\ Bridge.kind = "bridge"
  /\ Closing \in AnyMark /\ Closing.kind = "closing"
BY MarkIn DEF Blank, Bridge, Closing, Mark

\* a text without fences leaves no block of code open
LEMMA QuietClosed ==
  ASSUME NEW t \in Seq(AnyMark), \A n \in 1 .. Len(t) : t[n].kind \notin Fences
  PROVE  ~Unclosed(t)
<1>1. Places(t, Fences) = {}
  BY PlacesIn
<1>2. ~OddFences(t)
  BY <1>1, FS_EmptySet DEF OddFences, Odd
<1>3. \A n \in 1 .. Len(t) : t[n].kind # "welded"
  BY DEF Fences
<1>4. QED
  BY <1>2, <1>3, PlainlyClosed

LEMMA WhereOfOne ==
  ASSUME NEW S, NEW x \in S, NEW T
  PROVE  Where(<<x>>, T) = IF x \in T THEN <<x>> ELSE <<>>
<1> DEFINE e == <<>>
           f == <<x>>
<1>1. e \in Seq(S) /\ f = Append(e, x) /\ Where(e, T) = <<>> /\ Append(<<>>, x) = <<x>>
  BY WhereOfNothing
<1> HIDE DEF e, f
<1>2. e \in Seq(S)
  BY <1>1
<1>3. Where(Append(e, x), T) = IF x \in T THEN Append(Where(e, T), x) ELSE Where(e, T)
  BY <1>2, WhereAppend
<1>4. QED
  BY <1>1, <1>3 DEF f

\* a text after another, with a blank line between them
LEMMA TextAfterText ==
  ASSUME NEW s \in Seq(AnyMark), NEW t \in Seq(AnyMark)
  PROVE  LET u == s \o <<Blank>> \o t IN
         /\ u \in Seq(AnyMark)
         /\ Words(u) = Words(s) \o Words(t) /\ Headings2(u) = Headings2(s) \o Headings2(t)
         /\ ~Unclosed(s) /\ ~Unclosed(t) => ~Unclosed(u)
<1> DEFINE b == <<Blank>>
           v == s \o b
           u == v \o t
<1>1. b \in Seq(AnyMark) /\ \A n \in 1 .. Len(b) : b[n].kind \notin Fences
  BY OwnSentences DEF Fences
<1>2. \A T : Blank \notin T => Where(b, T) = <<>>
  BY OwnSentences, WhereOfOne
<1> HIDE DEF b
<1>3. b \in Seq(AnyMark) /\ ~Unclosed(b)
  BY <1>1, QuietClosed
<1>4. b \in Seq(AnyMark)
  BY <1>1
<1>5. v \in Seq(AnyMark)
  BY <1>4, TextsJoined, SMT
<1>6. \A T : Where(v, T) = Where(s, T) \o Where(b, T)
  BY <1>4, WhereConcat
<1>7. ~Unclosed(s) => ~Unclosed(v)
  BY <1>3, <1>4, UnclosedJoined
<1> HIDE DEF v
<1>8. u \in Seq(AnyMark)
  BY <1>5, TextsJoined, SMT
<1>9. \A T : Where(u, T) = Where(v, T) \o Where(t, T)
  BY <1>5, WhereConcat
<1>10. ~Unclosed(v) /\ ~Unclosed(t) => ~Unclosed(u)
  BY <1>5, UnclosedJoined
<1> HIDE DEF u
<1>11. ASSUME NEW T, Blank \notin T PROVE Where(u, T) = Where(s, T) \o Where(t, T)
  <2>1. Where(s, T) \in Seq(AnyMark)
    BY WhereType
  <2>2. Where(s, T) \o <<>> = Where(s, T)
    BY <2>1
  <2>3. QED
    BY <1>2, <1>6, <1>9, <1>11, <2>2
<1>12. Blank \notin WordMarks /\ Blank \notin [kind : {"h2"}, title : Nat]
  BY OwnSentences DEF WordMarks
<1>13. Words(u) = Words(s) \o Words(t) /\ Headings2(u) = Headings2(s) \o Headings2(t)
  BY <1>11, <1>12 DEF Words, Those, Headings2, WordMarks
<1>14. QED
  BY <1>7, <1>8, <1>10, <1>13 DEF u, v, b

\* a bridge after the heading of a chapter
LEMMA BridgedIs ==
  ASSUME NEW t \in Seq(AnyMark), t # <<>>, Head(t).kind = "h2"
  PROVE  /\ WithBridge(t) \in Seq(AnyMark) /\ WithBridge(t) # <<>>
         /\ Words(WithBridge(t)) = Words(t) /\ Headings2(WithBridge(t)) = Headings2(t)
         /\ Unclosed(WithBridge(t)) <=> Unclosed(t)
<1> DEFINE h == <<Head(t)>>
           b == <<Blank, Bridge>>
           r == Tail(t)
           hb == h \o b
<1>1. Head(t) \in AnyMark /\ r \in Seq(AnyMark) /\ h \in Seq(AnyMark) /\ t = h \o r
  OBVIOUS
<1>2. b \in Seq(AnyMark) /\ hb \in Seq(AnyMark) /\ hb = <<Head(t), Blank, Bridge>> /\ Len(hb) = 3
  <2>1. ASSUME NEW x \in AnyMark, NEW y \in AnyMark, NEW z \in AnyMark
        PROVE  /\ <<y, z>> \in Seq(AnyMark) /\ <<x>> \o <<y, z>> = <<x, y, z>>
               /\ <<x, y, z>> \in Seq(AnyMark) /\ Len(<<x, y, z>>) = 3
    <3> DEFINE l == <<x>> \o <<y, z>>
               m == <<x, y, z>>
    <3>1. <<y, z>> \in Seq(AnyMark)
      OBVIOUS
    <3>2. m \in Seq(AnyMark) /\ Len(m) = 3
      OBVIOUS
    <3>3. l \in Seq(AnyMark) /\ Len(l) = 3
      OBVIOUS
    <3>4. l[1] = x /\ l[2] = y /\ l[3] = z /\ m[1] = x /\ m[2] = y /\ m[3] = z
      OBVIOUS
    <3> HIDE DEF l, m
    <3>5. \A n \in 1 .. 3 : l[n] = m[n]
      <4>1. \A n \in 1 .. 3 : n = 1 \/ n = 2 \/ n = 3
        OBVIOUS
      <4>2. QED
        BY <3>4, <4>1
    <3>6. l = m
      BY <3>2, <3>3, <3>5, SeqEqual
    <3>7. QED
      BY <3>1, <3>2, <3>6 DEF l, m
  <2>2. QED
    BY <1>1, <2>1, OwnSentences
<1>3. hb[1] = Head(t) /\ hb[2] = Blank /\ hb[3] = Bridge /\ h[1] = Head(t) /\ Len(h) = 1
  BY <1>2
<1>4. ASSUME NEW T, Blank \notin T, Bridge \notin T PROVE Where(b, T) = <<>>
  <2>1. Blank \in AnyMark /\ Bridge \in AnyMark
    BY OwnSentences
  <2>2. Where(b, T) = (IF Blank \in T THEN <<Blank>> ELSE <<>>) \o (IF Bridge \in T THEN <<Bridge>> ELSE <<>>)
    BY <2>1, WhereOfTwo
  <2>3. <<>> \o <<>> = <<>>
    OBVIOUS
  <2> HIDE DEF b
  <2>4. QED
    BY <1>4, <2>2, <2>3
<1> HIDE DEF b
<1>5. \A T : Where(hb, T) = Where(h, T) \o Where(b, T)
  <2> HIDE DEF h
  <2>1. h \in Seq(AnyMark) /\ b \in Seq(AnyMark)
    BY <1>1, <1>2
  <2>2. QED
    BY <2>1, WhereConcat
<1> HIDE DEF hb, h
<1>6. \A T : Where(t, T) = Where(h, T) \o Where(r, T)
  <2>1. h \in Seq(AnyMark) /\ r \in Seq(AnyMark)
    BY <1>1
  <2> HIDE DEF r
  <2>2. \A T : Where(h \o r, T) = Where(h, T) \o Where(r, T)
    BY <2>1, WhereConcat
  <2>3. QED
    BY <1>1, <2>2
<1>7. WithBridge(t) = hb \o r
  BY <1>2 DEF WithBridge
<1> HIDE DEF r
<1>8. hb \in Seq(AnyMark) /\ r \in Seq(AnyMark) /\ h \in Seq(AnyMark)
  BY <1>1, <1>2
<1>9. hb \o r \in Seq(AnyMark) /\ Len(hb \o r) = Len(hb) + Len(r)
  BY <1>8
<1>10. \A T : Where(hb \o r, T) = Where(hb, T) \o Where(r, T)
  <2>1. hb \in Seq(AnyMark) /\ r \in Seq(AnyMark)
    BY <1>8
  <2>2. QED
    BY <2>1, WhereConcat
<1>11. ~Unclosed(h)
  <2>1. \A n \in 1 .. Len(h) : h[n].kind \notin Fences
    BY <1>3 DEF Fences
  <2>2. QED
    BY <1>8, <2>1, QuietClosed
<1>12. ~Unclosed(hb)
  <2>1. \A n \in 1 .. Len(hb) : n = 1 \/ n = 2 \/ n = 3
    BY <1>2
  <2>2. \A n \in 1 .. Len(hb) : hb[n].kind \notin Fences
    BY <1>3, <2>1, OwnSentences DEF Fences
  <2>3. QED
    BY <1>8, <2>2, QuietClosed
<1>13. Unclosed(hb \o r) <=> Unclosed(h \o r)
  BY <1>8, <1>11, <1>12, UnclosedJoined
<1>14. ASSUME NEW T, Blank \notin T, Bridge \notin T PROVE Where(hb \o r, T) = Where(t, T)
  <2>1. Where(h, T) \in Seq(AnyMark)
    BY <1>8, WhereType
  <2>2. Where(h, T) \o <<>> = Where(h, T)
    BY <2>1
  <2>3. QED
    BY <1>4, <1>5, <1>6, <1>10, <1>14, <2>2
<1>15. /\ Blank \notin WordMarks /\ Bridge \notin WordMarks
       /\ Blank \notin [kind : {"h2"}, title : Nat] /\ Bridge \notin [kind : {"h2"}, title : Nat]
  BY OwnSentences DEF WordMarks
<1>16. Words(hb \o r) = Words(t) /\ Headings2(hb \o r) = Headings2(t)
  BY <1>14, <1>15 DEF Words, Those, Headings2, WordMarks
<1>17. hb \o r # <<>>
  <2>1. Len(hb) = 3 /\ Len(r) \in Nat
    BY <1>2, <1>8
  <2>2. Len(hb \o r) > 0
    BY <1>9, <2>1
  <2>3. QED
    BY <1>9, <2>2
<1>18. QED
  BY <1>1, <1>7, <1>9, <1>13, <1>16, <1>17

(* If there are not two places, not more than one is chosen.                *)
LEMMA WhereAtMostOne ==
  ASSUME NEW S, NEW s \in Seq(S), NEW T,
         \A m, n \in 1 .. Len(s) : s[m] \in T /\ s[n] \in T => m = n
  PROVE  Len(Where(s, T)) <= 1
<1> DEFINE P == {k \in DOMAIN s : s[k] \in T}
           w == Chosen(s, P)
<1>1. \A k \in P : k \in 1 .. Len(s) /\ s[k] \in T
  OBVIOUS
<1> HIDE DEF P
<1>2. PICK at \in [1 .. Len(w) -> 1 .. Len(s)] :
        /\ \A i \in 1 .. Len(w) : at[i] \in P
        /\ \A i, j \in 1 .. Len(w) : i < j => at[i] < at[j]
  BY ChosenPlaces
<1>3. w \in Seq(S)
  BY ChosenType
<1>4. Where(s, T) = w
  BY DEF Where, P
<1> HIDE DEF w
<1>5. Len(w) \in Nat
  BY <1>3
<1>6. SUFFICES ASSUME Len(w) > 1 PROVE FALSE
  BY <1>4, <1>5
<1>7. 1 \in 1 .. Len(w) /\ 2 \in 1 .. Len(w) /\ 1 < 2
  BY <1>5, <1>6
<1>8. at[1] \in P /\ at[2] \in P /\ at[1] < at[2]
  BY <1>2, <1>7
<1>9. at[1] \in 1 .. Len(s) /\ at[2] \in 1 .. Len(s) /\ at[1] = at[2]
  BY <1>1, <1>8
<1>10. QED
  BY <1>8, <1>9

\* the last sentence of a text: there is no other behind the place where it begins
Ends(t) == Places(t, Sentences)
From(t, n) == 1 + (IF n < Len(t) /\ t[n + 1].kind = "blank" THEN n + 1 ELSE n)
LastBlock(t) == 1 + LastOf(Places(t, {"blank"}))

LEMMA LastSentenceIs ==
  ASSUME NEW t \in Seq(AnyMark), t # <<>>
  PROVE  /\ LastSentence(t) \in 1 .. Len(t) + 1
         /\ \A m, n \in LastSentence(t) .. Len(t) : t[m].kind \in Sentences /\ t[n].kind \in Sentences => m = n
<1> DEFINE l == LastSentence(t)
           L == Len(t)
           E == Ends(t)
           AtMostOne == \A m, n \in l .. L : t[m].kind \in Sentences /\ t[n].kind \in Sentences => m = n
<1>1. L \in Nat /\ L > 0 /\ Last(t) = t[L]
  BY DEF Last
<1>2. E \subseteq 1 .. L /\ \A n \in 1 .. L : n \in E <=> t[n].kind \in Sentences
  BY PlacesIn DEF Ends
<1>3. l = CASE Last(t).kind \in Sentences /\ Cardinality(E) >= 2 -> From(t, Max(E \ {L}))
            [] Last(t).kind \in Sentences /\ Cardinality(E) < 2  -> LastBlock(t)
            [] OTHER -> IF E = {} THEN LastBlock(t) ELSE From(t, Max(E))
  BY DEF LastSentence, Ends, From, LastBlock
<1>4. IsFiniteSet(E) /\ Cardinality(E) \in Nat
  <2>1. E \subseteq E
    OBVIOUS
  <2> HIDE DEF E, L
  <2>2. QED
    BY <1>1, <1>2, SubsetSize
<1>5. LastBlock(t) \in 1 .. L + 1
  <2>1. Places(t, {"blank"}) \subseteq 1 .. L
    BY PlacesIn
  <2>2. LastOf(Places(t, {"blank"})) \in 0 .. L
    BY <1>1, <2>1, LastOfIs
  <2>3. QED
    BY <1>1, <2>2 DEF LastBlock
<1>6. \A n \in 1 .. L : From(t, n) \in n + 1 .. L + 1
  BY <1>1 DEF From
<1> HIDE DEF l, E, L
<1>7. CASE Last(t).kind \in Sentences /\ Cardinality(E) >= 2
  <2> DEFINE F == E \ {L}
             k == Max(F)
  <2>1. F # {}
    <3> SUFFICES ASSUME F = {} PROVE FALSE
      OBVIOUS
    <3>1. E \subseteq {L}
      OBVIOUS
    <3>2. IsFiniteSet({L}) /\ Cardinality({L}) = 1
      BY FS_Singleton
    <3>3. Cardinality(E) <= 1
      BY <3>1, <3>2, FS_Subset
    <3>4. QED
      BY <1>4, <1>7, <3>3
  <2>2. F \subseteq 0 .. L
    BY <1>1, <1>2
  <2>6. \A n \in F : n \in E /\ n # L
    OBVIOUS
  <2>7. \A n \in E : n # L => n \in F
    OBVIOUS
  <2>8. l = From(t, k)
    BY <1>3, <1>4, <1>7
  <2> HIDE DEF F
  <2>3. k \in F /\ \A n \in F : n <= k
    BY <1>1, <2>1, <2>2, MaxIs DEF IsGreatest
  <2> HIDE DEF k
  <2>4. k \in 1 .. L /\ l \in k + 1 .. L + 1
    BY <1>2, <1>6, <2>3, <2>6, <2>8
  <2>5. ASSUME NEW m \in l .. L, t[m].kind \in Sentences PROVE m = L
    <3>1. m \in 1 .. L /\ m > k
      BY <1>1, <2>4
    <3>2. m \in E
      BY <1>2, <2>5, <3>1
    <3>3. m \notin F
      BY <1>1, <2>3, <2>4, <3>1
    <3>4. QED
      BY <2>7, <3>2, <3>3
  <2>9. l \in 1 .. L + 1
    BY <1>1, <2>4
  <2>10. QED
    BY <2>5, <2>9 DEF l, L
<1>8. CASE Last(t).kind \in Sentences /\ Cardinality(E) < 2
  <2>1. l = LastBlock(t)
    BY <1>3, <1>8
  <2>2. ASSUME NEW m \in l .. L, NEW n \in l .. L, t[m].kind \in Sentences, t[n].kind \in Sentences, m # n PROVE FALSE
    <3>1. m \in 1 .. L /\ n \in 1 .. L
      BY <1>1, <1>5, <2>1
    <3>2. m \in E /\ n \in E
      BY <1>2, <2>2, <3>1
    <3> DEFINE M == {m}
               N == M \cup {n}
    <3>3. IsFiniteSet(M) /\ Cardinality(M) = 1 /\ n \notin M
      BY <2>2, FS_Singleton
    <3>4. N \subseteq E
      BY <3>2
    <3> HIDE DEF M
    <3>5. Cardinality(N) = Cardinality(M) + 1
      BY <3>3, FS_AddElement
    <3> HIDE DEF N
    <3>6. Cardinality(N) <= Cardinality(E)
      BY <1>4, <3>4, FS_Subset
    <3>7. QED
      BY <1>4, <1>8, <3>3, <3>5, <3>6
  <2>3. QED
    BY <1>5, <2>1, <2>2 DEF l, L
<1>9. CASE Last(t).kind \notin Sentences /\ E = {}
  <2>1. l = LastBlock(t)
    BY <1>3, <1>9
  <2>2. ASSUME NEW m \in l .. L, t[m].kind \in Sentences PROVE FALSE
    <3>1. m \in 1 .. L
      BY <1>1, <1>5, <2>1
    <3>2. QED
      BY <1>2, <1>9, <2>2, <3>1
  <2>3. QED
    BY <1>5, <2>1, <2>2 DEF l, L
<1>10. CASE Last(t).kind \notin Sentences /\ E # {}
  <2> DEFINE k == Max(E)
  <2>1. l = From(t, k)
    BY <1>3, <1>10
  <2>2. E \subseteq 0 .. L
    BY <1>2
  <2>3. k \in E /\ \A n \in E : n <= k
    BY <1>1, <1>10, <2>2, MaxIs DEF IsGreatest
  <2> HIDE DEF k
  <2>4. k \in 1 .. L /\ l \in k + 1 .. L + 1
    BY <1>2, <1>6, <2>1, <2>3
  <2>5. ASSUME NEW m \in l .. L, t[m].kind \in Sentences PROVE FALSE
    <3>1. m \in 1 .. L /\ m > k
      BY <1>1, <2>4
    <3>2. m \in E
      BY <1>2, <2>5, <3>1
    <3>3. QED
      BY <1>1, <2>3, <2>4, <3>1, <3>2
  <2>6. l \in 1 .. L + 1
    BY <1>1, <2>4
  <2>7. QED
    BY <2>5, <2>6 DEF l, L
<1>11. QED
  <2>1. Cardinality(E) >= 2 \/ Cardinality(E) < 2
    BY <1>4
  <2>2. QED
    BY <1>7, <1>8, <1>9, <1>10, <2>1

LEMMA TailReplacedIs ==
  ASSUME NEW t \in Seq(AnyMark), t # <<>>
  PROVE  LET r == TailReplaced(t) IN
         /\ r \in Seq(AnyMark) /\ Places(r, {"closing"}) # {}
         /\ IsPrefix(Words(r), Words(t)) /\ CountOf(t, "full") - CountOf(r, "full") <= 1
<1> DEFINE k == LastSentence(t) - 1
           s == SubSeq(t, 1, k)
           e == SubSeq(t, k + 1, Len(t))
           r == Append(s, Closing)
           F == [kind : {"full"}, title : Nat]
<1>1. k \in 0 .. Len(t) /\ k + 1 = LastSentence(t)
      /\ \A m, n \in k + 1 .. Len(t) : t[m].kind \in Sentences /\ t[n].kind \in Sentences => m = n
  BY LastSentenceIs
<1>2. TailReplaced(t) = r
  BY DEF TailReplaced, Beginning
<1> HIDE DEF k
<1>3. s \in Seq(AnyMark) /\ e \in Seq(AnyMark) /\ t = s \o e
  BY <1>1, TextCut
<1>4. Len(e) = Len(t) - k /\ \A n \in 1 .. Len(t) - k : e[n] = t[k + n]
  BY <1>1
<1>5. Closing \in AnyMark /\ Closing.kind = "closing"
  BY OwnSentences
<1> HIDE DEF s, e
<1>6. r \in Seq(AnyMark) /\ Places(r, {"closing"}) # {}
  <2>1. r \in Seq(AnyMark) /\ Places(r, {"closing"}) = Places(s, {"closing"}) \cup {Len(s) + 1}
    BY <1>3, <1>5, PlacesAppend
  <2>2. QED
    BY <2>1
<1>7. \A T : Closing \notin T => Where(r, T) = Where(s, T)
  BY <1>3, <1>5, WhereAppend
<1> HIDE DEF r
<1>8. \A T : Where(t, T) = Where(s, T) \o Where(e, T) /\ Len(Where(t, T)) = Len(Where(s, T)) + Len(Where(e, T))
  <2>1. \A T : Where(s \o e, T) = Where(s, T) \o Where(e, T) /\ Len(Where(s \o e, T)) = Len(Where(s, T)) + Len(Where(e, T))
    <3>1. s \in Seq(AnyMark) /\ e \in Seq(AnyMark)
      BY <1>3
    <3>2. QED
      BY <3>1, WhereConcat
  <2>2. QED
    BY <1>3, <2>1
<1>9. Closing \notin WordMarks /\ Closing \notin F
  BY <1>5 DEF WordMarks
<1>10. IsPrefix(Words(r), Words(t))
  <2>1. Where(s, WordMarks) \in Seq(AnyMark) /\ Where(e, WordMarks) \in Seq(AnyMark)
    BY <1>3, WhereType
  <2>2. IsPrefix(Where(s, WordMarks), Where(s, WordMarks) \o Where(e, WordMarks))
    BY <2>1, PrefixOfConcat
  <2>3. Words(r) = Where(s, WordMarks) /\ Words(t) = Where(s, WordMarks) \o Where(e, WordMarks)
    <3>1. Where(r, WordMarks) = Where(s, WordMarks) /\ Where(t, WordMarks) = Where(s, WordMarks) \o Where(e, WordMarks)
      BY <1>7, <1>8, <1>9
    <3>2. QED
      BY <3>1 DEF Words, Those, WordMarks
  <2>4. QED
    BY <2>2, <2>3
<1> HIDE DEF F
<1>11. Len(Where(e, F)) <= 1
  <2>1. ASSUME NEW m \in 1 .. Len(e), NEW n \in 1 .. Len(e), e[m] \in F, e[n] \in F PROVE m = n
    <3>1. e[m].kind \in Sentences /\ e[n].kind \in Sentences
      BY <2>1 DEF F, Sentences
    <3>2. k + m \in k + 1 .. Len(t) /\ k + n \in k + 1 .. Len(t) /\ e[m] = t[k + m] /\ e[n] = t[k + n]
      BY <1>1, <1>4
    <3>3. k + m = k + n
      BY <1>1, <3>1, <3>2
    <3>4. QED
      BY <1>1, <3>3
  <2>2. e \in Seq(AnyMark)
    BY <1>3
  <2>3. QED
    BY <2>1, <2>2, WhereAtMostOne
<1>12. CountOf(t, "full") - CountOf(r, "full") <= 1
  <2>1. Len(Where(s, F)) \in Nat /\ Len(Where(e, F)) \in Nat
    BY <1>3, WhereType
  <2>2. Len(Where(t, F)) = Len(Where(s, F)) + Len(Where(e, F)) /\ Where(r, F) = Where(s, F)
    BY <1>7, <1>8, <1>9
  <2>3. Len(Where(t, F)) - Len(Where(r, F)) <= 1
    BY <1>11, <2>1, <2>2
  <2>4. QED
    BY <2>3 DEF CountOf, Those, F
<1>13. QED
  BY <1>2, <1>6, <1>10, <1>12

-----------------------------------------------------------------------------
(* The text of a document: what holds of it while it comes about.           *)

\* d is the first k chapters, joined
IsJoined(d, chs, k) ==
  /\ Headings2(d) = [n \in 1 .. k |-> H2(n)]
  /\ Words(d) = Words(Joined(Beginning(chs, k)))
  /\ (\A n \in 1 .. k : ~Unclosed(chs[n])) => ~Unclosed(d)

\* d is all chapters, or these with a new last sentence
IsPolished(d, chs) ==
  \/ /\ Places(d, {"closing"}) # {} /\ IsPrefix(Words(d), Words(Joined(chs)))
     /\ CountOf(Words(Joined(chs)), "full") - CountOf(Words(d), "full") <= 1
  \/ /\ Headings2(d) = Outline /\ Words(d) = Words(Joined(chs))
     /\ (\A n \in 1 .. Len(chs) : ~Unclosed(chs[n])) => ~Unclosed(d)

IsWritten(chs, answers) ==
  \A n \in 1 .. Len(chs) : chs[n] # <<>> /\ ChapterIsKept(answers[n], n, chs[n])

TextTypes ==
  /\ stage \in {"draft", "join", "check", "published", "raised"}
  /\ given \in Seq(Answers) /\ Len(given) <= SectionCount
  /\ chapters \in Seq(Seq(AnyMark)) /\ Len(chapters) <= Len(given)
  /\ stage = "draft" => Len(given) = Len(chapters)
  /\ stage \in {"join", "check", "published"} => Len(chapters) = SectionCount
  /\ combined \in Seq(AnyMark)
  /\ reviewing \in BOOLEAN /\ reviewsLeft \in Nat

TextInv ==
  /\ TextTypes /\ IsWritten(chapters, given)
  /\ stage = "join" =>
       \E k \in 1 .. SectionCount :
         IsJoined(combined, chapters, k) /\ (reviewing => reviewsLeft >= SectionCount - k + 1)
  /\ stage \in {"check", "published"} => IsPolished(combined, chapters)
  /\ stage = "published" => IntegrityHolds
  /\ stage # "raised" => failed = "no"
  /\ failed = "final integrity invalid" =>
       Places(combined, {"closing"}) # {} \/ \E n \in 1 .. Len(chapters) : Unclosed(chapters[n])

\* one more chapter, with or without a bridge
LEMMA JoinStep ==
  ASSUME NEW chs \in Seq(Seq(AnyMark)), NEW answers, IsWritten(chs, answers),
         NEW d \in Seq(AnyMark), NEW k \in 1 .. Len(chs) - 1, IsJoined(d, chs, k),
         NEW t \in {chs[k + 1], WithBridge(chs[k + 1])}
  PROVE  d \o <<Blank>> \o t \in Seq(AnyMark) /\ IsJoined(d \o <<Blank>> \o t, chs, k + 1)
<1> DEFINE c == chs[k + 1]
           j == Joined(Beginning(chs, k))
           u == d \o <<Blank>> \o t
<1>1. /\ k + 1 \in 1 .. Len(chs) /\ k \in 0 .. Len(chs) - 1 /\ k \in Nat
      /\ k - 1 \in 0 .. Len(chs) - 1 /\ (k - 1) + 1 = k
  OBVIOUS
<1>2. \A n \in 1 .. Len(chs) : chs[n] # <<>>
  BY DEF IsWritten
<1>3. c # <<>> /\ Headings2(c) = <<H2(k + 1)>> /\ Head(c) = H2(k + 1)
  BY <1>1 DEF IsWritten, ChapterIsKept
<1>4. j \in Seq(AnyMark) /\ c \in Seq(AnyMark) /\ (j # <<>> => Joined(Beginning(chs, k + 1)) = j \o <<Blank>> \o c)
  BY <1>1, <1>2, JoinedNext
<1>5. j # <<>>
  BY <1>1, <1>2, JoinedNext
<1> HIDE DEF c, j
<1>6. /\ t \in Seq(AnyMark) /\ Words(t) = Words(c) /\ Headings2(t) = <<H2(k + 1)>>
      /\ Unclosed(t) <=> Unclosed(c)
  <2>1. CASE t = c
    BY <1>3, <1>4, <2>1
  <2>2. CASE t = WithBridge(c)
    <3>1. Head(c).kind = "h2"
      BY <1>3 DEF H2, Mark
    <3> DEFINE w == WithBridge(c)
    <3>2. /\ w \in Seq(AnyMark) /\ Words(w) = Words(c)
          /\ Headings2(w) = Headings2(c) /\ (Unclosed(w) <=> Unclosed(c))
      BY <1>3, <1>4, <3>1, BridgedIs
    <3>3. t = w
      BY <2>2
    <3> HIDE DEF w
    <3>4. w \in Seq(AnyMark) /\ Words(w) = Words(c)
      BY <3>2
    <3>5. Headings2(w) = <<H2(k + 1)>>
      BY <1>3, <3>2
    <3>6. Unclosed(w) <=> Unclosed(c)
      BY <3>2
    <3>7. QED
      BY <3>3, <3>4, <3>5, <3>6
  <2>3. QED
    BY <2>1, <2>2 DEF c
<1>7. /\ u \in Seq(AnyMark) /\ Words(u) = Words(d) \o Words(t) /\ Headings2(u) = Headings2(d) \o Headings2(t)
      /\ ~Unclosed(d) /\ ~Unclosed(t) => ~Unclosed(u)
  BY <1>6, TextAfterText
<1>8. Words(j \o <<Blank>> \o c) = Words(j) \o Words(c)
  BY <1>4, TextAfterText
<1> HIDE DEF u
<1>9. Words(d) = Words(j)
  BY DEF IsJoined, j
<1>10. Words(u) = Words(Joined(Beginning(chs, k + 1)))
  BY <1>4, <1>5, <1>6, <1>7, <1>8, <1>9
<1>11. Headings2(u) = [n \in 1 .. k + 1 |-> H2(n)]
  <2>1. Headings2(u) = [n \in 1 .. k |-> H2(n)] \o <<H2(k + 1)>>
    BY <1>6, <1>7 DEF IsJoined
  <2>2. \A n \in Nat : H2(n) \in AnyMark
    BY MarkIn
  <2> DEFINE a == [n \in 1 .. k |-> H2(n)]
             b == a \o <<H2(k + 1)>>
             e == [n \in 1 .. k + 1 |-> H2(n)]
  <2>3. a \in Seq(AnyMark) /\ Len(a) = k /\ \A n \in 1 .. k : a[n] = H2(n)
    BY <1>1, <2>2
  <2>4. e \in Seq(AnyMark) /\ Len(e) = k + 1 /\ \A n \in 1 .. k + 1 : e[n] = H2(n)
    BY <1>1, <2>2
  <2> HIDE DEF a, e
  <2>5. b \in Seq(AnyMark) /\ Len(b) = k + 1 /\ b[k + 1] = H2(k + 1) /\ \A n \in 1 .. k : b[n] = a[n]
    <3>1. H2(k + 1) \in AnyMark
      BY <1>1, <2>2
    <3>2. QED
      BY <1>1, <2>3, <3>1
  <2> HIDE DEF b
  <2>6. \A n \in 1 .. k + 1 : b[n] = e[n]
    <3>1. \A n \in 1 .. k + 1 : n \in 1 .. k \/ n = k + 1
      BY <1>1
    <3>2. QED
      BY <2>3, <2>4, <2>5, <3>1
  <2>7. b = e
    BY <2>4, <2>5, <2>6, SeqEqual
  <2>8. QED
    BY <2>1, <2>7 DEF a, b, e
<1>12. ASSUME \A n \in 1 .. k + 1 : ~Unclosed(chs[n]) PROVE ~Unclosed(u)
  <2>1. ~Unclosed(d)
    <3>1. \A n \in 1 .. k : n \in 1 .. k + 1
      BY <1>1
    <3>2. QED
      BY <1>12, <3>1 DEF IsJoined
  <2>2. ~Unclosed(c)
    <3>1. k + 1 \in 1 .. k + 1
      BY <1>1
    <3>2. QED
      BY <1>12, <3>1 DEF c
  <2>3. QED
    BY <1>6, <1>7, <2>1, <2>2
<1>13. IsJoined(u, chs, k + 1)
  BY <1>10, <1>11, <1>12 DEF IsJoined
<1>14. QED
  BY <1>7, <1>13 DEF u

\* the words of a text have its full sentences
LEMMA FullOfWords ==
  ASSUME NEW t \in Seq(AnyMark)
  PROVE  CountOf(Words(t), "full") = CountOf(t, "full")
<1> DEFINE F == [kind : {"full"}, title : Nat]
<1>1. F \subseteq WordMarks
  BY DEF WordMarks
<1> HIDE DEF F
<1>2. Where(Where(t, WordMarks), F) = Where(t, F)
  BY <1>1, WhereWithin
<1>3. QED
  BY <1>2 DEF CountOf, Those, Words, WordMarks, F

\* a document that has all chapters, and that with a new last sentence
LEMMA PolishStep ==
  ASSUME NEW chs \in Seq(Seq(AnyMark)), Len(chs) = SectionCount, SectionCount > 0, NEW answers, IsWritten(chs, answers),
         NEW d \in Seq(AnyMark), IsJoined(d, chs, SectionCount)
  PROVE  /\ IsPolished(d, chs)
         /\ TailReplaced(d) \in Seq(AnyMark) /\ IsPolished(TailReplaced(d), chs)
<1>1. SectionCount \in Nat /\ Len(chs) \in Nat
  OBVIOUS
<1>2. Beginning(chs, SectionCount) = chs
  BY SubSeqFull DEF Beginning
<1>3. /\ Headings2(d) = Outline /\ Words(d) = Words(Joined(chs))
      /\ (\A n \in 1 .. Len(chs) : ~Unclosed(chs[n])) => ~Unclosed(d)
  BY <1>2 DEF IsJoined, Outline
<1>4. d # <<>>
  <2> SUFFICES ASSUME d = <<>> PROVE FALSE
    OBVIOUS
  <2>1. Headings2(d) = <<>>
    BY WhereOfNothing DEF Headings2, Those
  <2>2. Len(Headings2(d)) = SectionCount
    BY <1>1, <1>3 DEF Outline
  <2>3. QED
    BY <2>1, <2>2
<1> DEFINE r == TailReplaced(d)
<1>5. /\ r \in Seq(AnyMark) /\ Places(r, {"closing"}) # {}
      /\ IsPrefix(Words(r), Words(d)) /\ CountOf(d, "full") - CountOf(r, "full") <= 1
  BY <1>4, TailReplacedIs
<1> HIDE DEF r
<1>6. CountOf(Words(d), "full") = CountOf(d, "full") /\ CountOf(Words(r), "full") = CountOf(r, "full")
  BY <1>5, FullOfWords
<1>7. CountOf(Words(Joined(chs)), "full") - CountOf(Words(r), "full") <= 1
  BY <1>3, <1>5, <1>6
<1>8. IsPolished(r, chs)
  BY <1>3, <1>5, <1>7 DEF IsPolished
<1>9. QED
  BY <1>3, <1>5, <1>8 DEF IsPolished, r

LEMMA TextStarts == AssemblyInit => TextInv
<1> SUFFICES ASSUME AssemblyInit PROVE TextInv
  OBVIOUS
<1>1. /\ stage = "draft" /\ given = <<>> /\ chapters = <<>> /\ combined = <<>> /\ failed = "no"
      /\ reviewing \in BOOLEAN /\ reviewsLeft \in 0 .. SectionCount + 1
  BY DEF AssemblyInit
<1>2. SectionCount \in Nat
  BY AssemblyAssumption
<1>3. /\ <<>> \in Seq(Answers) /\ <<>> \in Seq(Seq(AnyMark)) /\ <<>> \in Seq(AnyMark) /\ Len(<<>>) = 0
      /\ reviewsLeft \in Nat /\ 0 <= SectionCount
  BY <1>1, <1>2
<1>4. TextTypes
  BY <1>1, <1>3 DEF TextTypes
<1>5. IsWritten(chapters, given)
  BY <1>1, <1>3 DEF IsWritten
<1>6. QED
  BY <1>1, <1>4, <1>5 DEF TextInv

LEMMA DraftKeepsText == ASSUME TextInv, DraftChapter PROVE TextInv'
<1> DEFINE title == Len(chapters) + 1
<1>1. PICK answer \in Answers :
        /\ given' = Append(given, answer)
        /\ \/ Refuse("empty part") /\ UNCHANGED chapters
           \/ /\ Units(PartWritten(answer, title)) > 0
              /\ chapters' = Append(chapters, ChapterOf(answer, title))
              /\ UNCHANGED <<stage, failed>>
  BY DEF DraftChapter, ChapterOf, PartWritten, Asked
<1>2. /\ stage = "draft" /\ Len(chapters) < SectionCount
      /\ combined' = combined /\ reviewing' = reviewing /\ reviewsLeft' = reviewsLeft
  BY DEF DraftChapter
<1>3. /\ given \in Seq(Answers) /\ chapters \in Seq(Seq(AnyMark)) /\ Len(given) = Len(chapters)
      /\ combined \in Seq(AnyMark) /\ reviewing \in BOOLEAN /\ reviewsLeft \in Nat
      /\ IsWritten(chapters, given) /\ failed = "no"
  BY <1>2 DEF TextInv, TextTypes
<1>4. SectionCount \in Nat /\ answer \in Seq(Marks)
  BY AssemblyAssumption
<1>5. Len(chapters) \in Nat /\ title \in Nat
  BY <1>3
<1>6. /\ given' \in Seq(Answers) /\ Len(given') = title
      /\ given'[title] = answer /\ \A n \in 1 .. Len(chapters) : given'[n] = given[n]
  <2> DEFINE g == Append(given, answer)
  <2>1. g \in Seq(Answers) /\ Len(g) = title /\ g[title] = answer /\ \A n \in 1 .. Len(chapters) : g[n] = given[n]
    BY <1>3
  <2> HIDE DEF g
  <2>2. given' = g
    BY <1>1 DEF g
  <2>3. QED
    BY <2>1, <2>2
<1> DEFINE c == ChapterOf(answer, title)
           more == Units(PartWritten(answer, title)) > 0
<1>7. more => ChapterIsKept(answer, title, c) /\ c \in Seq(AnyMark) /\ c # <<>>
  <2> SUFFICES ASSUME more PROVE ChapterIsKept(answer, title, c) /\ c \in Seq(AnyMark) /\ c # <<>>
    OBVIOUS
  <2> HIDE DEF title
  <2>1. ChapterIsKept(answer, title, c) /\ c \in Seq(AnyMark) /\ Len(c) > 0
    BY <1>4, <1>5, WrittenChapterIsKept
  <2>2. QED
    BY <2>1
<1>8. \/ stage' = "raised" /\ failed' = "empty part" /\ chapters' = chapters
      \/ more /\ chapters' = Append(chapters, c) /\ stage' = "draft" /\ failed' = "no"
  BY <1>1, <1>2, <1>3 DEF Refuse
<1> HIDE DEF c, more
<1>9. CASE stage' = "raised" /\ failed' = "empty part" /\ chapters' = chapters
  <2>1. Len(given') <= SectionCount /\ Len(chapters') <= Len(given')
    <3>1. Len(chapters') = Len(chapters)
      BY <1>9
    <3>2. Len(given') = Len(chapters) + 1
      BY <1>6
    <3>3. Len(chapters) + 1 <= SectionCount /\ Len(chapters) <= Len(chapters) + 1
      BY <1>2, <1>4, <1>5
    <3>4. QED
      BY <3>1, <3>2, <3>3
  <2>2. TextTypes'
    BY <1>2, <1>3, <1>6, <1>9, <2>1 DEF TextTypes
  <2>3. IsWritten(chapters, given')
    BY <1>3, <1>6 DEF IsWritten
  <2>4. IsWritten(chapters, given)'
    BY <1>9, <2>3
  <2>5. QED
    BY <1>9, <2>2, <2>4 DEF TextInv
<1>10. CASE more /\ chapters' = Append(chapters, c) /\ stage' = "draft" /\ failed' = "no"
  <2> DEFINE cs == Append(chapters, c)
  <2>1. /\ cs \in Seq(Seq(AnyMark)) /\ Len(cs) = title /\ cs[title] = c
        /\ \A n \in 1 .. Len(chapters) : cs[n] = chapters[n]
    BY <1>3, <1>7, <1>10
  <2> HIDE DEF cs
  <2>2. chapters' = cs
    BY <1>10 DEF cs
  <2>3. Len(given') <= SectionCount /\ Len(chapters') <= Len(given') /\ Len(given') = Len(chapters')
    BY <1>2, <1>4, <1>5, <1>6, <2>1, <2>2
  <2>4. TextTypes'
    BY <1>2, <1>3, <1>6, <1>10, <2>1, <2>2, <2>3 DEF TextTypes
  <2>5. ASSUME NEW n \in 1 .. Len(cs) PROVE cs[n] # <<>> /\ ChapterIsKept(given'[n], n, cs[n])
    <3>1. CASE n = title
      BY <1>6, <1>7, <1>10, <2>1, <3>1
    <3>2. CASE n \in 1 .. Len(chapters)
      BY <1>3, <1>6, <2>1, <3>2 DEF IsWritten
    <3>3. n = title \/ n \in 1 .. Len(chapters)
      BY <1>5, <2>1
    <3>4. QED
      BY <3>1, <3>2, <3>3
  <2>6. IsWritten(cs, given')
    BY <2>5 DEF IsWritten
  <2>7. IsWritten(chapters, given)'
    BY <2>2, <2>6
  <2>8. QED
    BY <1>10, <2>4, <2>7 DEF TextInv
<1>11. QED
  BY <1>8, <1>9, <1>10

LEMMA BeginKeepsText == ASSUME TextInv, BeginAssembly PROVE TextInv'
<1>1. /\ stage = "draft" /\ Len(chapters) = SectionCount
      /\ reviewing' = (reviewing /\ reviewsLeft >= SectionCount)
      /\ combined' = chapters[1] /\ stage' = "join"
      /\ given' = given /\ chapters' = chapters /\ reviewsLeft' = reviewsLeft /\ failed' = failed
  BY DEF BeginAssembly, Reviews
<1>2. /\ TextTypes /\ IsWritten(chapters, given) /\ chapters \in Seq(Seq(AnyMark)) /\ failed = "no"
      /\ reviewsLeft \in Nat
  BY <1>1 DEF TextInv, TextTypes
<1>3. SectionCount \in Nat \ {0}
  BY AssemblyAssumption
<1>4. 0 \in 0 .. Len(chapters) - 1 /\ 1 \in 1 .. Len(chapters) /\ 1 \in 1 .. SectionCount /\ 0 + 1 = 1
  BY <1>1, <1>3
<1>5. \A n \in 1 .. Len(chapters) : chapters[n] # <<>>
  BY <1>2 DEF IsWritten
<1>6. Joined(Beginning(chapters, 1)) = chapters[1] /\ chapters[1] \in Seq(AnyMark)
  BY <1>2, <1>4, <1>5, JoinedNext
<1>7. Headings2(chapters[1]) = [n \in 1 .. 1 |-> H2(n)]
  <2>1. Headings2(chapters[1]) = <<H2(1)>>
    BY <1>2, <1>4 DEF IsWritten, ChapterIsKept
  <2>2. <<H2(1)>> = [n \in 1 .. 1 |-> H2(n)]
    OBVIOUS
  <2>3. QED
    BY <2>1, <2>2
<1>8. IsJoined(chapters[1], chapters, 1)
  <2>1. 1 \in 1 .. 1
    OBVIOUS
  <2>2. QED
    BY <1>6, <1>7, <2>1 DEF IsJoined
<1>9. TextTypes'
  <2>1. (reviewing /\ reviewsLeft >= SectionCount) \in BOOLEAN
    OBVIOUS
  <2>2. QED
    BY <1>1, <1>2, <1>6, <2>1 DEF TextTypes
<1>10. IsJoined(combined', chapters', 1) /\ (reviewing' => reviewsLeft' >= SectionCount - 1 + 1)
  <2>1. SectionCount - 1 + 1 = SectionCount
    BY <1>3
  <2>2. QED
    BY <1>1, <1>8, <2>1
<1>11. (\E k \in 1 .. SectionCount :
          IsJoined(combined, chapters, k) /\ (reviewing => reviewsLeft >= SectionCount - k + 1))'
  BY <1>4, <1>10
<1>12. IsWritten(chapters, given)'
  BY <1>1, <1>2
<1>13. QED
  BY <1>1, <1>2, <1>9, <1>11, <1>12 DEF TextInv

\* in the middle of joining
LEMMA WhileJoining ==
  ASSUME TextInv, stage = "join"
  PROVE  \E k \in 1 .. SectionCount :
           /\ IsJoined(combined, chapters, k) /\ (reviewing => reviewsLeft >= SectionCount - k + 1)
           /\ Upcoming = k + 1
<1>1. PICK k \in 1 .. SectionCount :
        IsJoined(combined, chapters, k) /\ (reviewing => reviewsLeft >= SectionCount - k + 1)
  BY DEF TextInv
<1>2. SectionCount \in Nat
  BY AssemblyAssumption
<1>3. Len(Headings2(combined)) = k
  <2>1. Headings2(combined) = [n \in 1 .. k |-> H2(n)]
    BY <1>1 DEF IsJoined
  <2>2. k \in Nat
    BY <1>2
  <2>3. QED
    BY <2>1, <2>2
<1>4. QED
  BY <1>1, <1>3 DEF Upcoming

LEMMA JoinKeepsText ==
  ASSUME TextInv, stage = "join", Upcoming <= SectionCount, NEW t \in {chapters[Upcoming], WithBridge(chapters[Upcoming])},
         JoinNext(t), UNCHANGED <<stage, failed, given, chapters, reviewing>>,
         reviewsLeft' = reviewsLeft \/ (reviewing /\ reviewsLeft' = reviewsLeft - 1)
  PROVE  TextInv'
<1>1. PICK k \in 1 .. SectionCount :
        /\ IsJoined(combined, chapters, k) /\ (reviewing => reviewsLeft >= SectionCount - k + 1)
        /\ Upcoming = k + 1
  BY WhileJoining
<1>2. /\ TextTypes /\ IsWritten(chapters, given) /\ chapters \in Seq(Seq(AnyMark)) /\ Len(chapters) = SectionCount
      /\ combined \in Seq(AnyMark) /\ failed = "no" /\ reviewsLeft \in Nat
  BY DEF TextInv, TextTypes
<1>3. SectionCount \in Nat
  BY AssemblyAssumption
<1>4. k \in 1 .. Len(chapters) - 1 /\ k + 1 \in 1 .. SectionCount /\ k \in Nat
  BY <1>1, <1>2, <1>3
<1>5. t \in {chapters[k + 1], WithBridge(chapters[k + 1])}
  BY <1>1
<1>6. combined \o <<Blank>> \o t \in Seq(AnyMark) /\ IsJoined(combined \o <<Blank>> \o t, chapters, k + 1)
  BY <1>1, <1>2, <1>4, <1>5, JoinStep
<1>7. combined' = combined \o <<Blank>> \o t
  BY DEF JoinNext
<1>8. combined' \in Seq(AnyMark) /\ IsJoined(combined', chapters', k + 1)
  BY <1>6, <1>7
<1>9. reviewsLeft' \in Nat /\ (reviewing' => reviewsLeft' >= SectionCount - (k + 1) + 1)
  <2>1. reviewsLeft' = reviewsLeft \/ (reviewing /\ reviewsLeft' = reviewsLeft - 1)
    OBVIOUS
  <2>2. reviewing => reviewsLeft >= SectionCount - k + 1
    BY <1>1
  <2>3. k + 1 <= SectionCount
    BY <1>4
  <2>4. reviewing' = reviewing
    OBVIOUS
  <2>5. CASE reviewsLeft' = reviewsLeft
    BY <1>2, <1>3, <1>4, <2>2, <2>4, <2>5
  <2>6. CASE reviewing /\ reviewsLeft' = reviewsLeft - 1
    BY <1>2, <1>3, <1>4, <2>2, <2>3, <2>4, <2>6
  <2>7. QED
    BY <2>1, <2>5, <2>6
<1>10. TextTypes'
  BY <1>2, <1>8, <1>9 DEF TextTypes
<1>11. (\E i \in 1 .. SectionCount :
          IsJoined(combined, chapters, i) /\ (reviewing => reviewsLeft >= SectionCount - i + 1))'
  BY <1>4, <1>8, <1>9
<1>12. IsWritten(chapters, given)'
  BY <1>2
<1>13. QED
  BY <1>2, <1>10, <1>11, <1>12 DEF TextInv

LEMMA PolishKeepsText ==
  ASSUME TextInv, stage = "join", Upcoming > SectionCount, combined' \in {combined, TailReplaced(combined)},
         stage' = "check", UNCHANGED <<failed, given, chapters, reviewing>>, reviewsLeft' \in Nat
  PROVE  TextInv'
<1>1. PICK k \in 1 .. SectionCount :
        /\ IsJoined(combined, chapters, k) /\ (reviewing => reviewsLeft >= SectionCount - k + 1)
        /\ Upcoming = k + 1
  BY WhileJoining
<1>2. /\ TextTypes /\ IsWritten(chapters, given) /\ chapters \in Seq(Seq(AnyMark)) /\ Len(chapters) = SectionCount
      /\ combined \in Seq(AnyMark) /\ failed = "no"
  BY DEF TextInv, TextTypes
<1>3. SectionCount \in Nat /\ SectionCount > 0
  BY AssemblyAssumption
<1>4. k = SectionCount
  BY <1>1, <1>3
<1>5. IsJoined(combined, chapters, SectionCount)
  BY <1>1, <1>4
<1>6. /\ IsPolished(combined, chapters)
      /\ TailReplaced(combined) \in Seq(AnyMark) /\ IsPolished(TailReplaced(combined), chapters)
  BY <1>2, <1>3, <1>5, PolishStep
<1>7. combined' \in Seq(AnyMark) /\ IsPolished(combined', chapters')
  BY <1>2, <1>6
<1>8. TextTypes'
  BY <1>2, <1>7 DEF TextTypes
<1>9. IsWritten(chapters, given)'
  BY <1>2
<1>10. QED
  BY <1>2, <1>7, <1>8, <1>9 DEF TextInv

LEMMA RefusalKeepsText ==
  ASSUME TextInv, NEW why, why # "final integrity invalid", Refuse(why),
         UNCHANGED <<given, chapters, combined, reviewing>>, reviewsLeft' \in Nat
  PROVE  TextInv'
<1>1. TextTypes /\ IsWritten(chapters, given)
  BY DEF TextInv
<1>2. stage' = "raised" /\ failed' = why
  BY DEF Refuse
<1>3. TextTypes'
  BY <1>1, <1>2 DEF TextTypes
<1>4. IsWritten(chapters, given)'
  BY <1>1
<1>5. QED
  BY <1>2, <1>3, <1>4 DEF TextInv

LEMMA SeamKeepsText == ASSUME TextInv, ReviewSeam PROVE TextInv'
<1>1. /\ stage = "join" /\ reviewing /\ Upcoming <= SectionCount /\ reviewsLeft' = reviewsLeft - 1
      /\ UNCHANGED <<given, chapters, reviewing>>
  BY DEF ReviewSeam, Reserve
<1>2. \/ \E t \in {chapters[Upcoming], WithBridge(chapters[Upcoming])} : JoinNext(t) /\ UNCHANGED <<stage, failed>>
      \/ Refuse("seam review invalid") /\ UNCHANGED combined
  BY DEF ReviewSeam
<1>3. CASE \E t \in {chapters[Upcoming], WithBridge(chapters[Upcoming])} : JoinNext(t) /\ UNCHANGED <<stage, failed>>
  BY <1>1, <1>3, JoinKeepsText
<1>4. CASE Refuse("seam review invalid") /\ UNCHANGED combined
  <2>1. PICK k \in 1 .. SectionCount : reviewsLeft >= SectionCount - k + 1
    BY <1>1, WhileJoining
  <2>2. reviewsLeft' \in Nat
    BY <1>1, <2>1, AssemblyAssumption DEF TextInv, TextTypes
  <2>3. QED
    BY <1>1, <1>4, <2>2, RefusalKeepsText
<1>5. QED
  BY <1>2, <1>3, <1>4

LEMMA TailKeepsText == ASSUME TextInv, ReviewTail PROVE TextInv'
<1>1. /\ stage = "join" /\ reviewing /\ Upcoming > SectionCount /\ reviewsLeft' = reviewsLeft - 1
      /\ UNCHANGED <<given, chapters, reviewing>>
  BY DEF ReviewTail, Reserve
<1>2. \/ stage' = "check" /\ combined' \in {combined, TailReplaced(combined)} /\ UNCHANGED failed
      \/ Refuse("tail review invalid") /\ UNCHANGED combined
  BY DEF ReviewTail
<1>3. PICK k \in 1 .. SectionCount : reviewsLeft >= SectionCount - k + 1
  BY <1>1, WhileJoining
<1>4. reviewsLeft' \in Nat
  BY <1>1, <1>3, AssemblyAssumption DEF TextInv, TextTypes
<1>5. CASE stage' = "check" /\ combined' \in {combined, TailReplaced(combined)} /\ UNCHANGED failed
  BY <1>1, <1>4, <1>5, PolishKeepsText
<1>6. CASE Refuse("tail review invalid") /\ UNCHANGED combined
  BY <1>1, <1>4, <1>6, RefusalKeepsText
<1>7. QED
  BY <1>2, <1>5, <1>6

LEMMA PublishKeepsText == ASSUME TextInv, PublishDocument PROVE TextInv'
<1>1. /\ stage = "check" /\ UNCHANGED <<given, chapters, combined, reviewing, reviewsLeft>>
      /\ \/ IntegrityHolds /\ stage' = "published" /\ UNCHANGED failed
         \/ ~IntegrityHolds /\ stage' = "raised" /\ failed' = "final integrity invalid"
  BY DEF PublishDocument, Refuse
<1>2. TextTypes /\ IsWritten(chapters, given) /\ IsPolished(combined, chapters) /\ failed = "no"
  BY <1>1 DEF TextInv
<1>3. TextTypes'
  BY <1>1, <1>2 DEF TextTypes
<1>4. IsWritten(chapters, given)' /\ IsPolished(combined, chapters)'
  BY <1>1, <1>2
<1>5. CASE IntegrityHolds /\ stage' = "published" /\ UNCHANGED failed
  <2>1. IntegrityHolds'
    BY <1>1, <1>5 DEF IntegrityHolds
  <2>2. QED
    BY <1>2, <1>3, <1>4, <1>5, <2>1 DEF TextInv
<1>6. CASE ~IntegrityHolds /\ stage' = "raised" /\ failed' = "final integrity invalid"
  <2>1. Places(combined, {"closing"}) # {} \/ \E n \in 1 .. Len(chapters) : Unclosed(chapters[n])
    BY <1>2, <1>6 DEF IsPolished, IntegrityHolds, OutlineHolds
  <2>2. (Places(combined, {"closing"}) # {} \/ \E n \in 1 .. Len(chapters) : Unclosed(chapters[n]))'
    BY <1>1, <2>1
  <2>3. QED
    BY <1>3, <1>4, <1>6, <2>2 DEF TextInv
<1>7. QED
  BY <1>1, <1>5, <1>6

LEMMA UnreviewedKeepsText == ASSUME TextInv, JoinUnreviewed PROVE TextInv'
<1>1. /\ stage = "join" /\ Upcoming <= SectionCount /\ JoinNext(chapters[Upcoming])
      /\ stage' = stage /\ failed' = failed /\ given' = given /\ chapters' = chapters
      /\ reviewing' = reviewing /\ reviewsLeft' = reviewsLeft
  BY DEF JoinUnreviewed
<1>2. \E t \in {chapters[Upcoming], WithBridge(chapters[Upcoming])} : JoinNext(t)
  BY <1>1
<1>3. reviewsLeft' = reviewsLeft \/ (reviewing /\ reviewsLeft' = reviewsLeft - 1)
  BY <1>1
<1>4. QED
  BY <1>1, <1>2, <1>3, JoinKeepsText

LEMMA TextStep == TextInv /\ [AssemblyNext]_textVars => TextInv'
<1> SUFFICES ASSUME TextInv, [AssemblyNext]_textVars PROVE TextInv'
  OBVIOUS
<1>1. CASE JoinUnreviewed
  BY <1>1, UnreviewedKeepsText
<1>2. CASE SkipTail
  <2>1. /\ stage = "join" /\ Upcoming > SectionCount /\ stage' = "check" /\ combined' = combined
        /\ UNCHANGED <<given, chapters, reviewing, failed>> /\ reviewsLeft' = reviewsLeft
    BY <1>2 DEF SkipTail
  <2>2. reviewsLeft' \in Nat
    BY <2>1 DEF TextInv, TextTypes
  <2>3. QED
    BY <2>1, <2>2, PolishKeepsText
<1>3. CASE UNCHANGED textVars
  <2>1. /\ stage' = stage /\ given' = given /\ chapters' = chapters /\ combined' = combined
        /\ reviewing' = reviewing /\ reviewsLeft' = reviewsLeft /\ failed' = failed
    BY <1>3 DEF textVars
  <2>2. TextTypes' = TextTypes /\ IntegrityHolds' = IntegrityHolds
    BY <2>1 DEF TextTypes, IntegrityHolds
  <2>3. QED
    BY <2>1, <2>2 DEF TextInv
<1>4. QED
  BY <1>1, <1>2, <1>3, DraftKeepsText, BeginKeepsText, SeamKeepsText, TailKeepsText, PublishKeepsText DEF AssemblyNext

LEMMA TextKept == TextInv => TextIsKept
<1> SUFFICES ASSUME TextInv PROVE TextIsKept
  OBVIOUS
<1>1. /\ chapters \in Seq(Seq(AnyMark)) /\ reviewsLeft \in Nat /\ IsWritten(chapters, given)
      /\ combined \in Seq(AnyMark)
  BY DEF TextInv, TextTypes
<1>2. DOMAIN chapters = 1 .. Len(chapters)
  BY <1>1
<1>3. \A n \in DOMAIN chapters : ChapterIsKept(given[n], n, chapters[n])
  BY <1>1, <1>2 DEF IsWritten
<1> DEFINE whole == Words(Joined(chapters))
           kept  == Words(combined)
<1>4. kept \in Seq(AnyMark) /\ CountOf(kept, "full") \in Nat
  <2>1. kept \in Seq(AnyMark)
    BY <1>1, WhereType DEF Words, Those
  <2>2. Where(kept, [kind : {"full"}, title : Nat]) \in Seq(AnyMark)
    BY <2>1, WhereType
  <2>3. QED
    BY <2>1, <2>2 DEF CountOf, Those
<1>5. ASSUME stage = "published"
      PROVE  /\ Headings2(combined) = Outline /\ ~Unclosed(combined)
             /\ IsPrefix(kept, whole)
             /\ Places(combined, {"closing"}) = {} => kept = whole
             /\ CountOf(whole, "full") - CountOf(kept, "full") <= 1
  <2>1. Headings2(combined) = Outline /\ ~Unclosed(combined)
    BY <1>5 DEF TextInv, IntegrityHolds, OutlineHolds
  <2>2. \/ /\ Places(combined, {"closing"}) # {} /\ IsPrefix(kept, whole)
           /\ CountOf(whole, "full") - CountOf(kept, "full") <= 1
        \/ kept = whole
    BY <1>5 DEF TextInv, IsPolished
  <2> HIDE DEF kept, whole
  <2>3. CASE kept = whole
    <3>1. IsPrefix(kept, kept)
      <4>1. kept \o <<>> = kept /\ <<>> \in Seq(AnyMark)
        BY <1>4
      <4>2. IsPrefix(kept, kept \o <<>>)
        BY <1>4, <4>1, PrefixOfConcat
      <4>3. QED
        BY <4>1, <4>2
    <3>2. CountOf(kept, "full") - CountOf(kept, "full") <= 1
      BY <1>4
    <3>3. QED
      BY <2>1, <2>3, <3>1, <3>2
  <2>4. QED
    BY <2>1, <2>2, <2>3
<1>6. failed = "final integrity invalid" =>
        Places(combined, {"closing"}) # {} \/ \E n \in DOMAIN chapters : Unclosed(chapters[n])
  BY <1>2 DEF TextInv
<1>7. DocumentIsKept
  <2>1. reviewsLeft >= 0
    BY <1>1
  <2>2. stage = "published" =>
          /\ Headings2(combined) = Outline /\ ~Unclosed(combined)
          /\ IsPrefix(kept, whole)
          /\ Places(combined, {"closing"}) = {} => kept = whole
          /\ CountOf(whole, "full") - CountOf(kept, "full") <= 1
    <3> HIDE DEF kept, whole
    <3>1. QED
      BY <1>5
  <2>3. QED
    BY <2>1, <2>2, <1>6, Zenon DEF DocumentIsKept
<1>8. QED
  BY <1>3, <1>7 DEF TextIsKept

LEMMA TextWellTyped == TextInv => AssemblyTypeOK
<1> SUFFICES ASSUME TextInv PROVE AssemblyTypeOK
  OBVIOUS
<1>1. TextTypes
  BY DEF TextInv
<1>2. SectionCount \in Nat /\ Len(chapters) \in Nat /\ Len(given) \in Nat
  BY <1>1, AssemblyAssumption DEF TextTypes
<1>3. Len(chapters) <= SectionCount
  BY <1>1, <1>2 DEF TextTypes
<1>4. QED
  BY <1>1, <1>3 DEF TextTypes, AssemblyTypeOK, Stages

LEMMA TextInvariant == AssemblyInit /\ [][AssemblyNext]_textVars => []TextInv
  BY TextStarts, TextStep, PTL

(* TextIsKept, for any answers of a model and any number of sections: a     *)
(* section is under its heading, and closing its end loses no full sentence *)
(* and less than half of it unless it then ends in a block of code          *)
(* (_close_truncated_tail); what is published has the sections of the       *)
(* outline in its order, with all they say but what followed the last full  *)
(* stop but one where a new last sentence was put (_polish_final).          *)
THEOREM TextsAreKept == AssemblyInit /\ [][AssemblyNext]_textVars => []TextIsKept
  BY TextInvariant, TextKept, PTL

THEOREM AssemblyTypeCorrect == AssemblyInit /\ [][AssemblyNext]_textVars => []AssemblyTypeOK
  BY TextInvariant, TextWellTyped, PTL

-----------------------------------------------------------------------------
(* The composition.                                                         *)

(* A behaviour of the composition is one of each component: one of them     *)
(* takes its steps and the others stutter.                                  *)
THEOREM DocumentImplements ==
  DocumentSpec => /\ Spec /\ PartSpec /\ StreamSpec /\ EventSpec /\ FinalizationSpec
                  /\ AssemblyInit /\ [][AssemblyNext]_textVars
<1>1. DocumentInit => /\ Init /\ PartInit /\ AssemblyInit
                      /\ StreamInit /\ EventInit /\ FinalizationInit
  BY DEF DocumentInit
<1>2. [DocumentNext]_documentVars =>
        /\ [Next]_vars /\ [PartNext]_partVars /\ [AssemblyNext]_textVars
        /\ [StreamNext]_streamVars /\ [EventNext]_eventVars /\ [FinalizationNext]_finalVars
  <2> SUFFICES ASSUME [DocumentNext]_documentVars
               PROVE  /\ Next \/ UNCHANGED vars
                      /\ PartNext \/ UNCHANGED partVars
                      /\ AssemblyNext \/ UNCHANGED textVars
                      /\ StreamNext \/ UNCHANGED streamVars
                      /\ EventNext \/ UNCHANGED eventVars
                      /\ FinalizationNext \/ UNCHANGED finalVars
    OBVIOUS
  <2>1. CASE DocumentNext
    BY <2>1 DEF DocumentNext
  <2>2. CASE UNCHANGED documentVars
    BY <2>2 DEF documentVars
  <2>3. QED
    BY <2>1, <2>2
<1>3. QED
  BY <1>1, <1>2, PTL DEF DocumentSpec, Spec, PartSpec, StreamSpec, EventSpec, FinalizationSpec

(* The variables of all components keep their types.                        *)
THEOREM DocumentTypeCorrect == DocumentSpec => []DocumentTypeOK
<1>1. TypeOK /\ PartTypeOK /\ AssemblyTypeOK /\ StreamTypeOK /\ EventTypeOK /\ FinalizationTypeOK
        => DocumentTypeOK
  BY DEF DocumentTypeOK
<1>2. QED
  BY <1>1, DocumentImplements, TypeCorrect, PartTypeCorrect, AssemblyTypeCorrect, StreamTypeCorrect,
     EventTypeCorrect, FinalizationTypeCorrect, PTL

(* DeliveryIsFaithful: what a client reads of a graph or of an author is    *)
(* what that produced, and ends as that ended.                              *)
THEOREM DeliveriesAreFaithful == DocumentSpec => []DeliveryIsFaithful
<1>1. StreamIsFaithful /\ RunEndsWithItsAuthor => DeliveryIsFaithful
  BY DEF DeliveryIsFaithful
<1>2. QED
  BY <1>1, DocumentImplements, StreamIsFaithfulHolds, RunsEndWithTheirAuthors, PTL

(* NothingIsLeftOut: the outline that was asked for is the one that is      *)
(* written, each section is covered once by its parts, and the text of what *)
(* is published is the text of its sections.                                *)
THEOREM NothingIsLeftOutHolds == DocumentSpec => []NothingIsLeftOut
<1>1. OutlineIsWhole /\ SectionIsCoveredOnce /\ TextIsKept => NothingIsLeftOut
  BY DEF NothingIsLeftOut
<1>2. QED
  BY <1>1, DocumentImplements, OutlinesAreWhole, SectionsAreCoveredOnce, TextsAreKept, PTL

(* What is proved of an author, of the parts of a section, of a stream and  *)
(* of its client holds in the composition the runs check.                   *)
THEOREM DocumentsKeepTheirWork ==
  DocumentSpec => /\ []WorkIsStoredOnce /\ []PublishedAsReported /\ []AloneNeverOverBudget
                  /\ []OutlineIsWhole /\ []SectionIsCoveredOnce /\ []StreamTellsWhatHappened
                  /\ SoundWorkIsKept /\ ResumeKeepsTheWork /\ TimeoutIsEarned
BY DocumentImplements, StoredOnce, ResultIsReported, AloneWithinBudget, OutlinesAreWhole,
   SectionsAreCoveredOnce, StreamsTellWhatHappened, WorkIsNeverLost, WorkIsResumed, TimeoutsAreEarned, PTL
=============================================================================
