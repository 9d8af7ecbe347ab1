--------------------------- MODULE DocumentStream ----------------------------
(***************************************************************************)
(* How a document agent reads the stream of its graph                      *)
(* (document_streaming.py, document_agent_template.py).  A producer task   *)
(* moves the items of the graph into an unbounded queue; the consumer      *)
(* takes them out and sends a keepalive whenever one interval has brought  *)
(* nothing (with an interval of 0 there is no queue, and nothing to        *)
(* model).  stream_graph_run does so through with_keepalive and collects   *)
(* the narrative; an agent with subtasks does so through                   *)
(* with_subtask_keepalive, whose SubtaskEventMapper knows which subtasks   *)
(* are active and which gives up when one has been silent for too long.    *)
(*                                                                         *)
(* Time passes in intervals of the keepalive, and so do the ages.          *)
(***************************************************************************)
EXTENDS Selection, FiniteSets, SequencesExt

CONSTANTS
  Subtasks,    \* the subtasks a graph can start, each with its tool call id
  MaxItems,    \* bound: the items of one graph
  IdleTimeout, \* subtask_idle_timeout_seconds, in intervals; 0 disables it
  StreamSetups \* [reader, ids] to check, of StreamSetup

\* ids: do calls and results of the task tool carry their tool call id
StreamSetup == [reader : {"narrative", "subtasks"}, ids : BOOLEAN]

ASSUME StreamAssumption ==
  MaxItems \in Nat /\ IdleTimeout \in Nat /\ StreamSetups \subseteq StreamSetup

GeneratedKey(n) == <<"task", n>>

VARIABLES
  stream,    \* the setup; it never changes
  graph,     \* "running", "ended", "raised" or "cancelled"
  emitted,   \* what the graph has yielded
  silence,   \* intervals since it yielded last
  queue,     \* items, then Raised or Done
  reader,    \* "waiting", "holding" an item, or how it ended
  delivered, \* the items handed on
  idle,      \* intervals since the last of them was taken from the queue
  active,    \* SubtaskEventMapper._active: the subtasks by key, in order
  counter,   \* its _counter
  narrative  \* the result of stream_graph_run

streamVars == <<stream, graph, emitted, silence, queue, reader, delivered, idle, active, counter, narrative>>

TextItems == [kind : {"content"}]
Values    == [kind : {"values"}]
TaskItems == [kind : {"call", "result"}, task : Subtasks]
Raised    == [kind |-> "exception"]
Done      == [kind |-> "done"] \* KEEPALIVE_DONE

\* subtasks whose call the graph has yielded and whose result it has not
Started(items) == {t \in Subtasks : \E n \in DOMAIN items : items[n] = [kind |-> "call", task |-> t]}
Returned(items) == {t \in Subtasks : \E n \in DOMAIN items : items[n] = [kind |-> "result", task |-> t]}
RunningTasks(items) == Started(items) \ Returned(items)

StreamInit ==
  /\ stream \in StreamSetups
  /\ graph = "running" /\ emitted = <<>> /\ silence = 0
  /\ queue = <<>> /\ reader = "waiting" /\ delivered = <<>> /\ idle = 0
  /\ active = <<>> /\ counter = 0 /\ narrative = <<>>

Over == reader \in {"complete", "failed", "timed_out", "left"}

-----------------------------------------------------------------------------
(* The graph and the producer.                                              *)

\* a graph of a narrative yields text and states, one with subtasks calls each of them
\* once, as many at a time as it likes
CanEmit(item) ==
  IF stream.reader = "narrative" THEN item \in TextItems \cup Values
  ELSE \/ item \in TextItems
       \/ /\ item \in TaskItems /\ item.kind = "call"
          /\ item.task \notin Started(emitted)
       \/ item \in TaskItems /\ item.kind = "result" /\ item.task \in RunningTasks(emitted)

GraphYields ==
  /\ graph = "running" /\ Len(emitted) < MaxItems
  /\ \E item \in TextItems \cup Values \cup TaskItems :
       /\ CanEmit(item)
       /\ emitted' = Append(emitted, item)
       /\ queue' = Append(queue, item)
  /\ silence' = 0
  /\ UNCHANGED <<stream, graph, reader, delivered, idle, active, counter, narrative>>

\* an exception is queued behind the items; a cancellation inside the graph is none,
\* and like an exhausted graph leaves the mark of the end alone
GraphEnds(how) ==
  /\ graph' = how
  /\ queue' = queue \o (IF how = "raised" THEN <<Raised, Done>> ELSE <<Done>>)

ProducerEnds ==
  /\ graph = "running"
  /\ \E how \in {"ended", "raised", "cancelled"} : GraphEnds(how)
  /\ UNCHANGED <<stream, emitted, silence, reader, delivered, idle, active, counter, narrative>>

\* the reader left: the producer it cancelled awaits the graph no longer
ProducerIsCancelled ==
  /\ graph = "running" /\ Over
  /\ GraphEnds("cancelled")
  /\ UNCHANGED <<stream, emitted, silence, reader, delivered, idle, active, counter, narrative>>

-----------------------------------------------------------------------------
(* SubtaskEventMapper.                                                      *)

\* a result without an id belongs to the only active subtask; with several it gets a
\* key of its own, under which nothing is active
CallKey(item) ==
  CASE stream.ids -> item.task
    [] ~stream.ids /\ item.kind = "result" /\ Len(active) = 1 -> Head(active).key
    [] OTHER -> GeneratedKey(counter + 1)

UsesCounter(item) == ~stream.ids /\ ~(item.kind = "result" /\ Len(active) = 1)

\* _started_event, _completed_event
Mapped(item) ==
  IF item.kind = "call" THEN Append(active, [key |-> CallKey(item), task |-> item.task])
  ELSE Chosen(active, {n \in DOMAIN active : active[n].key # CallKey(item)})

\* the consumer has mapped, collected and handed on what it held
HandleItem(item) ==
  /\ IF item.kind \in {"call", "result"}
     THEN /\ active' = Mapped(item)
          /\ counter' = IF UsesCounter(item) THEN counter + 1 ELSE counter
     ELSE UNCHANGED <<active, counter>>
  /\ delivered' = Append(delivered, item)

-----------------------------------------------------------------------------
(* The reader: with_keepalive, with_subtask_keepalive, stream_graph_run.    *)

IsItem(entry) == entry.kind \notin {"exception", "done"}

\* the states of the graph win over the text that was streamed
NarrativeOf(items) ==
  LET states == SelectSeq([n \in DOMAIN items |-> n], LAMBDA n : items[n] \in Values)
      texts  == SelectSeq([n \in DOMAIN items |-> n], LAMBDA n : items[n] \in TextItems) IN
  IF states # <<>> THEN <<Last(states)>> ELSE texts

\* [mutant] the age of the last item is not reset
TakeItem_KeepsAge ==
  /\ reader = "waiting" /\ queue # <<>> /\ IsItem(Head(queue))
  /\ reader' = "holding"
  /\ HandleItem(Head(queue))
  /\ queue' = Tail(queue)
  /\ UNCHANGED <<stream, graph, emitted, silence, idle, narrative>>

\* an item: it is taken, its time noted, and the reader waits for whoever reads it
TakeItem ==
  /\ reader = "waiting" /\ queue # <<>> /\ IsItem(Head(queue))
  /\ reader' = "holding"
  /\ HandleItem(Head(queue))
  /\ queue' = Tail(queue)
  /\ idle' = 0
  /\ UNCHANGED <<stream, graph, emitted, silence, narrative>>

\* whoever reads the stream asks for the next item
AskForNext ==
  /\ reader = "holding"
  /\ reader' = "waiting"
  /\ UNCHANGED <<stream, graph, emitted, silence, queue, delivered, idle, active, counter, narrative>>

\* the end: the exception is raised, or the narrative is the result
TakeEnd ==
  /\ reader = "waiting" /\ queue # <<>> /\ ~IsItem(Head(queue))
  /\ IF Head(queue) = Raised
     THEN reader' = "failed" /\ UNCHANGED narrative
     ELSE /\ reader' = "complete"
          /\ narrative' = IF stream.reader = "narrative" THEN NarrativeOf(delivered) ELSE narrative
  /\ UNCHANGED <<stream, graph, emitted, silence, queue, delivered, idle, active, counter>>

\* whoever reads the stream closes it
LeaveStream ==
  /\ reader = "holding"
  /\ reader' = "left"
  /\ UNCHANGED <<stream, graph, emitted, silence, queue, delivered, idle, active, counter, narrative>>

\* nothing came for an interval: a keepalive, or the end of an idle subtask
GivesUp(age) ==
  /\ stream.reader = "subtasks"
  /\ active # <<>> /\ IdleTimeout > 0 /\ age >= IdleTimeout

Later(age) == IF age > IdleTimeout THEN age ELSE age + 1

\* an interval passes, with a reader that waits for the graph or an agent that holds it up
Interval ==
  /\ ~Over /\ ~(reader = "waiting" /\ queue # <<>>)
  /\ graph = "running" \/ reader = "holding"
  /\ silence' = Later(silence) /\ idle' = Later(idle)
  /\ reader' = IF reader = "waiting" /\ GivesUp(idle') THEN "timed_out" ELSE reader
  /\ UNCHANGED <<stream, graph, emitted, queue, delivered, active, counter, narrative>>

StreamNext ==
  \/ GraphYields \/ ProducerEnds \/ ProducerIsCancelled
  \/ TakeItem \/ AskForNext \/ TakeEnd \/ LeaveStream \/ Interval

StreamSpec == StreamInit /\ [][StreamNext]_streamVars

-----------------------------------------------------------------------------
StreamTypeOK ==
  /\ stream \in StreamSetup
  /\ graph \in {"running", "ended", "raised", "cancelled"}
  /\ reader \in {"waiting", "holding", "complete", "failed", "timed_out", "left"}
  /\ silence \in 0 .. IdleTimeout + 1 /\ idle \in 0 .. IdleTimeout + 1
  /\ \A n \in DOMAIN active : active[n].task \in Subtasks
  /\ counter \in 0 .. MaxItems

(* What the reader hands on is what the graph yielded, in order; it ends    *)
(* only where the graph ended, after its last item, and fails only where    *)
(* the graph raised; and the narrative is that of the whole stream.         *)
StreamIsFaithful ==
  /\ IsPrefix(delivered, emitted)
  /\ reader = "complete" => graph \in {"ended", "cancelled"} /\ delivered = emitted
  /\ reader = "failed" => graph = "raised" /\ delivered = emitted
  /\ reader = "complete" /\ stream.reader = "narrative" => narrative = NarrativeOf(emitted)

\* two subtasks ran at once
Overlapped(items) ==
  \E n \in DOMAIN items : \E t, u \in RunningTasks(SubSeq(items, 1, n)) : t # u

(* A subtask is given up only if the graph has been silent for the whole    *)
(* timeout, however slow the reader's own client was, and the one named in  *)
(* the error is one that runs, unless calls carry no id and two of them     *)
(* overlapped; and whatever the ids, no subtask that runs is waited for     *)
(* beyond the timeout.                                                      *)
TimeoutIsEarned ==
  [][/\ reader # "timed_out" /\ reader' = "timed_out" =>
          /\ silence' >= IdleTimeout
          /\ stream.ids \/ ~Overlapped(emitted) => Last(active).task \in RunningTasks(emitted)
     /\ /\ Interval /\ stream.reader = "subtasks" /\ reader' = "waiting"
        /\ IdleTimeout > 0 /\ idle' >= IdleTimeout
        => RunningTasks(emitted) = {}]_streamVars
=============================================================================
