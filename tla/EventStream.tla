----------------------------- MODULE EventStream ------------------------------
(***************************************************************************)
(* What the client of a one-shot invocation is told (runtime.py _gen and   *)
(* invoke_endpoint, artifact_facade.py).  The events of a stream handler   *)
(* and the usage reports of its model calls share one queue; _gen hands    *)
(* them on in order, ends the stream with a sentinel or with an error,     *)
(* and stores what it said for a duplicate of the request and for whoever  *)
(* polls.  An artifact agent puts a queue of its own before that one.      *)
(*                                                                         *)
(* An event is the part of it that _failure_envelope looks at, with its    *)
(* number; OneShotInvocations has the keys, leases and faults that this    *)
(* module leaves out.                                                      *)
(***************************************************************************)
EXTENDS Integers, Sequences, SequencesExt, Selection

CONSTANTS
  MaxProduced, \* bound: the events and usage reports of one invocation
  MaxIdle,     \* bound: its keepalives
  Endpoints    \* of {"stream", "artifact", "invoke"}

ASSUME EventAssumption ==
  /\ MaxProduced \in Nat \ {0} /\ MaxIdle \in Nat
  /\ Endpoints \subseteq {"stream", "artifact", "invoke"}

VARIABLES
  endpoint, \* which handler it is: a stream, an artifact agent's stream, or /invoke
  handler,  \* "running", "returned", "raised" or "cancelled"
  produced, \* what was put into the queues, in order
  inner,    \* event_queue of _stream_adapter
  events,   \* event_queue of stream_endpoint
  wire,     \* the events the client is sent (emitted_events); the last one of a stream
            \* that ended is on its way until ending is "sent"
  gen,      \* _gen: "reading", "ended", or "aborted" by a client that went
  ending,   \* "none"; how it ended is "stored"; and the last event "sent" or "lost"
  record,   \* what the store holds for the key
  second    \* what a duplicate of the request was answered, or NoReply

eventVars == <<endpoint, handler, produced, inner, events, wire, gen, ending, record, second>>

-----------------------------------------------------------------------------
(* Events.  meta is the metadata of one; it is a phase event if it is named. *)

NoMeta == [named |-> FALSE, status |-> "", error |-> FALSE]
Plain(kind) == [kind |-> kind, status |-> "", error |-> FALSE, meta |-> NoMeta]
Phase(status, error) ==
  [Plain("status_changed") EXCEPT !.meta = [named |-> TRUE, status |-> status, error |-> error]]

HandlerEvents ==
  {Plain("content"), Plain("artifact"), Plain("final"), Plain("failed"),
   [Plain("content") EXCEPT !.status = "cancelled"],
   [Plain("needs_confirmation") EXCEPT !.status = "needs_confirmation"],
   Phase("failed", FALSE), Phase("retrying", TRUE), Phase("failed", TRUE)}

\* what an artifact agent sends: progress, and then its one result
FacadeEvents  == {Plain("progress")}
FacadeResults ==
  {Plain("artifact"), [Plain("needs_confirmation") EXCEPT !.status = "needs_confirmation"]}

OwnEvents == HandlerEvents \cup FacadeEvents \cup FacadeResults
Usage     == Plain("usage")

\* an event with its number; what the runtime adds has none
Entries(some) == [n : Nat, event : some]
Own           == Entries(OwnEvents)
OwnOf(kind)   == Entries({event \in OwnEvents : event.kind = kind})
Keepalive == [n |-> 0, event |-> Plain("keepalive")]

TerminalStatus == {"failed", "cancelled"}
TerminalKind   == {"failed", "terminal_error"}

\* _failure_envelope: the status of a phase is its own affair, and so is its error
\* while it is under way
IsFailure(event) ==
  \/ event.status \in TerminalStatus \/ event.kind \in TerminalKind \/ event.error
  \/ ~event.meta.named /\ event.meta.status \in TerminalStatus
  \/ /\ event.meta.error
     /\ ~(event.meta.named /\ event.meta.status # "" /\ event.meta.status \notin TerminalStatus)

Numbers(entries, kind) ==
  LET chosen == Where(entries, OwnOf(kind)) IN [n \in DOMAIN chosen |-> chosen[n].n]

\* _terminal_output_from_stream_events: the last output of the handler's own, else the
\* last artifact; 0 is the empty output
TerminalOutput(entries) ==
  LET finals    == Numbers(entries, "final")
      artifacts == Numbers(entries, "artifact") IN
  IF finals # <<>> THEN Last(finals) ELSE IF artifacts # <<>> THEN Last(artifacts) ELSE 0

SentinelOf(entries) == [n |-> TerminalOutput(entries), event |-> Plain("done")]
ErrorEvent == [n |-> 0, event |-> Plain("terminal_error")]

\* _stream_response_from_events
StreamResponse(entries) ==
  IF \E n \in DOMAIN entries : IsFailure(entries[n].event)
  THEN [status |-> "failed", output |-> 0, transcript |-> <<>>]
  ELSE [status |-> "completed", output |-> TerminalOutput(entries),
        transcript |-> Numbers(entries, "content")]

\* _coerce_invoke_response, _failure_status
InvokeResponse(entry) ==
  [status |-> CASE IsFailure(entry.event) ->
                     IF entry.event.status = "cancelled" THEN "cancelled" ELSE "failed"
                [] entry.event.status = "needs_confirmation" -> "needs_confirmation"
                [] OTHER -> "completed",
   output |-> IF IsFailure(entry.event) THEN 0 ELSE entry.n,
   transcript |-> <<>>]

-----------------------------------------------------------------------------
NoResponse == [status |-> "none", output |-> 0, transcript |-> <<>>]
InProgress == [status |-> "in_progress", events |-> <<>>, response |-> NoResponse]
NoReply    == [kind |-> "none"]

EventInit ==
  /\ endpoint \in Endpoints
  /\ handler = "running" /\ produced = <<>> /\ inner = <<>> /\ events = <<>>
  /\ wire = <<>> /\ gen = "reading" /\ ending = "none" /\ record = InProgress /\ second = NoReply

Next_n == Len(produced) + 1
Room   == Len(produced) < MaxProduced

Facade == endpoint = "artifact"

\* the mark of the end, and the exception before it
ErrorMark(how) == IF how = "raised" THEN <<[n |-> 0, event |-> Plain("error")]>> ELSE <<>>
DoneMark  == [n |-> 0, event |-> Plain("done_mark")]
IsMark(entry) == entry.event.kind \in {"error", "done_mark"}

\* a usage report goes straight to the runtime's queue, also from a task that outlives
\* the handler
ReportUsage ==
  /\ endpoint # "invoke" /\ gen = "reading" /\ Room
  /\ \A n \in DOMAIN produced : produced[n].event # Usage
  /\ LET entry == [n |-> Next_n, event |-> Usage] IN
     /\ produced' = Append(produced, entry)
     /\ events' = Append(events, entry)
  /\ UNCHANGED <<endpoint, handler, inner, wire, gen, ending, record, second>>

\* the handler yields; an artifact agent's reports progress, and returns its result
HandlerYields ==
  /\ endpoint # "invoke" /\ handler = "running" /\ gen = "reading" /\ Room
  /\ \E event \in IF Facade THEN FacadeEvents ELSE HandlerEvents :
       LET entry == [n |-> Next_n, event |-> event] IN
       /\ produced' = Append(produced, entry)
       /\ IF Facade THEN inner' = Append(inner, entry) /\ UNCHANGED events
          ELSE events' = Append(events, entry) /\ UNCHANGED inner
  /\ UNCHANGED <<endpoint, handler, wire, gen, ending, record, second>>

\* [mutant] the runner marks the end of a handler that raised and says no more
HandlerEnds_Quietly ==
  /\ endpoint = "stream" /\ handler = "running" /\ gen = "reading"
  /\ \E how \in {"returned", "raised", "cancelled"} :
       /\ handler' = how
       /\ events' = Append(events, DoneMark)
  /\ UNCHANGED <<endpoint, produced, inner, wire, gen, ending, record, second>>

\* _runner of the runtime: a cancellation inside the handler is no Exception to it
HandlerEnds ==
  /\ endpoint = "stream" /\ handler = "running" /\ gen = "reading"
  /\ \E how \in {"returned", "raised", "cancelled"} :
       /\ handler' = how
       /\ events' = Append(events \o ErrorMark(how), DoneMark)
  /\ UNCHANGED <<endpoint, produced, inner, wire, gen, ending, record, second>>

\* _runner of the facade: the result, or whatever was raised, None for a result included
FacadeEnds ==
  /\ Facade /\ handler = "running" /\ gen = "reading"
  /\ \/ /\ Room
        /\ \E event \in FacadeResults :
             LET entry == [n |-> Next_n, event |-> event] IN
             /\ produced' = Append(produced, entry)
             /\ inner' = Append(Append(inner, entry), DoneMark)
        /\ handler' = "returned"
     \/ \E how \in {"raised", "cancelled"} :
          /\ handler' = how
          /\ inner' = Append(inner \o <<[n |-> 0, event |-> Plain("error")]>>, DoneMark)
          /\ UNCHANGED produced
  /\ UNCHANGED <<endpoint, events, wire, gen, ending, record, second>>

\* the adapter yields what it takes from its queue, or raises what is in there
FacadeForwards ==
  /\ Facade /\ inner # <<>> /\ gen = "reading"
  /\ LET entry == Head(inner) IN
     IF IsMark(entry)
     THEN /\ inner' = <<>>
          /\ events' = Append(events \o (IF entry = DoneMark THEN <<>> ELSE ErrorMark(handler)), DoneMark)
     ELSE /\ inner' = Tail(inner)
          /\ events' = Append(events, entry)
  /\ UNCHANGED <<endpoint, handler, produced, wire, gen, ending, record, second>>

-----------------------------------------------------------------------------
(* _gen.                                                                    *)

\* how it ended is stored, and then the last event is yielded
EndStream(event, rec) ==
  /\ wire' = Append(wire, event)
  /\ gen' = "ended" /\ ending' = "stored"
  /\ record' = rec

Failed == [InProgress EXCEPT !.status = "failed"]

\* nothing came for the length of a keepalive
SendKeepalive ==
  /\ endpoint # "invoke" /\ gen = "reading" /\ events = <<>>
  /\ Len(Where(wire, {Keepalive})) < MaxIdle
  /\ wire' = Append(wire, Keepalive)
  /\ UNCHANGED <<endpoint, handler, produced, inner, events, gen, ending, record, second>>

\* an event or a usage report: handed on, or the end of the stream if it is a failure
SendEvent ==
  /\ gen = "reading" /\ events # <<>> /\ ~IsMark(Head(events))
  /\ IF IsFailure(Head(events).event) THEN EndStream(ErrorEvent, Failed)
     ELSE wire' = Append(wire, Head(events)) /\ UNCHANGED <<gen, ending, record>>
  /\ events' = Tail(events)
  /\ UNCHANGED <<endpoint, handler, produced, inner, second>>

\* the handler raised: the record fails, and then the client hears of it
SendError ==
  /\ gen = "reading" /\ events # <<>> /\ Head(events).event.kind = "error"
  /\ EndStream(ErrorEvent, Failed)
  /\ events' = Tail(events)
  /\ UNCHANGED <<endpoint, handler, produced, inner, second>>

Stored(entries) ==
  LET all == Append(entries, SentinelOf(entries)) IN
  [status |-> "completed", events |-> all, response |-> StreamResponse(all)]

\* the end: the record is complete, and then the sentinel is sent
SendSentinel ==
  /\ gen = "reading" /\ events # <<>> /\ Head(events) = DoneMark
  /\ EndStream(SentinelOf(wire), Stored(wire))
  /\ events' = Tail(events)
  /\ UNCHANGED <<endpoint, handler, produced, inner, second>>

\* the client goes: _gen is closed at a yield, or its handler's call is cancelled
ClientGoes ==
  /\ gen = "reading"
  /\ gen' = "aborted"
  /\ record' = Failed
  /\ UNCHANGED <<endpoint, handler, produced, inner, events, wire, ending, second>>

\* the client gets the last event, or goes before: a close at the yield leaves the record
\* alone, a cancellation within the store's write is an abort to the finally clause
EndIsSent ==
  /\ ending = "stored" /\ ending' = "sent"
  /\ UNCHANGED <<endpoint, handler, produced, inner, events, wire, gen, record, second>>

EndIsLost ==
  /\ ending = "stored" /\ ending' = "lost"
  /\ record' \in {record, Failed}
  /\ UNCHANGED <<endpoint, handler, produced, inner, events, wire, gen, second>>

\* /invoke: the handler's result is coerced, and stored unless it failed
InvokeReturns ==
  /\ endpoint = "invoke" /\ gen = "reading"
  /\ \E event \in HandlerEvents :
       LET entry == [n |-> 1, event |-> event]
           response == InvokeResponse(entry) IN
       /\ produced' = <<entry>>
       /\ EndStream([n |-> response.output, event |-> Plain(response.status)],
                    IF response.status = "failed" THEN Failed
                    ELSE [status |-> "completed", events |-> <<>>, response |-> response])
  /\ handler' = "returned"
  /\ UNCHANGED <<endpoint, inner, events, second>>

InvokeRaises ==
  /\ endpoint = "invoke" /\ gen = "reading"
  /\ EndStream(ErrorEvent, Failed)
  /\ handler' = "raised"
  /\ UNCHANGED <<endpoint, produced, inner, events, second>>

-----------------------------------------------------------------------------
(* Duplicates and polls.                                                    *)

\* _sanitized_replay_events
Sanitized(entries) ==
  IF \E n \in DOMAIN entries : IsFailure(entries[n].event) THEN <<ErrorEvent>> ELSE entries

ReplyOf(rec) ==
  CASE rec.status # "completed" -> [kind |-> "conflict"]
    [] rec.status = "completed" /\ endpoint = "invoke" ->
         [kind |-> "response", response |-> rec.response]
    [] OTHER -> [kind |-> "events", events |-> Sanitized(rec.events)]

\* a duplicate of the request arrives
Duplicate ==
  /\ second = NoReply
  /\ second' = ReplyOf(record)
  /\ UNCHANGED <<endpoint, handler, produced, inner, events, wire, gen, ending, record>>

EventNext ==
  \/ ReportUsage \/ HandlerYields \/ HandlerEnds \/ FacadeEnds \/ FacadeForwards
  \/ SendKeepalive \/ SendEvent \/ SendError \/ SendSentinel
  \/ ClientGoes \/ EndIsSent \/ EndIsLost
  \/ InvokeReturns \/ InvokeRaises \/ Duplicate

EventSpec == EventInit /\ [][EventNext]_eventVars

-----------------------------------------------------------------------------
EventTypeOK ==
  /\ endpoint \in {"stream", "artifact", "invoke"}
  /\ handler \in {"running", "returned", "raised", "cancelled"}
  /\ Len(produced) <= MaxProduced /\ Len(wire) <= MaxProduced + MaxIdle + 1
  /\ gen \in {"reading", "ended", "aborted"} /\ ending \in {"none", "stored", "sent", "lost"}
  /\ record.status \in {"in_progress", "completed", "failed"}
  /\ second.kind \in {"none", "conflict", "events", "response"}

IsEnd(entry)  == entry.event.kind \in {"done", "terminal_error"}
Yielded       == Where(produced, Own)
HandedYielded == Where(wire, Own)

(* A stream hands on what the handler yielded, in order and up to its first *)
(* failure, with every usage report at most once; it ends once, as done     *)
(* only if nothing failed and nothing yielded is missing, and as an error   *)
(* only if something did fail.                                              *)
StreamEndsAsItWent ==
  endpoint # "invoke" =>
    /\ IsPrefix(HandedYielded, Yielded)
    /\ \A n, m \in DOMAIN wire : wire[n] = wire[m] /\ wire[n] # Keepalive => n = m
    /\ \A n \in DOMAIN wire : IsEnd(wire[n]) => n = Len(wire) /\ gen = "ended"
    /\ gen = "ended" => IsEnd(Last(wire))
    /\ gen = "ended" /\ Last(wire).event.kind = "done" =>
         /\ HandedYielded = Yielded /\ handler \in {"returned", "cancelled"}
         /\ \A n \in DOMAIN Yielded : Yielded[n].event.kind # "failed" /\ Yielded[n].event.status # "cancelled"
    /\ gen = "ended" /\ Last(wire).event.kind = "terminal_error" =>
         \/ handler = "raised"
         \/ \E n \in DOMAIN Yielded : Yielded[n].event \in
              {Plain("failed"), [Plain("content") EXCEPT !.status = "cancelled"], Phase("failed", TRUE)}

(* A duplicate that is not sent away is told what the first client was      *)
(* told, and the end also if that one went before it; a stream that the     *)
(* client saw done is on record for the next duplicate, and one it saw fail *)
(* is not; and the sentinel carries the last artifact of an artifact agent, *)
(* as /invoke would have returned it.                                       *)
EveryoneIsToldTheSame ==
  /\ second.kind = "events" => gen = "ended" /\ second.events = wire
  /\ second.kind = "response" =>
       gen = "ended" /\ wire = <<[n |-> second.response.output, event |-> Plain(second.response.status)]>>
  /\ endpoint # "invoke" /\ ending \in {"stored", "sent"} =>
       (Last(wire).event.kind = "done" <=> record.status = "completed")
  /\ endpoint # "invoke" /\ record.status = "completed" =>
       LET artifacts == Numbers(Yielded, "artifact") IN
       /\ record.response.status = "completed"
       /\ record.response.output = Last(wire).n
       /\ artifacts # <<>> /\ Numbers(Yielded, "final") = <<>> => Last(wire).n = Last(artifacts)

(* Whoever reads a stream, first client, duplicate or a later /invoke, is   *)
(* told all that happened, once, and how it ended.                          *)
StreamTellsWhatHappened == StreamEndsAsItWent /\ EveryoneIsToldTheSame
=============================================================================
