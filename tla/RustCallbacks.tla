---------------------------- MODULE RustCallbacks ----------------------------
(***************************************************************************)
(* The callbacks of a Rust agent to its platform (transport.rs): status    *)
(* events pushed by AgentStatusClient (agent_status_client.rs), which the  *)
(* platform dedupes by their event_id, and remote calls of                 *)
(* PlatformServicesClient (platform_services.rs), which it does not.  Both *)
(* retry what is_retryable; the network loses requests and answers, and    *)
(* delays a request beyond the timeout of its sender.                      *)
(*                                                                         *)
(* The agent reports its events one after another; a remote call may be    *)
(* under way at any time.  Waits between attempts are steps.               *)
(***************************************************************************)
EXTENDS Naturals, Sequences, FiniteSets

CONSTANTS
  PushEvents,     \* how many status events the agent reports
  RemoteCalls,    \* remote calls, each a service, a method and its kwargs
  PushRetries,    \* DEFAULT_PUSH_MAX_RETRIES
  CallRetries     \* DEFAULT_MAX_RETRIES

ASSUME CallbackAssumption == {PushEvents, PushRetries, CallRetries} \subseteq Nat

Events == 1 .. PushEvents
Callbacks == Events \cup RemoteCalls

VARIABLES
  outcome, \* of each callback: "new", "awaiting", "backoff", "ok" or "failed"
  tries,    \* the requests made for it
  wire,     \* the requests under way: [callback, try, id]
  timeline, \* the events the platform has recorded, by the event that was reported
  known,    \* the event ids it has seen
  effects   \* how often it has carried out each remote call

callbackVars == <<outcome, tries, wire, timeline, known, effects>>

CallbackInit ==
  /\ outcome = [c \in Callbacks |-> "new"]
  /\ tries = [c \in Callbacks |-> 0]
  /\ wire = {}
  /\ timeline = <<>> /\ known = {}
  /\ effects = [c \in RemoteCalls |-> 0]

Attempts(c) == (IF c \in Events THEN PushRetries ELSE CallRetries) + 1

-----------------------------------------------------------------------------
(* Answers and what the transport makes of them: map_error_envelope.        *)

\* [status, body: {"ok": true}, an error, or no JSON]
Response == [status : {200, 401, 404, 409, 500, 503}, body : {"ok", "error", "garbage"}]

\* a success follows from the deed, a refusal from none, and an error of the
\* platform's own may come before or after it
Responses(done) == {a \in Response : a.status >= 500 \/ (a.status = 200 <=> done)}

\* call_once needs a body it can read and that says ok, push_once a status alone
ErrorKind(c, a) ==
  CASE c \in RemoteCalls /\ a.body = "garbage" -> "Protocol"
    [] a.status = 200 /\ (c \in Events \/ a.body = "ok") -> "none"
    [] a.status \in {401, 403} -> "Auth"
    [] a.status \in {400, 404, 422} -> "Protocol"
    [] a.status >= 500 -> "Unavailable"
    [] OTHER -> "Callback"

IsRetryable(kind) == kind = "Unavailable"

\* call and push: another attempt if it may help and one is left
After(c, kind) ==
  IF kind = "none" THEN "ok"
  ELSE IF IsRetryable(kind) /\ tries[c] < Attempts(c) THEN "backoff" ELSE "failed"

-----------------------------------------------------------------------------
(* The sender.                                                              *)

\* [mutant] every attempt mints an id of its own
RequestId_PerTry(c) == <<c, tries[c] + 1>>

\* report mints the event_id before the first attempt: all attempts carry it
RequestId(c) == <<c, 0>>

\* an event is reported when the one before it has been
MayStart(c) == c \in Events /\ c > 1 => outcome[c - 1] \in {"ok", "failed"}

SendRequest(c) ==
  /\ outcome[c] \in {"new", "backoff"} /\ MayStart(c)
  /\ outcome' = [outcome EXCEPT ![c] = "awaiting"]
  /\ tries' = [tries EXCEPT ![c] = @ + 1]
  /\ wire' = wire \cup {[callback |-> c, try |-> tries[c] + 1, id |-> RequestId(c)]}
  /\ UNCHANGED <<timeline, known, effects>>

\* no answer within the timeout, or no connection: Unavailable
TimesOut(c) ==
  /\ outcome[c] = "awaiting"
  /\ outcome' = [outcome EXCEPT ![c] = After(c, "Unavailable")]
  /\ UNCHANGED <<tries, wire, timeline, known, effects>>

-----------------------------------------------------------------------------
(* The platform and the network, as the clients rely on them.               *)

\* the deed: an event the platform does not know is recorded, a call is carried out
CarriedOut(r) ==
  IF r.callback \in Events
  THEN /\ timeline' = IF r.id \in known THEN timeline ELSE Append(timeline, r.callback)
       /\ known' = known \cup {r.id}
       /\ UNCHANGED effects
  ELSE effects' = [effects EXCEPT ![r.callback] = @ + 1] /\ UNCHANGED <<timeline, known>>

\* the sender of this very attempt still waits for its answer
Awaited(r) == outcome[r.callback] = "awaiting" /\ tries[r.callback] = r.try

RequestArrives ==
  \E r \in wire, done \in BOOLEAN :
    /\ wire' = wire \ {r}
    /\ IF done THEN CarriedOut(r) ELSE UNCHANGED <<timeline, known, effects>>
    /\ \/ /\ Awaited(r)
          /\ \E kind \in {ErrorKind(r.callback, a) : a \in Responses(done)} :
               outcome' = [outcome EXCEPT ![r.callback] = After(r.callback, kind)]
       \/ UNCHANGED outcome \* the answer is lost, or comes too late
    /\ UNCHANGED tries

RequestIsLost ==
  /\ \E r \in wire : wire' = wire \ {r}
  /\ UNCHANGED <<outcome, tries, timeline, known, effects>>

CallbackNext ==
  \/ \E c \in Callbacks : SendRequest(c) \/ TimesOut(c)
  \/ RequestArrives \/ RequestIsLost

CallbackSpec == CallbackInit /\ [][CallbackNext]_callbackVars

-----------------------------------------------------------------------------
CallbackTypeOK ==
  /\ outcome \in [Callbacks -> {"new", "awaiting", "backoff", "ok", "failed"}]
  /\ \A c \in Callbacks : tries[c] \in 0 .. Attempts(c)
  /\ timeline \in Seq(Events)
  /\ effects \in [RemoteCalls -> Nat]

(* Whatever is lost, late or repeated, no event is recorded twice; what was *)
(* reported as done is done; two events that were both acknowledged were    *)
(* recorded in the order of their reports; and a call is carried out no     *)
(* more often than it was sent.                                             *)
PlatformSeesEventsOnce ==
  /\ \A i, j \in DOMAIN timeline : timeline[i] = timeline[j] => i = j
  /\ \A c \in Callbacks : outcome[c] = "ok" =>
       IF c \in Events THEN \E i \in DOMAIN timeline : timeline[i] = c ELSE effects[c] > 0
  /\ \A i, j \in DOMAIN timeline :
       outcome[timeline[i]] = "ok" /\ outcome[timeline[j]] = "ok" /\ i < j => timeline[i] < timeline[j]
  /\ \A c \in RemoteCalls : effects[c] <= tries[c]
=============================================================================
