------------------------- MODULE OneShotInvocations -------------------------
(***************************************************************************)
(* The idempotency layer of POST /invoke and POST /stream in the Python    *)
(* agent runtime (runtime.py): the one-shot invocation stores, the two     *)
(* endpoints that drive them, and the two defences their comment describes *)
(* against a key stuck "in_progress": Tier A, the finally clause that      *)
(* fails an unresolved record, and Tier B, the lease that start_or_get     *)
(* recycles and that a running stream renews.  A record in Redis expires.  *)
(*                                                                         *)
(* A request here carries an Idempotency-Key; one without never reaches a  *)
(* store.  A key stands for the triple (tenant, mode, idempotency key) the *)
(* stores index by, so a stream key and an invoke key are never the same.  *)
(***************************************************************************)
EXTENDS Integers, FiniteSets

CONSTANTS
  Requests,      \* HTTP requests; each arrives at most once, a retry is another one
  Pods,          \* agent processes
  StreamKeys,    \* keys of mode "stream"
  InvokeKeys,    \* keys of mode "invoke"
  Shared,        \* the Redis store that pods share
  Lease,         \* lease_seconds, in ticks
  Ttl,           \* the EX of every SET in Redis (_ttl_seconds), in ticks
  RenewEvery,    \* invocation_lease_renewal_seconds(lease), in ticks
  Keepalive,     \* NOVIE_AGENT_STREAM_KEEPALIVE_SECONDS, in ticks
  Nobody,        \* no request
  Deployments    \* the ways the agent may be deployed and used

Keys   == StreamKeys \cup InvokeKeys
Stores == Pods \cup {Shared}

Deployment ==
  [keys    : SUBSET Keys,  \* the keys its clients send
   shared  : SUBSET Pods,  \* pods with NOVIE_REDIS_URL: Redis first, their own store behind it
   durable : SUBSET Pods,  \* pods of durability "result_cache": their own store is SQLite
   faults  : SUBSET {"interrupt", "crash", "outage", "stall", "raise"}]

ASSUME ConstantsAssumption ==
  /\ Ttl \in Nat /\ Ttl >= 2 * Lease   \* as the Redis store's constructor sees to
  /\ Lease \in Nat \ {0} /\ RenewEvery \in Nat \ {0} /\ Keepalive \in Nat \ {0}
  /\ Shared \notin Pods
  /\ Nobody \notin Requests /\ Nobody \notin Pods /\ Nobody # Shared
  /\ StreamKeys \cap InvokeKeys = {}
  /\ Nobody \notin StreamKeys \cup InvokeKeys
  /\ Deployments \subseteq Deployment

VARIABLES
  conf,       \* how the agent is deployed; it never changes
  records,    \* what each store holds under each key
  disabled,   \* per pod: _primary_disabled of its fail-open store
  pc,         \* where each request is in its endpoint
  pod, key,   \* where a request was routed and the key it carries
  home,       \* the store that start_or_get answered from
  outcome,    \* the terminal status the handler's return value or exception asks for
  idle,       \* ticks since the stream loop last went round
  unrenewed,  \* ticks since last_lease_touch_at
  answer,     \* what the client was told
  outlived    \* history: the requests whose record in Redis has expired

vars == <<conf, records, disabled, pc, pod, key, home, outcome, idle, unrenewed, answer,
          outlived>>

SharedPods  == conf.shared
DurablePods == conf.durable
Fault(f)    == f \in conf.faults

-----------------------------------------------------------------------------
(* Records.  "absent" stands for no row; `by' is the handler whose response *)
(* the record carries, `age' the ticks since it was last written.           *)

Statuses == {"absent", "in_progress", "completed", "failed"}

Record == [id     : Requests \cup {Nobody},
           status : Statuses,
           age    : 0..Ttl,
           by     : Requests \cup {Nobody}]

NoRecord == [id |-> Nobody, status |-> "absent", age |-> 0, by |-> Nobody]
Fresh(r) == [id |-> r, status |-> "in_progress", age |-> 0, by |-> Nobody]

\* [mutant] updated_at never parses, so no lease is ever found lapsed
IsLeaseStale_Never(rec) == rec.status = "in_progress" /\ rec.age > Lease + 1
IsLeaseStale(rec) == rec.status = "in_progress" /\ rec.age > Lease

\* [mutant] any unfinished record is recycled, lapsed or not
Startable_InProgress(rec) == rec.status \in {"absent", "in_progress"}

\* [mutant] a finished record does not stop a retry
Startable_Finished(rec) == rec.status # "in_progress" \/ IsLeaseStale(rec)
\* start_or_get hands out a fresh record exactly when there is none or a stale one
Startable(rec) == rec.status = "absent" \/ IsLeaseStale(rec)

\* [mutant] the stale record is marked expired and no fresh one is put in its place
Started_MarksExpired(rec, r) ==
  IF IsLeaseStale(rec) THEN [rec EXCEPT !.status = "expired"]
  ELSE IF Startable(rec) THEN Fresh(r) ELSE rec
Started(rec, r) == IF Startable(rec) THEN Fresh(r) ELSE rec

\* complete and fail address the key, not the invocation id, and check no status
Resolved(rec, o, r) ==
  IF rec.status = "absent" THEN rec
  ELSE [id |-> rec.id, status |-> o, age |-> 0,
        by |-> IF o = "completed" THEN r ELSE rec.by]

\* [mutant] touch does not advance updated_at
Touched_Nothing(rec) == rec
Touched(rec) == IF rec.status = "in_progress" THEN [rec EXCEPT !.age = 0] ELSE rec

-----------------------------------------------------------------------------
(* Answers: "result" and "error" end the owner's own request, "replay" and  *)
(* "conflict" (409 retry_in_progress) are given to a duplicate.             *)

Answer == [kind : {"none", "result", "error", "replay", "conflict"},
           by   : Requests \cup {Nobody},
           saw  : Statuses]

NoAnswer == [kind |-> "none", by |-> Nobody, saw |-> "absent"]

OwnAnswer(r, o) ==
  IF o = "completed" THEN [kind |-> "result", by |-> r, saw |-> "completed"]
  ELSE [kind |-> "error", by |-> r, saw |-> "failed"]

DuplicateAnswer(rec) ==
  IF rec.status = "completed"
  THEN [kind |-> "replay", by |-> rec.by, saw |-> "completed"]
  ELSE [kind |-> "conflict", by |-> Nobody, saw |-> rec.status]

-----------------------------------------------------------------------------
Closed == {"done", "dropped", "crashed"}
PCs == {"new", "admitted", "running", "stalled", "storing", "aborting"} \cup Closed

\* the fail-open store goes to Redis until a call to it has raised once
Route(p) == IF p \in SharedPods /\ ~disabled[p] THEN Shared ELSE p

\* a call to Redis, or to SQLite through to_thread, suspends its caller; the
\* dict's lock is never contended, so a call to it runs to its end
Suspends(s) == s \in DurablePods \cup {Shared}

Put(recs, s, k, rec) == [recs EXCEPT ![s][k] = rec]

TypeOK ==
  /\ conf \in Deployments
  /\ records \in [Stores -> [Keys -> Record]]
  /\ disabled \in [Pods -> BOOLEAN]
  /\ pc \in [Requests -> PCs]
  /\ pod \in [Requests -> Pods \cup {Nobody}]
  /\ key \in [Requests -> Keys \cup {Nobody}]
  /\ home \in [Requests -> Stores \cup {Nobody}]
  /\ outcome \in [Requests -> {"none", "completed", "failed"}]
  /\ idle \in [Requests -> 0..Keepalive]
  /\ unrenewed \in [Requests -> 0..(RenewEvery + Keepalive)]
  /\ answer \in [Requests -> Answer]
  /\ outlived \subseteq Requests
  /\ \A r \in Requests :
       /\ pc[r] # "new" => pod[r] \in Pods /\ key[r] \in Keys /\ home[r] \in Stores
       /\ pc[r] = "storing" => outcome[r] # "none"

Init ==
  /\ conf \in Deployments
  /\ records = [s \in Stores |-> [k \in Keys |-> NoRecord]]
  /\ disabled = [p \in Pods |-> FALSE]
  /\ pc = [r \in Requests |-> "new"]
  /\ pod = [r \in Requests |-> Nobody]
  /\ key = [r \in Requests |-> Nobody]
  /\ home = [r \in Requests |-> Nobody]
  /\ outcome = [r \in Requests |-> "none"]
  /\ idle = [r \in Requests |-> 0]
  /\ unrenewed = [r \in Requests |-> 0]
  /\ answer = [r \in Requests |-> NoAnswer]
  /\ outlived = {}

-----------------------------------------------------------------------------
(* start_or_get.  recs is what the stores hold when the answering store s   *)
(* is asked (it differs from `records' after a failed call to Redis).       *)

StartOrGet(recs, r, p, k, s) ==
  /\ pc[r] = "new"
  /\ pod' = [pod EXCEPT ![r] = p]
  /\ key' = [key EXCEPT ![r] = k]
  /\ home' = [home EXCEPT ![r] = s]
  /\ records' = Put(recs, s, k, Started(recs[s][k], r))
  /\ pc' = [pc EXCEPT ![r] = IF Startable(recs[s][k]) THEN "admitted" ELSE "done"]
  /\ answer' = [answer EXCEPT ![r] = IF Startable(recs[s][k]) THEN NoAnswer
                                     ELSE DuplicateAnswer(recs[s][k])]
  /\ UNCHANGED <<conf, outcome, idle, unrenewed, outlived>>

Begin(r, p, k) ==
  /\ StartOrGet(records, r, p, k, Route(p))
  /\ UNCHANGED disabled

\* Redis raised, with or without having run the script: from now on this pod
\* uses its own store, and asks it for this request too
BeginFailOpen(r, p, k) ==
  /\ Fault("outage") /\ Route(p) = Shared
  /\ disabled' = [disabled EXCEPT ![p] = TRUE]
  /\ \E landed \in BOOLEAN :
       StartOrGet(IF landed THEN Put(records, Shared, k, Started(records[Shared][k], r))
                  ELSE records, r, p, k, p)

\* the endpoint is cancelled while it awaits start_or_get, whose write lands:
\* no try statement has been entered yet
BeginInterrupted(r, p, k) ==
  /\ Fault("interrupt") /\ Suspends(Route(p))
  /\ pc[r] = "new"
  /\ pod' = [pod EXCEPT ![r] = p]
  /\ key' = [key EXCEPT ![r] = k]
  /\ home' = [home EXCEPT ![r] = Route(p)]
  /\ records' = Put(records, Route(p), k, Started(records[Route(p)][k], r))
  /\ pc' = [pc EXCEPT ![r] = "dropped"]
  /\ UNCHANGED <<conf, disabled, outcome, idle, unrenewed, answer, outlived>>

\* between start_or_get and the try: the context is built and, for a stream,
\* the response starts to iterate _gen
EnterHandler(r) ==
  /\ pc[r] = "admitted"
  /\ pc' = [pc EXCEPT ![r] = "running"]
  /\ UNCHANGED <<conf, records, disabled, pod, key, home, outcome, idle, unrenewed, answer,
                 outlived>>

\* the client leaves in that window: _gen is never started, so neither is its
\* finally clause
InterruptAdmitted(r) ==
  /\ Fault("interrupt") /\ pc[r] = "admitted"
  /\ pc' = [pc EXCEPT ![r] = "dropped"]
  /\ UNCHANGED <<conf, records, disabled, pod, key, home, outcome, idle, unrenewed, answer,
                 outlived>>

-----------------------------------------------------------------------------
(* The handler and, for a stream, the loop that multiplexes its events.     *)

Streaming(r) == key[r] \in StreamKeys
RouteOf(r)   == Route(pod[r])
\* the two clocks are variables of the loop and go with it
TimersDropped(rs) ==
  /\ idle' = [r \in Requests |-> IF r \in rs THEN 0 ELSE idle[r]]
  /\ unrenewed' = [r \in Requests |-> IF r \in rs THEN 0 ELSE unrenewed[r]]

Renewed(r, s) == Put(records, s, key[r], Touched(records[s][key[r]]))

\* the loop goes round: it has forwarded an event or, after Keepalive without
\* one, a keepalive, and _maybe_heartbeat renews the lease if that is due
StreamTurn(r) ==
  /\ pc[r] \in {"running", "stalled"} /\ Streaming(r)
  /\ pc' = [pc EXCEPT ![r] = "running"]
  /\ idle' = [idle EXCEPT ![r] = 0]
  /\ IF unrenewed[r] >= RenewEvery
     THEN /\ records' = Renewed(r, RouteOf(r))
          /\ unrenewed' = [unrenewed EXCEPT ![r] = 0]
     ELSE UNCHANGED <<records, unrenewed>>
  /\ UNCHANGED <<conf, disabled, pod, key, home, outcome, answer, outlived>>

\* the renewal finds Redis failing and goes to the pod's own store
TouchFailOpen(r) ==
  /\ Fault("outage") /\ pc[r] \in {"running", "stalled"} /\ Streaming(r)
  /\ RouteOf(r) = Shared /\ unrenewed[r] >= RenewEvery
  /\ disabled' = [disabled EXCEPT ![pod[r]] = TRUE]
  /\ pc' = [pc EXCEPT ![r] = "running"]
  /\ idle' = [idle EXCEPT ![r] = 0]
  /\ unrenewed' = [unrenewed EXCEPT ![r] = 0]
  /\ \E landed \in BOOLEAN :
       records' = Put(IF landed THEN Renewed(r, Shared) ELSE records,
                      pod[r], key[r], Touched(records[pod[r]][key[r]]))
  /\ UNCHANGED <<conf, pod, key, home, outcome, answer, outlived>>

\* the store of last resort raises: the renewal is skipped, and stays due
TouchRaises(r) ==
  /\ Fault("raise") /\ pc[r] \in {"running", "stalled"} /\ Streaming(r)
  /\ unrenewed[r] >= RenewEvery
  /\ pc' = [pc EXCEPT ![r] = "running"]
  /\ idle' = [idle EXCEPT ![r] = 0]
  /\ UNCHANGED <<conf, records, disabled, pod, key, home, outcome, unrenewed, answer, outlived>>

\* a client that does not read blocks the loop in its yield
Stall(r) ==
  /\ Fault("stall") /\ pc[r] = "running" /\ Streaming(r)
  /\ pc' = [pc EXCEPT ![r] = "stalled"]
  /\ UNCHANGED <<conf, records, disabled, pod, key, home, outcome, idle, unrenewed, answer,
                 outlived>>

\* the handler returns or raises; a terminal event of a stream is the same
HandlerReturns(r, o) ==
  /\ pc[r] = "running"
  /\ pc' = [pc EXCEPT ![r] = "storing"]
  /\ outcome' = [outcome EXCEPT ![r] = o]
  /\ TimersDropped({r})
  /\ UNCHANGED <<conf, records, disabled, pod, key, home, answer, outlived>>

-----------------------------------------------------------------------------
(* The terminal write.  A request whose write did not reach the store it    *)
(* began in ends "dropped", so that "done" means resolved.                  *)

Write(recs, r, s, o) == Put(recs, s, key[r], Resolved(recs[s][key[r]], o, r))
EndState(r, s) == IF s = home[r] THEN "done" ELSE "dropped"

StoreTerminal(r) ==
  /\ pc[r] = "storing"
  /\ records' = Write(records, r, RouteOf(r), outcome[r])
  /\ pc' = [pc EXCEPT ![r] = EndState(r, RouteOf(r))]
  /\ answer' = [answer EXCEPT ![r] = OwnAnswer(r, outcome[r])]
  /\ UNCHANGED <<conf, disabled, pod, key, home, outcome, idle, unrenewed, outlived>>

StoreFailOpen(r) ==
  /\ Fault("outage") /\ pc[r] = "storing" /\ RouteOf(r) = Shared
  /\ disabled' = [disabled EXCEPT ![pod[r]] = TRUE]
  /\ \E landed \in BOOLEAN :
       /\ records' = Write(IF landed THEN Write(records, r, Shared, outcome[r]) ELSE records,
                           r, pod[r], outcome[r])
       /\ pc' = [pc EXCEPT ![r] = IF landed THEN EndState(r, Shared) ELSE "dropped"]
  /\ answer' = [answer EXCEPT ![r] = OwnAnswer(r, outcome[r])]
  /\ UNCHANGED <<conf, pod, key, home, outcome, idle, unrenewed, outlived>>

\* cancelled in the awaited write, which may land all the same: invocation_resolved
\* is still False, so the finally clause fails the record next
InterruptStore(r) ==
  /\ Fault("interrupt") \/ Fault("raise")
  /\ pc[r] = "storing" /\ Suspends(RouteOf(r))
  /\ \E landed \in BOOLEAN :
       records' = IF landed THEN Write(records, r, RouteOf(r), outcome[r]) ELSE records
  /\ pc' = [pc EXCEPT ![r] = "aborting"]
  /\ UNCHANGED <<conf, disabled, pod, key, home, outcome, idle, unrenewed, answer, outlived>>

\* the client disconnects, or the server shuts down, under a running handler
InterruptHandler(r) ==
  /\ Fault("interrupt") /\ pc[r] \in {"running", "stalled"}
  /\ pc' = [pc EXCEPT ![r] = "aborting"]
  /\ TimersDropped({r})
  /\ UNCHANGED <<conf, records, disabled, pod, key, home, outcome, answer, outlived>>

\* [mutant] the finally clause does not fail the record
AbortFail_Omitted(r) ==
  /\ pc[r] = "aborting"
  /\ pc' = [pc EXCEPT ![r] = EndState(r, RouteOf(r))]
  /\ UNCHANGED <<conf, records, disabled, pod, key, home, outcome, idle, unrenewed, answer,
                 outlived>>
\* Tier A: the finally clause, after it has waited for the cancelled runner
AbortFail(r) ==
  /\ pc[r] = "aborting"
  /\ records' = Write(records, r, RouteOf(r), "failed")
  /\ pc' = [pc EXCEPT ![r] = EndState(r, RouteOf(r))]
  /\ UNCHANGED <<conf, disabled, pod, key, home, outcome, idle, unrenewed, answer, outlived>>

AbortFailOpen(r) ==
  /\ Fault("outage") /\ pc[r] = "aborting" /\ RouteOf(r) = Shared
  /\ disabled' = [disabled EXCEPT ![pod[r]] = TRUE]
  /\ \E landed \in BOOLEAN :
       /\ records' = Write(IF landed THEN Write(records, r, Shared, "failed") ELSE records,
                           r, pod[r], "failed")
       /\ pc' = [pc EXCEPT ![r] = IF landed THEN EndState(r, Shared) ELSE "dropped"]
  /\ UNCHANGED <<conf, pod, key, home, outcome, idle, unrenewed, answer, outlived>>

\* the write of the finally clause raises (logged), or is cancelled in its turn
AbortLost(r) ==
  /\ Fault("interrupt") \/ Fault("raise")
  /\ pc[r] = "aborting" /\ Suspends(RouteOf(r))
  /\ pc' = [pc EXCEPT ![r] = "dropped"]
  /\ UNCHANGED <<conf, records, disabled, pod, key, home, outcome, idle, unrenewed, answer,
                 outlived>>

\* a GET of /invocations/{id}, or of its events or result, finds Redis failing and
\* moves the whole pod to its own store
LookupFailOpen(p) ==
  /\ Fault("outage") /\ Route(p) = Shared
  /\ disabled' = [disabled EXCEPT ![p] = TRUE]
  /\ UNCHANGED <<conf, records, pc, pod, key, home, outcome, idle, unrenewed, answer, outlived>>

-----------------------------------------------------------------------------
(* The process and the clock.                                               *)

\* the pod dies, losing its dict, and is started again with Redis enabled
Crash(p) ==
  /\ Fault("crash")
  /\ LET killed == {r \in Requests : pod[r] = p /\ pc[r] \notin Closed \cup {"new"}} IN
       /\ pc' = [r \in Requests |-> IF r \in killed THEN "crashed" ELSE pc[r]]
       /\ TimersDropped(killed)
  /\ disabled' = [disabled EXCEPT ![p] = FALSE]
  /\ records' = IF p \in DurablePods THEN records
                ELSE [records EXCEPT ![p] = [k \in Keys |-> NoRecord]]
  /\ UNCHANGED <<conf, pod, key, home, outcome, answer, outlived>>

\* The clock does not pass a deadline of the event loop: the keepalive of a
\* stream that is being read, and a step that waits for nothing but a store.
Urgent(r) ==
  \/ pc[r] \in {"admitted", "storing"}
  \/ pc[r] = "running" /\ Streaming(r) /\ idle[r] = Keepalive

Watched(r) == pc[r] \in {"running", "stalled"} /\ Streaming(r)
UpTo(n, bound) == IF n < bound THEN n + 1 ELSE bound

\* Redis drops a record, of whatever status, Ttl after the last script that set it;
\* elsewhere age matters to the lease alone
Expires(s, rec) == s = Shared /\ rec.status # "absent" /\ rec.age + 1 >= Ttl
Aged(s, rec) ==
  IF Expires(s, rec) THEN NoRecord
  ELSE IF rec.status = "in_progress" \/ (s = Shared /\ rec.status # "absent")
  THEN [rec EXCEPT !.age = UpTo(rec.age, IF s = Shared THEN Ttl ELSE Lease + 1)]
  ELSE rec

Outliving ==
  {r \in Requests : pc[r] # "new" /\ home[r] = Shared /\ Expires(Shared, records[Shared][key[r]])}

Tick ==
  /\ \A r \in Requests : ~Urgent(r)
  /\ records' = [s \in Stores |-> [k \in Keys |-> Aged(s, records[s][k])]]
  /\ outlived' = outlived \cup Outliving
  /\ idle' = [r \in Requests |->
                IF Watched(r) THEN UpTo(idle[r], Keepalive) ELSE idle[r]]
  /\ unrenewed' = [r \in Requests |->
                     IF Watched(r) THEN UpTo(unrenewed[r], RenewEvery + Keepalive)
                     ELSE unrenewed[r]]
  /\ UNCHANGED <<conf, disabled, pc, pod, key, home, outcome, answer>>

-----------------------------------------------------------------------------
RequestStep(r) ==
  \/ \E p \in Pods, k \in conf.keys :
       Begin(r, p, k) \/ BeginFailOpen(r, p, k) \/ BeginInterrupted(r, p, k)
  \/ EnterHandler(r) \/ InterruptAdmitted(r)
  \/ StreamTurn(r) \/ TouchFailOpen(r) \/ TouchRaises(r) \/ Stall(r)
  \/ \E o \in {"completed", "failed"} : HandlerReturns(r, o)
  \/ StoreTerminal(r) \/ StoreFailOpen(r) \/ InterruptStore(r)
  \/ InterruptHandler(r) \/ AbortFail(r) \/ AbortFailOpen(r) \/ AbortLost(r)

Next ==
  \/ \E r \in Requests : RequestStep(r)
  \/ \E p \in Pods : LookupFailOpen(p) \/ Crash(p)
  \/ Tick

Spec == Init /\ [][Next]_vars

(* The event loop runs what is ready, and time passes.  Nothing is assumed  *)
(* of handlers or clients: a handler may run for ever and no retry need come. *)
Fairness ==
  /\ WF_vars(Tick)
  /\ \A r \in Requests :
       /\ WF_vars(EnterHandler(r)) /\ WF_vars(StoreTerminal(r))
       /\ WF_vars(pc[r] = "running" /\ StreamTurn(r))

FairSpec == Spec /\ Fairness

-----------------------------------------------------------------------------
(* Properties.                                                              *)

Live(r)   == pc[r] \in {"admitted", "running", "stalled"}
OnHome(r) == RouteOf(r) = home[r]
Held(r)   == records[home[r]][key[r]]   \* the record r was admitted under, or its successor

\* a stream handler at work that renews the record it was admitted under
Covered(r) == Live(r) /\ Streaming(r) /\ OnHome(r) /\ r \notin outlived

\* The record a request left in_progress, with no one left to resolve it.
Stranded(r) == Held(r).id = r /\ Held(r).status = "in_progress"

(* No idempotency key has two stream handlers at work at once in one store, *)
(* on whatever pods: start_or_get is atomic, and the renewals of the loop   *)
(* keep a running handler's record from being recycled, or dropped by Redis. *)
(* Not covered: a handler whose pod has failed over no longer renews the    *)
(* record it holds, and one that outlives its record, which takes a request *)
(* the key has left behind to fail it, whereupon touch no longer renews it. *)
StreamExclusion ==
  \A r1, r2 \in Requests : Covered(r1) /\ Covered(r2) /\ key[r1] = key[r2] /\ home[r1] = home[r2]
                           => r1 = r2

(* Why it holds, under the conditions it needs: a reading client, a store   *)
(* that answers, and a renewal that comes round before the lease lapses.    *)
(* The record of a covered handler is its own, and no older than the time   *)
(* since its last renewal, which the loop bounds.                           *)
LeaseFits == RenewEvery - 1 + Keepalive <= Lease
NoLoopFaults == \A d \in Deployments : d.faults \cap {"stall", "raise"} = {}

Owns(rec, r, limit) ==
  /\ rec.id = r /\ rec.status # "absent"
  /\ rec.status = "in_progress" => rec.age <= limit

ExclusionInv ==
  \A r \in Requests :
    /\ pc[r] # "stalled"
    /\ pc[r] \in {"new", "admitted"} => idle[r] = 0 /\ unrenewed[r] = 0
    /\ pc[r] = "running" => unrenewed[r] <= RenewEvery - 1 + idle[r]
    /\ Live(r) => home[r] \in {Shared, RouteOf(r)}
    /\ Covered(r) => Owns(Held(r), r, unrenewed[r])

(* Tier A: a handler that was left in an orderly way, by return, exception  *)
(* or cancellation, and whose terminal write reached its store, has not     *)
(* left its record in_progress.                                             *)
TierAResolves == \A r \in Requests : pc[r] = "done" => ~Stranded(r)

\* the stores that pods begin with, the others only stand in for Redis, and
\* those of them that outlive a process
Primary == {Shared} \cup (Pods \ SharedPods)
Lasting == {s \in Primary : Suspends(s)}

(* Whoever is given a result for a stream key of one lasting store, as the  *)
(* owner whose result that store took or as a replay, on any pod and across *)
(* crashes and Redis outages, is given the same one, up to the expiry of    *)
(* the record: the result of a handler whose record has since expired is    *)
(* not held against that of the handler which a later retry started.        *)
Told(r) == answer[r].kind \in {"result", "replay"} /\ pc[r] = "done"
AnswersAgree ==
  \A r1, r2 \in Requests :
    /\ Told(r1) /\ Told(r2) /\ key[r1] = key[r2] /\ key[r1] \in StreamKeys
    /\ home[r1] = home[r2] /\ home[r1] \in Lasting
    /\ {answer[r1].by, answer[r2].by} \cap outlived = {}
    => answer[r1].by = answer[r2].by

(* A completed stream record of a primary store, from which retries are     *)
(* replayed, is taken away or replaced in four ways only: by the finally    *)
(* clause of an aborting request (complete and fail address the key, so it  *)
(* may be a handler that the key has outlived, or the one whose completion  *)
(* was interrupted after it landed); by the death of the process that keeps *)
(* it in a dict; by Redis, Ttl after the terminal write and not before; and *)
(* by the end of a handler, if that or the one whose result it replaces has *)
(* outlived its own record.                                                 *)
SameRecord(rec1, rec2) == [rec1 EXCEPT !.age = 0] = [rec2 EXCEPT !.age = 0]

UndoneByAbort(k) == \E r \in Requests : pc[r] = "aborting" /\ key[r] = k /\ pc'[r] \in Closed
UndoneByDeath(s, k) == s \notin Lasting /\ records'[s][k] = NoRecord
UndoneByTtl(s, k) ==
  s = Shared /\ records[s][k].age + 1 >= Ttl /\ records'[s][k] = NoRecord /\ pc' = pc
UndoneByOutliving(s, k) ==
  \E r \in Requests :
    /\ pc[r] = "storing" /\ key[r] = k /\ pc'[r] # "storing"
    /\ {r, records[s][k].by} \cap outlived # {}

CompletedStaysPut ==
  [][\A s \in Primary, k \in StreamKeys :
       records[s][k].status = "completed" /\ ~SameRecord(records[s][k], records'[s][k])
       => UndoneByAbort(k) \/ UndoneByDeath(s, k) \/ UndoneByTtl(s, k) \/ UndoneByOutliving(s, k)]_vars

(* Tier B: a key whose owner is gone, and that no live loop still renews,   *)
(* becomes free for a retry: its record goes stale.                         *)
Orphaned(s, k) ==
  /\ records[s][k].status = "in_progress"
  /\ \A r \in Requests : ~(Live(r) /\ key[r] = k /\ RouteOf(r) = s)
TierBFreesKey ==
  \A s \in Stores, k \in Keys :
    Orphaned(s, k) ~> (~Orphaned(s, k) \/ IsLeaseStale(records[s][k]))

(* What comments and messages of runtime.py say and the code does not keep. *)

(* runtime.py:649 "the finally calls fail so the record reaches a terminal  *)
(* state even on ... client disconnect".                                    *)
DisconnectReachesTerminal ==
  \A r \in Requests : pc[r] \in {"done", "dropped"} => ~Stranded(r)

(* sdk-api.md:677 the lease of an invocation is renewed while its handler   *)
(* runs: no two invoke handlers of a key run in one store.                  *)
InvokeExclusion ==
  \A r1, r2 \in Requests :
    /\ Live(r1) /\ Live(r2) /\ OnHome(r1) /\ OnHome(r2)
    /\ ~Streaming(r1) /\ key[r1] = key[r2] /\ home[r1] = home[r2]
    => r1 = r2
=============================================================================
