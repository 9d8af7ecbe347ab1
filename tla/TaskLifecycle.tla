---------------------------- MODULE TaskLifecycle ----------------------------
(***************************************************************************)
(* Tasks mode of the Python agent runtime (runtime.py): the task store,    *)
(* the endpoints POST /tasks and POST /tasks/{id}/cancel, and _run_task,   *)
(* which runs the handler in the background and settles the record.        *)
(*                                                                         *)
(* The in-memory store never suspends its caller, so whatever a coroutine  *)
(* does between two waits of its own is one block for the event loop; every *)
(* call to the SQLite store is a to_thread, at which the loop may run      *)
(* someone else.  The steps below are those of the SQLite store, and the   *)
(* in-memory store is the same steps with no one let in between (Turn).    *)
(*                                                                         *)
(* What a handler does while it runs is left open: it may report that it    *)
(* waits or goes on (ctx.set_status, which ctx.ask and the worker facade    *)
(* call on the way in and out; MidRunAsk has the rest of ask), return,      *)
(* raise, or unwind because it was cancelled.  Assumed of it: it reports no *)
(* terminal status, and resumes before it waits another way, so that        *)
(* "waiting_for_human" stands for "waiting_for_input" too.                  *)
(***************************************************************************)
EXTENDS Integers, SequencesExt

CONSTANTS
  Tasks,      \* task ids, one per POST /tasks
  Keys,       \* idempotency keys
  NoKey,      \* a POST that carries none
  Cancels,    \* cancel requests
  Deployments \* the ways the agent may be deployed

Deployment ==
  [durable  : BOOLEAN,  \* SqliteTaskStore rather than InMemoryTaskStore
   capacity : Nat,      \* max_tasks of the in-memory store; 0 is unbounded
   faults   : SUBSET {"expire", "crash", "unserialisable"}]

ASSUME ConstantsAssumption ==
  /\ NoKey \notin Keys
  /\ Deployments \subseteq Deployment
  /\ \A d \in Deployments : d.durable => d.capacity = 0 /\ "expire" \notin d.faults

VARIABLES
  conf,       \* how this agent is deployed; it never changes
  status,     \* per task: the status in its record, "gone" once evicted
  order,      \* the stored tasks, oldest first
  keyOf,      \* the idempotency key of each POST, and of its record if it made one
  runner,     \* where each task is between POST /tasks and the end of _run_task
  saying,     \* the status whose status_changed event is to be appended next
  outcome,    \* the status set_task_result is to write
  announced,  \* the status of the last status_changed event of the log
  ended,      \* how many task_completed and task_failed events the log has
  cancelEv,   \* the task's cancel event is set
  registered, \* the event is in _cancel_events
  cpc, ctask  \* each cancel request: its progress and its task

vars == <<conf, status, order, keyOf, runner, saying, outcome, announced, ended,
          cancelEv, registered, cpc, ctask>>

Durable  == conf.durable
MaxTasks == conf.capacity
Faults   == conf.faults

Terminal == {"completed", "failed", "cancelled"}
Active   == {"pending", "running", "waiting_for_human"}
Statuses == Active \cup Terminal \cup {"none", "gone"}

RunnerPCs == {"none", "hit", "creating", "queued", "saying", "handler", "unwinding",
              "settling", "failing", "cancelling", "ending", "done", "dead"}
CancelPCs == {"idle", "checked", "set", "accepted", "refused", "dead"}

Stored(t) == status[t] \in Active \cup Terminal

(* The store holds each key once, and never more tasks than its capacity.   *)
StoreWellFormed ==
  /\ MaxTasks > 0 => Len(order) <= MaxTasks
  /\ {t \in Tasks : Stored(t)} = ToSet(order)
  /\ \A t, u \in ToSet(order) : keyOf[t] = keyOf[u] /\ keyOf[t] # NoKey => t = u

TypeOK ==
  /\ conf \in Deployments
  /\ status \in [Tasks -> Statuses]
  /\ order \in Seq(Tasks)
  /\ keyOf \in [Tasks -> Keys \cup {NoKey}]
  /\ runner \in [Tasks -> RunnerPCs]
  /\ saying \in [Tasks -> {"running", "waiting_for_human"}]
  /\ outcome \in [Tasks -> Terminal \cup {"none"}]
  /\ announced \in [Tasks -> {"none", "running", "waiting_for_human"}]
  /\ ended \in [Tasks -> 0..1]
  /\ cancelEv \in [Tasks -> BOOLEAN]
  /\ registered \in [Tasks -> BOOLEAN]
  /\ cpc \in [Cancels -> CancelPCs]
  /\ ctask \in [Cancels -> Tasks \cup {NoKey}]
  /\ StoreWellFormed

Init ==
  /\ conf \in Deployments
  /\ status = [t \in Tasks |-> "none"]
  /\ order = <<>>
  /\ keyOf = [t \in Tasks |-> NoKey]
  /\ runner = [t \in Tasks |-> "none"]
  /\ saying = [t \in Tasks |-> "running"]
  /\ outcome = [t \in Tasks |-> "none"]
  /\ announced = [t \in Tasks |-> "none"]
  /\ ended = [t \in Tasks |-> 0]
  /\ cancelEv = [t \in Tasks |-> FALSE]
  /\ registered = [t \in Tasks |-> FALSE]
  /\ cpc = [c \in Cancels |-> "idle"]
  /\ ctask = [c \in Cancels |-> NoKey]

-----------------------------------------------------------------------------
(* Whose turn it is.  A coroutine is in the middle of a block from its      *)
(* first call to the store until it waits for something else.               *)

MidBlock == {"creating", "saying", "settling", "failing", "cancelling", "ending"}

Turn(inBlock) ==
  Durable \/ inBlock \/ /\ \A t \in Tasks : runner[t] \notin MidBlock
                        /\ \A c \in Cancels : cpc[c] \notin {"checked", "set"}

RunnerTurn(t) == Turn(runner[t] \in MidBlock)
CancelTurn(c) == Turn(cpc[c] \in {"checked", "set"})

-----------------------------------------------------------------------------
(* The store.                                                               *)

\* the transition table of the protocol package
ValidTransition(from, to) ==
  \/ from = "pending" /\ to \in {"running", "cancelled", "failed", "completed"}
  \/ from = "running" /\ to \in {"waiting_for_human"} \cup Terminal
  \/ from = "waiting_for_human" /\ to \in {"running"} \cup Terminal

\* update_task_status
Updated(from, to) == IF ValidTransition(from, to) THEN to ELSE from

\* [mutant] a result is only taken from a running task
Overwritten_OnlyRunning(from, to) == IF from = "running" THEN to ELSE from

\* the status part of set_task_result and of set_task_error: no status is refused
Overwritten(from, to) == IF from \in Active \cup Terminal THEN to ELSE from

\* [mutant] cancel_task does not look at the status
Cancelled_Any(from) == IF from \in Active \cup Terminal THEN "cancelled" ELSE from

\* cancel_task
Cancelled(from) == IF from \in Active THEN "cancelled" ELSE from

\* append_event of a status_changed: the log of an evicted task is gone
Announce(t, s) == announced' = [announced EXCEPT ![t] = IF Stored(t) THEN s ELSE @]

\* what eviction leaves of the statuses when it drops the tasks of a prefix
Evicted(dropped) == [t \in Tasks |-> IF t \in dropped THEN "gone" ELSE status[t]]

\* _evict_expired_locked drops what is older than the TTL: some prefix
Expirable == IF "expire" \in Faults THEN 0..Len(order) ELSE {0}

Prefix(n) == ToSet(SubSeq(order, 1, n))
After(n)  == SubSeq(order, n + 1, Len(order))

\* [mutant] the key is not looked up
Holder_None(seq, k) == {}

Holder(seq, k) == {u \in ToSet(seq) : k # NoKey /\ keyOf[u] = k}

\* create_task: expire, then replay a key, then make room, then insert
CreateTask(t, k) ==
  /\ runner[t] = "none" /\ Turn(FALSE)
  /\ \E n \in Expirable :
       IF Holder(After(n), k) # {}
       THEN /\ order' = After(n)
            /\ status' = Evicted(Prefix(n))
            /\ runner' = [runner EXCEPT ![t] = "hit"]
       ELSE LET full == MaxTasks > 0 /\ Len(order) - n >= MaxTasks
                m    == IF full THEN n + 1 ELSE n
            IN /\ order' = Append(After(m), t)
               /\ status' = [Evicted(Prefix(m)) EXCEPT ![t] = "pending"]
               /\ runner' = [runner EXCEPT ![t] = "creating"]
  /\ keyOf' = [keyOf EXCEPT ![t] = k]
  /\ UNCHANGED <<conf, saying, outcome, announced, ended, cancelEv, registered, cpc, ctask>>

\* evict_expired, for a background sweeper
EvictExpired(n) ==
  /\ Turn(FALSE) /\ n \in Expirable
  /\ order' = After(n)
  /\ status' = Evicted(Prefix(n))
  /\ UNCHANGED <<conf, keyOf, runner, saying, outcome, announced, ended,
                 cancelEv, registered, cpc, ctask>>

-----------------------------------------------------------------------------
(* POST /tasks after create_task, and _run_task.                            *)

Runner(t, at, to) == RunnerTurn(t) /\ runner[t] = at /\ runner' = [runner EXCEPT ![t] = to]

\* the cancel event is registered and _run_task is queued behind the response
Register(t) ==
  /\ Runner(t, "creating", "queued")
  /\ registered' = [registered EXCEPT ![t] = TRUE]
  /\ UNCHANGED <<conf, status, order, keyOf, saying, outcome, announced, ended, cancelEv, cpc, ctask>>

\* set_status: the record may refuse the transition, the event follows anyway
Report(t, from, s) ==
  /\ Runner(t, from, "saying")
  /\ status' = [status EXCEPT ![t] = Updated(@, s)]
  /\ saying' = [saying EXCEPT ![t] = s]
  /\ UNCHANGED <<conf, order, keyOf, outcome, announced, ended, cancelEv, registered, cpc, ctask>>

Start(t) == Report(t, "queued", "running")
HandlerReports(t, s) == Report(t, "handler", s)

Say(t) ==
  /\ Runner(t, "saying", "handler")
  /\ Announce(t, saying[t])
  /\ UNCHANGED <<conf, status, order, keyOf, saying, outcome, ended, cancelEv, registered, cpc, ctask>>

\* [mutant] the result of a cancelled handler is stored
HandlerReturns_IgnoresCancel(t, o) ==
  /\ Runner(t, "handler", "settling")
  /\ outcome' = [outcome EXCEPT ![t] = o]
  /\ UNCHANGED <<conf, status, order, keyOf, saying, announced, ended, cancelEv, registered,
                 cpc, ctask>>

\* is_cancelled is looked at once, before the first await of the settlement
HandlerReturns(t, o) ==
  /\ Runner(t, "handler", IF cancelEv[t] THEN "done" ELSE "settling")
  /\ outcome' = [outcome EXCEPT ![t] = IF cancelEv[t] THEN "none" ELSE o]
  /\ registered' = [registered EXCEPT ![t] = ~cancelEv[t]]
  /\ UNCHANGED <<conf, status, order, keyOf, saying, announced, ended, cancelEv, cpc, ctask>>

\* set_task_result
Settle(t) ==
  /\ Runner(t, "settling", "ending")
  /\ status' = [status EXCEPT ![t] = Overwritten(@, outcome[t])]
  /\ UNCHANGED <<conf, order, keyOf, saying, outcome, announced, ended,
                 cancelEv, registered, cpc, ctask>>

\* SQLite only: the result does not serialise, and the exception is the handler's
SettleRaises(t) ==
  /\ Durable /\ "unserialisable" \in Faults
  /\ Runner(t, "settling", "failing")
  /\ UNCHANGED <<conf, status, order, keyOf, saying, outcome, announced, ended,
                 cancelEv, registered, cpc, ctask>>

\* any exception but CancelledError, whether or not the task was cancelled
HandlerRaises(t) ==
  /\ runner[t] \in {"handler", "unwinding"}
  /\ Runner(t, runner[t], "failing")
  /\ UNCHANGED <<conf, status, order, keyOf, saying, outcome, announced, ended,
                 cancelEv, registered, cpc, ctask>>

\* set_task_error
SettleError(t) ==
  /\ Runner(t, "failing", "ending")
  /\ status' = [status EXCEPT ![t] = Overwritten(@, "failed")]
  /\ UNCHANGED <<conf, order, keyOf, saying, outcome, announced, ended,
                 cancelEv, registered, cpc, ctask>>

\* [mutant] appending the terminal event may raise, and that is the handler's failure
End_MayRaise(t) ==
  /\ \E to \in {"done", "failing"} : Runner(t, "ending", to)
  /\ ended' = [ended EXCEPT ![t] = IF Stored(t) THEN @ + 1 ELSE @]
  /\ registered' = [registered EXCEPT ![t] = FALSE]
  /\ UNCHANGED <<conf, status, order, keyOf, saying, outcome, announced, cancelEv, cpc, ctask>>

\* the terminal event, if the record is still there, and the finally clause
End(t) ==
  /\ Runner(t, "ending", "done")
  /\ ended' = [ended EXCEPT ![t] = IF Stored(t) THEN @ + 1 ELSE @]
  /\ registered' = [registered EXCEPT ![t] = FALSE]
  /\ UNCHANGED <<conf, status, order, keyOf, saying, outcome, announced, cancelEv, cpc, ctask>>

\* a handler that waits in ask is woken by the event with CancelledError; it may
\* do away with it and go on
Unwind(t) ==
  /\ cancelEv[t] /\ Runner(t, "handler", "unwinding")
  /\ UNCHANGED <<conf, status, order, keyOf, saying, outcome, announced, ended,
                 cancelEv, registered, cpc, ctask>>

Swallow(t) ==
  /\ Runner(t, "unwinding", "handler")
  /\ UNCHANGED <<conf, status, order, keyOf, saying, outcome, announced, ended,
                 cancelEv, registered, cpc, ctask>>

\* CancelledError reaches _run_task, which cancels the record
Propagate(t) ==
  /\ Runner(t, "unwinding", "cancelling")
  /\ UNCHANGED <<conf, status, order, keyOf, saying, outcome, announced, ended,
                 cancelEv, registered, cpc, ctask>>

RecordCancelled(t) ==
  /\ Runner(t, "cancelling", "done")
  /\ status' = [status EXCEPT ![t] = Cancelled(@)]
  /\ registered' = [registered EXCEPT ![t] = FALSE]
  /\ UNCHANGED <<conf, order, keyOf, saying, outcome, announced, ended, cancelEv, cpc, ctask>>

-----------------------------------------------------------------------------
(* POST /tasks/{id}/cancel: read the record, set the event, write.          *)

Cancel(c, at, to) == CancelTurn(c) /\ cpc[c] = at /\ cpc' = [cpc EXCEPT ![c] = to]

\* the client has the id: from the response to its POST, or to a duplicate of it
Known(t) ==
  /\ status[t] # "none"
  /\ runner[t] = "creating" => \E u \in Tasks : runner[u] = "hit" /\ keyOf[u] = keyOf[t]

CancelRead(c, t) ==
  /\ Cancel(c, "idle", IF status[t] \in Active THEN "checked" ELSE "refused")
  /\ Known(t)
  /\ ctask' = [ctask EXCEPT ![c] = t]
  /\ UNCHANGED <<conf, status, order, keyOf, runner, saying, outcome, announced, ended,
                 cancelEv, registered>>

CancelSet(c) ==
  /\ Cancel(c, "checked", "set")
  /\ cancelEv' = [cancelEv EXCEPT ![ctask[c]] = @ \/ registered[ctask[c]]]
  /\ UNCHANGED <<conf, status, order, keyOf, runner, saying, outcome, announced, ended,
                 registered, ctask>>

\* cancel_task, whose verdict the endpoint drops: it answers "cancelled" in any case
CancelWrite(c) ==
  /\ Cancel(c, "set", "accepted")
  /\ status' = [status EXCEPT ![ctask[c]] = Cancelled(@)]
  /\ UNCHANGED <<conf, order, keyOf, runner, saying, outcome, announced, ended,
                 cancelEv, registered, ctask>>

\* the process dies and is started again: nothing resumes a task it was running
Crash ==
  /\ "crash" \in Faults
  /\ runner' = [t \in Tasks |-> IF runner[t] \in {"none", "hit", "done"}
                                THEN runner[t] ELSE "dead"]
  /\ cpc' = [c \in Cancels |-> IF cpc[c] \in {"checked", "set"} THEN "dead" ELSE cpc[c]]
  /\ registered' = [t \in Tasks |-> FALSE]
  /\ order' = IF Durable THEN order ELSE <<>>
  /\ status' = IF Durable THEN status ELSE Evicted(ToSet(order))
  /\ UNCHANGED <<conf, keyOf, saying, outcome, announced, ended, cancelEv, ctask>>

-----------------------------------------------------------------------------
RunnerStep(t) ==
  \/ Register(t) \/ Start(t) \/ Say(t)
  \/ Settle(t) \/ SettleRaises(t) \/ SettleError(t) \/ End(t)
  \/ Propagate(t) \/ RecordCancelled(t)

HandlerStep(t) ==
  \/ \E s \in {"running", "waiting_for_human"} : HandlerReports(t, s)
  \/ \E o \in Terminal : HandlerReturns(t, o)
  \/ HandlerRaises(t) \/ Unwind(t) \/ Swallow(t)

CancelStep(c) ==
  \/ \E t \in Tasks : CancelRead(c, t)
  \/ CancelSet(c) \/ CancelWrite(c)

Next ==
  \/ \E t \in Tasks : RunnerStep(t) \/ HandlerStep(t)
  \/ \E t \in Tasks, k \in Keys \cup {NoKey} : CreateTask(t, k)
  \/ \E n \in 1..Len(order) : EvictExpired(n)
  \/ \E c \in Cancels : CancelStep(c)
  \/ Crash

Spec == Init /\ [][Next]_vars

(* The event loop and the store's threads get on with what is pending, and  *)
(* a handler, if it is asked often enough, ends.                            *)
Fairness ==
  /\ \A t \in Tasks :
       /\ WF_vars(RunnerStep(t))
       /\ SF_vars(HandlerRaises(t) \/ \E o \in Terminal : HandlerReturns(t, o))
  /\ \A c \in Cancels : WF_vars(CancelSet(c) \/ CancelWrite(c))

FairSpec == Spec /\ Fairness

-----------------------------------------------------------------------------
(* Properties.                                                              *)

InRun(t) == runner[t] \in RunnerPCs \ {"none", "hit", "done", "dead"}

(* Of the POSTs that carry one idempotency key, at most one has a run: the  *)
(* others are given its task, across restarts too with SQLite.  A store     *)
(* that evicts forgets the key of a task that still runs.                   *)
OneRunPerKey ==
  \A t, u \in Tasks :
    /\ MaxTasks = 0 /\ "expire" \notin Faults
    /\ keyOf[t] = keyOf[u] /\ keyOf[t] # NoKey
    /\ Stored(t) \/ InRun(t)
    /\ Stored(u) \/ InRun(u)
    => t = u

(* A task that completed or failed keeps that status; only eviction ends it. *)
SettledIsFinal ==
  [][\A t \in Tasks : status[t] \in {"completed", "failed"}
                       => status'[t] \in {status[t], "gone"}]_vars

(* With the in-memory store a cancellation that was answered with 202 is    *)
(* never undone by a result: the task stays cancelled, or fails.            *)
CancelBeatsResult ==
  \A c \in Cancels :
    ~Durable /\ cpc[c] = "accepted" => status[ctask[c]] \in {"cancelled", "failed", "gone"}

(* Whenever a handler that was not cancelled is back in its own code, the   *)
(* last status_changed event of the log is the status of the record.        *)
LogFollowsStatus ==
  \A t \in Tasks :
    runner[t] = "handler" /\ status[t] \in Active => announced[t] = status[t]

(* What a client or a reader of the log was told is what the record says.   *)
WhatWasToldHolds == CancelBeatsResult /\ LogFollowsStatus

(* In a process that does not die every task whose run is under way reaches *)
(* a terminal status, cancelled or not, whichever way its handler ends.     *)
TaskSettles ==
  \A t \in Tasks :
    "crash" \notin Faults /\ InRun(t) ~> status[t] \in Terminal \cup {"gone"}

(* conformance.py:915 the cancel endpoint answers "202 (cancelled) or 409   *)
(* (already terminal)": when it answers 202 the task has been cancelled.    *)
AcceptedCancelTakesEffect ==
  [][\A c \in Cancels : cpc[c] = "set" /\ cpc'[c] = "accepted"
                         => status'[ctask[c]] \in {"cancelled", "gone"}]_vars
=============================================================================
