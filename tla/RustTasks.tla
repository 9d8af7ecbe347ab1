------------------------------ MODULE RustTasks ------------------------------
(***************************************************************************)
(* Tasks mode of the Rust SDK (a2a_runtime.rs): the two task stores, POST  *)
(* /tasks with the tokio task that runs the handler, and POST              *)
(* /tasks/{id}/cancel.                                                     *)
(*                                                                         *)
(* The in-memory store does everything under one lock.  The SQLite store   *)
(* reads a status under the lock, lets go of it, and writes under the lock *)
(* again, so that the workers of the runtime come in between: the steps    *)
(* below are its own, and in memory nobody else moves between the two      *)
(* halves of a call (Turn).                                                *)
(***************************************************************************)
EXTENDS Integers, FiniteSets

CONSTANTS
  Tasks,    \* task ids, one per POST /tasks
  Keys,     \* idempotency keys
  NoKey,    \* a POST that carries none
  Cancels,  \* cancel requests
  Reported, \* the statuses that handlers report, of all that the SDK lets them
  Deployments \* the ways the agent may be deployed

Deployment ==
  [durable : BOOLEAN,                    \* SqliteTaskStore, not InMemoryTaskStore
   faults  : SUBSET {"panic", "crash"}]  \* a handler panics; the process dies

Terminal == {"completed", "failed", "cancelled"}
Active   == {"queued", "running", "waiting_for_human"}
Statuses == Active \cup Terminal \cup {"none"}

ASSUME ConstantsAssumption ==
  /\ NoKey \notin Keys \cup Tasks
  /\ Deployments \subseteq Deployment
  /\ Reported \subseteq Active \cup Terminal

VARIABLES
  conf,     \* how this agent is deployed; it never changes
  status,   \* per task: the status in its record
  holder,   \* the task each idempotency key stands for
  flag,     \* what is_cancelled answers the handler
  result,   \* whether the record has a result
  keyOf,    \* the key of each POST
  runner,   \* where each spawned task is
  seen,     \* the status its store call has read, "none" between calls
  target,   \* the status its update_status is to write
  cpc, ctask, cseen  \* each cancel request, its task and the status it has read

vars == <<conf, status, holder, flag, result, keyOf, runner, seen, target, cpc, ctask, cseen>>

Durable == conf.durable
Faults  == conf.faults

RunnerPCs == {"none", "hit", "queued", "setting", "handler", "settling", "failing",
              "noting", "done", "dead"}

TypeOK ==
  /\ conf \in Deployments
  /\ status \in [Tasks -> Statuses]
  /\ holder \in [Keys -> Tasks \cup {NoKey}]
  /\ flag \in [Tasks -> BOOLEAN]
  /\ result \in [Tasks -> BOOLEAN]
  /\ keyOf \in [Tasks -> Keys \cup {NoKey}]
  /\ runner \in [Tasks -> RunnerPCs]
  /\ seen \in [Tasks -> Statuses]
  /\ target \in [Tasks -> Statuses]
  /\ cpc \in [Cancels -> {"idle", "read", "accepted", "refused", "dead"}]
  /\ ctask \in [Cancels -> Tasks \cup {NoKey}]
  /\ cseen \in [Cancels -> Statuses]

Init ==
  /\ conf \in Deployments
  /\ status = [t \in Tasks |-> "none"]
  /\ holder = [k \in Keys |-> NoKey]
  /\ flag = [t \in Tasks |-> FALSE]
  /\ result = [t \in Tasks |-> FALSE]
  /\ keyOf = [t \in Tasks |-> NoKey]
  /\ runner = [t \in Tasks |-> "none"]
  /\ seen = [t \in Tasks |-> "none"]
  /\ target = [t \in Tasks |-> "none"]
  /\ cpc = [c \in Cancels |-> "idle"]
  /\ ctask = [c \in Cancels |-> NoKey]
  /\ cseen = [c \in Cancels |-> "none"]

-----------------------------------------------------------------------------
\* a call to the store that has read and not yet written
MidCall(t) == runner[t] \in {"setting", "noting"}

Turn(inCall) ==
  \/ Durable \/ inCall
  \/ /\ \A t \in Tasks : ~MidCall(t)
     /\ \A c \in Cancels : cpc[c] # "read"

IsTerminal(s) == s \in Terminal

\* [mutant] only a running task is written
Unless_OnlyRunning(read, old, new) == IF read = "running" THEN new ELSE old

\* the second half of update_status, set_error and cancel: nothing is written if
\* the status that was read is terminal, whatever the status is by now
Unless(read, old, new) == IF IsTerminal(read) THEN old ELSE new

-----------------------------------------------------------------------------
(* POST /tasks.                                                             *)

\* [mutant] the key is not entered in the index
CreateTask_KeyNotKept(t, k) ==
  /\ runner[t] = "none" /\ Turn(FALSE)
  /\ status' = [status EXCEPT ![t] = "queued"]
  /\ runner' = [runner EXCEPT ![t] = "queued"]
  /\ keyOf' = [keyOf EXCEPT ![t] = k]
  /\ UNCHANGED <<conf, holder, flag, result, seen, target, cpc, ctask, cseen>>

CreateTask(t, k) ==
  /\ runner[t] = "none" /\ Turn(FALSE)
  /\ keyOf' = [keyOf EXCEPT ![t] = k]
  /\ IF k # NoKey /\ holder[k] # NoKey
     THEN /\ runner' = [runner EXCEPT ![t] = "hit"]
          /\ UNCHANGED <<status, holder>>
     ELSE /\ runner' = [runner EXCEPT ![t] = "queued"]
          /\ status' = [status EXCEPT ![t] = "queued"]
          /\ holder' = [j \in Keys |-> IF j = k THEN t ELSE holder[j]]
  /\ UNCHANGED <<conf, flag, result, seen, target, cpc, ctask, cseen>>

-----------------------------------------------------------------------------
(* The spawned task.                                                        *)

Runner(t, at, to) ==
  /\ runner[t] = at /\ Turn(MidCall(t))
  /\ runner' = [runner EXCEPT ![t] = to]

\* update_status reads: for the runtime (running) or for the handler, whose
\* wait_for_human is update_status and an event
UpdateRead(t, at, s) ==
  /\ Runner(t, at, "setting")
  /\ seen' = [seen EXCEPT ![t] = status[t]]
  /\ target' = [target EXCEPT ![t] = s]
  /\ UNCHANGED <<conf, status, holder, flag, result, keyOf, cpc, ctask, cseen>>

Start(t) == UpdateRead(t, "queued", "running")

SetStatus(t, s) == UpdateRead(t, "handler", s)

UpdateWrite(t) ==
  /\ Runner(t, "setting", "handler")
  /\ status' = [status EXCEPT ![t] = Unless(seen[t], @, target[t])]
  /\ seen' = [seen EXCEPT ![t] = "none"]
  /\ target' = [target EXCEPT ![t] = "none"]
  /\ UNCHANGED <<conf, holder, flag, result, keyOf, cpc, ctask, cseen>>

\* Ok(output) or Err(e)
HandlerReturns(t, ok) ==
  /\ Runner(t, "handler", IF ok THEN "settling" ELSE "failing")
  /\ UNCHANGED <<conf, status, holder, flag, result, keyOf, seen, target, cpc, ctask, cseen>>

\* set_result looks at nothing
SetResult(t) ==
  /\ Runner(t, "settling", "done")
  /\ status' = [status EXCEPT ![t] = "completed"]
  /\ result' = [result EXCEPT ![t] = TRUE]
  /\ UNCHANGED <<conf, holder, flag, keyOf, seen, target, cpc, ctask, cseen>>

SetErrorRead(t) ==
  /\ Runner(t, "failing", "noting")
  /\ seen' = [seen EXCEPT ![t] = status[t]]
  /\ UNCHANGED <<conf, status, holder, flag, result, keyOf, target, cpc, ctask, cseen>>

SetErrorWrite(t) ==
  /\ Runner(t, "noting", "done")
  /\ status' = [status EXCEPT ![t] = Unless(seen[t], @, "failed")]
  /\ seen' = [seen EXCEPT ![t] = "none"]
  /\ UNCHANGED <<conf, holder, flag, result, keyOf, target, cpc, ctask, cseen>>

\* a panic ends the tokio task, and nobody looks at its JoinHandle
HandlerPanics(t) ==
  /\ "panic" \in Faults
  /\ Runner(t, "handler", "dead")
  /\ UNCHANGED <<conf, status, holder, flag, result, keyOf, seen, target, cpc, ctask, cseen>>

-----------------------------------------------------------------------------
(* POST /tasks/{id}/cancel.                                                 *)

Known(t) == status[t] # "none"

CancelRead(c, t) ==
  /\ cpc[c] = "idle" /\ Turn(FALSE) /\ Known(t)
  /\ cpc' = [cpc EXCEPT ![c] = "read"]
  /\ ctask' = [ctask EXCEPT ![c] = t]
  /\ cseen' = [cseen EXCEPT ![c] = status[t]]
  /\ UNCHANGED <<conf, status, holder, flag, result, keyOf, runner, seen, target>>

CancelWrite(c) ==
  LET t == ctask[c] IN
  /\ cpc[c] = "read"
  /\ cpc' = [cpc EXCEPT ![c] = IF IsTerminal(cseen[c]) THEN "refused" ELSE "accepted"]
  /\ status' = [status EXCEPT ![t] = Unless(cseen[c], @, "cancelled")]
  /\ flag' = [flag EXCEPT ![t] = @ \/ ~IsTerminal(cseen[c])]
  /\ cseen' = [cseen EXCEPT ![c] = "none"]
  /\ UNCHANGED <<conf, holder, result, keyOf, runner, seen, target, ctask>>

\* the process dies and is started again; only SQLite remembers, and nothing runs
Crash ==
  /\ "crash" \in Faults
  /\ runner' = [t \in Tasks |-> IF runner[t] \in {"none", "hit", "done"} THEN runner[t]
                                ELSE "dead"]
  /\ cpc' = [c \in Cancels |-> IF cpc[c] = "read" THEN "dead" ELSE cpc[c]]
  /\ IF Durable THEN UNCHANGED <<status, holder, flag, result>>
     ELSE /\ status' = [t \in Tasks |-> "none"]
          /\ holder' = [k \in Keys |-> NoKey]
          /\ flag' = [t \in Tasks |-> FALSE]
          /\ result' = [t \in Tasks |-> FALSE]
  /\ seen' = [t \in Tasks |-> "none"]
  /\ target' = [t \in Tasks |-> "none"]
  /\ cseen' = [c \in Cancels |-> "none"]
  /\ UNCHANGED <<conf, keyOf, ctask>>

-----------------------------------------------------------------------------
StoreStep(t) ==
  Start(t) \/ UpdateWrite(t) \/ SetResult(t) \/ SetErrorRead(t) \/ SetErrorWrite(t)

Next ==
  \/ \E t \in Tasks :
       \/ \E k \in Keys \cup {NoKey} : CreateTask(t, k)
       \/ StoreStep(t)
       \/ \E s \in Reported : SetStatus(t, s)
       \/ \E ok \in BOOLEAN : HandlerReturns(t, ok)
       \/ HandlerPanics(t)
  \/ \E c \in Cancels : CancelWrite(c) \/ \E t \in Tasks : CancelRead(c, t)
  \/ Crash

Spec == Init /\ [][Next]_vars

(* The runtime's workers get on, and a handler, asked often enough, returns. *)
Fairness ==
  /\ \A t \in Tasks :
       WF_vars(StoreStep(t)) /\ SF_vars(\E ok \in BOOLEAN : HandlerReturns(t, ok))
  /\ \A c \in Cancels : WF_vars(CancelWrite(c))

FairSpec == Spec /\ Fairness

-----------------------------------------------------------------------------
(* Properties.                                                              *)

InRun(t) == runner[t] \notin {"none", "hit", "done", "dead"}

(* The POSTs that carry one idempotency key start one handler, across       *)
(* restarts too if the store is durable.                                    *)
OneRunPerKey ==
  \A t, u \in Tasks :
    /\ Durable \/ "crash" \notin Faults
    /\ keyOf[t] = keyOf[u] /\ keyOf[t] # NoKey
    /\ runner[t] # "hit" /\ runner[u] # "hit"
    => t = u

(* A cancellation that was accepted is one the handler can see, and only    *)
(* such a one: is_cancelled and the answers of the endpoint agree.          *)
CancelIsSeen ==
  \A t \in Tasks : Known(t) =>
    (flag[t] <=> \E c \in Cancels : ctask[c] = t /\ cpc[c] = "accepted")

(* However POSTs, cancels, restarts and the runner interleave, a key has    *)
(* one run, and that run is told of every cancellation that was accepted,   *)
(* and of no other.                                                         *)
RunsAndCancelsAgree == OneRunPerKey /\ CancelIsSeen

(* In a process that does not die every run whose handler does not panic    *)
(* ends with a terminal status.                                             *)
TaskSettles ==
  \A t \in Tasks :
    "crash" \notin Faults /\ InRun(t) ~> IsTerminal(status[t]) \/ runner[t] = "dead"
=============================================================================
