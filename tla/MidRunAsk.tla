------------------------------ MODULE MidRunAsk ------------------------------
(***************************************************************************)
(* A mid-run question: ctx.ask of runtime.py, the waiter both task stores  *)
(* give it, the endpoint that answers it, and the flag by which the        *)
(* platform namespace refuses risky capability calls in the meantime.      *)
(* One task, whose handler may have several asks at a time (asyncio.gather) *)
(* or ask one after the other.                                             *)
(*                                                                         *)
(* As in TaskLifecycle, the steps are those of the SQLite store, every call *)
(* to which suspends its caller; with the in-memory store no one gets a    *)
(* turn between two steps of a block (Turn).                               *)
(***************************************************************************)
EXTENDS Integers, FiniteSets

CONSTANTS
  Asks,        \* calls of ctx.ask by the task's handler
  Answers,     \* requests to /tasks/{id}/asks/{gate}/resolve
  NoAnswer,
  Cap,         \* max_mid_run_asks of the task's input
  Deployments  \* the ways the task may be run

Deployment ==
  [durable    : BOOLEAN,   \* SqliteTaskStore rather than InMemoryTaskStore
   concurrent : BOOLEAN,   \* the handler has several asks at a time
   faults     : SUBSET     \* the in-memory store drops the task; SQLite raises
                {"evict", "raise"}]

ASSUME ConstantsAssumption ==
  /\ Cap \in Nat /\ IsFiniteSet(Asks)
  /\ Deployments \subseteq Deployment
  /\ \A d \in Deployments :
       (IF d.durable THEN "evict" ELSE "raise") \notin d.faults
  /\ NoAnswer \notin Answers
  /\ Answers \cap {"none", "default", "cancelled", "raised", "rejected"} = {}
  /\ NoAnswer \notin {"none", "default", "cancelled", "raised", "rejected"}

VARIABLES
  conf,         \* how this task is run; it never changes
  status,       \* of the task's record, "gone" once evicted
  count,        \* _mid_run_ask_count
  active,       \* _mid_run_ask_active of the platform namespace
  apc,          \* where each ask is
  timed,        \* whether it has a timeout
  wpc, got,     \* its wait_for_ask_resolution, and what that returned
  resolutions,  \* the store's resolution of each gate
  outcome,      \* what each ask ended with
  log,          \* the events of each gate in the task's log
  cancelEv,     \* the task's cancel event
  cpc,          \* the cancel request
  qpc, qgate    \* each answer: its progress and the gate it names

vars == <<conf, status, count, active, apc, timed, wpc, got, resolutions, outcome, log,
          cancelEv, cpc, qpc, qgate>>

Durable    == conf.durable
Concurrent == conf.concurrent
Faults     == conf.faults

Terminal == {"completed", "cancelled"}
Over == status \in Terminal \cup {"gone"}

TypeOK ==
  /\ conf \in Deployments
  /\ status \in {"running", "waiting_for_human", "gone"} \cup Terminal
  /\ count \in 0..Cap
  /\ active \in BOOLEAN
  /\ apc \in [Asks -> {"idle", "raised", "flagged", "waiting", "resuming", "reporting", "ended"}]
  /\ timed \in [Asks -> BOOLEAN]
  /\ wpc \in [Asks -> {"none", "awake", "looked", "asleep", "returned"}]
  /\ got \in [Asks -> Answers \cup {NoAnswer}]
  /\ resolutions \in [Asks -> Answers \cup {NoAnswer}]
  /\ outcome \in [Asks -> Answers \cup {"none", "default", "cancelled", "raised", "rejected"}]
  /\ log \in [Asks -> SUBSET {"asked", "resolved", "resumed", "timeout"}]
  /\ cancelEv \in BOOLEAN
  /\ cpc \in {"idle", "set", "done"}
  /\ qpc \in [Answers -> {"idle", "parsing", "stored", "accepted", "refused"}]
  /\ qgate \in [Answers -> Asks \cup {NoAnswer}]

Init ==
  /\ conf \in Deployments
  /\ status = "running"
  /\ count = 0
  /\ active = FALSE
  /\ apc = [a \in Asks |-> "idle"]
  /\ timed = [a \in Asks |-> FALSE]
  /\ wpc = [a \in Asks |-> "none"]
  /\ got = [a \in Asks |-> NoAnswer]
  /\ resolutions = [a \in Asks |-> NoAnswer]
  /\ outcome = [a \in Asks |-> "none"]
  /\ log = [a \in Asks |-> {}]
  /\ cancelEv = FALSE
  /\ cpc = "idle"
  /\ qpc = [q \in Answers |-> "idle"]
  /\ qgate = [q \in Answers |-> NoAnswer]

Pending(a) == apc[a] \notin {"idle", "ended"}

-----------------------------------------------------------------------------
(* Whose turn it is (see TaskLifecycle).                                    *)

MidBlock(a) == apc[a] \in {"raised", "flagged", "resuming", "reporting"}

Turn(inBlock) ==
  \/ Durable \/ inBlock
  \/ /\ \A a \in Asks : ~MidBlock(a)
     /\ \A q \in Answers : qpc[q] # "stored"
     /\ cpc # "set"

\* update_task_status
Updated(s) ==
  IF status = (IF s = "running" THEN "waiting_for_human" ELSE "running") THEN s ELSE status

Logged(a, e) == IF status = "gone" THEN log ELSE [log EXCEPT ![a] = @ \cup {e}]

-----------------------------------------------------------------------------
(* ctx.ask.                                                                 *)

MayAsk(a) ==
  /\ apc[a] = "idle" /\ Turn(FALSE)
  /\ Concurrent \/ \A b \in Asks : ~Pending(b)

\* the budget is spent: AskBudgetExceeded
RejectAsk(a) ==
  /\ MayAsk(a) /\ count >= Cap
  /\ apc' = [apc EXCEPT ![a] = "ended"]
  /\ outcome' = [outcome EXCEPT ![a] = "rejected"]
  /\ UNCHANGED <<conf, status, count, active, timed, wpc, got, resolutions, log,
                 cancelEv, cpc, qpc, qgate>>

\* [mutant] the last question is not counted as one too many
RaiseGate_OneMore(a, t) ==
  /\ MayAsk(a) /\ count <= Cap
  /\ count' = count + 1
  /\ apc' = [apc EXCEPT ![a] = "raised"]
  /\ timed' = [timed EXCEPT ![a] = t]
  /\ UNCHANGED <<conf, status, active, wpc, got, resolutions, outcome, log,
                 cancelEv, cpc, qpc, qgate>>

\* the check and the count are one step: nothing is awaited between them
RaiseGate(a, t) ==
  /\ MayAsk(a) /\ count < Cap
  /\ count' = count + 1
  /\ apc' = [apc EXCEPT ![a] = "raised"]
  /\ timed' = [timed EXCEPT ![a] = t]
  /\ UNCHANGED <<conf, status, active, wpc, got, resolutions, outcome, log,
                 cancelEv, cpc, qpc, qgate>>

Ask(a, at, to) ==
  /\ apc[a] = at /\ Turn(MidBlock(a))
  /\ apc' = [apc EXCEPT ![a] = to]

\* the mid_run_ask event is in the log, and the flag goes up
Announce(a) ==
  /\ Ask(a, "raised", "flagged")
  /\ log' = Logged(a, "asked")
  /\ active' = TRUE
  /\ UNCHANGED <<conf, status, count, timed, wpc, got, resolutions, outcome,
                 cancelEv, cpc, qpc, qgate>>

\* set_status("waiting_for_human"), and the two tasks of asyncio.wait are created
WaitForHuman(a) ==
  /\ Ask(a, "flagged", "waiting")
  /\ status' = Updated("waiting_for_human")
  /\ wpc' = [wpc EXCEPT ![a] = "awake"]
  /\ UNCHANGED <<conf, count, active, timed, got, resolutions, outcome, log,
                 cancelEv, cpc, qpc, qgate>>

\* [mutant] the finally clause leaves the flag up
AskWakes_KeepsFlag(a) ==
  /\ wpc[a] = "returned" /\ Ask(a, "waiting", "resuming")
  /\ UNCHANGED <<conf, status, count, active, timed, wpc, got, resolutions, outcome, log,
                 cancelEv, cpc, qpc, qgate>>

\* the wait is over; the finally clause takes the flag down, whoever else asks
AskWakes(a) ==
  /\ wpc[a] = "returned" /\ Ask(a, "waiting", "resuming")
  /\ active' = FALSE
  /\ UNCHANGED <<conf, status, count, timed, wpc, got, resolutions, outcome, log,
                 cancelEv, cpc, qpc, qgate>>

\* the cancel event was first, or is done at the same time: CancelledError
AskCancelled(a) ==
  /\ cancelEv /\ Ask(a, "waiting", "ended")
  /\ active' = FALSE
  /\ wpc' = [wpc EXCEPT ![a] = "none"]
  /\ outcome' = [outcome EXCEPT ![a] = "cancelled"]
  /\ UNCHANGED <<conf, status, count, timed, got, resolutions, log, cancelEv, cpc, qpc, qgate>>

\* set_status("running")
Resume(a) ==
  /\ Ask(a, "resuming", "reporting")
  /\ status' = Updated("running")
  /\ UNCHANGED <<conf, count, active, timed, wpc, got, resolutions, outcome, log,
                 cancelEv, cpc, qpc, qgate>>

\* mid_run_ask_resumed with the answer, or mid_run_ask_timeout with the default
Report(a) ==
  /\ Ask(a, "reporting", "ended")
  /\ outcome' = [outcome EXCEPT ![a] = IF got[a] # NoAnswer THEN got[a] ELSE "default"]
  /\ log' = Logged(a, IF got[a] # NoAnswer THEN "resumed" ELSE "timeout")
  /\ UNCHANGED <<conf, status, count, active, timed, wpc, got, resolutions,
                 cancelEv, cpc, qpc, qgate>>

\* the store raises out of ask, which does not take the flag down before its try
AskRaises(a) ==
  /\ "raise" \in Faults /\ MidBlock(a)
  /\ Ask(a, apc[a], "ended")
  /\ outcome' = [outcome EXCEPT ![a] = "raised"]
  /\ UNCHANGED <<conf, status, count, active, timed, wpc, got, resolutions, log,
                 cancelEv, cpc, qpc, qgate>>

-----------------------------------------------------------------------------
(* wait_for_ask_resolution.                                                 *)

Waiter(a, at) == apc[a] = "waiting" /\ wpc[a] = at /\ Turn(FALSE)

Returns(a, answer) ==
  /\ wpc' = [wpc EXCEPT ![a] = "returned"]
  /\ got' = [got EXCEPT ![a] = answer]

\* [mutant] the answer to any gate of the task wakes the handler
WaiterLooks_AnyGate(a) ==
  /\ Waiter(a, "awake")
  /\ IF \E b \in Asks : resolutions[b] # NoAnswer
     THEN \E b \in Asks : resolutions[b] # NoAnswer /\ Returns(a, resolutions[b])
     ELSE IF Durable THEN wpc' = [wpc EXCEPT ![a] = "looked"] /\ UNCHANGED got
     ELSE IF Over THEN Returns(a, NoAnswer)
     ELSE wpc' = [wpc EXCEPT ![a] = "asleep"] /\ UNCHANGED got
  /\ UNCHANGED <<conf, status, count, active, apc, timed, resolutions, outcome, log,
                 cancelEv, cpc, qpc, qgate>>

\* the resolution of the gate first, the record next; in memory both in one go,
\* and the condition is waited for in the same breath
WaiterLooks(a) ==
  /\ Waiter(a, "awake")
  /\ IF resolutions[a] # NoAnswer THEN Returns(a, resolutions[a])
     ELSE IF Durable THEN wpc' = [wpc EXCEPT ![a] = "looked"] /\ UNCHANGED got
     ELSE IF Over THEN Returns(a, NoAnswer)
     ELSE wpc' = [wpc EXCEPT ![a] = "asleep"] /\ UNCHANGED got
  /\ UNCHANGED <<conf, status, count, active, apc, timed, resolutions, outcome, log,
                 cancelEv, cpc, qpc, qgate>>

\* [mutant] the poll does not look at the record
WaiterChecksTask_Never(a) ==
  /\ Waiter(a, "looked")
  /\ wpc' = [wpc EXCEPT ![a] = "awake"]
  /\ UNCHANGED <<conf, status, count, active, apc, timed, got, resolutions, outcome, log,
                 cancelEv, cpc, qpc, qgate>>

\* SQLite: a poll that found no resolution reads the record
WaiterChecksTask(a) ==
  /\ Waiter(a, "looked")
  /\ IF Over THEN Returns(a, NoAnswer)
     ELSE wpc' = [wpc EXCEPT ![a] = "awake"] /\ UNCHANGED got
  /\ UNCHANGED <<conf, status, count, active, apc, timed, resolutions, outcome, log,
                 cancelEv, cpc, qpc, qgate>>

\* in memory asyncio.wait_for gives up, even on a waiter that has been notified;
\* a poll looks at the clock once it has found nothing
TimesOut(a) ==
  /\ timed[a]
  /\ \E at \in IF Durable THEN {"looked"} ELSE {"awake", "asleep"} : Waiter(a, at)
  /\ Returns(a, NoAnswer)
  /\ UNCHANGED <<conf, status, count, active, apc, timed, resolutions, outcome, log,
                 cancelEv, cpc, qpc, qgate>>

-----------------------------------------------------------------------------
(* POST /tasks/{id}/asks/{gate}/resolve: the record is read before the body *)
(* of the request, and is not looked at again.                              *)

AnswerRead(q, a) ==
  /\ qpc[q] = "idle" /\ Turn(FALSE)
  /\ "asked" \in log[a]
  /\ qpc' = [qpc EXCEPT ![q] = IF Over THEN "refused" ELSE "parsing"]
  /\ qgate' = [qgate EXCEPT ![q] = a]
  /\ UNCHANGED <<conf, status, count, active, apc, timed, wpc, got, resolutions, outcome, log,
                 cancelEv, cpc>>

AnswerUnknown(q) ==
  /\ qpc[q] = "parsing" /\ Turn(FALSE) /\ status = "gone"
  /\ qpc' = [qpc EXCEPT ![q] = "refused"]
  /\ UNCHANGED <<conf, status, count, active, apc, timed, wpc, got, resolutions, outcome, log,
                 cancelEv, cpc, qgate>>

\* [mutant] the waiter is not notified
ResolveAsk_Silent(q) ==
  /\ qpc[q] = "parsing" /\ Turn(FALSE) /\ status # "gone"
  /\ qpc' = [qpc EXCEPT ![q] = "stored"]
  /\ resolutions' = [resolutions EXCEPT ![qgate[q]] = q]
  /\ UNCHANGED <<conf, status, count, active, apc, timed, wpc, got, outcome, log,
                 cancelEv, cpc, qgate>>

\* resolve_ask: the last answer counts, and wakes the waiter
ResolveAsk(q) ==
  /\ qpc[q] = "parsing" /\ Turn(FALSE) /\ status # "gone"
  /\ qpc' = [qpc EXCEPT ![q] = "stored"]
  /\ resolutions' = [resolutions EXCEPT ![qgate[q]] = q]
  /\ wpc' = [wpc EXCEPT ![qgate[q]] = IF @ = "asleep" THEN "awake" ELSE @]
  /\ UNCHANGED <<conf, status, count, active, apc, timed, got, outcome, log,
                 cancelEv, cpc, qgate>>

LogResolved(q) ==
  /\ qpc[q] = "stored" /\ Turn(TRUE)
  /\ qpc' = [qpc EXCEPT ![q] = "accepted"]
  /\ log' = Logged(qgate[q], "resolved")
  /\ UNCHANGED <<conf, status, count, active, apc, timed, wpc, got, resolutions, outcome,
                 cancelEv, cpc, qgate>>

-----------------------------------------------------------------------------
(* What else happens to the task (TaskLifecycle has it in full).            *)

\* the handler returns or raises; it waits for its asks unless it has several,
\* one of which may raise while others go on
HandlerEnds ==
  /\ Turn(FALSE) /\ ~Over /\ ~cancelEv
  /\ Concurrent \/ \A a \in Asks : ~Pending(a)
  /\ status' = "completed"
  /\ UNCHANGED <<conf, count, active, apc, timed, wpc, got, resolutions, outcome, log,
                 cancelEv, cpc, qpc, qgate>>

CancelSet ==
  /\ cpc = "idle" /\ Turn(FALSE) /\ ~Over
  /\ cpc' = "set"
  /\ cancelEv' = TRUE
  /\ UNCHANGED <<conf, status, count, active, apc, timed, wpc, got, resolutions, outcome, log,
                 qpc, qgate>>

CancelWrite ==
  /\ cpc = "set"
  /\ cpc' = "done"
  /\ status' = IF Over THEN status ELSE "cancelled"
  /\ UNCHANGED <<conf, count, active, apc, timed, wpc, got, resolutions, outcome, log,
                 cancelEv, qpc, qgate>>

\* the record, its log and the resolutions go; nobody is notified
Evict ==
  /\ "evict" \in Faults /\ Turn(FALSE) /\ status # "gone"
  /\ status' = "gone"
  /\ resolutions' = [a \in Asks |-> NoAnswer]
  /\ UNCHANGED <<conf, count, active, apc, timed, wpc, got, outcome, log,
                 cancelEv, cpc, qpc, qgate>>

-----------------------------------------------------------------------------
AskStep(a) ==
  \/ Announce(a) \/ WaitForHuman(a) \/ AskWakes(a) \/ AskCancelled(a)
  \/ Resume(a) \/ Report(a)

WaiterStep(a) == WaiterLooks(a) \/ WaiterChecksTask(a)

Next ==
  \/ \E a \in Asks :
       \/ RejectAsk(a) \/ AskRaises(a)
       \/ \E t \in BOOLEAN : RaiseGate(a, t)
       \/ AskStep(a) \/ WaiterStep(a) \/ TimesOut(a)
       \/ \E q \in Answers : AnswerRead(q, a)
  \/ \E q \in Answers : AnswerUnknown(q) \/ ResolveAsk(q) \/ LogResolved(q)
  \/ HandlerEnds \/ CancelSet \/ CancelWrite \/ Evict

Spec == Init /\ [][Next]_vars

(* The event loop and the store's threads get on with what is pending, and  *)
(* the time of a timeout comes.  No human need answer.                      *)
Fairness ==
  /\ \A a \in Asks : WF_vars(AskStep(a)) /\ WF_vars(WaiterStep(a)) /\ SF_vars(TimesOut(a))
  /\ \A q \in Answers : WF_vars(ResolveAsk(q) \/ LogResolved(q) \/ AnswerUnknown(q))
  /\ WF_vars(CancelWrite)

FairSpec == Spec /\ Fairness

-----------------------------------------------------------------------------
(* Properties.                                                              *)

(* In memory no answer is slept through: a waiter is asleep only while its  *)
(* gate has no resolution, however answer, timeout and waiter interleave.   *)
NoAnswerSleptThrough ==
  \A a \in Asks : apc[a] = "waiting" /\ wpc[a] = "asleep" => resolutions[a] = NoAnswer

(* An ask without a timeout falls back to its default only once its task    *)
(* has ended or is gone.                                                    *)
DefaultOnlyByTimeout ==
  \A a \in Asks : outcome[a] = "default" /\ ~timed[a] => Over

(* An answer that is accepted in time wakes its ask, and nothing but its    *)
(* timeout or the end of its task stands in for it.                         *)
AnswersAreTaken == NoAnswerSleptThrough /\ DefaultOnlyByTimeout

(* A handler that asks one question at a time, of a store that does not     *)
(* raise: while it waits for a human, its record says so and the platform   *)
(* refuses risky calls; while it does not, neither holds, but for a record  *)
(* that is about to be cancelled.                                           *)
GuardMatchesAsk ==
  ~Concurrent /\ Faults = {} =>
    /\ \A a \in Asks :
         apc[a] = "waiting" => active /\ (status = "waiting_for_human" \/ Over)
    /\ (\A a \in Asks : ~Pending(a)) =>
         ~active /\ (status = "waiting_for_human" => cancelEv)

(* An ask that has a timeout, or an answer, or whose task is cancelled,     *)
(* ends; with SQLite, whose waiter polls the record, also when its task has *)
(* ended in any other way.                                                  *)
AskEnds ==
  \A a \in Asks :
    /\ Pending(a)
    /\ timed[a] \/ cancelEv \/ resolutions[a] # NoAnswer \/ (Durable /\ Over)
    ~> ~Pending(a)

(* Whatever the store, ask implements its contract.                         *)
Contract == INSTANCE AskContract WITH
  phase  <- [a \in Asks |-> IF Pending(a) THEN "open" ELSE apc[a]],
  offers <- [a \in Asks |-> {q \in Answers : qgate[q] = a /\ qpc[q] \in {"stored", "accepted"}}]

ImplementsContract == Contract!CSpec

(* platform_namespace.py:2141 "write/high-risk platform capability calls    *)
(* are refused while a mid-run ask is active": also when several are.       *)
RefusedWhileAsking == \A a \in Asks : apc[a] = "waiting" => active
=============================================================================
