---------------------------- MODULE RustOneShot -----------------------------
(***************************************************************************)
(* One-shot mode of the Rust SDK (a2a_runtime.rs): POST /invoke and POST   *)
(* /stream with the two invocation stores.  The endpoints differ in how    *)
(* the body is written and in the prefix of the key, so a key stands for   *)
(* the pair of endpoint and header.                                        *)
(*                                                                         *)
(* The in-memory store answers under one lock.  The SQLite store queries   *)
(* and inserts under the lock of its process, but another process with the *)
(* same file may come in between, and every error of a statement is        *)
(* dropped or read as an absent row.                                       *)
(***************************************************************************)
CONSTANTS
  Requests,    \* HTTP requests
  InvocationKeys, \* what invocation_key can make of their headers
  Keyless,     \* a request without an idempotency key
  Processes,   \* agent processes
  Nobody,      \* no request
  OneShotDeployments \* the ways the agent may be deployed

OneShotDeployment ==
  [sqlite : BOOLEAN,                    \* the SQLite store, in one file for all
   procs  : SUBSET Processes,           \* the processes that serve
   mortal : BOOLEAN,                    \* a process may die
   failing: SUBSET InvocationKeys]      \* the keys whose statements may fail

ASSUME OneShotAssumption ==
  /\ Keyless \notin InvocationKeys /\ Nobody \notin Requests
  /\ "absent" \notin Requests /\ "in_progress" \notin Requests
  /\ OneShotDeployments \subseteq OneShotDeployment

VARIABLES
  deployed, \* how this agent is deployed; it never changes
  record,   \* per key: "absent", "in_progress" or the request whose body it has
  stage,    \* where each request is
  key,      \* the key it carries
  proc,     \* the process that serves it
  reply     \* the request whose output is in its 200 answer

oneShotVars == <<deployed, record, stage, key, proc, reply>>

Stages == {"unsent", "missing", "handler", "answered", "conflict", "failed", "lost"}

OneShotTypeOK ==
  /\ deployed \in OneShotDeployments
  /\ record \in [InvocationKeys -> {"absent", "in_progress"} \cup Requests]
  /\ stage \in [Requests -> Stages]
  /\ key \in [Requests -> InvocationKeys \cup {Keyless}]
  /\ proc \in [Requests -> Processes \cup {Nobody}]
  /\ reply \in [Requests -> Requests \cup {Nobody}]

OneShotInit ==
  /\ deployed \in OneShotDeployments
  /\ record = [k \in InvocationKeys |-> "absent"]
  /\ stage = [r \in Requests |-> "unsent"]
  /\ key = [r \in Requests |-> Keyless]
  /\ proc = [r \in Requests |-> Nobody]
  /\ reply = [r \in Requests |-> Nobody]

-----------------------------------------------------------------------------
(* The stores.                                                              *)

StatementFails(k) == deployed.sqlite /\ k \in deployed.failing

\* the lock of a process is free: none of its requests is inside start_or_get
LockFree(p) == \A r \in Requests : proc[r] = p => stage[r] # "missing"

\* start_or_get finds a row, or one that it cannot read
Found(k) ==
  CASE record[k] = "absent" -> "missing"
    [] record[k] = "in_progress" -> "conflict"
    [] OTHER -> "answered"

\* the row the INSERT leaves: an error, a row of the same key among them, is dropped
Inserted(k) ==
  {[record EXCEPT ![k] = IF @ = "absent" THEN "in_progress" ELSE @]}
    \cup (IF StatementFails(k) THEN {record} ELSE {})

\* complete: the UPDATE needs a row to change, the map does not
Kept(k, r) ==
  {IF deployed.sqlite /\ record[k] = "absent" THEN record ELSE [record EXCEPT ![k] = r]}
    \cup (IF StatementFails(k) THEN {record} ELSE {})

-----------------------------------------------------------------------------
(* post_invoke and post_stream.                                             *)

\* start_or_get looks for the key; in memory it makes the entry under the same lock
StartOrGet(r, k) ==
  \E f \in {Found(k)} \cup (IF StatementFails(k) THEN {"missing"} ELSE {}) :
    LET enters == f = "missing" /\ ~deployed.sqlite IN
    /\ stage' = [stage EXCEPT ![r] = IF enters THEN "handler" ELSE f]
    /\ reply' = [reply EXCEPT ![r] = IF f = "answered" THEN record[k] ELSE Nobody]
    /\ record' = IF enters THEN [record EXCEPT ![k] = "in_progress"] ELSE record

\* the request comes in; without a key no store is asked
Arrive(r, p, k) ==
  /\ stage[r] = "unsent" /\ p \in deployed.procs
  /\ proc' = [proc EXCEPT ![r] = p]
  /\ key' = [key EXCEPT ![r] = k]
  /\ \/ /\ k = Keyless
        /\ stage' = [stage EXCEPT ![r] = "handler"]
        /\ UNCHANGED <<record, reply>>
     \/ k # Keyless /\ LockFree(p) /\ StartOrGet(r, k)
  /\ UNCHANGED deployed

\* the INSERT of start_or_get: whatever becomes of it, the caller has Started
Insert(r) ==
  /\ stage[r] = "missing"
  /\ record' \in Inserted(key[r])
  /\ stage' = [stage EXCEPT ![r] = "handler"]
  /\ UNCHANGED <<deployed, key, proc, reply>>

\* the handler returns Ok: its body is stored, then sent
HandlerOk(r) ==
  /\ stage[r] = "handler"
  /\ stage' = [stage EXCEPT ![r] = "answered"]
  /\ reply' = [reply EXCEPT ![r] = r]
  /\ IF key[r] = Keyless THEN UNCHANGED record ELSE record' \in Kept(key[r], r)
  /\ UNCHANGED <<deployed, key, proc>>

\* [mutant] a handler that failed frees its key
HandlerErr_Frees(r) ==
  /\ stage[r] = "handler"
  /\ stage' = [stage EXCEPT ![r] = "failed"]
  /\ record' = [k \in InvocationKeys |-> IF k = key[r] THEN "absent" ELSE record[k]]
  /\ UNCHANGED <<deployed, key, proc, reply>>

\* it returns Err: the store has no call for that, and its row stays as it is
HandlerErr(r) ==
  /\ stage[r] = "handler"
  /\ stage' = [stage EXCEPT ![r] = "failed"]
  /\ UNCHANGED <<deployed, record, key, proc, reply>>

\* it panics, or its client leaves and the server drops the future
HandlerDropped(r) ==
  /\ stage[r] = "handler"
  /\ stage' = [stage EXCEPT ![r] = "lost"]
  /\ UNCHANGED <<deployed, record, key, proc, reply>>

\* a process dies and is started again: the map is gone, the file is not
ProcessDies(p) ==
  /\ deployed.mortal /\ p \in deployed.procs
  /\ stage' = [r \in Requests |->
                 IF proc[r] = p /\ stage[r] \in {"missing", "handler"} THEN "lost" ELSE stage[r]]
  /\ record' = IF deployed.sqlite THEN record ELSE [k \in InvocationKeys |-> "absent"]
  /\ UNCHANGED <<deployed, key, proc, reply>>

OneShotNext ==
  \/ \E r \in Requests :
       \/ \E p \in Processes, k \in InvocationKeys \cup {Keyless} : Arrive(r, p, k)
       \/ Insert(r) \/ HandlerOk(r) \/ HandlerErr(r) \/ HandlerDropped(r)
  \/ \E p \in Processes : ProcessDies(p)

OneShotSpec == OneShotInit /\ [][OneShotNext]_oneShotVars

-----------------------------------------------------------------------------
(* The contract of a key.                                                   *)

Working(k) == {r \in Requests : key[r] = k /\ stage[r] = "handler"}

\* the keys the contract is claimed of: one process, whose store survives it if it
\* dies, and no statement of theirs fails
Sound(k) ==
  /\ \E p \in Processes : deployed.procs = {p}
  /\ deployed.sqlite \/ ~deployed.mortal
  /\ k \notin deployed.failing

SoundKeys == {k \in InvocationKeys : Sound(k)}

\* the contract's state, of the sound keys
WorkerOf  == [k \in InvocationKeys |-> IF k \in SoundKeys THEN Working(k) ELSE {}]
AnswerOf  == [k \in InvocationKeys |->
               IF k \in SoundKeys /\ record[k] \in Requests THEN record[k] ELSE Nobody]
SpentKeys == {k \in SoundKeys : record[k] # "absent"}
ReplyTo   == [r \in Requests |-> IF key[r] \in SoundKeys THEN reply[r] ELSE Nobody]

Once == INSTANCE OncePerKey WITH
  Keys <- InvocationKeys, worker <- WorkerOf, kept <- AnswerOf, spent <- SpentKeys,
  replies <- ReplyTo

(* The agent implements the contract of every key that meets no SQL error,  *)
(* whatever happens to other keys: it never starts the key's handler twice, *)
(* whoever fails, leaves or dies, and its answers are all the one it keeps. *)
ImplementsOnce == Once!Spec
=============================================================================
