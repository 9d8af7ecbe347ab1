----------------------------- MODULE OncePerKey ------------------------------
(***************************************************************************)
(* What an idempotency key promises the clients of a one-shot endpoint: no *)
(* second handler is ever started for it, and every answer that is not an  *)
(* error is the one its handler gave.  A handler may be lost; the key is   *)
(* then lost with it, for it stays refused.                                *)
(***************************************************************************)
CONSTANTS
  Keys,     \* idempotency keys
  Requests, \* requests, each of which may be the one that is worked on
  Nobody    \* no request

VARIABLES
  worker,   \* per key: the requests whose handlers are at work
  kept,     \* per key: the request whose answer is kept
  spent,    \* the keys that have had a handler
  replies   \* per request: the request whose answer it was given

vars == <<worker, kept, spent, replies>>

Init ==
  /\ worker = [k \in Keys |-> {}]
  /\ kept = [k \in Keys |-> Nobody]
  /\ spent = {}
  /\ replies = [r \in Requests |-> Nobody]

Begin(k, r) ==
  /\ k \notin spent
  /\ spent' = spent \cup {k}
  /\ worker' = [worker EXCEPT ![k] = {r}]
  /\ UNCHANGED <<kept, replies>>

\* the handler is done: its answer is kept, and given to its client
Finish(k, r) ==
  /\ worker[k] = {r} /\ kept[k] = Nobody
  /\ worker' = [worker EXCEPT ![k] = {}]
  /\ kept' = [kept EXCEPT ![k] = r]
  /\ replies' = [replies EXCEPT ![r] = r]
  /\ UNCHANGED spent

\* the handler fails, its client leaves or its process dies
Lose(ks) ==
  /\ \A k \in ks : kept[k] = Nobody
  /\ worker' = [k \in Keys |-> IF k \in ks THEN {} ELSE worker[k]]
  /\ UNCHANGED <<kept, spent, replies>>

Replay(k, r) ==
  /\ kept[k] # Nobody
  /\ replies' = [replies EXCEPT ![r] = kept[k]]
  /\ UNCHANGED <<worker, kept, spent>>

Next ==
  \/ \E k \in Keys, r \in Requests : Begin(k, r) \/ Finish(k, r) \/ Replay(k, r)
  \/ \E ks \in SUBSET Keys : Lose(ks)

Spec == Init /\ [][Next]_vars
=============================================================================
