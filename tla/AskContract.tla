----------------------------- MODULE AskContract -----------------------------
(***************************************************************************)
(* What ctx.ask promises a handler and the humans it asks, whatever the    *)
(* task store: no more than Cap questions are raised, each question ends   *)
(* once, and it ends with an answer only if that answer was accepted for   *)
(* it.  MidRunAsk is shown to implement it.                                *)
(***************************************************************************)
EXTENDS Integers, FiniteSets

CONSTANTS
  Asks,     \* calls of ctx.ask
  Answers,  \* requests that resolve one
  Cap       \* max_mid_run_asks

VARIABLES
  phase,    \* of each ask: "idle", "open", "ended"
  offers,   \* the answers accepted for each ask
  outcome   \* what each ask ended with

cvars == <<phase, offers, outcome>>

Endings == {"default", "cancelled", "raised"}

CInit ==
  /\ phase = [a \in Asks |-> "idle"]
  /\ offers = [a \in Asks |-> {}]
  /\ outcome = [a \in Asks |-> "none"]

Questions == {a \in Asks : phase[a] # "idle" /\ outcome[a] # "rejected"}

Raise(a) ==
  /\ phase[a] = "idle" /\ Cardinality(Questions) < Cap
  /\ phase' = [phase EXCEPT ![a] = "open"]
  /\ UNCHANGED <<offers, outcome>>

Reject(a) ==
  /\ phase[a] = "idle" /\ Cardinality(Questions) >= Cap
  /\ phase' = [phase EXCEPT ![a] = "ended"]
  /\ outcome' = [outcome EXCEPT ![a] = "rejected"]
  /\ UNCHANGED offers

\* an answer may come late: it is accepted all the same
Offer(a, q) ==
  /\ a \in Questions
  /\ \A b \in Asks : q \notin offers[b]
  /\ offers' = [offers EXCEPT ![a] = @ \cup {q}]
  /\ UNCHANGED <<phase, outcome>>

Finish(a, o) ==
  /\ phase[a] = "open"
  /\ o \in Endings \cup offers[a]
  /\ phase' = [phase EXCEPT ![a] = "ended"]
  /\ outcome' = [outcome EXCEPT ![a] = o]
  /\ UNCHANGED offers

CNext ==
  \E a \in Asks :
    \/ Raise(a) \/ Reject(a)
    \/ \E q \in Answers : Offer(a, q)
    \/ \E o \in Endings \cup Answers : Finish(a, o)

CSpec == CInit /\ [][CNext]_cvars
=============================================================================
