---------------------------- MODULE Registration ----------------------------
(***************************************************************************)
(* How the processes of one agent keep it listed in the platform's         *)
(* registry: register at startup, heartbeat, re-register when a heartbeat  *)
(* says the agent is missing, deregister at shutdown.                      *)
(* During a rolling update the old process and its replacement live side   *)
(* by side.  The registry itself is the platform's and external: it is     *)
(* modelled by what the clients and their comments expect of it.           *)
(***************************************************************************)
EXTENDS Integers, FiniteSets

CONSTANTS
  Procs,        \* processes of the agent
  InstanceOf,   \* the Agent-Instance each process sends: its HOSTNAME
  Nobody,       \* no process
  MaxAttempts,  \* register_max_attempts
  MaxForgets,   \* bound: how often the platform loses its registry
  Deployments   \* the ways the agent may be deployed

(* "python" is RegistrationClient and the lifespan of runtime.py,           *)
(* "rust_spawn" RegistrationLifecycle::spawn and "rust_serve" Agent::serve  *)
(* of a2a_runtime.rs.  A request may fail; it may take effect after its     *)
(* sender gave up on it; a process may die.                                 *)
Deployment ==
  [client   : {"python", "rust_spawn", "rust_serve"},
   required : BOOLEAN,
   faults   : SUBSET {"outage", "late", "kill"}]

ASSUME ConstantsAssumption ==
  /\ MaxAttempts \in Nat \ {0} /\ MaxForgets \in Nat
  /\ Nobody \notin Procs
  /\ Deployments \subseteq Deployment

VARIABLES
  conf,      \* how this agent is deployed; it never changes
  ppc,       \* where each process is in its life
  attempt,   \* the attempt that its register is making
  reply,     \* what the platform has answered its request, "none" until then
  net,       \* requests on their way, each with its sender and kind; those whose
             \* sender no longer waits are late
  listed,    \* the process whose registration the registry holds
  forgets    \* how often the registry was lost

vars == <<conf, ppc, attempt, reply, net, listed, forgets>>

Client   == conf.client
Required == conf.required
Faults   == conf.faults

PPCs == {"off", "starting", "serving", "beating", "reregistering", "leaving",
         "stopped", "failed", "killed"}
Waiting == {"starting", "beating", "reregistering", "leaving"}
KindOf == [starting |-> "register", reregistering |-> "register",
           beating |-> "heartbeat", leaving |-> "delete"]

Message == [kind : {"register", "heartbeat", "delete"}, from : Procs, late : BOOLEAN]

TypeOK ==
  /\ conf \in Deployments
  /\ ppc \in [Procs -> PPCs]
  /\ attempt \in [Procs -> 0..MaxAttempts]
  /\ reply \in [Procs -> {"none", "ok", "missing", "superseded", "error"}]
  /\ net \in SUBSET Message
  /\ listed \in Procs \cup {Nobody}
  /\ forgets \in 0..MaxForgets

Init ==
  /\ conf \in Deployments
  /\ ppc = [p \in Procs |-> "off"]
  /\ attempt = [p \in Procs |-> 0]
  /\ reply = [p \in Procs |-> "none"]
  /\ net = {}
  /\ listed = Nobody
  /\ forgets = 0

-----------------------------------------------------------------------------
(* Requests.                                                                *)

Msg(p, k, late) == [kind |-> k, from |-> p, late |-> late]

\* the requests left when a process stops waiting: an unanswered one is lost, or
\* takes effect late
Abandoned(p) ==
  LET mine == {m \in net : m.from = p /\ ~m.late} IN
  {net \ mine} \cup
  (IF "late" \in Faults THEN {(net \ mine) \cup {[m EXCEPT !.late = TRUE] : m \in mine}}
   ELSE {})

\* a process moves on, giving up on its request if it has one, and sends the next
Move(p, to) ==
  /\ ppc' = [ppc EXCEPT ![p] = to]
  /\ reply' = [reply EXCEPT ![p] = "none"]
  /\ \E rest \in Abandoned(p) :
       net' = IF to \in Waiting THEN rest \cup {Msg(p, KindOf[to], FALSE)} ELSE rest

-----------------------------------------------------------------------------
(* The platform (external).                                                 *)

\* [mutant] the instance is not looked at
SameInstance_Any(p, q) == p # Nobody /\ q # Nobody

\* "only honours a deregister whose instance matches the live registration"
SameInstance(p, q) == p # Nobody /\ q # Nobody /\ InstanceOf[p] = InstanceOf[q]

Answer(m, r) == reply' = [reply EXCEPT ![m.from] = IF m.late THEN @ ELSE r]

Handle(m) ==
  /\ m \in net /\ net' = net \ {m}
  /\ \/ m.kind = "register" /\ listed' = m.from /\ Answer(m, "ok")
     \/ m.kind = "heartbeat" /\ UNCHANGED listed
        /\ Answer(m, IF listed = Nobody THEN "missing" ELSE "ok")
     \/ /\ m.kind = "delete"
        /\ IF SameInstance(listed, m.from) THEN listed' = Nobody /\ Answer(m, "ok")
           ELSE UNCHANGED listed
                /\ Answer(m, IF listed = Nobody THEN "missing" ELSE "superseded")
  /\ UNCHANGED <<conf, ppc, attempt, forgets>>

\* an error status, a refused connection or a timeout at the client
Fail(m) ==
  /\ "outage" \in Faults /\ m \in net /\ ~m.late
  /\ \E rest \in Abandoned(m.from) : net' = rest
  /\ Answer(m, "error")
  /\ UNCHANGED <<conf, ppc, attempt, listed, forgets>>

\* the platform is restarted or evicts the agent as stale
Forget ==
  /\ forgets < MaxForgets /\ listed # Nobody
  /\ forgets' = forgets + 1
  /\ listed' = Nobody
  /\ UNCHANGED <<conf, ppc, attempt, reply, net>>

-----------------------------------------------------------------------------
(* The client.                                                              *)

Start(p) ==
  /\ ppc[p] = "off"
  /\ Move(p, "starting")
  /\ attempt' = [attempt EXCEPT ![p] = 1]
  /\ UNCHANGED <<conf, listed, forgets>>

\* how many times a re-registration is tried: Python calls register, with its
\* retries, spawn sends one request
Attempts(p) == IF ppc[p] = "reregistering" /\ Client # "python" THEN 1 ELSE MaxAttempts

Registered(p) ==
  /\ ppc[p] \in {"starting", "reregistering"} /\ reply[p] = "ok"
  /\ Move(p, "serving")
  /\ attempt' = [attempt EXCEPT ![p] = 0]
  /\ UNCHANGED <<conf, listed, forgets>>

\* [mutant] the last attempt is tried again
RegisterAgain_OneMore(p) ==
  /\ ppc[p] \in {"starting", "reregistering"} /\ reply[p] = "error"
  /\ attempt[p] <= Attempts(p)
  /\ Move(p, ppc[p])
  /\ attempt' = [attempt EXCEPT ![p] = @ + 1]
  /\ UNCHANGED <<conf, listed, forgets>>

\* after a pause that the clock decides
RegisterAgain(p) ==
  /\ ppc[p] \in {"starting", "reregistering"} /\ reply[p] = "error"
  /\ attempt[p] < Attempts(p)
  /\ Move(p, ppc[p])
  /\ attempt' = [attempt EXCEPT ![p] = @ + 1]
  /\ UNCHANGED <<conf, listed, forgets>>

\* at startup a required registration that fails keeps the process from serving (it ends
\* the lifecycle of spawn); in the heartbeat loop it is one more failed beat
RegisterGivesUp(p) ==
  /\ ppc[p] \in {"starting", "reregistering"} /\ reply[p] = "error"
  /\ attempt[p] = Attempts(p)
  /\ Move(p, IF ppc[p] = "starting" /\ Required THEN "failed" ELSE "serving")
  /\ attempt' = [attempt EXCEPT ![p] = 0]
  /\ UNCHANGED <<conf, listed, forgets>>

Beat(p) ==
  /\ ppc[p] = "serving"
  /\ Move(p, "beating")
  /\ UNCHANGED <<conf, attempt, listed, forgets>>

\* [mutant] a 404 is a failed beat like any other
BeatAnswered_Ignores404(p) ==
  /\ ppc[p] = "beating" /\ reply[p] # "none"
  /\ Move(p, "serving")
  /\ UNCHANGED <<conf, attempt, listed, forgets>>

\* Agent::serve calls heartbeat, which drops the bool that says "missing"
BeatAnswered(p) ==
  /\ ppc[p] = "beating" /\ reply[p] # "none"
  /\ IF reply[p] = "missing" /\ Client # "rust_serve"
     THEN /\ Move(p, "reregistering")
          /\ attempt' = [attempt EXCEPT ![p] = 1]
     ELSE /\ Move(p, "serving")
          /\ UNCHANGED attempt
  /\ UNCHANGED <<conf, listed, forgets>>

\* [mutant] the heartbeat loop is not cancelled before the DELETE is sent
Shutdown_KeepsRequest(p) ==
  /\ ppc[p] \in {"serving", "beating", "reregistering"}
  /\ ppc' = [ppc EXCEPT ![p] = "leaving"]
  /\ reply' = [reply EXCEPT ![p] = "none"]
  /\ net' = {[m EXCEPT !.late = @ \/ m.from = p] : m \in net} \cup {Msg(p, "delete", FALSE)}
  /\ attempt' = [attempt EXCEPT ![p] = 0]
  /\ UNCHANGED <<conf, listed, forgets>>

\* the heartbeat is cancelled wherever it is, but for spawn, whose select! comes
\* round only between two beats; then the DELETE is sent
Shutdown(p) ==
  /\ ppc[p] \in IF Client = "rust_spawn" THEN {"serving"}
                ELSE {"serving", "beating", "reregistering"}
  /\ Move(p, "leaving")
  /\ attempt' = [attempt EXCEPT ![p] = 0]
  /\ UNCHANGED <<conf, listed, forgets>>

\* whatever the answer
Left(p) ==
  /\ ppc[p] = "leaving" /\ reply[p] # "none"
  /\ Move(p, "stopped")
  /\ UNCHANGED <<conf, attempt, listed, forgets>>

Kill(p) ==
  /\ "kill" \in Faults /\ ppc[p] \in Waiting \cup {"serving"}
  /\ Move(p, "killed")
  /\ attempt' = [attempt EXCEPT ![p] = 0]
  /\ UNCHANGED <<conf, listed, forgets>>

-----------------------------------------------------------------------------
ClientStep(p) ==
  Registered(p) \/ RegisterAgain(p) \/ RegisterGivesUp(p) \/ Beat(p) \/ BeatAnswered(p) \/ Left(p)

Next ==
  \/ \E p \in Procs : Start(p) \/ ClientStep(p) \/ Shutdown(p) \/ Kill(p)
  \/ \E m \in net : Handle(m) \/ Fail(m)
  \/ Forget

Spec == Init /\ [][Next]_vars

(* A process that serves beats and acts on what it is answered; the         *)
(* platform handles a kind of request if it is asked often enough.          *)
Fairness ==
  /\ \A p \in Procs : WF_vars(ClientStep(p))
  /\ \A p \in Procs, k \in {"register", "heartbeat", "delete"} :
       SF_vars(Handle(Msg(p, k, FALSE))) /\ WF_vars(Handle(Msg(p, k, TRUE)))

FairSpec == Spec /\ Fairness

-----------------------------------------------------------------------------
(* Properties.                                                              *)

Serves(p) == ppc[p] \in {"serving", "beating", "reregistering"}

(* runtime.py:2282 and a2a_runtime.rs:994: the DELETE of a process takes    *)
(* down no registration but its own, and only on its way out, however late  *)
(* it arrives.  It holds if every process has an instance id of its own.    *)
DeleteSparesReplacement ==
  [][\A p \in Procs :
       listed = p /\ listed' = Nobody /\ forgets' = forgets
       => ppc[p] \in {"leaving", "stopped", "killed"}]_vars

(* A process that goes on serving stays listed, or is listed again, after   *)
(* whatever the registry forgot and whoever deregistered.  Agent::serve     *)
(* does not see to it: it drops the answer to its heartbeats.               *)
ServedIsListed ==
  \A p \in Procs :
    <>[](Client # "rust_serve" /\ Serves(p)) => <>[](listed # Nobody)

(* a2a_runtime.rs:1248-1269, if no request fails and no process is killed:  *)
(* a registry whose processes have all left lists none of them.  spawn only *)
(* leaves between two beats, so no re-registration slips behind its DELETE; *)
(* stop_heartbeat of the Python client cancels one on its way and only      *)
(* keeps this if a cancelled request is lost.                               *)
NoGhosts ==
  (/\ Faults = {} \/ (Client = "rust_spawn" /\ Faults = {"late"})
   /\ \A p \in Procs : ppc[p] \in {"off", "stopped"})
  => listed = Nobody
=============================================================================
