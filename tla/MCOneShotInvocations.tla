------------------------ MODULE MCOneShotInvocations ------------------------
(* OneShotInvocations for TLC: the stores an agent can be deployed with.    *)
(* In each deployment all pods are alike, so that pods, like requests, are  *)
(* interchangeable where only safety is checked.                            *)
EXTENDS OneShotInvocations, TLC

Agent(keys, shared, durable, faults) ==
  [keys |-> keys, shared |-> shared, durable |-> durable, faults |-> faults]

\* Redis with the dict behind it and two kinds of fault, SQLite, or the dict alone
MCDeployments ==
  {Agent(StreamKeys, Pods, {}, {"interrupt", "crash", "outage"} \ {f}) :
     f \in {"interrupt", "crash", "outage"}}
  \cup {Agent(keys, {}, durable, {"interrupt", "crash"}) :
          keys \in {StreamKeys, InvokeKeys}, durable \in {Pods, {}}}

MCFaulty == {Agent(Keys, Pods, {}, {"interrupt", "crash", "outage", "raise", "stall"})}
MCHealthy == {Agent(Keys, {}, {}, {})}
MCImpatient == {Agent(Keys, {}, {}, {"interrupt"})}

Symmetry == Permutations(Requests) \cup Permutations(Pods)
=============================================================================
