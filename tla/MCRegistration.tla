---------------------------- MODULE MCRegistration ----------------------------
(* Registration for TLC: an old process and its replacement, each with an   *)
(* instance id of its own.                                                  *)
EXTENDS Registration

MCInstanceOf == [p \in Procs |-> p]

Agent(client, required, faults) ==
  [client |-> client, required |-> required, faults |-> faults]

MCDeployments ==
  {Agent("python", TRUE, {"outage", "late", "kill"}), Agent("python", FALSE, {}),
   Agent("rust_spawn", FALSE, {"outage", "late"}), Agent("rust_spawn", TRUE, {"late"}),
   Agent("rust_serve", TRUE, {"kill"})}
=============================================================================
