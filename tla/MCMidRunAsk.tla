----------------------------- MODULE MCMidRunAsk -----------------------------
(* MidRunAsk for TLC: handlers that ask several questions at a time and one *)
(* after the other, over both stores.                                       *)
EXTENDS MidRunAsk

Run(durable, concurrent, faults) ==
  [durable |-> durable, concurrent |-> concurrent, faults |-> faults]

MCDeployments ==
  {Run(FALSE, TRUE, {"evict"}), Run(TRUE, TRUE, {}),
   Run(FALSE, FALSE, {}), Run(TRUE, FALSE, {}), Run(TRUE, FALSE, {"raise"})}

MCMemory == {Run(FALSE, TRUE, {})}
=============================================================================
