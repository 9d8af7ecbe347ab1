--------------------------- MODULE MCTaskLifecycle ---------------------------
(* TaskLifecycle for TLC: an agent with the in-memory store, without and    *)
(* with eviction, and one with the SQLite store.                            *)
EXTENDS TaskLifecycle

Memory(capacity, faults) == [durable |-> FALSE, capacity |-> capacity, faults |-> faults]
Sqlite(faults) == [durable |-> TRUE, capacity |-> 0, faults |-> faults]

MCDeployments ==
  {Memory(0, {"crash"}), Memory(1, {"expire"}), Sqlite({"crash"}),
   Sqlite({"unserialisable"})}

MCSqlite == {Sqlite({})}
=============================================================================
