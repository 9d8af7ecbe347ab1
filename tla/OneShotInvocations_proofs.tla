---------------------- MODULE OneShotInvocations_proofs ----------------------
(***************************************************************************)
(* Proofs about OneShotInvocations, for any number of requests, pods and   *)
(* keys: the types; Tier A, that no orderly end leaves a record behind;    *)
(* and, for a lease, renewal period and keepalive that fit together, the   *)
(* exclusion of two stream handlers of one key, that all who are given a   *)
(* result are given the same until its record expires, and in which ways   *)
(* alone a completed record goes.                                          *)
(***************************************************************************)
EXTENDS OneShotInvocations, TLAPS

USE ConstantsAssumption

-----------------------------------------------------------------------------
(* The operators on records stay within the type of records.                *)

LEMMA FreshType == NoRecord \in Record /\ \A r \in Requests : Fresh(r) \in Record
BY DEF Fresh, NoRecord, Record, Statuses

LEMMA StartedType ==
  ASSUME NEW rec \in Record, NEW r \in Requests
  PROVE  Started(rec, r) \in Record
BY FreshType DEF Started

LEMMA ResolvedType ==
  ASSUME NEW rec \in Record, NEW r \in Requests, NEW o \in {"completed", "failed"}
  PROVE  Resolved(rec, o, r) \in Record
BY DEF Resolved, Record, Statuses

LEMMA TouchedType ==
  ASSUME NEW rec \in Record
  PROVE  Touched(rec) \in Record
BY DEF Touched, Record

LEMMA AgedType ==
  ASSUME NEW rec \in Record, NEW s
  PROVE  Aged(s, rec) \in Record
<1>1. CASE Expires(s, rec)
  BY <1>1, FreshType DEF Aged
<1>2. CASE ~Expires(s, rec)
  BY <1>2 DEF Aged, UpTo, Record
<1>3. QED
  BY <1>1, <1>2

LEMMA AnswerType ==
  /\ NoAnswer \in Answer
  /\ \A rec \in Record : DuplicateAnswer(rec) \in Answer
  /\ \A r \in Requests, o \in {"completed", "failed"} : OwnAnswer(r, o) \in Answer
BY DEF DuplicateAnswer, OwnAnswer, NoAnswer, Answer, Record, Statuses

RecordTable == [Stores -> [Keys -> Record]]

LEMMA PutType ==
  ASSUME NEW recs \in RecordTable, NEW s \in Stores, NEW k \in Keys, NEW rec \in Record
  PROVE  Put(recs, s, k, rec) \in RecordTable
BY DEF Put, RecordTable

(* Where the entries of an updated table are.                               *)
LEMMA PutAt ==
  ASSUME NEW recs \in RecordTable, NEW s \in Stores, NEW k \in Keys, NEW rec \in Record,
         NEW t \in Stores, NEW l \in Keys
  PROVE  Put(recs, s, k, rec)[t][l] = IF t = s /\ l = k THEN rec ELSE recs[t][l]
BY DEF Put, RecordTable

LEMMA RouteType ==
  ASSUME NEW p \in Pods
  PROVE  /\ Route(p) \in {p, Shared}
         /\ Route(p) \in Stores /\ p \in Stores /\ Shared \in Stores
BY DEF Route, Stores

-----------------------------------------------------------------------------
(* Type correctness: one step per action.                                   *)

TypeRecords == records \in RecordTable

LEMMA WriteType ==
  ASSUME NEW recs \in RecordTable, NEW r \in Requests, key[r] \in Keys, NEW s \in Stores,
         NEW o \in {"completed", "failed"}
  PROVE  Write(recs, r, s, o) \in RecordTable
<1>1. recs[s][key[r]] \in Record
  BY DEF RecordTable
<1> QED
  BY <1>1, ResolvedType, PutType DEF Write

LEMMA RenewedType ==
  ASSUME records \in RecordTable, NEW r \in Requests, key[r] \in Keys, NEW s \in Stores
  PROVE  Renewed(r, s) \in RecordTable
<1>1. records[s][key[r]] \in Record
  BY DEF RecordTable
<1> QED
  BY <1>1, TouchedType, PutType DEF Renewed

LEMMA StartOrGetType ==
  ASSUME TypeOK, NEW recs \in RecordTable, NEW r \in Requests, NEW p \in Pods, NEW k \in Keys,
         NEW s \in Stores, StartOrGet(recs, r, p, k, s), disabled' \in [Pods -> BOOLEAN]
  PROVE  TypeOK'
<1>1. recs[s][k] \in Record
  BY DEF RecordTable
<1>2. records' \in RecordTable
  BY <1>1, StartedType, PutType DEF StartOrGet
<1>3. answer' \in [Requests -> Answer]
  BY <1>1, AnswerType DEF TypeOK, StartOrGet
<1> QED
  BY <1>2, <1>3 DEF TypeOK, StartOrGet, PCs, Closed, RecordTable

(* Every state the program reaches is well typed.                           *)
THEOREM TypeCorrect == Spec => []TypeOK
<1>1. Init => TypeOK
  BY FreshType, AnswerType DEF Init, TypeOK, PCs
<1>2. TypeOK /\ [Next]_vars => TypeOK'
  <2> SUFFICES ASSUME TypeOK, [Next]_vars PROVE TypeOK'
    OBVIOUS
  <2>0. records \in RecordTable
    BY DEF TypeOK, RecordTable
  <2>1. ASSUME NEW r \in Requests, NEW p \in Pods, NEW k \in Keys, Begin(r, p, k)
        PROVE  TypeOK'
    BY <2>0, <2>1, RouteType, StartOrGetType DEF Begin, TypeOK
  <2>2. ASSUME NEW r \in Requests, NEW p \in Pods, NEW k \in Keys, BeginFailOpen(r, p, k)
        PROVE  TypeOK'
    <3>1. disabled' \in [Pods -> BOOLEAN]
      BY <2>2 DEF BeginFailOpen, TypeOK
    <3>2. records[Shared][k] \in Record
      BY <2>0, RouteType DEF RecordTable
    <3>3. Put(records, Shared, k, Started(records[Shared][k], r)) \in RecordTable
      BY <2>0, <3>2, StartedType, PutType, RouteType
    <3>4. PICK landed \in BOOLEAN :
            StartOrGet(IF landed
                       THEN Put(records, Shared, k, Started(records[Shared][k], r))
                       ELSE records, r, p, k, p)
      BY <2>2 DEF BeginFailOpen
    <3> QED
      BY <2>0, <3>1, <3>3, <3>4, RouteType, StartOrGetType
  <2>3. ASSUME NEW r \in Requests, NEW p \in Pods, NEW k \in Keys, BeginInterrupted(r, p, k)
        PROVE  TypeOK'
    <3>1. records[Route(p)][k] \in Record
      BY <2>0, RouteType DEF RecordTable
    <3>2. records' \in RecordTable
      BY <2>0, <2>3, <3>1, StartedType, PutType, RouteType DEF BeginInterrupted
    <3> QED
      BY <2>3, <3>2, RouteType DEF BeginInterrupted, TypeOK, PCs, Closed, RecordTable
  <2>4. ASSUME NEW r \in Requests, EnterHandler(r) PROVE TypeOK'
    BY <2>4 DEF EnterHandler, TypeOK, PCs
  <2>5. ASSUME NEW r \in Requests, InterruptAdmitted(r) PROVE TypeOK'
    BY <2>5 DEF InterruptAdmitted, TypeOK, PCs, Closed
  <2>6. ASSUME NEW r \in Requests, StreamTurn(r) PROVE TypeOK'
    <3>1. RouteOf(r) \in Stores /\ key[r] \in Keys
      BY <2>6, RouteType DEF StreamTurn, RouteOf, TypeOK
    <3>2. records' \in RecordTable
      BY <2>0, <2>6, <3>1, RenewedType DEF StreamTurn
    <3>3. unrenewed' \in [Requests -> 0..(RenewEvery + Keepalive)]
      BY <2>6 DEF StreamTurn, TypeOK
    <3>4. pc' \in [Requests -> PCs] /\ \A q \in Requests : pc'[q] = pc[q] \/ pc'[q] = "running"
      BY <2>6 DEF StreamTurn, TypeOK, PCs
    <3>5. idle' \in [Requests -> 0..Keepalive] /\ pc[r] # "new"
      BY <2>6 DEF StreamTurn, TypeOK
    <3> QED
      BY <2>6, <3>2, <3>3, <3>4, <3>5 DEF StreamTurn, TypeOK, RecordTable
  <2>7. ASSUME NEW r \in Requests, TouchFailOpen(r) PROVE TypeOK'
    <3>1. pod[r] \in Stores /\ Shared \in Stores /\ key[r] \in Keys /\ pod[r] \in Pods
      BY <2>7, RouteType DEF TouchFailOpen, TypeOK
    <3>2. records[pod[r]][key[r]] \in Record /\ Renewed(r, Shared) \in RecordTable
      BY <2>0, <3>1, RenewedType DEF RecordTable
    <3>3. records' \in RecordTable
      BY <2>0, <2>7, <3>1, <3>2, TouchedType, PutType DEF TouchFailOpen
    <3> QED
      BY <2>7, <3>1, <3>3 DEF TouchFailOpen, TypeOK, PCs, RecordTable
  <2>8. ASSUME NEW r \in Requests, TouchRaises(r) PROVE TypeOK'
    BY <2>8 DEF TouchRaises, TypeOK, PCs
  <2>9. ASSUME NEW r \in Requests, Stall(r) PROVE TypeOK'
    BY <2>9 DEF Stall, TypeOK, PCs
  <2>10. ASSUME NEW r \in Requests, NEW o \in {"completed", "failed"}, HandlerReturns(r, o)
         PROVE  TypeOK'
    BY <2>10 DEF HandlerReturns, TimersDropped, TypeOK, PCs
  <2>11. ASSUME NEW r \in Requests, StoreTerminal(r) PROVE TypeOK'
    <3>1. RouteOf(r) \in Stores /\ key[r] \in Keys /\ outcome[r] \in {"completed", "failed"}
      BY <2>11, RouteType DEF StoreTerminal, RouteOf, TypeOK
    <3>2. records' \in RecordTable
      BY <2>0, <2>11, <3>1, WriteType DEF StoreTerminal
    <3> QED
      BY <2>11, <3>1, <3>2, AnswerType
         DEF StoreTerminal, EndState, TypeOK, PCs, Closed, RecordTable
  <2>12. ASSUME NEW r \in Requests, StoreFailOpen(r) PROVE TypeOK'
    <3>1. /\ key[r] \in Keys /\ outcome[r] \in {"completed", "failed"}
          /\ pod[r] \in Pods /\ pod[r] \in Stores /\ Shared \in Stores
      BY <2>12, RouteType DEF StoreFailOpen, TypeOK
    <3>2. Write(records, r, Shared, outcome[r]) \in RecordTable
      BY <2>0, <3>1, WriteType
    <3>3. records' \in RecordTable
      BY <2>0, <2>12, <3>1, <3>2, WriteType DEF StoreFailOpen
    <3> QED
      BY <2>12, <3>1, <3>3, AnswerType
         DEF StoreFailOpen, EndState, TypeOK, PCs, Closed, RecordTable
  <2>13. ASSUME NEW r \in Requests, InterruptStore(r) PROVE TypeOK'
    <3>1. RouteOf(r) \in Stores /\ key[r] \in Keys /\ outcome[r] \in {"completed", "failed"}
      BY <2>13, RouteType DEF InterruptStore, RouteOf, TypeOK
    <3>2. records' \in RecordTable
      BY <2>0, <2>13, <3>1, WriteType DEF InterruptStore
    <3> QED
      BY <2>13, <3>2 DEF InterruptStore, TypeOK, PCs, RecordTable
  <2>14. ASSUME NEW r \in Requests, InterruptHandler(r) PROVE TypeOK'
    BY <2>14 DEF InterruptHandler, TimersDropped, TypeOK, PCs
  <2>15. ASSUME NEW r \in Requests, AbortFail(r) PROVE TypeOK'
    <3>1. RouteOf(r) \in Stores /\ key[r] \in Keys
      BY <2>15, RouteType DEF AbortFail, RouteOf, TypeOK
    <3>2. records' \in RecordTable
      BY <2>0, <2>15, <3>1, WriteType DEF AbortFail
    <3> QED
      BY <2>15, <3>2 DEF AbortFail, EndState, TypeOK, PCs, Closed, RecordTable
  <2>16. ASSUME NEW r \in Requests, AbortFailOpen(r) PROVE TypeOK'
    <3>1. key[r] \in Keys /\ pod[r] \in Pods /\ pod[r] \in Stores /\ Shared \in Stores
      BY <2>16, RouteType DEF AbortFailOpen, TypeOK
    <3>2. Write(records, r, Shared, "failed") \in RecordTable
      BY <2>0, <3>1, WriteType
    <3>3. records' \in RecordTable
      BY <2>0, <2>16, <3>1, <3>2, WriteType DEF AbortFailOpen
    <3> QED
      BY <2>16, <3>1, <3>3 DEF AbortFailOpen, EndState, TypeOK, PCs, Closed, RecordTable
  <2>17. ASSUME NEW r \in Requests, AbortLost(r) PROVE TypeOK'
    BY <2>17 DEF AbortLost, TypeOK, PCs, Closed
  <2>18. ASSUME NEW p \in Pods, Crash(p) PROVE TypeOK'
    <3>1. records' \in RecordTable
      BY <2>0, <2>18, FreshType DEF Crash, RecordTable
    <3>2. PICK killed \in SUBSET Requests :
            /\ killed = {r \in Requests : pod[r] = p /\ pc[r] \notin Closed \cup {"new"}}
            /\ pc' = [r \in Requests |-> IF r \in killed THEN "crashed" ELSE pc[r]]
            /\ TimersDropped(killed)
      BY <2>18 DEF Crash
    <3>3. /\ idle' \in [Requests -> 0..Keepalive]
          /\ unrenewed' \in [Requests -> 0..(RenewEvery + Keepalive)]
      BY <3>2 DEF TimersDropped, TypeOK
    <3>4. /\ pc' \in [Requests -> PCs]
          /\ \A r \in Requests :
               pc'[r] = pc[r] \/ (pc[r] # "new" /\ pc'[r] = "crashed")
      BY <3>2 DEF TypeOK, PCs, Closed
    <3> QED
      BY <2>18, <3>1, <3>3, <3>4 DEF Crash, TypeOK, RecordTable
  <2>19. CASE Tick
    <3>1. records' \in RecordTable
      BY <2>0, <2>19, AgedType DEF Tick, RecordTable
    <3> QED
      BY <2>19, <3>1 DEF Tick, UpTo, Outliving, TypeOK, RecordTable
  <2>20. CASE UNCHANGED vars
    BY <2>20 DEF vars, TypeOK
  <2>21. ASSUME NEW p \in Pods, LookupFailOpen(p) PROVE TypeOK'
    BY <2>21 DEF LookupFailOpen, TypeOK
  <2>22. conf.keys \subseteq Keys
    BY DEF TypeOK, Deployment
  <2> QED
    BY <2>1, <2>2, <2>3, <2>4, <2>5, <2>6, <2>7, <2>8, <2>9, <2>10, <2>11, <2>12, <2>13,
       <2>14, <2>15, <2>16, <2>17, <2>18, <2>19, <2>20, <2>21, <2>22
       DEF Next, RequestStep
<1> QED
  BY <1>1, <1>2, PTL DEF Spec

-----------------------------------------------------------------------------
(* Exclusion.  A record that its handler owns survives what other requests   *)
(* do to it: they may resolve or renew it, and cannot recycle it.            *)

LEMMA OwnedNotStartable ==
  ASSUME NEW rec \in Record, NEW q, NEW r, NEW limit \in Nat, limit <= Lease,
         Owns(rec, q, limit)
  PROVE  Started(rec, r) = rec
BY DEF Owns, Started, Startable, IsLeaseStale, Record

LEMMA OwnedWritten ==
  ASSUME NEW rec \in Record, NEW q, NEW r, NEW limit \in Nat, Owns(rec, q, limit),
         NEW o \in {"completed", "failed"}
  PROVE  /\ Owns(Resolved(rec, o, r), q, limit)
         /\ Owns(Touched(rec), q, limit)
         /\ Owns(Touched(rec), q, 0)
BY DEF Owns, Resolved, Touched, Record

LEMMA PutOwned ==
  ASSUME NEW recs \in RecordTable, NEW s \in Stores, NEW k \in Keys, NEW rec \in Record,
         NEW t \in Stores, NEW l \in Keys, NEW q, NEW limit,
         Owns(recs[t][l], q, limit),
         Owns(recs[s][k], q, limit) => Owns(rec, q, limit)
  PROVE  Owns(Put(recs, s, k, rec)[t][l], q, limit)
BY PutAt

(* Writing a terminal status over the owned record, or elsewhere.           *)
LEMMA WriteOwned ==
  ASSUME NEW recs \in RecordTable, NEW r \in Requests, key[r] \in Keys, NEW s \in Stores,
         NEW o \in {"completed", "failed"},
         NEW t \in Stores, NEW l \in Keys, NEW q, NEW limit \in Nat,
         Owns(recs[t][l], q, limit)
  PROVE  Owns(Write(recs, r, s, o)[t][l], q, limit)
<1>1. recs[s][key[r]] \in Record
  BY DEF RecordTable
<1> QED
  BY <1>1, OwnedWritten, ResolvedType, PutOwned DEF Write

LEMMA RenewedOwned ==
  ASSUME records \in RecordTable, NEW r \in Requests, key[r] \in Keys, NEW s \in Stores,
         NEW t \in Stores, NEW l \in Keys, NEW q, NEW limit \in Nat,
         Owns(records[t][l], q, limit)
  PROVE  Owns(Renewed(r, s)[t][l], q, limit)
<1>1. records[s][key[r]] \in Record
  BY DEF RecordTable
<1> QED
  BY <1>1, OwnedWritten, TouchedType, PutOwned DEF Renewed

LEMMA StartedOwned ==
  ASSUME NEW recs \in RecordTable, NEW r \in Requests, NEW s \in Stores, NEW k \in Keys,
         NEW t \in Stores, NEW l \in Keys, NEW q, NEW limit \in Nat, limit <= Lease,
         Owns(recs[t][l], q, limit)
  PROVE  Owns(Put(recs, s, k, Started(recs[s][k], r))[t][l], q, limit)
<1>1. recs[s][k] \in Record
  BY DEF RecordTable
<1>2. Owns(recs[s][k], q, limit) => Owns(Started(recs[s][k], r), q, limit)
  BY <1>1, OwnedNotStartable
<1>3. Started(recs[s][k], r) \in Record
  BY <1>1, StartedType
<1> QED
  BY <1>2, <1>3, PutOwned

(* A covered handler's clock is within the lease.                           *)
LEMMA WithinLease ==
  ASSUME TypeOK, ExclusionInv, LeaseFits, NEW q \in Requests, Covered(q)
  PROVE  unrenewed[q] \in Nat /\ unrenewed[q] <= Lease
BY DEF TypeOK, ExclusionInv, LeaseFits, Covered, Live

(* What the invariant says of one request; the steps below prove it of each *)
(* request q after a step of request r.                                     *)
InvOf(q) ==
  /\ pc[q] # "stalled"
  /\ pc[q] \in {"new", "admitted"} => idle[q] = 0 /\ unrenewed[q] = 0
  /\ pc[q] = "running" => unrenewed[q] <= RenewEvery - 1 + idle[q]
  /\ Live(q) => home[q] \in {Shared, RouteOf(q)}
  /\ Covered(q) => Owns(Held(q), q, unrenewed[q])

(* A request that is itself left alone keeps the invariant if its pod's     *)
(* route stays or leaves Redis, and its record stays owned.                 *)
LEMMA Bystander ==
  ASSUME TypeOK, TypeOK', ExclusionInv, NEW q \in Requests,
         pc'[q] = pc[q], pod'[q] = pod[q], key'[q] = key[q], home'[q] = home[q],
         idle'[q] = idle[q], unrenewed'[q] = unrenewed[q],
         conf' = conf, outlived' = outlived, \A p \in Pods : disabled[p] => disabled'[p],
         Covered(q) => Owns(records'[home[q]][key[q]], q, unrenewed[q])
  PROVE  InvOf(q)'
<1>1. Live(q) => pod[q] \in Pods /\ key[q] \in Keys /\ home[q] \in Stores
  BY DEF Live, TypeOK
<1>2. Live(q)' <=> Live(q)
  BY DEF Live
<1>3. Live(q) => home[q] \in {Shared, RouteOf(q)}
  BY DEF ExclusionInv
<1>4. Live(q) => RouteOf(q)' \in {pod[q], RouteOf(q)}
  BY <1>1 DEF RouteOf, Route, SharedPods, TypeOK
<1>5. Live(q) => home[q] \in {Shared, RouteOf(q)'}
  BY <1>1, <1>3, <1>4 DEF RouteOf, Route, SharedPods
<1>6. Covered(q)' => Covered(q)
  BY <1>1, <1>2, <1>3, <1>4 DEF Covered, OnHome, Streaming, RouteOf, Route, SharedPods
<1> QED
  BY <1>2, <1>5, <1>6 DEF InvOf, ExclusionInv, Held

(* start_or_get keeps the invariant whatever the pod's route becomes, if    *)
(* the tables it starts from keep every owned record owned.                 *)
LEMMA StartOrGetInv ==
  ASSUME TypeOK, TypeOK', ExclusionInv, LeaseFits,
         NEW recs \in RecordTable, NEW r \in Requests, NEW p \in Pods, NEW k \in Keys,
         NEW s \in Stores, StartOrGet(recs, r, p, k, s),
         \A x \in Pods : disabled[x] => disabled'[x],
         s \in {Shared, Route(p)'},
         \A q \in Requests : Covered(q) => Owns(recs[home[q]][key[q]], q, unrenewed[q])
  PROVE  ExclusionInv'
<1> SUFFICES ASSUME NEW q \in Requests PROVE InvOf(q)'
  BY DEF ExclusionInv, InvOf
<1>0. recs[s][k] \in Record
  BY DEF RecordTable
<1>1. CASE q = r
  <2>1. pc'[r] = IF Startable(recs[s][k]) THEN "admitted" ELSE "done"
    BY DEF StartOrGet, TypeOK
  <2>2. idle'[r] = 0 /\ unrenewed'[r] = 0
    BY DEF StartOrGet, ExclusionInv, TypeOK
  <2>3. home'[r] = s /\ key'[r] = k /\ pod'[r] = p
    BY DEF StartOrGet, TypeOK
  <2>4. pc'[r] = "admitted" => Held(r)' = Fresh(r)
    <3>1. SUFFICES ASSUME pc'[r] = "admitted" PROVE Held(r)' = Fresh(r)
      OBVIOUS
    <3>2. Started(recs[s][k], r) = Fresh(r)
      BY <2>1, <3>1 DEF Started
    <3>3. records' = Put(recs, s, k, Fresh(r))
      BY <3>2 DEF StartOrGet
    <3> QED
      BY <2>3, <3>3, FreshType, PutAt DEF Held
  <2>5. pc'[r] = "admitted" => Owns(Held(r)', r, 0)
    BY <2>4 DEF Fresh, Owns
  <2>6. home'[r] \in {Shared, RouteOf(r)'}
    BY <2>3 DEF RouteOf
  <2>7. pc'[r] \notin {"stalled", "running"}
    BY <2>1
  <2>8. (Covered(r) => Owns(Held(r), r, unrenewed[r]))'
    BY <2>1, <2>2, <2>5 DEF Covered, Live
  <2> QED
    BY <1>1, <2>2, <2>6, <2>7, <2>8 DEF InvOf
<1>2. CASE q # r
  <2>1. Covered(q) => Owns(records'[home[q]][key[q]], q, unrenewed[q])
    <3> SUFFICES ASSUME Covered(q) PROVE Owns(records'[home[q]][key[q]], q, unrenewed[q])
      OBVIOUS
    <3>1. home[q] \in Stores /\ key[q] \in Keys
      BY DEF Covered, Live, TypeOK
    <3>2. records' = Put(recs, s, k, Started(recs[s][k], r))
      BY DEF StartOrGet
    <3> QED
      BY <3>1, <3>2, WithinLease, StartedOwned
  <2>2. /\ pc'[q] = pc[q] /\ pod'[q] = pod[q] /\ key'[q] = key[q] /\ home'[q] = home[q]
        /\ idle'[q] = idle[q] /\ unrenewed'[q] = unrenewed[q]
    BY <1>2 DEF StartOrGet, TypeOK
  <2> QED
    BY <2>1, <2>2, Bystander DEF StartOrGet
<1> QED
  BY <1>1, <1>2

(* The owned records, from the invariant.                                   *)
LEMMA OwnedNow ==
  ASSUME TypeOK, ExclusionInv, NEW q \in Requests, Covered(q)
  PROVE  /\ home[q] \in Stores /\ key[q] \in Keys
         /\ unrenewed[q] \in Nat
         /\ Owns(records[home[q]][key[q]], q, unrenewed[q])
BY DEF Covered, Live, TypeOK, ExclusionInv, Held

(* A step of a request that resolves a record, in either store or in both,  *)
(* and leaves the request outside its handler.                              *)
LEMMA ResolvingInv ==
  ASSUME TypeOK, TypeOK', ExclusionInv, NEW r \in Requests, key[r] \in Keys,
         NEW recs \in RecordTable, NEW s \in Stores, NEW o \in {"completed", "failed"},
         recs = records \/ recs = Write(records, r, Shared, o),
         records' = recs \/ records' = Write(recs, r, s, o),
         pc'[r] \in {"storing", "aborting"} \cup Closed,
         conf' = conf, outlived' = outlived, \A x \in Pods : disabled[x] => disabled'[x],
         \A q \in Requests \ {r} :
           /\ pc'[q] = pc[q] /\ pod'[q] = pod[q] /\ key'[q] = key[q] /\ home'[q] = home[q]
           /\ idle'[q] = idle[q] /\ unrenewed'[q] = unrenewed[q]
  PROVE  ExclusionInv'
<1> SUFFICES ASSUME NEW q \in Requests PROVE InvOf(q)'
  BY DEF ExclusionInv, InvOf
<1>1. CASE q = r
  BY <1>1 DEF InvOf, Covered, Live, Closed
<1>2. CASE q # r
  <2>1. Covered(q) => Owns(records'[home[q]][key[q]], q, unrenewed[q])
    <3> SUFFICES ASSUME Covered(q) PROVE Owns(records'[home[q]][key[q]], q, unrenewed[q])
      OBVIOUS
    <3>1. Shared \in Stores /\ records \in RecordTable
      BY DEF Stores, TypeOK, RecordTable
    <3>2. /\ home[q] \in Stores /\ key[q] \in Keys /\ unrenewed[q] \in Nat
          /\ Owns(records[home[q]][key[q]], q, unrenewed[q])
      BY OwnedNow
    <3>3. Owns(Write(records, r, Shared, o)[home[q]][key[q]], q, unrenewed[q])
      BY <3>1, <3>2, WriteOwned
    <3>4. Owns(recs[home[q]][key[q]], q, unrenewed[q])
      BY <3>2, <3>3
    <3>5. Owns(Write(recs, r, s, o)[home[q]][key[q]], q, unrenewed[q])
      BY <3>2, <3>4, WriteOwned
    <3> QED
      BY <3>4, <3>5
  <2> QED
    BY <1>2, <2>1, Bystander
<1> QED
  BY <1>1, <1>2

(* A turn of the loop: it may renew, in either store or in both.            *)
LEMMA TurnInv ==
  ASSUME TypeOK, TypeOK', ExclusionInv, NEW r \in Requests, key[r] \in Keys, pod[r] \in Pods,
         Live(r), pc' = [pc EXCEPT ![r] = "running"],
         idle' = [idle EXCEPT ![r] = 0],
         UNCHANGED <<conf, pod, key, home, outlived>>,
         \A x \in Pods : disabled[x] => disabled'[x],
         \A q \in Requests \ {r} : unrenewed'[q] = unrenewed[q],
         unrenewed'[r] <= RenewEvery - 1,
         \A q \in Requests :
           Covered(q) => Owns(records'[home[q]][key[q]], q, unrenewed[q]),
         Covered(r)' => Owns(Held(r)', r, unrenewed'[r])
  PROVE  ExclusionInv'
<1> SUFFICES ASSUME NEW q \in Requests PROVE InvOf(q)'
  BY DEF ExclusionInv, InvOf
<1>1. CASE q = r
  <2>1. pc'[r] = "running" /\ idle'[r] = 0
    BY DEF TypeOK
  <2>2. home[r] \in {Shared, RouteOf(r)}
    BY DEF ExclusionInv
  <2>3. RouteOf(r)' \in {pod[r], RouteOf(r)} /\ (RouteOf(r) = pod[r] => RouteOf(r)' = pod[r])
    BY DEF RouteOf, Route, SharedPods
  <2>4. home'[r] \in {Shared, RouteOf(r)'}
    BY <2>2, <2>3 DEF RouteOf, Route, SharedPods
  <2> QED
    BY <1>1, <2>1, <2>4 DEF InvOf
<1>2. CASE q # r
  <2>1. /\ pc'[q] = pc[q] /\ pod'[q] = pod[q] /\ key'[q] = key[q] /\ home'[q] = home[q]
        /\ idle'[q] = idle[q] /\ unrenewed'[q] = unrenewed[q]
    BY <1>2 DEF TypeOK
  <2> QED
    BY <2>1, Bystander
<1> QED
  BY <1>1, <1>2

(* No step changes the deployment.                                          *)
LEMMA DeploymentFixed == [Next]_vars => conf' = conf
<1>1. ASSUME NEW r \in Requests, NEW p \in Pods, NEW k \in conf.keys,
             Begin(r, p, k) \/ BeginFailOpen(r, p, k) \/ BeginInterrupted(r, p, k)
      PROVE  conf' = conf
  BY <1>1 DEF Begin, BeginFailOpen, BeginInterrupted, StartOrGet
<1>2. ASSUME NEW r \in Requests,
             \/ EnterHandler(r) \/ InterruptAdmitted(r)
             \/ StreamTurn(r) \/ TouchFailOpen(r) \/ TouchRaises(r) \/ Stall(r)
             \/ \E o \in {"completed", "failed"} : HandlerReturns(r, o)
      PROVE  conf' = conf
  BY <1>2 DEF EnterHandler, InterruptAdmitted, StreamTurn, TouchFailOpen, TouchRaises, Stall,
              HandlerReturns
<1>3. ASSUME NEW r \in Requests,
             \/ StoreTerminal(r) \/ StoreFailOpen(r) \/ InterruptStore(r)
             \/ InterruptHandler(r) \/ AbortFail(r) \/ AbortFailOpen(r) \/ AbortLost(r)
      PROVE  conf' = conf
  BY <1>3 DEF StoreTerminal, StoreFailOpen, InterruptStore, InterruptHandler, AbortFail,
              AbortFailOpen, AbortLost
<1>4. ASSUME NEW p \in Pods, LookupFailOpen(p) \/ Crash(p) PROVE conf' = conf
  BY <1>4 DEF LookupFailOpen, Crash
<1>5. CASE Tick \/ UNCHANGED vars
  BY <1>5 DEF Tick, vars
<1> QED
  BY <1>1, <1>2, <1>3, <1>4, <1>5 DEF Next, RequestStep

(* Only time lets a record expire.                                          *)
LEMMA OutlivedGrows ==
  ASSUME [Next]_vars
  PROVE  outlived' = outlived \/ (Tick /\ outlived' = outlived \cup Outliving)
<1>1. ASSUME NEW r \in Requests, NEW p \in Pods, NEW k \in conf.keys,
             Begin(r, p, k) \/ BeginFailOpen(r, p, k) \/ BeginInterrupted(r, p, k)
      PROVE  outlived' = outlived
  BY <1>1 DEF Begin, BeginFailOpen, BeginInterrupted, StartOrGet
<1>2. ASSUME NEW r \in Requests,
             \/ EnterHandler(r) \/ InterruptAdmitted(r)
             \/ StreamTurn(r) \/ TouchFailOpen(r) \/ TouchRaises(r) \/ Stall(r)
             \/ \E o \in {"completed", "failed"} : HandlerReturns(r, o)
      PROVE  outlived' = outlived
  BY <1>2 DEF EnterHandler, InterruptAdmitted, StreamTurn, TouchFailOpen, TouchRaises, Stall,
              HandlerReturns
<1>3. ASSUME NEW r \in Requests,
             \/ StoreTerminal(r) \/ StoreFailOpen(r) \/ InterruptStore(r)
             \/ InterruptHandler(r) \/ AbortFail(r) \/ AbortFailOpen(r) \/ AbortLost(r)
      PROVE  outlived' = outlived
  BY <1>3 DEF StoreTerminal, StoreFailOpen, InterruptStore, InterruptHandler, AbortFail,
              AbortFailOpen, AbortLost
<1>4. ASSUME NEW p \in Pods, LookupFailOpen(p) \/ Crash(p) PROVE outlived' = outlived
  BY <1>4 DEF LookupFailOpen, Crash
<1>5. CASE Tick \/ UNCHANGED vars
  BY <1>5 DEF Tick, vars
<1> QED
  BY <1>1, <1>2, <1>3, <1>4, <1>5 DEF Next, RequestStep

LEMMA ExclusionStep ==
  ASSUME TypeOK, TypeOK', ExclusionInv, LeaseFits, NoLoopFaults, [Next]_vars
  PROVE  ExclusionInv'
<1>0. /\ records \in RecordTable /\ Shared \in Stores
      /\ \A q \in Requests :
           Covered(q) => /\ home[q] \in Stores /\ key[q] \in Keys /\ unrenewed[q] \in Nat
                         /\ unrenewed[q] <= Lease
                         /\ Owns(records[home[q]][key[q]], q, unrenewed[q])
  BY OwnedNow, WithinLease DEF TypeOK, RecordTable, Stores
<1>c. conf' = conf /\ conf \in Deployments
  BY DeploymentFixed DEF TypeOK
<1>k. conf.keys \subseteq Keys
  BY <1>c DEF Deployment
<1>1. ASSUME NEW r \in Requests, NEW p \in Pods, NEW k \in Keys, Begin(r, p, k)
      PROVE  ExclusionInv'
  <2>1. Route(p)' = Route(p) /\ Route(p) \in Stores
    BY <1>c, <1>1, RouteType DEF Begin, Route, SharedPods
  <2>2. \A x \in Pods : disabled[x] => disabled'[x]
    BY <1>1 DEF Begin
  <2>3. StartOrGet(records, r, p, k, Route(p))
    BY <1>1 DEF Begin
  <2> QED
    BY <1>0, <2>1, <2>2, <2>3, StartOrGetInv
<1>2. ASSUME NEW r \in Requests, NEW p \in Pods, NEW k \in Keys, BeginFailOpen(r, p, k)
      PROVE  ExclusionInv'
  <2>1. \A x \in Pods : disabled[x] => disabled'[x]
    BY <1>2 DEF BeginFailOpen, TypeOK
  <2>2. Route(p)' = p /\ p \in Stores
    BY <1>c, <1>2, RouteType DEF BeginFailOpen, Route, SharedPods, TypeOK
  <2> DEFINE landedTable == Put(records, Shared, k, Started(records[Shared][k], r))
  <2>3. /\ landedTable \in RecordTable
        /\ \A q \in Requests :
             Covered(q) => Owns(landedTable[home[q]][key[q]], q, unrenewed[q])
    <3>1. records[Shared][k] \in Record
      BY <1>0 DEF RecordTable
    <3> QED
      BY <1>0, <3>1, StartedType, PutType, StartedOwned
  <2>4. StartOrGet(landedTable, r, p, k, p) \/ StartOrGet(records, r, p, k, p)
    BY <1>2 DEF BeginFailOpen
  <2> HIDE DEF landedTable
  <2> QED
    BY <1>0, <2>1, <2>2, <2>3, <2>4, StartOrGetInv
<1>3. ASSUME NEW r \in Requests, NEW p \in Pods, NEW k \in Keys, BeginInterrupted(r, p, k)
      PROVE  ExclusionInv'
  <2> SUFFICES ASSUME NEW q \in Requests PROVE InvOf(q)'
    BY DEF ExclusionInv, InvOf
  <2>1. CASE q = r
    BY <1>3, <2>1 DEF BeginInterrupted, TypeOK, InvOf, Covered, Live
  <2>2. CASE q # r
    <3>1. Route(p) \in Stores
      BY RouteType
    <3>2. Covered(q) => Owns(records'[home[q]][key[q]], q, unrenewed[q])
      BY <1>0, <1>3, <3>1, StartedOwned DEF BeginInterrupted
    <3>3. /\ pc'[q] = pc[q] /\ pod'[q] = pod[q] /\ key'[q] = key[q] /\ home'[q] = home[q]
          /\ idle'[q] = idle[q] /\ unrenewed'[q] = unrenewed[q]
          /\ outlived' = outlived /\ \A x \in Pods : disabled[x] => disabled'[x]
      BY <1>3, <2>2 DEF BeginInterrupted, TypeOK
    <3> QED
      BY <1>c, <3>2, <3>3, Bystander
  <2> QED
    BY <2>1, <2>2
<1>4. ASSUME NEW r \in Requests, EnterHandler(r) PROVE ExclusionInv'
  <2> SUFFICES ASSUME NEW q \in Requests PROVE InvOf(q)'
    BY DEF ExclusionInv, InvOf
  <2>1. /\ pc'[q] = IF q = r THEN "running" ELSE pc[q]
        /\ Live(q)' <=> Live(q)
        /\ Covered(q)' <=> Covered(q)
        /\ Held(q)' = Held(q) /\ RouteOf(q)' = RouteOf(q)
    BY <1>c, <1>4
       DEF EnterHandler, Live, Covered, OnHome, RouteOf, Route, SharedPods, Streaming, Held, TypeOK
  <2> QED
    BY <1>4, <2>1 DEF EnterHandler, InvOf, ExclusionInv, TypeOK
<1>5. ASSUME NEW r \in Requests,
             InterruptAdmitted(r) \/ AbortLost(r) \/ InterruptHandler(r)
             \/ \E o \in {"completed", "failed"} : HandlerReturns(r, o)
      PROVE  ExclusionInv'
  <2> SUFFICES ASSUME NEW q \in Requests PROVE InvOf(q)'
    BY DEF ExclusionInv, InvOf
  <2>1. CASE q = r
    BY <1>5, <2>1 DEF InterruptAdmitted, AbortLost, InterruptHandler, HandlerReturns, TypeOK,
                      InvOf, Covered, Live
  <2>2. CASE q # r
    <3>1. /\ pc'[q] = pc[q] /\ pod'[q] = pod[q] /\ key'[q] = key[q] /\ home'[q] = home[q]
          /\ idle'[q] = idle[q] /\ unrenewed'[q] = unrenewed[q]
          /\ records' = records /\ outlived' = outlived
          /\ \A x \in Pods : disabled[x] => disabled'[x]
      BY <1>5, <2>2 DEF InterruptAdmitted, AbortLost, InterruptHandler, HandlerReturns,
                        TimersDropped, TypeOK
    <3> QED
      BY <1>c, <1>0, <3>1, Bystander
  <2> QED
    BY <2>1, <2>2
<1>6. ASSUME NEW r \in Requests, StreamTurn(r) PROVE ExclusionInv'
  <2>1. /\ Live(r) /\ key[r] \in Keys /\ pod[r] \in Pods /\ RouteOf(r) \in Stores
        /\ UNCHANGED <<pod, key, home, disabled, outlived>>
        /\ pc' = [pc EXCEPT ![r] = "running"] /\ idle' = [idle EXCEPT ![r] = 0]
    BY <1>6, RouteType DEF StreamTurn, Live, RouteOf, TypeOK
  <2>2. CASE unrenewed[r] >= RenewEvery
    <3>1. records' = Renewed(r, RouteOf(r)) /\ unrenewed' = [unrenewed EXCEPT ![r] = 0]
      BY <1>6, <2>2 DEF StreamTurn
    <3>2. /\ unrenewed'[r] = 0 /\ unrenewed'[r] <= RenewEvery - 1
          /\ \A q \in Requests \ {r} : unrenewed'[q] = unrenewed[q]
      BY <3>1 DEF TypeOK
    <3>3. \A q \in Requests :
            Covered(q) => Owns(records'[home[q]][key[q]], q, unrenewed[q])
      BY <1>0, <2>1, <3>1, RenewedOwned
    <3>4. Covered(r)' => Owns(Held(r)', r, unrenewed'[r])
      <4> SUFFICES ASSUME Covered(r)' PROVE Owns(Held(r)', r, 0)
        BY <3>2
      <4>1. Covered(r) /\ home[r] = RouteOf(r)
        BY <1>c, <2>1 DEF Covered, OnHome, Streaming, RouteOf, Route, SharedPods
      <4>2. records[home[r]][key[r]] \in Record
        BY <1>0, <4>1 DEF RecordTable
      <4>3. Owns(Touched(records[home[r]][key[r]]), r, 0)
        BY <1>0, <4>1, <4>2, OwnedWritten
      <4>4. Held(r)' = Touched(records[home[r]][key[r]])
        BY <1>0, <2>1, <3>1, <4>1, <4>2, TouchedType, PutAt DEF Held, Renewed
      <4> QED
        BY <4>3, <4>4
    <3> QED
      BY <1>c, <2>1, <3>2, <3>3, <3>4, TurnInv
  <2>3. CASE ~(unrenewed[r] >= RenewEvery)
    <3>1. UNCHANGED <<records, unrenewed>>
      BY <1>6, <2>3 DEF StreamTurn
    <3>2. unrenewed'[r] <= RenewEvery - 1
      BY <2>3, <3>1 DEF TypeOK
    <3>3. Covered(r)' => Owns(Held(r)', r, unrenewed'[r])
      BY <1>c, <1>0, <2>1, <3>1
         DEF Covered, OnHome, Streaming, RouteOf, Route, SharedPods, Held
    <3> QED
      BY <1>c, <1>0, <2>1, <3>1, <3>2, <3>3, TurnInv
  <2> QED
    BY <2>2, <2>3
<1>7. ASSUME NEW r \in Requests, TouchFailOpen(r) PROVE ExclusionInv'
  <2>1. /\ Live(r) /\ key[r] \in Keys /\ pod[r] \in Pods /\ pod[r] \in Stores
        /\ UNCHANGED <<pod, key, home, outlived>>
        /\ pc' = [pc EXCEPT ![r] = "running"] /\ idle' = [idle EXCEPT ![r] = 0]
        /\ unrenewed'[r] = 0 /\ unrenewed'[r] <= RenewEvery - 1
        /\ \A q \in Requests \ {r} : unrenewed'[q] = unrenewed[q]
        /\ RouteOf(r) = Shared
    BY <1>7, RouteType DEF TouchFailOpen, Live, TypeOK
  <2>2. /\ \A x \in Pods : disabled[x] => disabled'[x]
        /\ disabled'[pod[r]]
    BY <1>7, <2>1 DEF TouchFailOpen, TypeOK
  <2>3. ~Covered(r)'
    <3>1. home[r] = Shared
      BY <2>1 DEF ExclusionInv
    <3> QED
      BY <1>c, <2>1, <2>2, <3>1 DEF Covered, OnHome, RouteOf, Route, SharedPods
  <2>4. \A q \in Requests : Covered(q) => Owns(records'[home[q]][key[q]], q, unrenewed[q])
    <3> SUFFICES ASSUME NEW q \in Requests, Covered(q)
                 PROVE  Owns(records'[home[q]][key[q]], q, unrenewed[q])
      OBVIOUS
    <3>1. PICK landed \in BOOLEAN :
            records' = Put(IF landed THEN Renewed(r, Shared) ELSE records,
                           pod[r], key[r], Touched(records[pod[r]][key[r]]))
      BY <1>7 DEF TouchFailOpen
    <3> DEFINE recs == IF landed THEN Renewed(r, Shared) ELSE records
    <3>2. Owns(Renewed(r, Shared)[home[q]][key[q]], q, unrenewed[q])
      BY <1>0, <2>1, RenewedOwned
    <3>3. /\ recs \in RecordTable
          /\ Owns(recs[home[q]][key[q]], q, unrenewed[q])
      BY <1>0, <2>1, <3>2, RenewedType
    <3>4. recs[pod[r]][key[r]] = records[pod[r]][key[r]]
      <4>1. /\ records[Shared][key[r]] \in Record
            /\ Touched(records[Shared][key[r]]) \in Record
        BY <1>0, <2>1, TouchedType DEF RecordTable
      <4> QED
        BY <1>0, <2>1, <4>1, PutAt DEF Renewed
    <3>5. records[pod[r]][key[r]] \in Record
      BY <1>0, <2>1 DEF RecordTable
    <3> HIDE DEF recs
    <3>6. Owns(recs[pod[r]][key[r]], q, unrenewed[q])
            => Owns(Touched(records[pod[r]][key[r]]), q, unrenewed[q])
      BY <1>0, <3>4, <3>5, OwnedWritten
    <3>7. Touched(records[pod[r]][key[r]]) \in Record
      BY <3>5, TouchedType
    <3> QED
      BY ZenonT(40), <1>0, <2>1, <3>1, <3>3, <3>6, <3>7, PutOwned DEF recs
  <2> QED
    BY <1>c, <2>1, <2>2, <2>3, <2>4, TurnInv
<1>8. ASSUME NEW r \in Requests, TouchRaises(r) \/ Stall(r) PROVE ExclusionInv'
  BY <1>c, <1>8 DEF TouchRaises, Stall, Fault, NoLoopFaults
<1>9. ASSUME NEW r \in Requests,
             StoreTerminal(r) \/ InterruptStore(r) \/ AbortFail(r)
      PROVE  ExclusionInv'
  <2>1. /\ key[r] \in Keys /\ RouteOf(r) \in Stores
        /\ disabled' = disabled /\ outlived' = outlived
    BY <1>9, RouteType DEF StoreTerminal, InterruptStore, AbortFail, RouteOf, TypeOK
  <2>2. PICK o \in {"completed", "failed"} :
          records' = records \/ records' = Write(records, r, RouteOf(r), o)
    BY <1>9 DEF StoreTerminal, InterruptStore, AbortFail, TypeOK
  <2>3. /\ pc'[r] \in {"storing", "aborting"} \cup Closed
        /\ \A q \in Requests \ {r} :
             /\ pc'[q] = pc[q] /\ pod'[q] = pod[q] /\ key'[q] = key[q] /\ home'[q] = home[q]
             /\ idle'[q] = idle[q] /\ unrenewed'[q] = unrenewed[q]
    BY <1>9 DEF StoreTerminal, InterruptStore, AbortFail, EndState, Closed, TypeOK
  <2> QED
    BY <1>c, <1>0, <2>1, <2>2, <2>3, ResolvingInv
<1>10. ASSUME NEW r \in Requests, StoreFailOpen(r) \/ AbortFailOpen(r)
       PROVE  ExclusionInv'
  <2>1. /\ key[r] \in Keys /\ pod[r] \in Stores /\ outlived' = outlived
        /\ \A x \in Pods : disabled[x] => disabled'[x]
    BY <1>10, RouteType DEF StoreFailOpen, AbortFailOpen, TypeOK
  <2>2. PICK o \in {"completed", "failed"} :
          \/ records' = Write(records, r, pod[r], o)
          \/ records' = Write(Write(records, r, Shared, o), r, pod[r], o)
    BY <1>10 DEF StoreFailOpen, AbortFailOpen, TypeOK
  <2>3. /\ pc'[r] \in {"storing", "aborting"} \cup Closed
        /\ \A q \in Requests \ {r} :
             /\ pc'[q] = pc[q] /\ pod'[q] = pod[q] /\ key'[q] = key[q] /\ home'[q] = home[q]
             /\ idle'[q] = idle[q] /\ unrenewed'[q] = unrenewed[q]
    BY <1>10 DEF StoreFailOpen, AbortFailOpen, EndState, Closed, TypeOK
  <2>4. Write(records, r, Shared, o) \in RecordTable
    BY <1>0, <2>1, WriteType
  <2> QED
    BY <1>c, <1>0, <2>1, <2>2, <2>3, <2>4, ResolvingInv
<1>11. ASSUME NEW p \in Pods, Crash(p) PROVE ExclusionInv'
  <2> SUFFICES ASSUME NEW q \in Requests PROVE InvOf(q)'
    BY DEF ExclusionInv, InvOf
  <2>1. PICK killed \in SUBSET Requests :
          /\ killed = {r \in Requests : pod[r] = p /\ pc[r] \notin Closed \cup {"new"}}
          /\ pc' = [r \in Requests |-> IF r \in killed THEN "crashed" ELSE pc[r]]
          /\ TimersDropped(killed)
    BY <1>11 DEF Crash
  <2>2. CASE q \in killed
    BY <2>1, <2>2 DEF InvOf, Covered, Live, TimersDropped
  <2>3. CASE q \notin killed
    <3>1. /\ pc'[q] = pc[q] /\ pod'[q] = pod[q] /\ key'[q] = key[q] /\ home'[q] = home[q]
          /\ idle'[q] = idle[q] /\ unrenewed'[q] = unrenewed[q] /\ outlived' = outlived
      BY <1>11, <2>1, <2>3 DEF Crash, TimersDropped
    <3>2. Live(q) => pod[q] \in Pods /\ pod[q] # p
      BY <2>1, <2>3 DEF Live, Closed, TypeOK
    <3>3. Live(q) => RouteOf(q)' = RouteOf(q)
      BY <1>c, <1>11, <3>1, <3>2 DEF Crash, RouteOf, Route, SharedPods, TypeOK
    <3>4. (Live(q)' <=> Live(q)) /\ (Covered(q)' <=> Covered(q))
      BY <3>1, <3>3 DEF Live, Covered, OnHome, Streaming
    <3>5. Covered(q) => home[q] # p
      BY <3>2, RouteType DEF Covered, OnHome, RouteOf
    <3>6. Covered(q) => Held(q)' = Held(q)
      BY <1>11, <3>1, <3>5 DEF Crash, Held, TypeOK
    <3> QED
      BY <3>1, <3>3, <3>4, <3>6 DEF InvOf, ExclusionInv
  <2> QED
    BY <2>2, <2>3
<1>14. ASSUME NEW p \in Pods, LookupFailOpen(p) PROVE ExclusionInv'
  <2> SUFFICES ASSUME NEW q \in Requests PROVE InvOf(q)'
    BY DEF ExclusionInv, InvOf
  <2>1. /\ pc'[q] = pc[q] /\ pod'[q] = pod[q] /\ key'[q] = key[q] /\ home'[q] = home[q]
        /\ idle'[q] = idle[q] /\ unrenewed'[q] = unrenewed[q] /\ records' = records
        /\ outlived' = outlived
    BY <1>14 DEF LookupFailOpen
  <2>2. \A x \in Pods : disabled[x] => disabled'[x]
    BY <1>14 DEF LookupFailOpen, TypeOK
  <2>3. Covered(q) => Owns(records'[home[q]][key[q]], q, unrenewed[q])
    BY <2>1 DEF ExclusionInv, Held
  <2> QED
    BY <1>c, <2>1, <2>2, <2>3, Bystander
<1>12. CASE Tick
  <2> SUFFICES ASSUME NEW q \in Requests PROVE InvOf(q)'
    BY DEF ExclusionInv, InvOf
  <2>1. /\ pc'[q] = pc[q] /\ (Live(q)' <=> Live(q)) /\ (Covered(q)' => Covered(q))
        /\ Covered(q)' => q \notin Outliving
        /\ RouteOf(q)' = RouteOf(q) /\ home'[q] = home[q] /\ Streaming(q)' = Streaming(q)
    BY <1>c, <1>12 DEF Tick, Live, Covered, OnHome, Streaming, RouteOf, Route, SharedPods
  <2>2. pc[q] # "admitted"
    BY <1>12 DEF Tick, Urgent
  <2>3. CASE Watched(q)
    <3>1. /\ pc[q] = "running" /\ idle[q] < Keepalive
          /\ idle'[q] = idle[q] + 1
          /\ unrenewed'[q] = unrenewed[q] + 1
      <4>1. pc[q] = "running" /\ Streaming(q) /\ idle[q] # Keepalive
        BY <1>12, <2>3 DEF Tick, Urgent, Watched, ExclusionInv
      <4>2. idle[q] \in 0..Keepalive /\ unrenewed[q] \in Nat
        BY DEF TypeOK
      <4>3. idle[q] < Keepalive /\ unrenewed[q] < RenewEvery + Keepalive
        BY <4>1, <4>2 DEF ExclusionInv
      <4>4. /\ idle'[q] = UpTo(idle[q], Keepalive)
            /\ unrenewed'[q] = UpTo(unrenewed[q], RenewEvery + Keepalive)
        BY <1>12, <2>3 DEF Tick
      <4> QED
        BY <4>1, <4>3, <4>4 DEF UpTo
    <3>2. Covered(q)' => Owns(Held(q)', q, unrenewed'[q])
      <4>1. SUFFICES ASSUME Covered(q)' PROVE Owns(Held(q)', q, unrenewed'[q])
        OBVIOUS
      <4>2. Covered(q) /\ q \notin Outliving
        BY <2>1, <4>1
      <4>3. Held(q)' = Aged(home[q], Held(q))
        BY <1>0, <1>12, <4>2 DEF Tick, Held
      <4>4. Held(q) \in Record /\ Owns(Held(q), q, unrenewed[q]) /\ unrenewed[q] \in Nat
        BY <1>0, <4>2 DEF Held, RecordTable
      <4>5. ~Expires(home[q], Held(q))
        BY <4>2 DEF Outliving, Expires, Held, Covered, Live
      <4>6. /\ Held(q)'.id = q /\ Held(q)'.status = Held(q).status
            /\ Held(q).status = "in_progress" => Held(q)'.age <= Held(q).age + 1
            /\ Held(q)'.age \in Int /\ Held(q).age \in Int
        BY <4>3, <4>4, <4>5 DEF Owns, Aged, UpTo, Record
      <4> QED
        BY <3>1, <4>4, <4>6 DEF Owns, Record
    <3> QED
      BY <2>1, <3>1, <3>2 DEF InvOf, ExclusionInv, TypeOK
  <2>4. CASE ~Watched(q)
    <3>1. idle'[q] = idle[q] /\ unrenewed'[q] = unrenewed[q]
      BY <1>12, <2>4 DEF Tick
    <3>2. ~Covered(q)
      BY <2>2, <2>4 DEF Covered, Live, Watched, Streaming
    <3> QED
      BY <2>1, <3>1, <3>2 DEF InvOf, ExclusionInv
  <2> QED
    BY <2>3, <2>4
<1>13. CASE UNCHANGED vars
  BY <1>c, <1>13
     DEF vars, ExclusionInv, Live, Covered, OnHome, Streaming, RouteOf, Route, SharedPods, Held
<1> QED
  BY <1>1, <1>2, <1>3, <1>4, <1>5, <1>6, <1>7, <1>8, <1>9, <1>10, <1>11, <1>12, <1>13, <1>14, <1>k
     DEF Next, RequestStep

(* The invariant of exclusion holds of every reachable state, if the lease  *)
(* is long enough for the renewals of the loop and nothing blocks the loop. *)
THEOREM ExclusionInvariant ==
  ASSUME LeaseFits, NoLoopFaults
  PROVE  Spec => []ExclusionInv
<1>1. Init => ExclusionInv
  BY DEF Init, ExclusionInv, Live, Covered
<1>2. TypeOK /\ TypeOK' /\ ExclusionInv /\ [Next]_vars => ExclusionInv'
  BY ExclusionStep
<1> QED
  BY <1>1, <1>2, TypeCorrect, PTL DEF Spec

(* Under the same conditions no key has two stream handlers in one store:   *)
(* the two would both be the id of its record.                              *)
THEOREM StreamsExclude ==
  ASSUME LeaseFits, NoLoopFaults
  PROVE  Spec => []StreamExclusion
<1>1. ExclusionInv => StreamExclusion
  BY DEF ExclusionInv, StreamExclusion, Covered, Owns, Held
<1> QED
  BY <1>1, ExclusionInvariant, PTL

(* The record that a covered handler renews is not dropped by Redis, which  *)
(* waits at least two leases: a handler can outlive its record only if that *)
(* was resolved, by another request, while the handler was at work.         *)
THEOREM RenewedRecordsStay ==
  ASSUME LeaseFits, NoLoopFaults
  PROVE  Spec => [][\A r \in Requests :
                      Covered(r) /\ r \in outlived' => Held(r).status # "in_progress"]_vars
<1> DEFINE Stays ==
      \A r \in Requests : Covered(r) /\ r \in outlived' => Held(r).status # "in_progress"
<1>1. TypeOK /\ TypeOK' /\ ExclusionInv /\ [Next]_vars => Stays
  <2> SUFFICES ASSUME TypeOK, ExclusionInv, [Next]_vars, NEW r \in Requests, Covered(r),
                      r \in outlived', Held(r).status = "in_progress"
               PROVE  FALSE
    OBVIOUS
  <2>1. Tick /\ r \in Outliving
    <3>1. Tick \/ outlived' = outlived
      BY OutlivedGrows
    <3>2. r \notin outlived
      BY DEF Covered
    <3> QED
      BY <3>1, <3>2 DEF Tick
  <2>2. pc[r] = "running" /\ Streaming(r) /\ idle[r] # Keepalive
    BY <2>1 DEF Tick, Urgent, Covered, Live, ExclusionInv
  <2>3. unrenewed[r] <= RenewEvery - 1 + idle[r] /\ idle[r] \in 0..Keepalive
    BY <2>2 DEF ExclusionInv, TypeOK
  <2>4. Held(r).age <= unrenewed[r] /\ Held(r).age \in Nat /\ unrenewed[r] \in Nat
    BY OwnedNow DEF Owns, Held, TypeOK, Record
  <2>5. Held(r).age + 1 >= Ttl
    BY <2>1 DEF Outliving, Expires, Held
  <2> QED
    BY <2>2, <2>3, <2>4, <2>5 DEF LeaseFits
<1>2. TypeOK /\ TypeOK' /\ ExclusionInv /\ [Next]_vars => [Stays]_vars
  BY <1>1
<1>3. Spec => [][Stays]_vars
  BY <1>2, ExclusionInvariant, TypeCorrect, PTL DEF Spec
<1>4. QED
  BY <1>3

-----------------------------------------------------------------------------
(* What a step may do to one record.                                        *)

Open(r) == pc[r] \notin Closed \cup {"new"}

\* it stays, perhaps renewed
Kept(s, k) == records'[s][k] \in {records[s][k], Touched(records[s][k])}

\* time passes, while no request is storing
Grown(s, k) ==
  /\ records'[s][k] = Aged(s, records[s][k])
  /\ pc' = pc /\ \A r \in Requests : pc[r] # "storing"
  /\ outlived' = outlived \cup Outliving

\* the process dies that kept it in a dict
Wiped(s, k) ==
  /\ records'[s][k] = NoRecord /\ s \in Pods \ DurablePods
  /\ \A r \in Requests : pod[r] = s /\ Open(r) => pc'[r] = "crashed"

\* a request that arrives takes it over
Taken(s, k) ==
  \E r \in Requests :
    /\ pc[r] = "new" /\ pc'[r] # "new"
    /\ Startable(records[s][k]) /\ records'[s][k] = Fresh(r)

\* a handler has ended
Stored(s, k) ==
  \E r \in Requests :
    /\ pc[r] = "storing" /\ pc'[r] \in Closed \cup {"aborting"}
    /\ key[r] = k /\ (s = RouteOf(r) \/ s \notin Primary)
    /\ records'[s][k] = Resolved(records[s][k], outcome[r], r)

\* a handler was abandoned
Aborted(s, k) ==
  \E r \in Requests :
    /\ pc[r] = "aborting" /\ pc'[r] \in Closed
    /\ key[r] = k /\ records'[s][k] = Resolved(records[s][k], "failed", r)

RecordStep(s, k) ==
  Kept(s, k) \/ Grown(s, k) \/ Wiped(s, k) \/ Taken(s, k) \/ Stored(s, k) \/ Aborted(s, k)

\* a record that time passes over has expired or is what it was, older
LEMMA Older ==
  ASSUME TypeOK, NEW s \in Stores, NEW k \in Keys, Grown(s, k)
  PROVE  \/ /\ s = Shared /\ records[s][k].status # "absent" /\ records[s][k].age + 1 >= Ttl
            /\ Expires(s, records[s][k]) /\ records'[s][k] = NoRecord
         \/ /\ records'[s][k].id = records[s][k].id
            /\ records'[s][k].status = records[s][k].status
            /\ records'[s][k].by = records[s][k].by
            /\ SameRecord(records[s][k], records'[s][k])
<1> DEFINE rec == records[s][k]
<1>1. rec \in Record /\ records'[s][k] = Aged(s, rec)
  BY DEF TypeOK, Grown
<1>2. CASE Expires(s, rec)
  <2>1. records'[s][k] = NoRecord /\ s = Shared /\ rec.status # "absent" /\ rec.age + 1 >= Ttl
    BY <1>1, <1>2 DEF Aged, Expires
  <2>2. QED
    BY <1>1, <1>2, <2>1 DEF Record
<1>3. CASE ~Expires(s, rec)
  BY <1>1, <1>3 DEF Aged, Record, SameRecord
<1>4. QED
  BY <1>2, <1>3

\* a request that is done begins or ends so
Refused(r) ==
  /\ pc[r] = "new" /\ home'[r] \in Stores /\ key'[r] \in Keys
  /\ ~Startable(records[home'[r]][key'[r]])
  /\ records'[home'[r]][key'[r]] = records[home'[r]][key'[r]]
  /\ answer'[r] = DuplicateAnswer(records[home'[r]][key'[r]])

Resolving(r) ==
  /\ home[r] \in Stores /\ key[r] \in Keys /\ RouteOf(r) = home[r]
  /\ \/ /\ pc[r] = "storing" /\ answer'[r] = OwnAnswer(r, outcome[r])
        /\ records'[home[r]][key[r]] = Resolved(Held(r), outcome[r], r)
     \/ /\ pc[r] = "aborting" /\ answer'[r] = answer[r]
        /\ records'[home[r]][key[r]] = Resolved(Held(r), "failed", r)

\* or is admitted to begin a handler
Admitted(r) ==
  /\ pc[r] = "new" /\ pc'[r] = "admitted"
  /\ home'[r] \in Stores /\ key'[r] \in Keys
  /\ records'[home'[r]][key'[r]] = Fresh(r)
  /\ home'[r] \in {Shared, RouteOf(r)'}
  /\ home'[r] = Shared => pod'[r] \in SharedPods

RequestMove(r) ==
  /\ pc'[r] = "new" => pc[r] = "new"
  /\ pc[r] = "new" => pc'[r] \in {"new", "done", "dropped"} \/ Admitted(r)
  /\ pc[r] \in Closed => pc'[r] = pc[r] /\ answer'[r] = answer[r]
  /\ pc[r] # "new" => key'[r] = key[r] /\ home'[r] = home[r] /\ pod'[r] = pod[r]
  /\ pc'[r] = "done" => pc[r] = "done" \/ Refused(r) \/ Resolving(r)
  /\ pc'[r] \notin Closed => answer'[r] \in {answer[r], NoAnswer}
  /\ pc'[r] = "storing" => pc[r] \in {"running", "storing"}
  /\ pc[r] = "aborting" => pc'[r] \in Closed \cup {"aborting"}

LEMMA Tables ==
  ASSUME TypeOK
  PROVE  /\ records \in RecordTable /\ Shared \in Stores
         /\ \A s \in Stores, k \in Keys : records[s][k] \in Record
         /\ \A r \in Requests : pc[r] # "new" =>
              /\ pod[r] \in Pods /\ key[r] \in Keys /\ home[r] \in Stores
              /\ RouteOf(r) \in {pod[r], Shared} /\ RouteOf(r) \in Stores
              /\ pod[r] \in Stores /\ pod[r] # Shared
<1>1. records \in RecordTable /\ Shared \in Stores
  BY DEF TypeOK, RecordTable, Stores
<1>2. \A s \in Stores, k \in Keys : records[s][k] \in Record
  BY <1>1 DEF RecordTable
<1>3. ASSUME NEW r \in Requests, pc[r] # "new"
      PROVE  /\ pod[r] \in Pods /\ key[r] \in Keys /\ home[r] \in Stores
             /\ RouteOf(r) \in {pod[r], Shared} /\ RouteOf(r) \in Stores
             /\ pod[r] \in Stores /\ pod[r] # Shared
  <2>1. pod[r] \in Pods /\ key[r] \in Keys /\ home[r] \in Stores
    BY <1>3 DEF TypeOK
  <2>2. QED
    BY <2>1, RouteType DEF RouteOf
<1>4. QED
  BY <1>1, <1>2, <1>3

(* A table in which the record of store t and key l was replaced, as each   *)
(* kind of write replaces it.                                               *)
LEMMA WriteAt ==
  ASSUME TypeOK, NEW recs \in RecordTable, NEW r \in Requests, pc[r] # "new", NEW t \in Stores,
         NEW o \in {"completed", "failed"}, NEW s \in Stores, NEW k \in Keys
  PROVE  Write(recs, r, t, o)[s][k] =
           IF s = t /\ k = key[r] THEN Resolved(recs[s][k], o, r) ELSE recs[s][k]
<1>1. key[r] \in Keys
  BY Tables
<1>2. recs[t][key[r]] \in Record
  BY <1>1 DEF RecordTable
<1>3. Resolved(recs[t][key[r]], o, r) \in Record
  BY <1>2, ResolvedType
<1>4. QED
  BY <1>1, <1>3, PutAt DEF Write

LEMMA RenewedAt ==
  ASSUME TypeOK, NEW r \in Requests, pc[r] # "new", NEW t \in Stores,
         NEW s \in Stores, NEW k \in Keys
  PROVE  /\ Renewed(r, t) \in RecordTable
         /\ Renewed(r, t)[s][k] \in {records[s][k], Touched(records[s][k])}
<1>1. key[r] \in Keys /\ records \in RecordTable
  BY Tables
<1>2. Touched(records[t][key[r]]) \in Record
  BY <1>1, Tables, TouchedType
<1>3. Renewed(r, t)[s][k] = IF s = t /\ k = key[r] THEN Touched(records[t][key[r]]) ELSE records[s][k]
  BY <1>1, <1>2, PutAt DEF Renewed
<1>4. QED
  BY <1>1, <1>3, RenewedType

LEMMA StartedAt ==
  ASSUME TypeOK, NEW recs \in RecordTable, NEW r \in Requests, NEW t \in Stores, NEW l \in Keys,
         NEW s \in Stores, NEW k \in Keys
  PROVE  Put(recs, t, l, Started(recs[t][l], r))[s][k] =
           IF s = t /\ k = l THEN Started(recs[s][k], r) ELSE recs[s][k]
<1>1. recs[t][l] \in Record
  BY DEF RecordTable
<1>2. QED
  BY <1>1, StartedType, PutAt

LEMMA BeginSteps ==
  ASSUME TypeOK, NEW r \in Requests, NEW p \in Pods, NEW l \in Keys,
         Begin(r, p, l) \/ BeginFailOpen(r, p, l) \/ BeginInterrupted(r, p, l),
         NEW s \in Stores, NEW k \in Keys
  PROVE  RecordStep(s, k)
<1>1. records \in RecordTable /\ Shared \in Stores /\ p \in Stores /\ Route(p) \in Stores /\ p # Shared
  BY Tables, RouteType
<1>2. pc[r] = "new" /\ pc'[r] # "new"
  BY DEF Begin, BeginFailOpen, BeginInterrupted, StartOrGet, TypeOK
<1>3. records'[s][k] \in {records[s][k], Started(records[s][k], r)}
  <2>1. CASE Begin(r, p, l) \/ BeginInterrupted(r, p, l)
    <3>1. records' = Put(records, Route(p), l, Started(records[Route(p)][l], r))
      BY <2>1 DEF Begin, BeginInterrupted, StartOrGet
    <3>2. QED
      BY <1>1, <3>1, StartedAt
  <2>2. CASE BeginFailOpen(r, p, l)
    <3> DEFINE landed == Put(records, Shared, l, Started(records[Shared][l], r))
    <3>1. landed \in RecordTable
      BY <1>1, Tables, StartedType, PutType
    <3>2. landed[s][k] = IF s = Shared /\ k = l THEN Started(records[s][k], r) ELSE records[s][k]
      BY <1>1, StartedAt
    <3>3. PICK recs \in {records, landed} : StartOrGet(recs, r, p, l, p)
      BY <2>2 DEF BeginFailOpen
    <3> HIDE DEF landed
    <3>4. records'[s][k] = IF s = p /\ k = l THEN Started(recs[s][k], r) ELSE recs[s][k]
      BY <1>1, <3>1, <3>3, StartedAt DEF StartOrGet
    <3>5. QED
      BY <1>1, <3>2, <3>3, <3>4
  <2>3. QED
    BY <2>1, <2>2
<1>4. QED
  BY <1>2, <1>3 DEF RecordStep, Kept, Taken, Started

LEMMA LoopSteps ==
  ASSUME TypeOK, NEW r \in Requests,
         \/ EnterHandler(r) \/ InterruptAdmitted(r)
         \/ StreamTurn(r) \/ TouchFailOpen(r) \/ TouchRaises(r) \/ Stall(r)
         \/ \E o \in {"completed", "failed"} : HandlerReturns(r, o),
         NEW s \in Stores, NEW k \in Keys
  PROVE  Kept(s, k)
<1>1. CASE records' = records
  BY <1>1 DEF Kept
<1>2. CASE StreamTurn(r)
  <2>1. RouteOf(r) \in Stores /\ pc[r] # "new"
    BY <1>2, Tables DEF StreamTurn
  <2>2. records' = records \/ records' = Renewed(r, RouteOf(r))
    BY <1>2 DEF StreamTurn
  <2>3. QED
    BY <2>1, <2>2, RenewedAt DEF Kept
<1>3. CASE TouchFailOpen(r)
  <2>1. pod[r] \in Stores /\ key[r] \in Keys /\ pc[r] # "new" /\ Shared \in Stores /\ pod[r] # Shared
        /\ records \in RecordTable
    BY <1>3, Tables DEF TouchFailOpen
  <2>2. PICK recs \in {Renewed(r, Shared), records} :
          records' = Put(recs, pod[r], key[r], Touched(records[pod[r]][key[r]]))
    BY <1>3 DEF TouchFailOpen
  <2>3. recs \in RecordTable /\ recs[s][k] \in {records[s][k], Touched(records[s][k])}
    BY <2>1, <2>2, RenewedAt
  <2>4. Touched(records[pod[r]][key[r]]) \in Record
    BY <2>1, Tables, TouchedType
  <2>5. QED
    BY <2>1, <2>2, <2>3, <2>4, PutAt DEF Kept
<1>4. QED
  BY <1>1, <1>2, <1>3 DEF EnterHandler, InterruptAdmitted, TouchRaises, Stall, HandlerReturns

LEMMA SharedRoute ==
  ASSUME TypeOK, NEW r \in Requests, pc[r] # "new", RouteOf(r) = Shared
  PROVE  pod[r] \notin Primary
BY Tables DEF RouteOf, Route, Primary

LEMMA StoreSteps ==
  ASSUME TypeOK, NEW r \in Requests,
         StoreTerminal(r) \/ StoreFailOpen(r) \/ InterruptStore(r) \/ InterruptHandler(r),
         NEW s \in Stores, NEW k \in Keys
  PROVE  Kept(s, k) \/ Stored(s, k)
<1>1. CASE InterruptHandler(r)
  BY <1>1 DEF InterruptHandler, Kept
<1>2. CASE StoreTerminal(r) \/ StoreFailOpen(r) \/ InterruptStore(r)
  <2>1. /\ pc[r] = "storing" /\ outcome[r] \in {"completed", "failed"} /\ pc'[r] \in Closed \cup {"aborting"}
        /\ records \in RecordTable /\ Shared \in Stores /\ RouteOf(r) \in Stores
        /\ pod[r] \in Stores /\ key[r] \in Keys /\ pod[r] # Shared
    BY <1>2, Tables DEF StoreTerminal, StoreFailOpen, InterruptStore, TypeOK, EndState, Closed
  <2>2. \/ records'[s][k] = records[s][k]
        \/ /\ k = key[r] /\ (s = RouteOf(r) \/ s \notin Primary)
           /\ records'[s][k] = Resolved(records[s][k], outcome[r], r)
    <3>1. CASE records' \in {records, Write(records, r, RouteOf(r), outcome[r])}
      BY <2>1, <3>1, WriteAt
    <3>2. CASE StoreFailOpen(r)
      <4>1. PICK recs \in {Write(records, r, Shared, outcome[r]), records} :
              records' = Write(recs, r, pod[r], outcome[r])
        BY <3>2 DEF StoreFailOpen
      <4>2. /\ recs \in RecordTable
            /\ \/ recs[s][k] = records[s][k]
               \/ /\ k = key[r] /\ s = Shared
                  /\ recs[s][k] = Resolved(records[s][k], outcome[r], r)
        <5>1. Write(records, r, Shared, outcome[r]) \in RecordTable
          BY <2>1, WriteType
        <5>2. Write(records, r, Shared, outcome[r])[s][k] =
                IF s = Shared /\ k = key[r] THEN Resolved(records[s][k], outcome[r], r)
                ELSE records[s][k]
          BY <2>1, WriteAt
        <5>3. QED
          BY <2>1, <4>1, <5>1, <5>2
      <4>3. pod[r] \notin Primary /\ RouteOf(r) = Shared
        BY <2>1, <3>2, SharedRoute DEF StoreFailOpen
      <4>4. records'[s][k] = IF s = pod[r] /\ k = key[r] THEN Resolved(recs[s][k], outcome[r], r)
                             ELSE recs[s][k]
        BY <2>1, <4>1, <4>2, WriteAt
      <4>5. QED
        BY <2>1, <4>2, <4>3, <4>4
    <3>3. QED
      BY <1>2, <3>1, <3>2 DEF StoreTerminal, InterruptStore
  <2>3. QED
    BY <2>1, <2>2 DEF Kept, Stored
<1>3. QED
  BY <1>1, <1>2

LEMMA AbortSteps ==
  ASSUME TypeOK, NEW r \in Requests, AbortFail(r) \/ AbortFailOpen(r) \/ AbortLost(r),
         NEW s \in Stores, NEW k \in Keys
  PROVE  Kept(s, k) \/ Aborted(s, k)
<1>1. /\ pc[r] = "aborting" /\ pc'[r] \in Closed
      /\ records \in RecordTable /\ Shared \in Stores /\ RouteOf(r) \in Stores
      /\ pod[r] \in Stores /\ key[r] \in Keys /\ pod[r] # Shared
  BY Tables DEF AbortFail, AbortFailOpen, AbortLost, TypeOK, EndState, Closed
<1>2. \/ records'[s][k] = records[s][k]
      \/ k = key[r] /\ records'[s][k] = Resolved(records[s][k], "failed", r)
  <2>1. CASE records' \in {records, Write(records, r, RouteOf(r), "failed")}
    BY <1>1, <2>1, WriteAt
  <2>2. CASE AbortFailOpen(r)
    <3>1. PICK recs \in {Write(records, r, Shared, "failed"), records} :
            records' = Write(recs, r, pod[r], "failed")
      BY <2>2 DEF AbortFailOpen
    <3>2. /\ recs \in RecordTable
          /\ \/ recs[s][k] = records[s][k]
             \/ k = key[r] /\ s = Shared /\ recs[s][k] = Resolved(records[s][k], "failed", r)
      BY <1>1, <3>1, WriteAt, WriteType
    <3>3. QED
      BY <1>1, <3>1, <3>2, WriteAt
  <2>3. QED
    BY <2>1, <2>2 DEF AbortFail, AbortLost
<1>3. QED
  BY <1>1, <1>2 DEF Kept, Aborted

LEMMA PodSteps ==
  ASSUME TypeOK, NEW p \in Pods, LookupFailOpen(p) \/ Crash(p), NEW s \in Stores, NEW k \in Keys
  PROVE  Kept(s, k) \/ Wiped(s, k)
<1>1. CASE records'[s][k] = records[s][k]
  BY <1>1 DEF Kept
<1>2. CASE Crash(p) /\ records'[s][k] # records[s][k]
  <2>1. p \notin DurablePods /\ records' = [records EXCEPT ![p] = [l \in Keys |-> NoRecord]]
    BY <1>2 DEF Crash
  <2>2. s = p /\ records'[s][k] = NoRecord
    BY <1>2, <2>1, Tables DEF RecordTable
  <2>3. \A r \in Requests : pod[r] = p /\ Open(r) => pc'[r] = "crashed"
    BY <1>2 DEF Crash, Open
  <2>4. QED
    BY <2>1, <2>2, <2>3 DEF Wiped
<1>3. QED
  BY <1>1, <1>2 DEF LookupFailOpen

(* Each record goes through one of the six changes in every step.           *)
LEMMA RecordSteps ==
  ASSUME TypeOK, [Next]_vars, NEW s \in Stores, NEW k \in Keys
  PROVE  RecordStep(s, k)
<1>1. conf.keys \subseteq Keys
  BY DEF TypeOK, Deployment
<1>2. CASE \E r \in Requests : RequestStep(r)
  BY <1>1, <1>2, BeginSteps, LoopSteps, StoreSteps, AbortSteps DEF RequestStep, RecordStep
<1>3. CASE \E p \in Pods : LookupFailOpen(p) \/ Crash(p)
  BY <1>3, PodSteps DEF RecordStep
<1>4. CASE Tick
  <2>1. records'[s][k] = Aged(s, records[s][k])
    BY <1>4 DEF Tick
  <2>2. QED
    BY <1>4, <2>1 DEF Tick, Urgent, RecordStep, Grown
<1>5. CASE UNCHANGED vars
  BY <1>5 DEF vars, RecordStep, Kept
<1>6. QED
  BY <1>2, <1>3, <1>4, <1>5 DEF Next

-----------------------------------------------------------------------------
(* Where a request may go in a step.                                        *)

LEMMA PrimaryFixed ==
  ASSUME TypeOK, TypeOK', [Next]_vars
  PROVE  /\ SharedPods' = SharedPods /\ DurablePods' = DurablePods
         /\ Primary' = Primary /\ Lasting' = Lasting
BY DeploymentFixed DEF SharedPods, DurablePods, Primary, Lasting, Suspends

LEMMA BeginMoves ==
  ASSUME TypeOK, NEW r \in Requests, NEW p \in Pods, NEW l \in Keys,
         Begin(r, p, l) \/ BeginFailOpen(r, p, l) \/ BeginInterrupted(r, p, l)
  PROVE  /\ pc[r] = "new" /\ pc'[r] \in {"admitted", "done", "dropped"}
         /\ pc'[r] = "done" => Refused(r)
         /\ pc'[r] \notin Closed => answer'[r] = NoAnswer
         /\ pc'[r] = "admitted" => Admitted(r)
         /\ \A q \in Requests \ {r} :
              /\ pc'[q] = pc[q] /\ key'[q] = key[q] /\ home'[q] = home[q] /\ pod'[q] = pod[q]
              /\ answer'[q] = answer[q] /\ outcome'[q] = outcome[q]
<1>1. records \in RecordTable /\ Shared \in Stores /\ p \in Stores /\ Route(p) \in Stores /\ p # Shared
  BY Tables, RouteType
<1>2. CASE BeginInterrupted(r, p, l)
  BY <1>2 DEF BeginInterrupted, TypeOK, Closed
<1>3. CASE Begin(r, p, l) \/ BeginFailOpen(r, p, l)
  <2>1. \E recs \in RecordTable, s \in Stores :
          /\ StartOrGet(recs, r, p, l, s) /\ recs[s][l] = records[s][l]
          /\ s \in {Shared, Route(p)'} /\ (s = Shared => p \in SharedPods)
    <3>1. CASE Begin(r, p, l)
      BY <1>1, <3>1 DEF Begin, Route, SharedPods, StartOrGet
    <3>2. CASE BeginFailOpen(r, p, l)
      <4> DEFINE landed == Put(records, Shared, l, Started(records[Shared][l], r))
      <4>1. landed \in RecordTable
        BY <1>1, Tables, StartedType, PutType
      <4>2. landed[p][l] = records[p][l]
        BY <1>1, StartedAt
      <4>3. StartOrGet(landed, r, p, l, p) \/ StartOrGet(records, r, p, l, p)
        BY <3>2 DEF BeginFailOpen
      <4> HIDE DEF landed
      <4>4. QED
        BY <1>1, <3>2, <4>1, <4>2, <4>3 DEF BeginFailOpen, Route, SharedPods, TypeOK, StartOrGet
    <3>3. QED
      BY <1>3, <3>1, <3>2
  <2>2. PICK recs \in RecordTable, s \in Stores :
          /\ StartOrGet(recs, r, p, l, s) /\ recs[s][l] = records[s][l]
          /\ s \in {Shared, Route(p)'} /\ (s = Shared => p \in SharedPods)
    BY <2>1
  <2>3. /\ pc[r] = "new" /\ home'[r] = s /\ key'[r] = l
        /\ pc'[r] = IF Startable(records[s][l]) THEN "admitted" ELSE "done"
        /\ answer'[r] = IF Startable(records[s][l]) THEN NoAnswer ELSE DuplicateAnswer(records[s][l])
    BY <2>2 DEF StartOrGet, TypeOK
  <2>4. home'[r] \in {Shared, RouteOf(r)'} /\ (home'[r] = Shared => pod'[r] \in SharedPods)
    BY <2>2, <2>3 DEF StartOrGet, TypeOK, RouteOf
  <2>5. records'[s][l] = Started(records[s][l], r)
    BY <2>2, StartedAt DEF StartOrGet
  <2>6. \A q \in Requests \ {r} :
          /\ pc'[q] = pc[q] /\ key'[q] = key[q] /\ home'[q] = home[q] /\ pod'[q] = pod[q]
          /\ answer'[q] = answer[q] /\ outcome'[q] = outcome[q]
    BY <2>2 DEF StartOrGet, TypeOK
  <2>7. QED
    BY <2>3, <2>4, <2>5, <2>6 DEF Refused, Admitted, Started, Closed
<1>4. QED
  BY <1>2, <1>3

\* the steps of a request other than its arrival, up to the end of its handler
LEMMA LoopMoves ==
  ASSUME TypeOK, NEW r \in Requests,
         \/ EnterHandler(r) \/ InterruptAdmitted(r)
         \/ StreamTurn(r) \/ TouchFailOpen(r) \/ TouchRaises(r) \/ Stall(r)
         \/ \E o \in {"completed", "failed"} : HandlerReturns(r, o)
         \/ InterruptHandler(r)
  PROVE  /\ UNCHANGED <<key, home, pod, answer>>
         /\ \A q \in Requests \ {r} : pc'[q] = pc[q]
         /\ pc[r] \in {"admitted", "running", "stalled"}
         /\ pc'[r] = "storing" => pc[r] = "running"
         /\ pc'[r] \in {"running", "stalled", "storing", "aborting", "dropped"}
BY DEF TypeOK, EnterHandler, InterruptAdmitted, StreamTurn, TouchFailOpen, TouchRaises, Stall,
       HandlerReturns, InterruptHandler

LEMMA EndMoves ==
  ASSUME TypeOK, NEW r \in Requests,
         \/ StoreTerminal(r) \/ StoreFailOpen(r) \/ InterruptStore(r)
         \/ AbortFail(r) \/ AbortFailOpen(r) \/ AbortLost(r)
  PROVE  /\ UNCHANGED <<key, home, pod>>
         /\ \A q \in Requests \ {r} : pc'[q] = pc[q] /\ answer'[q] = answer[q]
         /\ pc[r] \in {"storing", "aborting"}
         /\ pc'[r] \in {"aborting"} \cup Closed
         /\ pc'[r] = "aborting" => answer'[r] = answer[r]
         /\ pc'[r] = "done" => Resolving(r)
<1>1. /\ pc[r] # "new" /\ records \in RecordTable /\ Shared \in Stores /\ RouteOf(r) \in Stores
      /\ pod[r] \in Stores /\ key[r] \in Keys /\ pod[r] # Shared /\ home[r] \in Stores
      /\ pc[r] = "storing" => outcome[r] \in {"completed", "failed"}
  <2>1. pc[r] # "new"
    BY DEF StoreTerminal, StoreFailOpen, InterruptStore, AbortFail, AbortFailOpen, AbortLost
  <2>2. QED
    BY <2>1, Tables DEF TypeOK
<1>2. CASE StoreTerminal(r)
  <2>1. pc'[r] = "done" => RouteOf(r) = home[r]
    BY <1>2 DEF StoreTerminal, EndState, TypeOK
  <2>2. records'[RouteOf(r)][key[r]] = Resolved(records[RouteOf(r)][key[r]], outcome[r], r)
    BY <1>1, <1>2, WriteAt DEF StoreTerminal
  <2>3. QED
    BY <1>1, <1>2, <2>1, <2>2 DEF StoreTerminal, TypeOK, Closed, EndState, Resolving, Held
<1>3. CASE StoreFailOpen(r)
  <2>1. RouteOf(r) = Shared /\ (pc'[r] = "done" => home[r] = Shared)
    BY <1>3 DEF StoreFailOpen, EndState, TypeOK
  <2>2. pc'[r] = "done" => records' = Write(Write(records, r, Shared, outcome[r]), r, pod[r], outcome[r])
    BY <1>3 DEF StoreFailOpen, TypeOK
  <2>3. pc[r] = "storing" /\ Write(records, r, Shared, outcome[r]) \in RecordTable
    BY <1>1, <1>3, WriteType DEF StoreFailOpen
  <2>4. pc'[r] = "done" =>
          records'[Shared][key[r]] = Resolved(records[Shared][key[r]], outcome[r], r)
    <3>1. Write(records, r, Shared, outcome[r])[Shared][key[r]]
            = Resolved(records[Shared][key[r]], outcome[r], r)
      BY <1>1, <2>3, WriteAt
    <3>2. Write(Write(records, r, Shared, outcome[r]), r, pod[r], outcome[r])[Shared][key[r]]
            = Write(records, r, Shared, outcome[r])[Shared][key[r]]
      BY <1>1, <2>3, WriteAt
    <3>3. QED
      BY <2>2, <3>1, <3>2
  <2>5. QED
    BY <1>1, <1>3, <2>1, <2>3, <2>4 DEF StoreFailOpen, TypeOK, Closed, EndState, Resolving, Held
<1>4. CASE InterruptStore(r)
  BY <1>4 DEF InterruptStore, TypeOK, Closed
<1>5. CASE AbortFail(r)
  <2>1. pc'[r] = "done" => RouteOf(r) = home[r]
    BY <1>5 DEF AbortFail, EndState, TypeOK
  <2>2. records'[RouteOf(r)][key[r]] = Resolved(records[RouteOf(r)][key[r]], "failed", r)
    BY <1>1, <1>5, WriteAt DEF AbortFail
  <2>3. QED
    BY <1>1, <1>5, <2>1, <2>2 DEF AbortFail, TypeOK, Closed, EndState, Resolving, Held
<1>6. CASE AbortFailOpen(r)
  <2>1. RouteOf(r) = Shared /\ (pc'[r] = "done" => home[r] = Shared)
    BY <1>6 DEF AbortFailOpen, EndState, TypeOK
  <2>2. pc'[r] = "done" => records' = Write(Write(records, r, Shared, "failed"), r, pod[r], "failed")
    BY <1>6 DEF AbortFailOpen, TypeOK
  <2>3. Write(records, r, Shared, "failed") \in RecordTable
    BY <1>1, WriteType
  <2>4. pc'[r] = "done" => records'[Shared][key[r]] = Resolved(records[Shared][key[r]], "failed", r)
    BY <1>1, <2>2, <2>3, WriteAt
  <2>5. QED
    BY <1>1, <1>6, <2>1, <2>4 DEF AbortFailOpen, TypeOK, Closed, EndState, Resolving, Held
<1>7. CASE AbortLost(r)
  BY <1>7 DEF AbortLost, TypeOK, Closed
<1>8. QED
  BY <1>2, <1>3, <1>4, <1>5, <1>6, <1>7

LEMMA RequestMoves ==
  ASSUME TypeOK, [Next]_vars, NEW q \in Requests
  PROVE  RequestMove(q)
<1>k. conf.keys \subseteq Keys
  BY DEF TypeOK, Deployment
<1>1. ASSUME NEW r \in Requests, NEW p \in Pods, NEW l \in Keys,
             Begin(r, p, l) \/ BeginFailOpen(r, p, l) \/ BeginInterrupted(r, p, l)
      PROVE  RequestMove(q)
  BY <1>1, BeginMoves DEF RequestMove, Closed
<1>2. ASSUME NEW r \in Requests,
         \/ EnterHandler(r) \/ InterruptAdmitted(r)
         \/ StreamTurn(r) \/ TouchFailOpen(r) \/ TouchRaises(r) \/ Stall(r)
         \/ \E o \in {"completed", "failed"} : HandlerReturns(r, o)
         \/ InterruptHandler(r)
      PROVE  RequestMove(q)
  BY <1>2, LoopMoves DEF RequestMove, Closed
<1>3. ASSUME NEW r \in Requests,
         \/ StoreTerminal(r) \/ StoreFailOpen(r) \/ InterruptStore(r)
         \/ AbortFail(r) \/ AbortFailOpen(r) \/ AbortLost(r)
      PROVE  RequestMove(q)
  BY <1>3, EndMoves DEF RequestMove, Closed
<1>4. CASE \E p \in Pods : LookupFailOpen(p) \/ Crash(p)
  BY <1>4 DEF LookupFailOpen, Crash, TypeOK, RequestMove, Closed, PCs
<1>5. CASE Tick \/ UNCHANGED vars
  BY <1>5 DEF Tick, vars, RequestMove
<1>6. QED
  BY <1>k, <1>1, <1>2, <1>3, <1>4, <1>5 DEF Next, RequestStep

-----------------------------------------------------------------------------
(* Tier A.  The id of a record is that of the request which began it, so a  *)
(* request that is done cannot have its record begun again.                 *)

\* no store has the id of a request that has not arrived
IdsAreUsed ==
  \A r \in Requests, s \in Stores, k \in Keys : pc[r] = "new" => records[s][k].id # r

\* the request whose record it is
LEMMA RecordId ==
  ASSUME TypeOK, [Next]_vars, NEW s \in Stores, NEW k \in Keys
  PROVE  \/ /\ records'[s][k].id = records[s][k].id
            /\ records'[s][k].status = "in_progress" => records[s][k].status = "in_progress"
         \/ records'[s][k].id = Nobody
         \/ \E q \in Requests : pc[q] = "new" /\ pc'[q] # "new" /\ records'[s][k].id = q
<1>1. records[s][k] \in Record /\ RecordStep(s, k)
  BY Tables, RecordSteps
<1>2. CASE Kept(s, k) \/ Grown(s, k)
  <2>1. CASE Kept(s, k)
    BY <1>1, <2>1 DEF Kept, Touched, Record
  <2>2. CASE Grown(s, k)
    BY <1>1, <2>2, Older DEF NoRecord
  <2>3. QED
    BY <1>2, <2>1, <2>2
<1>3. CASE Wiped(s, k)
  BY <1>3 DEF Wiped, NoRecord
<1>4. CASE Taken(s, k)
  BY <1>4 DEF Taken, Fresh
<1>5. CASE Stored(s, k) \/ Aborted(s, k)
  <2>1. \E o \in {"completed", "failed"}, q \in Requests :
          records'[s][k] = Resolved(records[s][k], o, q)
    BY <1>5 DEF Stored, Aborted, TypeOK
  <2>2. QED
    BY <1>1, <2>1 DEF Resolved, Record
<1>6. QED
  BY <1>1, <1>2, <1>3, <1>4, <1>5 DEF RecordStep

LEMMA IdsStep ==
  ASSUME TypeOK, IdsAreUsed, [Next]_vars
  PROVE  IdsAreUsed'
<1> SUFFICES ASSUME NEW r \in Requests, NEW s \in Stores, NEW k \in Keys, pc'[r] = "new"
             PROVE  records'[s][k].id # r
  BY DEF IdsAreUsed
<1>1. records[s][k].id # r /\ records[s][k] \in Record
  BY RequestMoves, Tables DEF RequestMove, IdsAreUsed
<1>2. QED
  BY <1>1, RecordId

LEMMA TierAStep ==
  ASSUME TypeOK, TypeOK', IdsAreUsed, TierAResolves, [Next]_vars
  PROVE  TierAResolves'
<1> SUFFICES ASSUME NEW r \in Requests, pc'[r] = "done" PROVE ~Stranded(r)'
  BY DEF TierAResolves
<1>1. RequestMove(r) /\ home'[r] \in Stores /\ key'[r] \in Keys
  BY RequestMoves DEF TypeOK
<1>2. CASE pc[r] = "done"
  <2>1. home'[r] = home[r] /\ key'[r] = key[r] /\ ~Stranded(r)
    BY <1>1, <1>2 DEF RequestMove, TierAResolves
  <2>2. QED
    BY <1>1, <1>2, <2>1, RecordId DEF Stranded, Held
<1>3. CASE Refused(r)
  BY <1>1, <1>3 DEF Refused, IdsAreUsed, Stranded, Held
<1>4. CASE Resolving(r)
  <2>1. home'[r] = home[r] /\ key'[r] = key[r]
    BY <1>1, <1>4 DEF RequestMove, Resolving
  <2>2. Held(r) \in Record /\ (pc[r] = "storing" => outcome[r] \in {"completed", "failed"})
    BY <1>4, Tables DEF Resolving, Held, TypeOK
  <2>3. QED
    BY <1>4, <2>1, <2>2 DEF Resolving, Stranded, Held, Resolved, Record
<1>5. QED
  BY <1>1, <1>2, <1>3, <1>4 DEF RequestMove

(* A handler that was left by return, exception or cancellation, and whose  *)
(* terminal write reached its store, has not left its record in_progress,   *)
(* whatever fails in the other requests, the stores and the pods.           *)
THEOREM TierAHolds == Spec => []TierAResolves
<1>1. Init => IdsAreUsed /\ TierAResolves
  BY DEF Init, IdsAreUsed, TierAResolves, NoRecord
<1>2. TypeOK /\ TypeOK' /\ IdsAreUsed /\ TierAResolves /\ [Next]_vars
        => IdsAreUsed' /\ TierAResolves'
  BY IdsStep, TierAStep
<1>3. QED
  BY <1>1, <1>2, TypeCorrect, PTL DEF Spec

-----------------------------------------------------------------------------
(* The answers agree.                                                       *)

\* an open request is routed to the store it began in, or away from Redis, and has
\* told its client nothing
OpenInv ==
  \A r \in Requests :
    /\ Open(r) => /\ home[r] \in {Shared, RouteOf(r)}
                  /\ home[r] = Shared => pod[r] \in SharedPods
    /\ pc[r] \notin Closed => answer[r] = NoAnswer

\* a stream handler whose end has yet to reach the primary store it began in, where
\* its record has not expired
Owner(r) ==
  /\ pc[r] \in {"admitted", "running", "storing"} /\ Streaming(r) /\ OnHome(r)
  /\ home[r] \in Primary /\ r \notin outlived

\* its record is its own and has at most the result of a handler that outlived an
\* earlier one; a lapsed record is never to be stored
OwnersInv ==
  \A r \in Requests : Owner(r) =>
    /\ Held(r).id = r /\ Held(r).status # "absent"
    /\ Held(r).by \in {Nobody} \cup outlived
    /\ pc[r] = "storing" /\ Held(r).status = "in_progress" => Held(r).age <= Lease

\* a handler that came to store s with key k
CameTo(r, s, k) == r \in Requests /\ pc[r] # "new" /\ home[r] = s /\ key[r] = k

\* what a client was told is that of the record's own handler, until the record expires;
\* it may only be failed, or replaced by a handler that outlived its own
ToldInv ==
  \A r \in Requests :
    /\ Told(r) /\ key[r] \in StreamKeys /\ home[r] \in Lasting /\ answer[r].by \notin outlived
    => /\ Held(r).status \in {"completed", "failed"} /\ Held(r).id = answer[r].by
       /\ CameTo(answer[r].by, home[r], key[r])

\* a result is that of the record's own handler, or of one that outlived its own
ResultIsOwn(s, k) ==
  LET rec == records[s][k] IN
    rec.by \notin {Nobody} \cup outlived
      => rec.status \in {"completed", "failed"} /\ rec.id = rec.by /\ CameTo(rec.by, s, k)

RecordsInv ==
  /\ \A s \in Stores, k \in Keys : records[s][k].status = "completed" => records[s][k].by # Nobody
  /\ \A s \in Primary, k \in StreamKeys : ResultIsOwn(s, k)

ResultsInv == OpenInv /\ OwnersInv /\ ToldInv /\ RecordsInv

LEMMA InitResults == Init => ResultsInv
<1> SUFFICES ASSUME Init PROVE ResultsInv
  OBVIOUS
<1>1. OpenInv /\ OwnersInv
  BY DEF Init, OpenInv, Open, OwnersInv, Owner
<1>2. ToldInv
  BY DEF Init, ToldInv, Told
<1>3. \A s \in Stores, k \in Keys : records[s][k] = NoRecord
  BY DEF Init
<1>4. Primary \subseteq Stores /\ StreamKeys \subseteq Keys
  BY DEF Primary, Stores, Keys
<1>5. RecordsInv
  BY <1>3, <1>4 DEF RecordsInv, ResultIsOwn, NoRecord
<1>6. QED
  BY <1>1, <1>2, <1>5 DEF ResultsInv

\* a pod that failed over stays so for the requests that are open on it
LEMMA FailOverStays ==
  ASSUME TypeOK, [Next]_vars, NEW q \in Requests, Open(q), pc'[q] \notin Closed, disabled[pod[q]]
  PROVE  disabled'[pod[q]]
<1>0. pod[q] \in Pods
  BY Tables DEF Open
<1>1. ASSUME NEW r \in Requests, NEW p \in Pods, NEW l \in conf.keys,
             Begin(r, p, l) \/ BeginFailOpen(r, p, l) \/ BeginInterrupted(r, p, l)
      PROVE  disabled'[pod[q]]
  BY <1>0, <1>1 DEF Begin, BeginFailOpen, BeginInterrupted, TypeOK
<1>2. ASSUME NEW r \in Requests,
         \/ EnterHandler(r) \/ InterruptAdmitted(r)
         \/ StreamTurn(r) \/ TouchFailOpen(r) \/ TouchRaises(r) \/ Stall(r)
         \/ \E o \in {"completed", "failed"} : HandlerReturns(r, o)
         \/ InterruptHandler(r)
      PROVE  disabled'[pod[q]]
  BY <1>0, <1>2 DEF EnterHandler, InterruptAdmitted, StreamTurn, TouchFailOpen, TouchRaises, Stall,
                    HandlerReturns, InterruptHandler, TypeOK
<1>3. ASSUME NEW r \in Requests,
         \/ StoreTerminal(r) \/ StoreFailOpen(r) \/ InterruptStore(r)
         \/ AbortFail(r) \/ AbortFailOpen(r) \/ AbortLost(r)
      PROVE  disabled'[pod[q]]
  BY <1>0, <1>3 DEF StoreTerminal, StoreFailOpen, InterruptStore, AbortFail, AbortFailOpen,
                    AbortLost, TypeOK
<1>4. ASSUME NEW p \in Pods, LookupFailOpen(p) \/ Crash(p)
      PROVE  disabled'[pod[q]]
  BY <1>0, <1>4 DEF LookupFailOpen, Crash, Open, Closed, TypeOK
<1>5. CASE Tick \/ UNCHANGED vars
  BY <1>5 DEF Tick, vars
<1>6. QED
  BY <1>1, <1>2, <1>3, <1>4, <1>5 DEF Next, RequestStep

\* an open request was so before, on the same store, or has just been admitted
LEMMA OpenBefore ==
  ASSUME TypeOK, OpenInv, [Next]_vars, NEW r \in Requests, Open(r)'
  PROVE  \/ Admitted(r)
         \/ /\ Open(r)
            /\ home'[r] = home[r] /\ key'[r] = key[r] /\ pod'[r] = pod[r]
            /\ RouteOf(r)' \in {RouteOf(r), pod[r]}
            /\ RouteOf(r)' = Shared => RouteOf(r) = Shared
            /\ home[r] \in {Shared, RouteOf(r)'}
<1>1. RequestMove(r) /\ conf' = conf
  BY RequestMoves, DeploymentFixed
<1>2. CASE pc[r] = "new"
  BY <1>1, <1>2 DEF RequestMove, Open, Closed
<1>3. CASE pc[r] # "new"
  <2>1. Open(r) /\ home'[r] = home[r] /\ key'[r] = key[r] /\ pod'[r] = pod[r]
    BY <1>1, <1>3 DEF RequestMove, Open
  <2>2. disabled[pod[r]] => disabled'[pod[r]]
    BY <2>1, FailOverStays DEF Open
  <2>3. /\ RouteOf(r)' \in {RouteOf(r), pod[r]}
        /\ RouteOf(r)' = Shared => RouteOf(r) = Shared
        /\ RouteOf(r) = pod[r] => RouteOf(r)' = pod[r]
    BY <1>1, <1>3, <2>1, <2>2, Tables DEF RouteOf, Route, SharedPods
  <2>4. home[r] \in {Shared, RouteOf(r)} /\ RouteOf(r) \in {pod[r], Shared}
    BY <1>3, <2>1, Tables DEF OpenInv
  <2>5. QED
    BY <2>1, <2>3, <2>4
<1>4. QED
  BY <1>2, <1>3

LEMMA OpenStep ==
  ASSUME TypeOK, TypeOK', OpenInv, [Next]_vars
  PROVE  OpenInv'
<1>1. ASSUME NEW r \in Requests, (pc[r] \notin Closed)'
      PROVE  (answer[r] = NoAnswer)'
  BY <1>1, RequestMoves DEF RequestMove, OpenInv, Closed, NoAnswer
<1>2. ASSUME NEW r \in Requests, Open(r)'
      PROVE  (home[r] \in {Shared, RouteOf(r)} /\ (home[r] = Shared => pod[r] \in SharedPods))'
  BY <1>2, PrimaryFixed, OpenBefore DEF Admitted, OpenInv
<1>3. QED
  BY <1>1, <1>2 DEF OpenInv

\* whoever stores a result in a primary store is the owner of its record there, or
\* has outlived it
LEMMA StorerOwns ==
  ASSUME TypeOK, OpenInv, NEW q \in Requests, pc[q] = "storing", key[q] \in StreamKeys,
         RouteOf(q) \in Primary, q \notin outlived
  PROVE  Owner(q) /\ home[q] = RouteOf(q)
<1>1. home[q] \in {Shared, RouteOf(q)} /\ (home[q] = Shared => pod[q] \in SharedPods)
  BY DEF OpenInv, Open, Closed
<1>2. RouteOf(q) \in {pod[q], Shared} /\ pod[q] \in Pods /\ pod[q] # Shared
  BY Tables
<1>3. pod[q] \in SharedPods => RouteOf(q) = Shared
  BY <1>2 DEF Primary
<1>4. home[q] = RouteOf(q)
  BY <1>1, <1>3
<1>5. QED
  BY <1>4 DEF Owner, Streaming, OnHome

\* the record of an owner is not free to be taken
LEMMA OwnerHolds ==
  ASSUME TypeOK, ExclusionInv, LeaseFits, OwnersInv, NEW r \in Requests, Owner(r)
  PROVE  /\ home[r] \in Stores /\ key[r] \in Keys /\ Held(r) \in Record
         /\ Held(r).status = "in_progress" => Held(r).age <= Lease
         /\ ~Startable(Held(r))
<1>1. home[r] \in Stores /\ key[r] \in Keys /\ Held(r) \in Record
  BY Tables DEF Owner, Held
<1>2. Held(r).status = "in_progress" => Held(r).age <= Lease
  <2>1. CASE pc[r] = "storing"
    BY <2>1 DEF OwnersInv
  <2>2. CASE pc[r] # "storing"
    <3>1. Covered(r)
      BY <2>2 DEF Owner, Covered, Live
    <3>2. Owns(Held(r), r, unrenewed[r]) /\ unrenewed[r] \in Nat /\ unrenewed[r] <= Lease
      BY <3>1, WithinLease, OwnedNow DEF Held
    <3>3. QED
      BY <1>1, <3>2 DEF Owns, Record
  <2>3. QED
    BY <2>1, <2>2
<1>3. Held(r).status # "absent"
  BY DEF OwnersInv
<1>4. QED
  BY <1>1, <1>2, <1>3 DEF Startable, IsLeaseStale, Record

LEMMA OwnersStep ==
  ASSUME TypeOK, TypeOK', ExclusionInv, LeaseFits, OpenInv, OwnersInv, [Next]_vars
  PROVE  OwnersInv'
<1> SUFFICES ASSUME NEW r \in Requests, Owner(r)'
             PROVE  /\ Held(r)'.id = r /\ Held(r)'.status # "absent"
                    /\ Held(r)'.by \in {Nobody} \cup outlived'
                    /\ pc'[r] = "storing" /\ Held(r)'.status = "in_progress"
                         => Held(r)'.age <= Lease
  BY DEF OwnersInv
<1>1. Open(r)' /\ RequestMove(r) /\ r \notin outlived' /\ outlived \subseteq outlived'
  BY RequestMoves, OutlivedGrows DEF Owner, Open, Closed
<1>2. CASE Admitted(r)
  BY <1>2 DEF Admitted, Held, Fresh
<1>3. CASE Open(r) /\ ~Admitted(r)
  <2>1. /\ home'[r] = home[r] /\ key'[r] = key[r] /\ pod'[r] = pod[r]
        /\ RouteOf(r)' \in {RouteOf(r), pod[r]}
        /\ RouteOf(r)' = Shared => RouteOf(r) = Shared
        /\ home[r] \in {Shared, RouteOf(r)}
    BY <1>1, <1>3, OpenBefore DEF OpenInv
  <2>2. pc[r] \in {"admitted", "running", "storing"}
    BY <1>1, <1>3 DEF RequestMove, ExclusionInv, Owner, Open, TypeOK, PCs, Closed
  <2>3. Owner(r)
    BY <1>1, <2>1, <2>2, PrimaryFixed DEF Owner, Streaming, OnHome
  <2> DEFINE s == home[r]
             k == key[r]
  <2>4. /\ s \in Stores /\ k \in Keys /\ Held(r) \in Record /\ ~Startable(records[s][k])
        /\ Held(r).status = "in_progress" => Held(r).age <= Lease
        /\ Held(r) = records[s][k] /\ Held(r)' = records'[s][k]
    BY <2>1, <2>3, OwnerHolds DEF Held
  <2>5. /\ Held(r).id = r /\ Held(r).status # "absent"
        /\ Held(r).by \in {Nobody} \cup outlived'
    BY <1>1, <2>3 DEF OwnersInv
  <2>6. RecordStep(s, k)
    BY <2>4, RecordSteps
  <2>7. CASE Kept(s, k)
    BY <2>4, <2>5, <2>7 DEF Kept, Touched, Record
  <2>8. CASE Grown(s, k)
    <3>1. ~(s = Shared /\ Expires(s, records[s][k]))
      BY <1>1, <2>2, <2>8 DEF Grown, Outliving
    <3>2. pc'[r] # "storing"
      BY <2>8 DEF Grown
    <3>3. /\ records'[s][k].id = records[s][k].id
          /\ records'[s][k].status = records[s][k].status
          /\ records'[s][k].by = records[s][k].by
      BY <2>4, <2>8, <3>1, Older
    <3>4. QED
      BY <2>4, <2>5, <3>2, <3>3
  <2>9. CASE Wiped(s, k)
    <3>1. pod[r] = s
      BY <2>2, <2>3, <2>9, Tables DEF Wiped, Owner, OnHome
    <3>2. QED
      BY <1>1, <1>3, <2>9, <3>1 DEF Wiped, Open, Closed
  <2>10. CASE Taken(s, k)
    BY <2>4, <2>10 DEF Taken
  <2>11. CASE Stored(s, k)
    <3>1. PICK q \in Requests :
            /\ pc[q] = "storing" /\ pc'[q] \in Closed \cup {"aborting"}
            /\ key[q] = k /\ (s = RouteOf(q) \/ s \notin Primary)
            /\ records'[s][k] = Resolved(records[s][k], outcome[q], q)
      BY <2>11 DEF Stored
    <3>2. CASE q \notin outlived
      <4>1. Owner(q) /\ home[q] = s
        BY <2>3, <3>1, <3>2, StorerOwns DEF Owner, Streaming
      <4>2. q = r
        BY <2>4, <2>5, <3>1, <4>1 DEF OwnersInv, Held
      <4>3. QED
        BY <3>1, <4>2 DEF Owner, Closed
    <3>3. CASE q \in outlived
      <4>1. q \in outlived' /\ outcome[q] \in {"completed", "failed"}
        BY <1>1, <3>1, <3>3 DEF TypeOK
      <4>2. QED
        BY <2>4, <2>5, <3>1, <4>1 DEF Resolved, Record
    <3>4. QED
      BY <3>2, <3>3
  <2>12. CASE Aborted(s, k)
    <3>1. \E q \in Requests : records'[s][k] = Resolved(records[s][k], "failed", q)
      BY <2>12 DEF Aborted
    <3>2. QED
      BY <2>4, <2>5, <3>1 DEF Resolved, Record
  <2> HIDE DEF s, k
  <2>13. QED
    BY <2>6, <2>7, <2>8, <2>9, <2>10, <2>11, <2>12 DEF RecordStep
<1>4. QED
  BY <1>1, <1>2, <1>3, OpenBefore

LEMMA CompletedStep ==
  ASSUME TypeOK, [Next]_vars, NEW s \in Stores, NEW k \in Keys,
         records[s][k].status = "completed" => records[s][k].by # Nobody,
         records'[s][k].status = "completed"
  PROVE  records'[s][k].by # Nobody
<1>1. /\ records[s][k] \in Record /\ RecordStep(s, k)
      /\ records[s][k].status = "completed" => records[s][k].by # Nobody
  BY Tables, RecordSteps
<1>2. CASE Kept(s, k) \/ Grown(s, k)
  <2>1. CASE Kept(s, k)
    BY <1>1, <2>1 DEF Kept, Touched, Record
  <2>2. CASE Grown(s, k)
    BY <1>1, <2>2, Older DEF NoRecord
  <2>3. QED
    BY <1>2, <2>1, <2>2
<1>3. CASE Wiped(s, k) \/ Taken(s, k)
  <2>1. CASE Wiped(s, k)
    BY <2>1 DEF Wiped, NoRecord
  <2>2. CASE Taken(s, k)
    <3>1. PICK q \in Requests : records'[s][k] = Fresh(q)
      BY <2>2 DEF Taken
    <3>2. records'[s][k].status = "in_progress"
      BY <3>1 DEF Fresh
    <3>3. QED
      BY <3>2
  <2>3. QED
    BY <1>3, <2>1, <2>2
<1>4. CASE Stored(s, k) \/ Aborted(s, k)
  <2>1. \E o \in {"completed", "failed"}, q \in Requests :
          records'[s][k] = Resolved(records[s][k], o, q)
    BY <1>4 DEF Stored, Aborted, TypeOK
  <2>2. QED
    BY <1>1, <2>1 DEF Resolved, Record
<1>5. QED
  BY <1>1, <1>2, <1>3, <1>4 DEF RecordStep

\* whoever came to a store does not go elsewhere
LEMMA CameToStays ==
  ASSUME TypeOK, [Next]_vars, NEW r, NEW s, NEW k, CameTo(r, s, k)
  PROVE  CameTo(r, s, k)'
BY RequestMoves DEF CameTo, RequestMove

LEMMA ResultIsOwnStep ==
  ASSUME TypeOK, TypeOK', OpenInv, OwnersInv, [Next]_vars,
         NEW s \in Primary, NEW k \in StreamKeys, ResultIsOwn(s, k)
  PROVE  ResultIsOwn(s, k)'
<1> DEFINE rec == records[s][k]
           new == records'[s][k]
<1>1. /\ s \in Stores /\ k \in Keys /\ rec \in Record /\ new \in Record /\ RecordStep(s, k)
      /\ outlived \subseteq outlived'
  <2>1. s \in Stores /\ k \in Keys
    BY DEF Primary, Stores, Keys
  <2>2. new \in Record
    BY <2>1 DEF TypeOK
  <2>3. QED
    BY <2>1, <2>2, Tables, RecordSteps, OutlivedGrows
<1>2. SUFFICES ASSUME NEW b, b = new.by, b \notin {Nobody} \cup outlived'
               PROVE  new.status \in {"completed", "failed"} /\ new.id = b /\ CameTo(b, s, k)'
  BY Zenon DEF ResultIsOwn
<1>3. b \notin {Nobody} \cup outlived
  BY <1>1, <1>2
<1>4. b = rec.by => rec.status \in {"completed", "failed"} /\ rec.id = b /\ CameTo(b, s, k)'
  <2> SUFFICES ASSUME b = rec.by
               PROVE  rec.status \in {"completed", "failed"} /\ rec.id = b /\ CameTo(b, s, k)'
    OBVIOUS
  <2>1. rec.status \in {"completed", "failed"} /\ rec.id = b /\ CameTo(b, s, k)
    BY <1>3 DEF ResultIsOwn
  <2>2. QED
    BY <2>1, CameToStays
<1>5. CASE Kept(s, k)
  <2>1. new.by = rec.by
    BY <1>1, <1>5 DEF Kept, Touched, Record
  <2>2. rec.status \in {"completed", "failed"} => new = rec
    BY <1>1, <1>5 DEF Kept, Touched
  <2>3. QED
    BY <1>2, <1>4, <2>1, <2>2
<1>6. CASE Grown(s, k)
  BY <1>1, <1>2, <1>3, <1>4, <1>6, Older DEF NoRecord
<1>7. CASE Wiped(s, k) \/ Taken(s, k)
  <2>1. new.by = Nobody
    <3>1. new = NoRecord \/ \E q \in Requests : new = Fresh(q)
      BY <1>7 DEF Wiped, Taken
    <3>2. NoRecord.by = Nobody /\ \A q \in Requests : Fresh(q).by = Nobody
      BY DEF NoRecord, Fresh
    <3>3. QED
      BY <3>1, <3>2
  <2>2. QED
    BY <1>2, <2>1
<1>8. CASE Aborted(s, k)
  <2>1. PICK q \in Requests : new = Resolved(rec, "failed", q)
    BY <1>8 DEF Aborted
  <2>2. QED
    BY <1>1, <1>2, <1>4, <2>1 DEF Resolved, Record
<1>9. CASE Stored(s, k)
  <2>1. PICK q \in Requests :
          /\ pc[q] = "storing" /\ pc'[q] \in Closed \cup {"aborting"}
          /\ key[q] = k /\ s = RouteOf(q) /\ new = Resolved(rec, outcome[q], q)
    BY <1>9 DEF Stored
  <2>2. outcome[q] \in {"completed", "failed"}
    BY <2>1 DEF TypeOK
  <2>3. CASE new.by = rec.by
    BY <1>1, <1>2, <1>4, <2>1, <2>2, <2>3 DEF Resolved, Record
  <2>4. CASE new.by # rec.by
    <3>1. new.by = q /\ new.status = "completed" /\ new.id = rec.id
      BY <1>1, <2>1, <2>2, <2>4 DEF Resolved, Record
    <3>2. Owner(q) /\ home[q] = s
      BY <1>2, <1>3, <2>1, <3>1, StorerOwns
    <3>3. rec.id = q
      BY <2>1, <3>2 DEF OwnersInv, Held
    <3>4. CameTo(q, s, k)
      BY <2>1, <3>2 DEF CameTo
    <3>5. CameTo(q, s, k)'
      BY <3>4, CameToStays
    <3>6. QED
      BY <1>2, <3>1, <3>3, <3>5
  <2>5. QED
    BY <2>3, <2>4
<1> HIDE DEF rec, new
<1>10. QED
  BY <1>1, <1>5, <1>6, <1>7, <1>8, <1>9 DEF RecordStep

LEMMA RecordsInvStep ==
  ASSUME TypeOK, TypeOK', ResultsInv, [Next]_vars
  PROVE  RecordsInv'
<1>1. \A s \in Stores, k \in Keys :
        records'[s][k].status = "completed" => records'[s][k].by # Nobody
  BY CompletedStep DEF ResultsInv, RecordsInv
<1>2. Primary' = Primary
  BY PrimaryFixed
<1>3. \A s \in Primary, k \in StreamKeys : ResultIsOwn(s, k)'
  BY ResultIsOwnStep DEF ResultsInv, RecordsInv
<1>4. QED
  BY <1>1, <1>2, <1>3 DEF RecordsInv

LEMMA ToldStep ==
  ASSUME TypeOK, TypeOK', ResultsInv, [Next]_vars
  PROVE  ToldInv'
<1> SUFFICES ASSUME NEW r \in Requests, Told(r)', key'[r] \in StreamKeys, home'[r] \in Lasting,
                    answer'[r].by \notin outlived'
             PROVE  /\ Held(r)'.status \in {"completed", "failed"}
                    /\ Held(r)'.id = answer'[r].by
                    /\ CameTo(answer[r].by, home[r], key[r])'
  BY PrimaryFixed DEF ToldInv
<1> USE DEF ResultsInv
<1>1. /\ pc'[r] = "done" /\ answer'[r].kind \in {"result", "replay"} /\ RequestMove(r)
      /\ outlived \subseteq outlived' /\ answer'[r].by \notin outlived
  BY RequestMoves, OutlivedGrows DEF Told
<1>2. CASE pc[r] = "done"
  <2>1. home'[r] = home[r] /\ key'[r] = key[r] /\ answer'[r] = answer[r] /\ Told(r)
    BY <1>1, <1>2 DEF RequestMove, Told, Closed
  <2>a. PICK s, k, a : s = home[r] /\ k = key[r] /\ a = answer[r].by
    OBVIOUS
  <2>2. /\ records[s][k].status \in {"completed", "failed"} /\ records[s][k].id = a
        /\ CameTo(a, s, k)
        /\ s \in Primary /\ s \in Lasting /\ k \in StreamKeys
    BY <1>1, <2>a, <2>1 DEF ToldInv, Held, Lasting
  <2>3. s \in Stores /\ k \in Keys /\ records[s][k] \in Record /\ RecordStep(s, k)
    BY <1>2, <2>a, Tables, RecordSteps
  <2>4. CameTo(a, s, k)' /\ a \notin outlived'
    BY <2>a, <2>1, <2>2, CameToStays
  <2>5. records'[s][k].status \in {"completed", "failed"} /\ records'[s][k].id = a
    <3>1. CASE Kept(s, k)
      BY <2>2, <3>1 DEF Kept, Touched
    <3>2. CASE Grown(s, k)
      <4>1. ~(s = Shared /\ Expires(s, records[s][k]))
        BY <2>2, <2>4, <3>2 DEF Grown, Outliving, CameTo
      <4>2. QED
        BY <2>2, <2>3, <3>2, <4>1, Older
    <3>3. CASE Wiped(s, k)
      BY <2>2, <3>3 DEF Wiped, Lasting, Suspends
    <3>4. CASE Taken(s, k)
      BY <2>2, <3>4 DEF Taken, Startable, IsLeaseStale
    <3>5. CASE Stored(s, k) \/ Aborted(s, k)
      <4>1. \E o \in {"completed", "failed"}, q \in Requests :
              records'[s][k] = Resolved(records[s][k], o, q)
        BY <3>5 DEF Stored, Aborted, TypeOK
      <4>2. QED
        BY <2>2, <2>3, <4>1 DEF Resolved, Record
    <3>6. QED
      BY <2>3, <3>1, <3>2, <3>3, <3>4, <3>5 DEF RecordStep
  <2>6. CameTo(answer[r].by, home[r], key[r])'
    BY <2>a, <2>1, <2>4 DEF CameTo
  <2>7. QED
    BY <2>a, <2>1, <2>5, <2>6 DEF Held
<1>3. CASE Refused(r)
  <2>1. PICK s \in Stores, k \in Keys, b \in {answer'[r].by} :
          /\ s = home'[r] /\ k = key'[r] /\ s \in Primary /\ k \in StreamKeys
          /\ records'[s][k] = records[s][k] /\ answer'[r] = DuplicateAnswer(records[s][k])
    BY <1>3 DEF Refused, Lasting
  <2>2. records[s][k].status = "completed" /\ b = records[s][k].by
    BY <1>1, <2>1 DEF DuplicateAnswer
  <2>3. b # Nobody /\ b \notin outlived /\ ResultIsOwn(s, k)
    BY <1>1, <2>1, <2>2 DEF RecordsInv
  <2>4. records[s][k].id = b /\ CameTo(b, s, k)
    BY <2>2, <2>3 DEF ResultIsOwn
  <2>5. CameTo(b, s, k)'
    BY <2>4, CameToStays
  <2>6. CameTo(answer[r].by, home[r], key[r])'
    BY <2>1, <2>5 DEF CameTo
  <2>7. QED
    BY <2>1, <2>2, <2>4, <2>6 DEF Held
<1>4. CASE Resolving(r)
  <2>1. home'[r] = home[r] /\ key'[r] = key[r]
    BY <1>1, <1>4 DEF RequestMove, Resolving
  <2>2. pc[r] = "storing"
    BY <1>1, <1>4 DEF Resolving, OpenInv, NoAnswer, Closed
  <2>3. outcome[r] = "completed" /\ answer'[r] = OwnAnswer(r, outcome[r])
    BY <1>1, <1>4, <2>2 DEF Resolving, OwnAnswer, TypeOK
  <2>4. answer'[r].by = r
    BY <2>3 DEF OwnAnswer
  <2>5. Owner(r)
    BY <1>1, <1>4, <2>1, <2>2, <2>4, StorerOwns DEF Resolving, Lasting
  <2>6. Held(r)' = Resolved(Held(r), "completed", r) /\ Held(r).status # "absent" /\ Held(r).id = r
    BY <1>4, <2>1, <2>2, <2>3, <2>5 DEF Resolving, Held, OwnersInv
  <2>7. CameTo(answer[r].by, home[r], key[r])'
    BY <1>1, <2>4 DEF CameTo
  <2>8. QED
    BY <2>4, <2>6, <2>7 DEF Resolved
<1>5. QED
  BY <1>1, <1>2, <1>3, <1>4 DEF RequestMove

THEOREM ResultsInvariant ==
  ASSUME LeaseFits, NoLoopFaults
  PROVE  Spec => []ResultsInv
<1>1. TypeOK /\ TypeOK' /\ ExclusionInv /\ ResultsInv /\ [Next]_vars => ResultsInv'
  BY OpenStep, OwnersStep, RecordsInvStep, ToldStep DEF ResultsInv
<1>2. QED
  BY <1>1, InitResults, TypeCorrect, ExclusionInvariant, PTL DEF Spec

(* Whoever is given a result for a stream key of one lasting store is given *)
(* the same one, on any pod and across crashes and Redis outages, up to the *)
(* expiry of the record, as long as renewals fit the lease, the time to     *)
(* live is two leases or more, and nothing blocks the loop.                 *)
THEOREM OneAnswerForAKey ==
  ASSUME LeaseFits, NoLoopFaults
  PROVE  Spec => []AnswersAgree
<1>1. ResultsInv => AnswersAgree
  BY DEF ResultsInv, ToldInv, AnswersAgree, Held
<1>2. QED
  BY <1>1, ResultsInvariant, PTL

(* Under the same conditions no step takes away or replaces a completed     *)
(* stream record of a primary store but the abort of a request of its key,  *)
(* the death of the process that keeps it in a dict, the expiry that Redis  *)
(* was given with it, and the end of a handler, if that or the one whose    *)
(* result it replaces has outlived its own record.                          *)
THEOREM CompletedStays ==
  ASSUME LeaseFits, NoLoopFaults
  PROVE  Spec => CompletedStaysPut
<1> DEFINE Undone(s, k) ==
      UndoneByAbort(k) \/ UndoneByDeath(s, k) \/ UndoneByTtl(s, k) \/ UndoneByOutliving(s, k)
<1> DEFINE Stays ==
      \A s \in Primary, k \in StreamKeys :
        records[s][k].status = "completed" /\ ~SameRecord(records[s][k], records'[s][k])
        => Undone(s, k)
<1>1. TypeOK /\ TypeOK' /\ ResultsInv /\ [Next]_vars => Stays
  <2> SUFFICES ASSUME TypeOK, TypeOK', ResultsInv, [Next]_vars,
                      NEW s \in Primary, NEW k \in StreamKeys,
                      records[s][k].status = "completed",
                      ~SameRecord(records[s][k], records'[s][k])
               PROVE  Undone(s, k)
    OBVIOUS
  <2>1. /\ s \in Stores /\ k \in Keys /\ records[s][k] \in Record /\ RecordStep(s, k)
        /\ records[s][k].by # Nobody
    <3>1. s \in Stores /\ k \in Keys
      BY DEF Primary, Stores, Keys
    <3>2. QED
      BY <3>1, Tables, RecordSteps DEF ResultsInv, RecordsInv
  <2>2. CASE Kept(s, k)
    BY <2>2 DEF Kept, Touched, SameRecord
  <2>3. CASE Grown(s, k)
    BY <2>1, <2>3, Older DEF UndoneByTtl, Grown
  <2>4. CASE Wiped(s, k)
    BY <2>4 DEF Wiped, UndoneByDeath, Lasting, Suspends
  <2>5. CASE Taken(s, k)
    BY <2>5 DEF Taken, Startable, IsLeaseStale
  <2>6. CASE Stored(s, k)
    <3>1. PICK q \in Requests :
            /\ pc[q] = "storing" /\ pc'[q] # "storing" /\ key[q] = k /\ s = RouteOf(q)
      BY <2>6 DEF Stored, Closed
    <3>2. q \notin outlived => records[s][k].by \in outlived
      BY <2>1, <3>1, StorerOwns DEF ResultsInv, OwnersInv, Held
    <3>3. QED
      BY <3>1, <3>2 DEF UndoneByOutliving
  <2>7. CASE Aborted(s, k)
    BY <2>7 DEF Aborted, UndoneByAbort
  <2>8. QED
    BY <2>1, <2>2, <2>3, <2>4, <2>5, <2>6, <2>7 DEF RecordStep
<1>2. TypeOK /\ TypeOK' /\ ResultsInv /\ [Next]_vars => [Stays]_vars
  BY <1>1
<1>3. Spec => [][Stays]_vars
  BY <1>2, ResultsInvariant, TypeCorrect, PTL DEF Spec
<1>4. QED
  BY <1>3 DEF CompletedStaysPut

=============================================================================
