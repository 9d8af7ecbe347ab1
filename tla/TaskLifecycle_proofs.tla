------------------------- MODULE TaskLifecycle_proofs -------------------------
(***************************************************************************)
(* The safety properties of TaskLifecycle, for any number of tasks, keys   *)
(* and cancel requests and every deployment: type correctness with a       *)
(* well-formed store, one run per key, what clients and readers of the log *)
(* were told, and that a settled task stays settled.                       *)
(***************************************************************************)
EXTENDS TaskLifecycle, TLAPS

-----------------------------------------------------------------------------
(* The inductive invariant, in parts.                                       *)

\* the runs between POST /tasks and the settlement of their record
Unsettled ==
  {"creating", "queued", "saying", "handler", "unwinding", "settling", "failing", "cancelling"}

Injective(seq) == \A i, j \in 1..Len(seq) : seq[i] = seq[j] => i = j

\* the POSTs that have not come in, or were given another's task, have no record;
\* the log has no end of a run that has none; a cancel request has its task
Bookkeeping ==
  /\ Injective(order)
  /\ \A t \in Tasks :
       /\ runner[t] \in {"none", "hit"} =>
            status[t] = "none" /\ ~registered[t] /\ ~cancelEv[t]
       /\ runner[t] \notin {"none", "hit"} => status[t] # "none"
       /\ runner[t] \notin {"done", "dead"} => ended[t] = 0
  /\ \A c \in Cancels : cpc[c] # "idle" => ctask[c] \in Tasks

\* a run that is not over has not settled its record, its cancel event can be
\* found, and a result to be written is one
RunsAreOpen ==
  \A t \in Tasks :
    /\ runner[t] \in Unsettled => status[t] \in Active \cup {"cancelled", "gone"}
    /\ runner[t] \in (Unsettled \ {"creating"}) \cup {"ending"} => registered[t]
    /\ runner[t] = "settling" => outcome[t] \in Terminal
    /\ runner[t] = "ending" => status[t] \notin Active

\* without eviction the record of a run that is not over is in the store
RunsAreStored ==
  MaxTasks = 0 /\ "expire" \notin Faults =>
    \A t \in Tasks : InRun(t) => t \in ToSet(order)

\* the log follows the record, which a report is about to catch up with
LogInv ==
  \A t \in Tasks : status[t] \in Active =>
    /\ runner[t] \in {"creating", "queued"} => status[t] = "pending"
    /\ runner[t] = "saying" => status[t] = saying[t]
    /\ runner[t] \in {"handler", "unwinding"} => status[t] = announced[t]

InBlock(c) == cpc[c] \in {"checked", "set"}

\* the in-memory store: one block at a time, a cancel request finds a run that is
\* not settling and can still see its event, and what it then writes lasts
MemoryInv ==
  ~Durable =>
    /\ \A t, u \in Tasks : runner[t] \in MidBlock /\ runner[u] \in MidBlock => t = u
    /\ \A c \in Cancels : InBlock(c) =>
         /\ \A t \in Tasks : runner[t] \notin MidBlock
         /\ \A d \in Cancels : InBlock(d) => c = d
         /\ status[ctask[c]] \in Active
         /\ runner[ctask[c]] \in {"queued", "handler", "unwinding"}
    /\ \A t \in Tasks : status[t] \in Active => runner[t] \in Unsettled
    /\ \A t \in Tasks : cancelEv[t] =>
         /\ runner[t] # "settling"
         /\ status[t] \in Active => \E c \in Cancels : cpc[c] = "set" /\ ctask[c] = t
    /\ \A c \in Cancels : cpc[c] \in {"set", "accepted"} => cancelEv[ctask[c]]
    /\ CancelBeatsResult

IInv == TypeOK /\ Bookkeeping /\ RunsAreOpen /\ RunsAreStored /\ LogInv /\ MemoryInv

-----------------------------------------------------------------------------
(* Sequences: what dropping a prefix and appending do to a store.           *)

LEMMA DropPrefix ==
  ASSUME order \in Seq(Tasks), Injective(order), NEW n \in 0..Len(order)
  PROVE  /\ After(n) \in Seq(Tasks)
         /\ Len(After(n)) = Len(order) - n
         /\ \A i \in 1..Len(After(n)) : After(n)[i] = order[n + i]
         /\ Injective(After(n))
         /\ ToSet(After(n)) = ToSet(order) \ Prefix(n)
         /\ Prefix(n) \subseteq ToSet(order)
         /\ n = 0 => Prefix(n) = {}
<1> DEFINE after == After(n)
<1> DEFINE prefix == SubSeq(order, 1, n)
<1>1. /\ after \in Seq(Tasks) /\ Len(after) = Len(order) - n
      /\ \A i \in 1..Len(after) : after[i] = order[n + i]
  BY DEF After
<1>2. /\ prefix \in Seq(Tasks) /\ Len(prefix) = n
      /\ \A i \in 1..n : prefix[i] = order[i]
  OBVIOUS
<1> HIDE DEF after, prefix
<1>3. \A i, j \in 1..Len(after) : after[i] = after[j] => i = j
  BY <1>1 DEF Injective
<1>4. ToSet(after) = {order[i] : i \in n+1..Len(order)}
  <2>1. DOMAIN after = 1..Len(after)
    BY <1>1
  <2>2. ASSUME NEW i \in n+1..Len(order)
        PROVE  order[i] \in ToSet(after)
    <3>1. i - n \in 1..Len(after) /\ order[i] = after[i - n]
      BY <1>1
    <3>2. QED
      BY <2>1, <3>1 DEF ToSet
  <2>3. ASSUME NEW i \in 1..Len(after)
        PROVE  after[i] \in {order[k] : k \in n+1..Len(order)}
    BY <1>1
  <2>4. QED
    BY <2>1, <2>2, <2>3 DEF ToSet
<1>5. ToSet(prefix) = {order[i] : i \in 1..n}
  BY <1>2 DEF ToSet
<1>6. ToSet(order) = {order[i] : i \in 1..Len(order)}
  BY DEF ToSet
<1>7. ToSet(after) = ToSet(order) \ ToSet(prefix)
  BY <1>4, <1>5, <1>6 DEF Injective
<1>8. ToSet(prefix) \subseteq ToSet(order) /\ (n = 0 => ToSet(prefix) = {})
  BY <1>5, <1>6
<1>9. after = After(n) /\ ToSet(prefix) = Prefix(n)
  BY DEF after, prefix, After, Prefix
<1>10. QED
  BY <1>1, <1>3, <1>7, <1>8, <1>9 DEF Injective

LEMMA AppendNew ==
  ASSUME NEW seq \in Seq(Tasks), Injective(seq), NEW t \in Tasks, t \notin ToSet(seq)
  PROVE  /\ Append(seq, t) \in Seq(Tasks)
         /\ Len(Append(seq, t)) = Len(seq) + 1
         /\ Injective(Append(seq, t))
         /\ ToSet(Append(seq, t)) = ToSet(seq) \cup {t}
<1> DEFINE new == Append(seq, t)
<1>1. /\ new \in Seq(Tasks) /\ Len(new) = Len(seq) + 1
      /\ \A i \in 1..Len(seq) : new[i] = seq[i]
      /\ new[Len(seq) + 1] = t
  OBVIOUS
<1> HIDE DEF new
<1>2. \A i \in 1..Len(seq) : seq[i] # t
  BY DEF ToSet
<1>3. \A i, j \in 1..Len(new) : new[i] = new[j] => i = j
  BY <1>1, <1>2 DEF Injective
<1>4. ToSet(new) = {new[i] : i \in 1..Len(seq) + 1}
  BY <1>1 DEF ToSet
<1>5. {new[i] : i \in 1..Len(seq) + 1} = {seq[i] : i \in 1..Len(seq)} \cup {t}
  BY <1>1
<1>6. ToSet(seq) = {seq[i] : i \in 1..Len(seq)}
  BY DEF ToSet
<1>7. QED
  BY <1>1, <1>3, <1>4, <1>5, <1>6 DEF new, Injective

-----------------------------------------------------------------------------
(* The initial states, and one lemma for each action or kind of action.     *)

LEMMA InitIInv == Init => IInv
<1> SUFFICES ASSUME Init PROVE IInv
  OBVIOUS
<1>1. order = <<>> /\ Len(order) = 0 /\ order \in Seq(Tasks) /\ ToSet(order) = {}
  BY DEF Init, ToSet
<1>2. conf \in Deployments /\ conf \in Deployment
  BY ConstantsAssumption DEF Init
<1>3. TypeOK
  BY <1>1, <1>2 DEF Init, TypeOK, StoreWellFormed, Statuses, RunnerPCs, CancelPCs, Stored, Active,
        Terminal, MaxTasks, Deployment
<1>4. Bookkeeping /\ RunsAreOpen /\ RunsAreStored /\ LogInv
  BY <1>1 DEF Init, Bookkeeping, Injective, RunsAreOpen, RunsAreStored, LogInv, Active, InRun,
        Unsettled
<1>5. MemoryInv
  BY DEF Init, MemoryInv, MidBlock, InBlock, CancelBeatsResult, Active
<1>6. QED
  BY <1>3, <1>4, <1>5 DEF IInv


(* What a step of a run changes: its own runner, record and log, and of the *)
(* record no more than the status of a stored task.                         *)
LEMMA RunnerMoves ==
  ASSUME IInv, NEW t \in Tasks, RunnerStep(t) \/ HandlerStep(t)
  PROVE  /\ UNCHANGED <<conf, order, keyOf, cancelEv, cpc, ctask>>
         /\ \A u \in Tasks : u # t => /\ status'[u] = status[u] /\ runner'[u] = runner[u]
                                      /\ ended'[u] = ended[u] /\ registered'[u] = registered[u]
                                      /\ announced'[u] = announced[u] /\ outcome'[u] = outcome[u]
                                      /\ saying'[u] = saying[u]
         /\ RunnerTurn(t)
         /\ status' \in [Tasks -> Statuses] /\ runner' \in [Tasks -> RunnerPCs]
         /\ saying' \in [Tasks -> {"running", "waiting_for_human"}]
         /\ outcome' \in [Tasks -> Terminal \cup {"none"}]
         /\ announced' \in [Tasks -> {"none", "running", "waiting_for_human"}]
         /\ ended' \in [Tasks -> 0..1] /\ registered' \in [Tasks -> BOOLEAN]
         /\ runner[t] \in Unsettled \cup {"ending"}
         /\ runner'[t] \in (Unsettled \ {"creating"}) \cup {"ending", "done"}
         /\ runner'[t] # "done" => ended'[t] = 0
         /\ \/ status'[t] = status[t]
            \/ status[t] \in Active \cup Terminal /\ status'[t] \in Active \cup Terminal
<1> USE DEF Register, Start, Say, Settle, SettleRaises, SettleError, End, Propagate,
        RecordCancelled, HandlerRaises, Unwind, Swallow, HandlerReports, HandlerReturns,
        Report, Runner, RunnerStep, HandlerStep
<1> USE DEF IInv, TypeOK, Statuses, Active, Terminal, RunnerPCs, Stored
<1>1. UNCHANGED <<conf, order, keyOf, cancelEv, cpc, ctask>> /\ RunnerTurn(t)
  OBVIOUS
<1>2. /\ runner[t] \in Unsettled \cup {"ending"}
      /\ runner' \in [Tasks -> RunnerPCs]
      /\ runner'[t] \in (Unsettled \ {"creating"}) \cup {"ending", "done"}
      /\ \A u \in Tasks : u # t => runner'[u] = runner[u]
  BY DEF Unsettled
<1>3. /\ status' \in [Tasks -> Statuses]
      /\ \A u \in Tasks : u # t => status'[u] = status[u]
      /\ \/ status'[t] = status[t]
         \/ status[t] \in Active \cup Terminal /\ status'[t] \in Active \cup Terminal
  BY DEF Updated, ValidTransition, Overwritten, Cancelled, RunsAreOpen
<1>4. /\ saying' \in [Tasks -> {"running", "waiting_for_human"}]
      /\ outcome' \in [Tasks -> Terminal \cup {"none"}]
      /\ \A u \in Tasks : u # t => outcome'[u] = outcome[u] /\ saying'[u] = saying[u]
  OBVIOUS
<1>5. /\ announced' \in [Tasks -> {"none", "running", "waiting_for_human"}]
      /\ registered' \in [Tasks -> BOOLEAN]
      /\ \A u \in Tasks : u # t => announced'[u] = announced[u] /\ registered'[u] = registered[u]
  <2>1. /\ announced' \in [Tasks -> {"none", "running", "waiting_for_human"}]
        /\ \A u \in Tasks : u # t => announced'[u] = announced[u]
    <3>1. CASE Say(t)
      <4>1. announced' = [announced EXCEPT ![t] = IF Stored(t) THEN saying[t] ELSE announced[t]]
        BY <3>1 DEF Announce
      <4>2. QED
        BY <4>1
    <3>2. CASE announced' = announced
      BY <3>2
    <3>3. QED
      BY <3>1, <3>2
  <2>2. /\ registered' \in [Tasks -> BOOLEAN]
        /\ \A u \in Tasks : u # t => registered'[u] = registered[u]
    <3>1. registered' = registered \/ \E b \in BOOLEAN : registered' = [registered EXCEPT ![t] = b]
      OBVIOUS
    <3>2. QED
      BY <3>1
  <2>3. QED
    BY <2>1, <2>2
<1>6. /\ ended' \in [Tasks -> 0..1]
      /\ runner'[t] # "done" => ended'[t] = 0
      /\ \A u \in Tasks : u # t => ended'[u] = ended[u]
  <2>1. CASE End(t)
    <3>1. ended[t] = 0
      BY <2>1 DEF Bookkeeping
    <3>2. runner'[t] = "done"
      BY <2>1
    <3>3. ended' = [ended EXCEPT ![t] = IF Stored(t) THEN ended[t] + 1 ELSE ended[t]]
      BY <2>1
    <3>4. QED
      BY <3>1, <3>2, <3>3
  <2>2. CASE ended' = ended
    <3>1. runner[t] \notin {"done", "dead"} => ended[t] = 0
      BY DEF Bookkeeping
    <3>2. QED
      BY <1>2, <2>2, <3>1 DEF Unsettled
  <2>3. QED
    BY <2>1, <2>2
<1>7. QED
  BY <1>1, <1>2, <1>3, <1>4, <1>5, <1>6

(* Which steps settle a record: those of a run that is settling, failing or *)
(* cancelling; and a run only settles a result if it was not cancelled.     *)
LEMMA RunnerSettles ==
  ASSUME IInv, NEW t \in Tasks, RunnerStep(t) \/ HandlerStep(t)
  PROVE  /\ status'[t] \in Active <=> /\ status[t] \in Active
                                      /\ runner[t] \notin {"settling", "failing", "cancelling"}
                                         \/ runner'[t] = "failing"
         /\ runner'[t] \in {"ending", "done"} => status'[t] \notin Active \/ cancelEv[t]
         /\ runner'[t] = "settling" => ~cancelEv[t]
         /\ status[t] \in {"cancelled", "failed", "gone"} =>
              status'[t] \in {"cancelled", "failed", "gone"} \/ runner[t] = "settling"
         /\ runner[t] = "settling" => runner'[t] \in {"ending", "failing"}
<1> USE DEF Register, Start, Say, Settle, SettleRaises, SettleError, End, Propagate,
        RecordCancelled, HandlerRaises, Unwind, Swallow, HandlerReports, HandlerReturns,
        Report, Runner, RunnerStep, HandlerStep
<1> USE DEF IInv, TypeOK, Statuses, Active, Terminal, RunnerPCs, Stored
<1> USE DEF Updated, ValidTransition, Overwritten, Cancelled
<1>1. status'[t] \in Active <=> /\ status[t] \in Active
                                /\ runner[t] \notin {"settling", "failing", "cancelling"}
                                   \/ runner'[t] = "failing"
  BY DEF RunsAreOpen
<1>2. runner'[t] \in {"ending", "done"} => status'[t] \notin Active \/ cancelEv[t]
  BY DEF RunsAreOpen
<1>3. runner'[t] = "settling" => ~cancelEv[t]
  OBVIOUS
<1>4. status[t] \in {"cancelled", "failed", "gone"} =>
              status'[t] \in {"cancelled", "failed", "gone"} \/ runner[t] = "settling"
  OBVIOUS
<1>5. runner[t] = "settling" => runner'[t] \in {"ending", "failing"}
  OBVIOUS
<1>6. QED
  BY <1>1, <1>2, <1>3, <1>4, <1>5

LEMMA RunnerKeeps ==
  ASSUME IInv, NEW t \in Tasks, RunnerStep(t) \/ HandlerStep(t)
  PROVE  IInv'
<1>1. /\ UNCHANGED <<conf, order, keyOf, cancelEv, cpc, ctask>>
      /\ \A u \in Tasks : u # t => /\ status'[u] = status[u] /\ runner'[u] = runner[u]
                                   /\ ended'[u] = ended[u] /\ registered'[u] = registered[u]
                                   /\ announced'[u] = announced[u] /\ outcome'[u] = outcome[u]
                                   /\ saying'[u] = saying[u]
      /\ RunnerTurn(t)
      /\ status' \in [Tasks -> Statuses] /\ runner' \in [Tasks -> RunnerPCs]
      /\ runner[t] \in Unsettled \cup {"ending"}
      /\ runner'[t] \in (Unsettled \ {"creating"}) \cup {"ending", "done"}
      /\ runner'[t] # "done" => ended'[t] = 0
      /\ \/ status'[t] = status[t]
         \/ status[t] \in Active \cup Terminal /\ status'[t] \in Active \cup Terminal
  BY RunnerMoves
<1>2. /\ saying' \in [Tasks -> {"running", "waiting_for_human"}]
      /\ outcome' \in [Tasks -> Terminal \cup {"none"}]
      /\ announced' \in [Tasks -> {"none", "running", "waiting_for_human"}]
      /\ ended' \in [Tasks -> 0..1] /\ registered' \in [Tasks -> BOOLEAN]
  BY RunnerMoves
<1>3. /\ status'[t] \in Active <=> /\ status[t] \in Active
                                   /\ runner[t] \notin {"settling", "failing", "cancelling"}
                                      \/ runner'[t] = "failing"
      /\ runner'[t] \in {"ending", "done"} => status'[t] \notin Active \/ cancelEv[t]
      /\ runner'[t] = "settling" => ~cancelEv[t]
      /\ status[t] \in {"cancelled", "failed", "gone"} =>
           status'[t] \in {"cancelled", "failed", "gone"} \/ runner[t] = "settling"
      /\ runner[t] = "settling" => runner'[t] \in {"ending", "failing"}
  BY RunnerSettles
<1>4. TypeOK'
  <2>1. \A u \in Tasks : Stored(u)' = Stored(u)
    BY <1>1 DEF Stored, Active, Terminal
  <2>2. {u \in Tasks : Stored(u)}' = {u \in Tasks : Stored(u)}
    BY <2>1
  <2>3. StoreWellFormed'
    BY <1>1, <2>2 DEF IInv, TypeOK, StoreWellFormed, MaxTasks
  <2>4. QED
    BY <1>1, <1>2, <2>3 DEF IInv, TypeOK
<1>5. Bookkeeping'
  <2>1. \A u \in Tasks :
          /\ runner'[u] \in {"none", "hit"} =>
               status'[u] = "none" /\ ~registered'[u] /\ ~cancelEv'[u]
          /\ runner'[u] \notin {"none", "hit"} => status'[u] # "none"
          /\ runner'[u] \notin {"done", "dead"} => ended'[u] = 0
    BY <1>1 DEF IInv, Bookkeeping, Unsettled, Active, Terminal
  <2>2. QED
    BY <1>1, <2>1 DEF IInv, Bookkeeping, Injective
<1> USE DEF Register, Start, Say, Settle, SettleRaises, SettleError, End, Propagate,
        RecordCancelled, HandlerRaises, Unwind, Swallow, HandlerReports, HandlerReturns,
        Report, Runner, RunnerStep, HandlerStep
<1>6. RunsAreOpen'
  BY DEF IInv, TypeOK, RunsAreOpen, Unsettled, Bookkeeping, Announce, Updated, ValidTransition,
         Overwritten, Cancelled, Statuses, Active, Terminal, RunnerPCs, Stored
<1>7. LogInv'
  BY DEF IInv, TypeOK, LogInv, RunsAreOpen, Unsettled, Announce, Updated, ValidTransition,
         Overwritten, Cancelled, Statuses, Active, Terminal, RunnerPCs, Stored
<1>8. RunsAreStored'
  BY <1>1 DEF IInv, RunsAreStored, InRun, RunnerPCs, Unsettled, MaxTasks, Faults
<1>9. MemoryInv'
  <2> SUFFICES ASSUME ~Durable PROVE MemoryInv'
    BY <1>1 DEF MemoryInv, Durable
  <2>1. /\ \A u \in Tasks : u # t => runner[u] \notin MidBlock
        /\ \A c \in Cancels : ~InBlock(c)
    BY <1>1 DEF IInv, MemoryInv, RunnerTurn, Turn, InBlock
  <2>2. cpc' = cpc /\ ctask' = ctask /\ cancelEv' = cancelEv
    BY <1>1
  <2>3. \A u, v \in Tasks : runner'[u] \in MidBlock /\ runner'[v] \in MidBlock => u = v
    BY <1>1, <2>1
  <2>4. \A c \in Cancels : ~InBlock(c)'
    BY <2>1, <2>2 DEF InBlock
  <2>5. ASSUME NEW u \in Tasks, status'[u] \in Active
        PROVE  runner'[u] \in Unsettled
    <3>1. CASE u = t
      <4>1. cancelEv[t] => status[t] \notin Active
        BY <2>1 DEF IInv, MemoryInv, InBlock
      <4>2. QED
        BY <1>1, <1>3, <2>5, <3>1, <4>1 DEF Unsettled
    <3>2. CASE u # t
      BY <1>1, <2>5, <3>2 DEF IInv, MemoryInv
    <3>3. QED
      BY <3>1, <3>2
  <2>6. ASSUME NEW u \in Tasks, cancelEv'[u]
        PROVE  runner'[u] # "settling" /\ status'[u] \notin Active
    <3>1. cancelEv[u] /\ runner[u] # "settling" /\ status[u] \notin Active
      BY <2>1, <2>2, <2>6 DEF IInv, MemoryInv, InBlock
    <3>2. QED
      BY <1>1, <1>3, <3>1
  <2>7. ASSUME NEW c \in Cancels, cpc'[c] \in {"set", "accepted"}
        PROVE  /\ cancelEv'[ctask'[c]]
               /\ status'[ctask'[c]] \in {"cancelled", "failed", "gone"}
    <3>1. cpc[c] = "accepted" /\ ctask[c] \in Tasks
      BY <2>1, <2>2, <2>7 DEF InBlock, IInv, Bookkeeping
    <3>2. /\ cancelEv[ctask[c]] /\ runner[ctask[c]] # "settling"
          /\ status[ctask[c]] \in {"cancelled", "failed", "gone"}
      BY <3>1 DEF IInv, MemoryInv, CancelBeatsResult
    <3>3. QED
      BY <1>1, <1>3, <2>2, <3>1, <3>2
  <2>8. QED
    BY <2>3, <2>4, <2>5, <2>6, <2>7 DEF MemoryInv, InBlock, CancelBeatsResult
<1>10. QED
  BY <1>4, <1>5, <1>6, <1>7, <1>8, <1>9 DEF IInv

-----------------------------------------------------------------------------
(* The cancel requests.                                                     *)

LEMMA CancelReadKeeps ==
  ASSUME IInv, NEW c \in Cancels, NEW t \in Tasks, CancelRead(c, t)
  PROVE  IInv'
<1> USE DEF CancelRead, Cancel
<1>1. /\ UNCHANGED <<conf, status, order, keyOf, runner, saying, outcome, announced, ended,
                     cancelEv, registered>>
      /\ cpc[c] = "idle" /\ CancelTurn(c)
      /\ \A d \in Cancels : d # c => cpc'[d] = cpc[d] /\ ctask'[d] = ctask[d]
      /\ cpc'[c] = (IF status[t] \in Active THEN "checked" ELSE "refused")
      /\ ctask'[c] = t
      /\ cpc' \in [Cancels -> CancelPCs] /\ ctask' \in [Cancels -> Tasks \cup {NoKey}]
  BY DEF IInv, TypeOK, CancelPCs
<1>2. TypeOK'
  BY <1>1 DEF IInv, TypeOK, StoreWellFormed, Stored, MaxTasks
<1>3. RunsAreOpen' /\ RunsAreStored' /\ LogInv'
  BY <1>1 DEF IInv, RunsAreOpen, RunsAreStored, LogInv, MaxTasks, Faults, InRun
<1>4. Bookkeeping'
  BY <1>1 DEF IInv, Bookkeeping, Injective
<1>5. MemoryInv'
  <2> SUFFICES ASSUME ~Durable PROVE MemoryInv'
    BY <1>1 DEF MemoryInv, Durable
  <2>1. /\ \A u \in Tasks : runner[u] \notin MidBlock
        /\ \A d \in Cancels : ~InBlock(d)
    BY <1>1 DEF CancelTurn, Turn, InBlock
  <2>2. \A d \in Cancels : InBlock(d)' => d = c /\ status[t] \in Active
    BY <1>1, <2>1 DEF InBlock
  <2>3. status[t] \in Active => runner[t] \in {"queued", "handler", "unwinding"}
    BY <2>1 DEF IInv, MemoryInv, Unsettled, MidBlock
  <2>4. \A d \in Cancels : InBlock(d)' =>
          /\ \A u \in Tasks : runner'[u] \notin MidBlock
          /\ \A e \in Cancels : InBlock(e)' => d = e
          /\ status'[ctask'[d]] \in Active
          /\ runner'[ctask'[d]] \in {"queued", "handler", "unwinding"}
    BY <1>1, <2>1, <2>2, <2>3
  <2>5. \A u \in Tasks : cancelEv'[u] => runner'[u] # "settling" /\ status'[u] \notin Active
    BY <1>1, <2>1 DEF IInv, MemoryInv, InBlock
  <2>6. \A d \in Cancels : cpc'[d] \in {"set", "accepted"} =>
          cpc'[d] = cpc[d] /\ ctask'[d] = ctask[d]
    BY <1>1
  <2>7. \A d \in Cancels : cpc'[d] \in {"set", "accepted"} => cancelEv'[ctask'[d]]
    BY <1>1, <2>6 DEF IInv, MemoryInv
  <2>8. CancelBeatsResult'
    BY <1>1, <2>6 DEF IInv, MemoryInv, CancelBeatsResult
  <2>9. QED
    BY <1>1, <2>1, <2>4, <2>5, <2>7, <2>8 DEF IInv, MemoryInv
<1>6. QED
  BY <1>2, <1>3, <1>4, <1>5 DEF IInv

LEMMA CancelSetKeeps ==
  ASSUME IInv, NEW c \in Cancels, CancelSet(c)
  PROVE  IInv'
<1> DEFINE t == ctask[c]
<1> USE DEF CancelSet, Cancel
<1>1. /\ UNCHANGED <<conf, status, order, keyOf, runner, saying, outcome, announced, ended,
                     registered, ctask>>
      /\ cpc[c] = "checked"
      /\ \A d \in Cancels : d # c => cpc'[d] = cpc[d]
      /\ cpc'[c] = "set"
      /\ cpc' \in [Cancels -> CancelPCs]
  BY DEF IInv, TypeOK, CancelPCs
<1>2. t \in Tasks
  BY <1>1 DEF IInv, Bookkeeping
<1>3. /\ cancelEv' \in [Tasks -> BOOLEAN]
      /\ \A u \in Tasks : u # t => cancelEv'[u] = cancelEv[u]
      /\ cancelEv'[t] = (cancelEv[t] \/ registered[t])
  <2>1. cancelEv \in [Tasks -> BOOLEAN] /\ (cancelEv[t] \/ registered[t]) \in BOOLEAN
    BY DEF IInv, TypeOK
  <2>2. cancelEv' = [cancelEv EXCEPT ![t] = cancelEv[t] \/ registered[t]]
    OBVIOUS
  <2> HIDE DEF t
  <2>3. QED
    BY <1>2, <2>1, <2>2, Zenon
<1> HIDE DEF t
<1>4. TypeOK'
  BY <1>1, <1>3 DEF IInv, TypeOK, StoreWellFormed, Stored, MaxTasks
<1>5. RunsAreOpen' /\ RunsAreStored' /\ LogInv'
  BY <1>1 DEF IInv, RunsAreOpen, RunsAreStored, LogInv, MaxTasks, Faults, InRun
<1>6. Bookkeeping'
  <2>1. \A u \in Tasks : runner[u] \in {"none", "hit"} => ~cancelEv'[u]
    BY <1>3 DEF IInv, Bookkeeping
  <2>2. QED
    BY <1>1, <2>1 DEF IInv, Bookkeeping, Injective
<1>7. MemoryInv'
  <2> SUFFICES ASSUME ~Durable PROVE MemoryInv'
    BY <1>1 DEF MemoryInv, Durable
  <2>1. /\ \A u \in Tasks : runner[u] \notin MidBlock
        /\ \A d \in Cancels : InBlock(d) => d = c
        /\ status[t] \in Active
        /\ runner[t] \in {"queued", "handler", "unwinding"}
    BY <1>1 DEF IInv, MemoryInv, InBlock, t
  <2>2. cancelEv'[t]
    BY <1>2, <1>3, <2>1 DEF IInv, RunsAreOpen, Unsettled
  <2>3. \A d \in Cancels : InBlock(d)' => d = c
    BY <1>1, <2>1 DEF InBlock
  <2>4. \A u \in Tasks : cancelEv'[u] =>
          /\ runner'[u] # "settling"
          /\ status'[u] \in Active => cpc'[c] = "set" /\ ctask'[c] = u
    <3>1. \A u \in Tasks : cancelEv[u] => status[u] \notin Active
      BY <1>1, <2>1 DEF IInv, MemoryInv, InBlock
    <3>2. QED
      BY <1>1, <1>3, <2>1, <3>1 DEF MidBlock, t
  <2>5. \A d \in Cancels : cpc'[d] \in {"set", "accepted"} => cancelEv'[ctask'[d]]
    <3>1. ASSUME NEW d \in Cancels, cpc'[d] \in {"set", "accepted"}
          PROVE  cancelEv'[ctask'[d]]
      <4>1. CASE d = c
        BY <1>1, <2>2, <4>1 DEF t
      <4>2. CASE d # c
        <5>1. ctask[d] \in Tasks /\ cancelEv[ctask[d]]
          BY <1>1, <3>1, <4>2 DEF IInv, MemoryInv, Bookkeeping
        <5>2. QED
          BY <1>1, <1>3, <2>2, <5>1
      <4>3. QED
        BY <4>1, <4>2
    <3>2. QED
      BY <3>1
  <2>6. CancelBeatsResult'
    BY <1>1 DEF IInv, MemoryInv, CancelBeatsResult
  <2>7. \A d \in Cancels : InBlock(d)' =>
          /\ \A u \in Tasks : runner'[u] \notin MidBlock
          /\ \A e \in Cancels : InBlock(e)' => d = e
          /\ status'[ctask'[d]] \in Active
          /\ runner'[ctask'[d]] \in {"queued", "handler", "unwinding"}
    BY <1>1, <2>1, <2>3 DEF t
  <2>8. /\ \A u, v \in Tasks : runner'[u] \in MidBlock /\ runner'[v] \in MidBlock => u = v
        /\ \A u \in Tasks : status'[u] \in Active => runner'[u] \in Unsettled
    BY <1>1 DEF IInv, MemoryInv
  <2>9. QED
    BY <2>4, <2>5, <2>6, <2>7, <2>8 DEF MemoryInv
<1>8. QED
  BY <1>4, <1>5, <1>6, <1>7 DEF IInv

LEMMA CancelWriteKeeps ==
  ASSUME IInv, NEW c \in Cancels, CancelWrite(c)
  PROVE  IInv'
<1> DEFINE t == ctask[c]
<1> USE DEF CancelWrite, Cancel
<1>1. /\ UNCHANGED <<conf, order, keyOf, runner, saying, outcome, announced, ended,
                     cancelEv, registered, ctask>>
      /\ cpc[c] = "set"
      /\ \A d \in Cancels : d # c => cpc'[d] = cpc[d]
      /\ cpc'[c] = "accepted"
      /\ cpc' \in [Cancels -> CancelPCs]
  BY DEF IInv, TypeOK, CancelPCs
<1>2. t \in Tasks
  BY <1>1 DEF IInv, Bookkeeping
<1>3. /\ status' \in [Tasks -> Statuses]
      /\ \A u \in Tasks : u # t => status'[u] = status[u]
      /\ status'[t] = (IF status[t] \in Active THEN "cancelled" ELSE status[t])
  BY <1>2 DEF IInv, TypeOK, Cancelled, Statuses, Terminal, t
<1> HIDE DEF t
<1>4. TypeOK'
  <2>1. \A u \in Tasks : Stored(u)' = Stored(u)
    BY <1>3 DEF Stored, Active, Terminal
  <2>2. {u \in Tasks : Stored(u)}' = {u \in Tasks : Stored(u)}
    BY <2>1
  <2>3. StoreWellFormed'
    BY <1>1, <2>2 DEF IInv, TypeOK, StoreWellFormed, MaxTasks
  <2>4. QED
    BY <1>1, <1>3, <2>3 DEF IInv, TypeOK
<1>5. RunsAreOpen' /\ RunsAreStored' /\ LogInv'
  <2>1. RunsAreOpen'
    BY <1>1, <1>3 DEF IInv, RunsAreOpen, Active
  <2>2. RunsAreStored'
    BY <1>1 DEF IInv, RunsAreStored, MaxTasks, Faults, InRun
  <2>3. LogInv'
    BY <1>1, <1>3 DEF IInv, LogInv, Active
  <2>4. QED
    BY <2>1, <2>2, <2>3
<1>6. Bookkeeping'
  BY <1>1, <1>3 DEF IInv, Bookkeeping, Injective, Active
<1>7. MemoryInv'
  <2> SUFFICES ASSUME ~Durable PROVE MemoryInv'
    BY <1>1 DEF MemoryInv, Durable
  <2>1. /\ \A u \in Tasks : runner[u] \notin MidBlock
        /\ \A d \in Cancels : InBlock(d) => d = c
        /\ status[t] \in Active
    BY <1>1 DEF IInv, MemoryInv, InBlock, t
  <2>2. /\ \A d \in Cancels : ~InBlock(d)'
        /\ status'[t] = "cancelled"
    BY <1>1, <1>3, <2>1 DEF InBlock
  <2>3. \A u \in Tasks : status'[u] \in Active => status[u] \in Active /\ u # t
    BY <1>3, <2>2 DEF Active
  <2>4. \A u \in Tasks : cancelEv'[u] => runner'[u] # "settling" /\ status'[u] \notin Active
    BY <1>1, <2>1, <2>3 DEF IInv, MemoryInv, InBlock, t
  <2>5. \A d \in Cancels : cpc'[d] \in {"set", "accepted"} =>
          /\ cpc[d] \in {"set", "accepted"}
          /\ d = c \/ cpc[d] = "accepted"
    BY <1>1, <2>2 DEF InBlock
  <2>6. \A d \in Cancels : cpc'[d] \in {"set", "accepted"} => cancelEv'[ctask'[d]]
    BY <1>1, <2>5 DEF IInv, MemoryInv
  <2>7. CancelBeatsResult'
    <3>1. ASSUME NEW d \in Cancels, cpc'[d] = "accepted"
          PROVE  status'[ctask'[d]] \in {"cancelled", "failed", "gone"}
      <4>1. CASE ctask[d] = t
        BY <1>1, <2>2, <4>1
      <4>2. CASE ctask[d] # t
        <5>1. cpc[d] = "accepted" /\ ctask[d] \in Tasks
          BY <1>1, <2>5, <3>1, <4>2 DEF IInv, Bookkeeping, t
        <5>2. QED
          BY <1>1, <1>3, <4>2, <5>1 DEF IInv, MemoryInv, CancelBeatsResult
      <4>3. QED
        BY <4>1, <4>2
    <3>2. QED
      BY <3>1 DEF CancelBeatsResult
  <2>8. QED
    BY <1>1, <2>1, <2>2, <2>3, <2>4, <2>6, <2>7 DEF IInv, MemoryInv
<1>8. QED
  BY <1>4, <1>5, <1>6, <1>7 DEF IInv

-----------------------------------------------------------------------------
(* The store.                                                               *)

(* What an operation on the store keeps when it drops the oldest tasks and  *)
(* perhaps takes in a new one, given what it leaves of order.               *)
LEMMA StoreKeeps ==
  ASSUME IInv, Turn(FALSE), NEW dropped \in SUBSET ToSet(order),
         MaxTasks = 0 /\ "expire" \notin Faults => dropped = {},
         UNCHANGED <<conf, saying, outcome, announced, ended, cancelEv, registered, cpc, ctask>>,
         keyOf' \in [Tasks -> Keys \cup {NoKey}],
         runner' \in [Tasks -> RunnerPCs],
         \A u \in Tasks : runner'[u] # runner[u] =>
           runner[u] = "none" /\ runner'[u] \in {"hit", "creating"},
         \A u, v \in Tasks : runner'[u] # runner[u] /\ runner'[v] # runner[v] => u = v,
         status' \in [Tasks -> Statuses],
         \A u \in Tasks :
           status'[u] = IF runner'[u] = "creating" /\ runner[u] # "creating" THEN "pending"
                        ELSE IF u \in dropped THEN "gone" ELSE status[u],
         order' \in Seq(Tasks), Injective(order'),
         ToSet(order') = (ToSet(order) \ dropped) \cup
           {u \in Tasks : runner'[u] = "creating" /\ runner[u] # "creating"},
         MaxTasks > 0 => Len(order') <= MaxTasks,
         \A u, v \in ToSet(order') : keyOf'[u] = keyOf'[v] /\ keyOf'[u] # NoKey => u = v
  PROVE  IInv'
<1>1. /\ \A u \in Tasks : Stored(u) <=> u \in ToSet(order)
      /\ \A u \in Tasks : runner[u] = "none" => status[u] = "none"
      /\ \A u \in Tasks : runner[u] = "none" => u \notin ToSet(order)
      /\ conf' = conf
  BY DEF IInv, TypeOK, StoreWellFormed, Bookkeeping, Stored, Active, Terminal
<1>2. TypeOK'
  <2>1. \A u \in Tasks : Stored(u)' <=> u \in ToSet(order')
    BY <1>1 DEF Stored, Active, Terminal
  <2>2. ToSet(order') \subseteq Tasks
    BY DEF ToSet
  <2>3. {u \in Tasks : Stored(u)}' = ToSet(order')
    BY <2>1, <2>2
  <2>4. StoreWellFormed'
    BY <1>1, <2>3 DEF StoreWellFormed, MaxTasks
  <2>5. QED
    BY <2>4 DEF IInv, TypeOK
<1>3. Bookkeeping'
  <2>1. \A u \in Tasks :
          /\ runner'[u] \in {"none", "hit"} =>
               status'[u] = "none" /\ ~registered'[u] /\ ~cancelEv'[u]
          /\ runner'[u] \notin {"none", "hit"} => status'[u] # "none"
          /\ runner'[u] \notin {"done", "dead"} => ended'[u] = 0
    <3>1. \A u \in dropped : runner[u] \notin {"none", "hit"} /\ u \in Tasks
      BY <1>1 DEF IInv, Bookkeeping, Stored, Active, Terminal, ToSet, TypeOK
    <3>2. QED
      BY <3>1 DEF IInv, Bookkeeping
  <2>2. QED
    BY <2>1 DEF IInv, Bookkeeping, Injective
<1>4. RunsAreOpen'
  BY <1>1 DEF IInv, RunsAreOpen, Unsettled, Active
<1>5. RunsAreStored'
  BY <1>1 DEF IInv, RunsAreStored, InRun, MaxTasks, Faults, RunnerPCs
<1>6. LogInv'
  BY <1>1 DEF IInv, LogInv, Active
<1>7. MemoryInv'
  <2> SUFFICES ASSUME ~Durable PROVE MemoryInv'
    BY <1>1 DEF MemoryInv, Durable
  <2>1. /\ \A u \in Tasks : runner[u] \notin MidBlock
        /\ \A d \in Cancels : ~InBlock(d)
    BY DEF Turn, InBlock
  <2>2. \A d \in Cancels : ~InBlock(d)'
    BY <2>1 DEF InBlock
  <2>3. \A u, v \in Tasks : runner'[u] \in MidBlock /\ runner'[v] \in MidBlock => u = v
    BY <2>1
  <2>4. \A u \in Tasks : status'[u] \in Active => runner'[u] \in Unsettled
    BY DEF IInv, MemoryInv, Active, Unsettled
  <2>5. \A u \in Tasks : cancelEv'[u] => runner'[u] # "settling" /\ status'[u] \notin Active
    <3>1. \A u \in Tasks : cancelEv[u] =>
            runner[u] \notin {"none", "settling"} /\ status[u] \notin Active
      BY <2>1 DEF IInv, MemoryInv, InBlock, Bookkeeping
    <3>2. QED
      BY <3>1 DEF Active
  <2>6. \A d \in Cancels : cpc'[d] \in {"set", "accepted"} =>
          cancelEv'[ctask'[d]] /\ status'[ctask'[d]] \in {"cancelled", "failed", "gone"}
    <3>1. ASSUME NEW d \in Cancels, cpc'[d] \in {"set", "accepted"}
          PROVE  cancelEv'[ctask'[d]] /\ status'[ctask'[d]] \in {"cancelled", "failed", "gone"}
      <4>1. cpc[d] = "accepted" /\ ctask[d] \in Tasks
        BY <2>1, <3>1 DEF InBlock, IInv, Bookkeeping
      <4>2. /\ cancelEv[ctask[d]]
            /\ status[ctask[d]] \in {"cancelled", "failed", "gone"}
        BY <4>1 DEF IInv, MemoryInv, CancelBeatsResult
      <4>3. QED
        BY <1>1, <4>1, <4>2
    <3>2. QED
      BY <3>1
  <2>7. QED
    BY <2>2, <2>3, <2>4, <2>5, <2>6 DEF MemoryInv, CancelBeatsResult, InBlock
<1>8. QED
  BY <1>2, <1>3, <1>4, <1>5, <1>6, <1>7 DEF IInv

LEMMA ExpirableRange ==
  ASSUME IInv, NEW n \in Expirable
  PROVE  n \in 0..Len(order) /\ ("expire" \notin Faults => n = 0)
BY DEF Expirable, IInv, TypeOK

LEMMA EvictedAt ==
  ASSUME IInv, NEW dropped \in SUBSET ToSet(order)
  PROVE  /\ Evicted(dropped) \in [Tasks -> Statuses]
         /\ \A u \in Tasks : Evicted(dropped)[u] = IF u \in dropped THEN "gone" ELSE status[u]
BY DEF Evicted, IInv, TypeOK, Statuses

LEMMA CreateTaskKeeps ==
  ASSUME IInv, NEW t \in Tasks, NEW k \in Keys \cup {NoKey}, CreateTask(t, k)
  PROVE  IInv'
<1>1. PICK n \in Expirable :
       IF Holder(After(n), k) # {}
       THEN /\ order' = After(n)
            /\ status' = Evicted(Prefix(n))
            /\ runner' = [runner EXCEPT ![t] = "hit"]
       ELSE LET full == MaxTasks > 0 /\ Len(order) - n >= MaxTasks
                m    == IF full THEN n + 1 ELSE n
            IN /\ order' = Append(After(m), t)
               /\ status' = [Evicted(Prefix(m)) EXCEPT ![t] = "pending"]
               /\ runner' = [runner EXCEPT ![t] = "creating"]
  BY DEF CreateTask
<1>2. /\ runner[t] = "none" /\ Turn(FALSE)
      /\ keyOf' = [keyOf EXCEPT ![t] = k]
      /\ UNCHANGED <<conf, saying, outcome, announced, ended, cancelEv, registered, cpc, ctask>>
  BY DEF CreateTask
<1>3. n \in 0..Len(order) /\ ("expire" \notin Faults => n = 0)
  BY <1>1, ExpirableRange
<1>4. /\ order \in Seq(Tasks) /\ Injective(order)
      /\ status \in [Tasks -> Statuses] /\ runner \in [Tasks -> RunnerPCs]
      /\ keyOf \in [Tasks -> Keys \cup {NoKey}]
      /\ MaxTasks \in Nat
      /\ MaxTasks > 0 => Len(order) <= MaxTasks
      /\ \A u, v \in ToSet(order) : keyOf[u] = keyOf[v] /\ keyOf[u] # NoKey => u = v
  BY ConstantsAssumption DEF IInv, TypeOK, StoreWellFormed, Bookkeeping, MaxTasks, Deployment
<1>5. t \notin ToSet(order) /\ ToSet(order) \subseteq Tasks
  BY <1>2 DEF IInv, TypeOK, Bookkeeping, StoreWellFormed, Stored, Active, Terminal
<1>6. /\ keyOf' \in [Tasks -> Keys \cup {NoKey}]
      /\ keyOf'[t] = k
      /\ \A u \in Tasks : u # t => keyOf'[u] = keyOf[u]
  BY <1>2, <1>4
<1>7. CASE Holder(After(n), k) # {}
  <2>1. /\ order' = After(n) /\ status' = Evicted(Prefix(n))
        /\ runner' = [runner EXCEPT ![t] = "hit"]
    BY <1>1, <1>7
  <2>2. /\ After(n) \in Seq(Tasks) /\ Len(After(n)) = Len(order) - n
        /\ Injective(After(n)) /\ ToSet(After(n)) = ToSet(order) \ Prefix(n)
        /\ Prefix(n) \in SUBSET ToSet(order)
        /\ n = 0 => Prefix(n) = {}
    BY <1>3, <1>4, DropPrefix
  <2>3. /\ status' \in [Tasks -> Statuses]
        /\ \A u \in Tasks : status'[u] = IF u \in Prefix(n) THEN "gone" ELSE status[u]
    BY <2>1, <2>2, EvictedAt
  <2>4. /\ runner' \in [Tasks -> RunnerPCs] /\ runner'[t] = "hit"
        /\ \A u \in Tasks : u # t => runner'[u] = runner[u]
    BY <1>4, <2>1 DEF RunnerPCs
  <2>5. Len(order') <= Len(order)
    BY <1>3, <2>1, <2>2
  <2>6. MaxTasks > 0 => Len(order') <= MaxTasks
    BY <1>3, <1>4, <2>1, <2>2
  <2>7. \A u, v \in ToSet(order') : keyOf'[u] = keyOf'[v] /\ keyOf'[u] # NoKey => u = v
    BY <1>4, <1>5, <1>6, <2>1, <2>2
  <2>8. ToSet(order') = (ToSet(order) \ Prefix(n)) \cup
           {u \in Tasks : runner'[u] = "creating" /\ runner[u] # "creating"}
    BY <2>1, <2>2, <2>4
  <2>9. \A u \in Tasks :
           status'[u] = IF runner'[u] = "creating" /\ runner[u] # "creating" THEN "pending"
                        ELSE IF u \in Prefix(n) THEN "gone" ELSE status[u]
    BY <2>3, <2>4
  <2>10. order' \in Seq(Tasks) /\ Injective(order')
    BY <2>1, <2>2
  <2>11. /\ \A u \in Tasks : runner'[u] # runner[u] =>
              runner[u] = "none" /\ runner'[u] \in {"hit", "creating"}
         /\ \A u, v \in Tasks : runner'[u] # runner[u] /\ runner'[v] # runner[v] => u = v
    BY <1>2, <2>4
  <2>12. QED
    BY <1>2, <1>3, <1>6, <2>2, <2>3, <2>4, <2>6, <2>7, <2>8, <2>9, <2>10, <2>11, StoreKeeps
<1>8. CASE Holder(After(n), k) = {}
  <2> DEFINE full == MaxTasks > 0 /\ Len(order) - n >= MaxTasks
  <2> DEFINE m == IF full THEN n + 1 ELSE n
  <2>1. /\ order' = Append(After(m), t) /\ status' = [Evicted(Prefix(m)) EXCEPT ![t] = "pending"]
        /\ runner' = [runner EXCEPT ![t] = "creating"]
    BY <1>1, <1>8
  <2>2. /\ m \in 0..Len(order) /\ m >= n
        /\ MaxTasks > 0 => Len(order) - m + 1 <= MaxTasks
        /\ MaxTasks = 0 => m = n
    BY <1>3, <1>4
  <2> HIDE DEF m
  <2>3. /\ After(m) \in Seq(Tasks) /\ Len(After(m)) = Len(order) - m
        /\ Injective(After(m)) /\ ToSet(After(m)) = ToSet(order) \ Prefix(m)
        /\ Prefix(m) \in SUBSET ToSet(order)
        /\ m = 0 => Prefix(m) = {}
    BY <1>4, <2>2, DropPrefix
  <2>4. /\ order' \in Seq(Tasks) /\ Len(order') = Len(After(m)) + 1
        /\ Injective(order') /\ ToSet(order') = ToSet(After(m)) \cup {t}
    BY <1>5, <2>1, <2>3, AppendNew
  <2>5. /\ status' \in [Tasks -> Statuses]
        /\ \A u \in Tasks : status'[u] =
             IF u = t THEN "pending" ELSE IF u \in Prefix(m) THEN "gone" ELSE status[u]
    BY <2>1, <2>3, EvictedAt DEF Statuses, Active
  <2>6. /\ runner' \in [Tasks -> RunnerPCs] /\ runner'[t] = "creating"
        /\ \A u \in Tasks : u # t => runner'[u] = runner[u]
    BY <1>4, <2>1 DEF RunnerPCs
  <2>7. MaxTasks > 0 => Len(order') <= MaxTasks
    BY <2>2, <2>3, <2>4, <1>4
  <2>8. \A u \in ToSet(After(m)) : k = NoKey \/ keyOf[u] # k
    <3>1. \A u \in ToSet(After(n)) : k = NoKey \/ keyOf[u] # k
      BY <1>8 DEF Holder
    <3>2. ToSet(After(m)) \subseteq ToSet(After(n))
      <4>1. /\ After(n) \in Seq(Tasks) /\ Len(After(n)) = Len(order) - n
            /\ \A i \in 1..Len(After(n)) : After(n)[i] = order[n + i]
            /\ \A i \in 1..Len(After(m)) : After(m)[i] = order[m + i]
        BY <1>3, <1>4, <2>2, DropPrefix
      <4>2. \A i \in 1..Len(After(m)) : /\ i + (m - n) \in 1..Len(After(n))
                                        /\ After(m)[i] = After(n)[i + (m - n)]
        <5>1. \A i \in 1..Len(order) - m : i + (m - n) \in 1..Len(order) - n
          BY <1>3, <1>4, <2>2
        <5>2. \A i \in 1..Len(order) - m : n + (i + (m - n)) = m + i
          BY <1>3, <1>4, <2>2
        <5>3. QED
          BY <2>3, <4>1, <5>1, <5>2
      <4>3. QED
        BY <2>3, <4>1, <4>2 DEF ToSet
    <3>3. QED
      BY <3>1, <3>2
  <2>9. \A u, v \in ToSet(order') : keyOf'[u] = keyOf'[v] /\ keyOf'[u] # NoKey => u = v
    BY <1>4, <1>5, <1>6, <2>3, <2>4, <2>8
  <2>10. ToSet(order') = (ToSet(order) \ Prefix(m)) \cup
           {u \in Tasks : runner'[u] = "creating" /\ runner[u] # "creating"}
    BY <1>2, <2>3, <2>4, <2>6
  <2>11. \A u \in Tasks :
           status'[u] = IF runner'[u] = "creating" /\ runner[u] # "creating" THEN "pending"
                        ELSE IF u \in Prefix(m) THEN "gone" ELSE status[u]
    BY <1>2, <2>5, <2>6
  <2>12. /\ \A u \in Tasks : runner'[u] # runner[u] =>
              runner[u] = "none" /\ runner'[u] \in {"hit", "creating"}
         /\ \A u, v \in Tasks : runner'[u] # runner[u] /\ runner'[v] # runner[v] => u = v
    BY <1>2, <2>6
  <2>13. MaxTasks = 0 /\ "expire" \notin Faults => Prefix(m) = {}
    BY <1>3, <2>2, <2>3
  <2>14. QED
    BY <1>2, <1>6, <2>3, <2>4, <2>5, <2>6, <2>7, <2>9, <2>10, <2>11, <2>12, <2>13, StoreKeeps
<1>9. QED
  BY <1>7, <1>8

LEMMA EvictExpiredKeeps ==
  ASSUME IInv, NEW n, EvictExpired(n)
  PROVE  IInv'
<1>1. /\ Turn(FALSE) /\ n \in Expirable /\ order' = After(n) /\ status' = Evicted(Prefix(n))
      /\ UNCHANGED <<conf, keyOf, runner, saying, outcome, announced, ended,
                     cancelEv, registered, cpc, ctask>>
  BY DEF EvictExpired
<1>2. n \in 0..Len(order) /\ ("expire" \notin Faults => n = 0)
  BY <1>1, ExpirableRange
<1>3. /\ order \in Seq(Tasks) /\ Injective(order)
      /\ runner \in [Tasks -> RunnerPCs] /\ keyOf \in [Tasks -> Keys \cup {NoKey}]
      /\ MaxTasks \in Nat /\ (MaxTasks > 0 => Len(order) <= MaxTasks)
      /\ \A u, v \in ToSet(order) : keyOf[u] = keyOf[v] /\ keyOf[u] # NoKey => u = v
  BY ConstantsAssumption DEF IInv, TypeOK, StoreWellFormed, Bookkeeping, MaxTasks, Deployment
<1>4. /\ After(n) \in Seq(Tasks) /\ Len(After(n)) = Len(order) - n
      /\ Injective(After(n)) /\ ToSet(After(n)) = ToSet(order) \ Prefix(n)
      /\ Prefix(n) \in SUBSET ToSet(order)
      /\ n = 0 => Prefix(n) = {}
  BY <1>2, <1>3, DropPrefix
<1>5. /\ status' \in [Tasks -> Statuses]
      /\ \A u \in Tasks : status'[u] = IF u \in Prefix(n) THEN "gone" ELSE status[u]
  BY <1>1, <1>4, EvictedAt
<1>6. MaxTasks > 0 => Len(order') <= MaxTasks
  BY <1>1, <1>2, <1>3, <1>4
<1>7. \A u, v \in ToSet(order') : keyOf'[u] = keyOf'[v] /\ keyOf'[u] # NoKey => u = v
  BY <1>1, <1>3, <1>4
<1>8. ToSet(order') = (ToSet(order) \ Prefix(n)) \cup
         {u \in Tasks : runner'[u] = "creating" /\ runner[u] # "creating"}
  BY <1>1, <1>4
<1>9. order' \in Seq(Tasks) /\ Injective(order') /\ runner' = runner /\ keyOf' = keyOf
  BY <1>1, <1>4
<1>10. QED
  BY <1>1, <1>2, <1>3, <1>4, <1>5, <1>6, <1>7, <1>8, <1>9, StoreKeeps

(* A restart: the in-memory store is lost with the process, and no run that *)
(* was under way goes on.                                                   *)
LEMMA CrashKeeps ==
  ASSUME IInv, Crash
  PROVE  IInv'
<1>1. /\ UNCHANGED <<conf, keyOf, saying, outcome, announced, ended, cancelEv, ctask>>
      /\ runner' \in [Tasks -> RunnerPCs]
      /\ \A t \in Tasks : runner'[t] = IF runner[t] \in {"none", "hit", "done"}
                                       THEN runner[t] ELSE "dead"
      /\ registered' \in [Tasks -> BOOLEAN] /\ \A t \in Tasks : ~registered'[t]
      /\ cpc' \in [Cancels -> CancelPCs]
      /\ \A c \in Cancels : cpc'[c] = IF cpc[c] \in {"checked", "set"} THEN "dead" ELSE cpc[c]
  BY DEF Crash, IInv, TypeOK, RunnerPCs, CancelPCs
<1>2. /\ \A t \in Tasks : Stored(t) <=> t \in ToSet(order)
      /\ status' \in [Tasks -> Statuses] /\ order' \in Seq(Tasks)
      /\ \A t \in Tasks : status'[t] = IF ~Durable /\ Stored(t) THEN "gone" ELSE status[t]
      /\ order' = order \/ order' = <<>>
      /\ Durable => order' = order
      /\ ~Durable => order' = <<>>
  <2>1. \A t \in Tasks : Stored(t) <=> t \in ToSet(order)
    BY DEF IInv, TypeOK, StoreWellFormed
  <2>2. QED
    BY <2>1, EvictedAt DEF Crash, IInv, TypeOK
<1>3. TypeOK'
  <2>1. ToSet(<<>>) = {} /\ Len(<<>>) = 0
    BY DEF ToSet
  <2>2. MaxTasks \in Nat
    BY ConstantsAssumption DEF IInv, TypeOK, MaxTasks, Deployment
  <2>3. {t \in Tasks : Stored(t)}' = ToSet(order')
    <3>1. CASE Durable
      <4>1. \A t \in Tasks : Stored(t)' = Stored(t)
        BY <1>2, <3>1 DEF Stored
      <4>2. QED
        BY <1>2, <3>1, <4>1 DEF IInv, TypeOK, StoreWellFormed
    <3>2. CASE ~Durable
      <4>1. \A t \in Tasks : ~Stored(t)'
        BY <1>2, <3>2 DEF Stored, Active, Terminal
      <4>2. QED
        BY <1>2, <2>1, <3>2, <4>1
    <3>3. QED
      BY <3>1, <3>2
  <2>4. StoreWellFormed'
    BY <1>1, <1>2, <2>1, <2>2, <2>3 DEF StoreWellFormed, MaxTasks, IInv, TypeOK
  <2>5. QED
    BY <1>1, <1>2, <2>4 DEF IInv, TypeOK
<1>4. Bookkeeping'
  <2>1. Injective(order')
    BY <1>2 DEF IInv, Bookkeeping, Injective
  <2>2. QED
    BY <1>1, <1>2, <2>1 DEF IInv, Bookkeeping, Injective, Stored, Active, Terminal
<1>5. RunsAreOpen' /\ RunsAreStored' /\ LogInv'
  BY <1>1 DEF RunsAreOpen, RunsAreStored, LogInv, InRun, Unsettled
<1>6. MemoryInv'
  <2> SUFFICES ASSUME ~Durable PROVE MemoryInv'
    BY <1>1 DEF MemoryInv, Durable
  <2>1. \A t \in Tasks : status'[t] \notin Active /\ runner'[t] \notin MidBlock \cup {"settling"}
    BY <1>1, <1>2 DEF Stored, Active, MidBlock
  <2>2. \A c \in Cancels : cpc'[c] \in {"set", "accepted"} => cpc[c] = "accepted"
    BY <1>1
  <2>3. \A c \in Cancels : cpc'[c] \in {"set", "accepted"} => cancelEv'[ctask'[c]]
    BY <1>1, <2>2 DEF IInv, MemoryInv
  <2>4. CancelBeatsResult'
    <3>1. ASSUME NEW c \in Cancels, cpc'[c] = "accepted"
          PROVE  status'[ctask'[c]] \in {"cancelled", "failed", "gone"}
      BY <1>1, <1>2, <2>2, <3>1 DEF IInv, MemoryInv, CancelBeatsResult, Bookkeeping
    <3>2. QED
      BY <3>1 DEF CancelBeatsResult
  <2>5. \A c \in Cancels : ~InBlock(c)'
    BY <1>1 DEF InBlock
  <2>6. QED
    BY <2>1, <2>3, <2>4, <2>5 DEF MemoryInv
<1>7. QED
  BY <1>3, <1>4, <1>5, <1>6 DEF IInv

-----------------------------------------------------------------------------
(* The invariant.                                                           *)

LEMMA StutterKeeps == IInv /\ UNCHANGED vars => IInv'
<1> SUFFICES ASSUME IInv, UNCHANGED vars PROVE IInv'
  OBVIOUS
<1> USE DEF vars, IInv
<1>1. TypeOK' /\ Bookkeeping'
  BY DEF TypeOK, StoreWellFormed, Stored, MaxTasks, Bookkeeping, Injective
<1>2. RunsAreOpen' /\ RunsAreStored' /\ LogInv'
  BY DEF RunsAreOpen, RunsAreStored, LogInv, InRun, MaxTasks, Faults
<1>3. MemoryInv'
  BY DEF MemoryInv, CancelBeatsResult, InBlock, Durable
<1>4. QED
  BY <1>1, <1>2, <1>3

LEMMA NextKeepsIInv == IInv /\ [Next]_vars => IInv'
<1> SUFFICES ASSUME IInv, Next PROVE IInv'
  BY StutterKeeps
<1>1. CASE \E t \in Tasks : RunnerStep(t) \/ HandlerStep(t)
  BY <1>1, RunnerKeeps
<1>2. CASE \E t \in Tasks, k \in Keys \cup {NoKey} : CreateTask(t, k)
  BY <1>2, CreateTaskKeeps
<1>3. CASE \E n \in 1..Len(order) : EvictExpired(n)
  BY <1>3, EvictExpiredKeeps
<1>4. CASE \E c \in Cancels : CancelStep(c)
  BY <1>4, CancelReadKeeps, CancelSetKeeps, CancelWriteKeeps DEF CancelStep
<1>5. CASE Crash
  BY <1>5, CrashKeeps
<1>6. QED
  BY <1>1, <1>2, <1>3, <1>4, <1>5 DEF Next

LEMMA Invariance == Spec => []IInv
BY InitIInv, NextKeepsIInv, PTL DEF Spec

-----------------------------------------------------------------------------
(* The results.                                                             *)

(* The variables keep their types and the store of the tasks stays well     *)
(* formed: as many tasks as it has room for, each key once, and in its      *)
(* insertion order exactly the tasks that have a record.                    *)
THEOREM TypeCorrect == Spec => []TypeOK
BY Invariance, PTL DEF IInv

(* While nothing is evicted, the POSTs of one idempotency key have one run  *)
(* between them, across restarts with SQLite: the record of a run that is   *)
(* under way is in the store, and create_task finds its key there.          *)
THEOREM OneRunForAKey == Spec => []OneRunPerKey
<1>1. IInv => OneRunPerKey
  <2> SUFFICES ASSUME IInv, NEW t \in Tasks, NEW u \in Tasks,
                      MaxTasks = 0, "expire" \notin Faults,
                      keyOf[t] = keyOf[u], keyOf[t] # NoKey,
                      Stored(t) \/ InRun(t), Stored(u) \/ InRun(u)
               PROVE  t = u
    BY DEF OneRunPerKey
  <2>1. t \in ToSet(order) /\ u \in ToSet(order)
    BY DEF IInv, RunsAreStored, TypeOK, StoreWellFormed
  <2>2. QED
    BY <2>1 DEF IInv, TypeOK, StoreWellFormed
<1>2. QED
  BY <1>1, Invariance, PTL

(* With the in-memory store an answered cancellation is not undone by a     *)
(* result, and the log of a handler that runs has its record's status.      *)
THEOREM ToldTheTruth == Spec => []WhatWasToldHolds
<1>1. IInv => CancelBeatsResult
  BY DEF IInv, MemoryInv, CancelBeatsResult
<1>2. IInv => LogFollowsStatus
  BY DEF IInv, LogInv, LogFollowsStatus
<1>3. QED
  BY <1>1, <1>2, Invariance, PTL DEF WhatWasToldHolds

(* No run, cancel request, eviction or restart gives a task that completed  *)
(* or failed another status: a run writes its record once, at its end.      *)
THEOREM SettledStaysSettled == Spec => SettledIsFinal
<1> DEFINE Final(t) == status[t] \in {"completed", "failed"} => status'[t] \in {status[t], "gone"}
<1>1. IInv /\ [Next]_vars => [\A t \in Tasks : Final(t)]_vars
  <2> SUFFICES ASSUME IInv, Next, NEW t \in Tasks, status[t] \in {"completed", "failed"}
               PROVE  status'[t] \in {status[t], "gone"}
    OBVIOUS
  <2>1. ASSUME NEW u \in Tasks, RunnerStep(u) \/ HandlerStep(u)
        PROVE  status'[t] = status[t]
    <3>1. CASE t # u
      BY <2>1, <3>1, RunnerMoves
    <3>2. CASE t = u
      <4>1. runner[t] = "ending" \/ runner[t] \in {"done", "dead", "none", "hit"}
        BY DEF IInv, RunsAreOpen, TypeOK, RunnerPCs, Unsettled, Active
      <4>2. runner[t] = "ending"
        BY <2>1, <3>2, <4>1, RunnerMoves DEF Unsettled
      <4>3. End(t)
        BY <2>1, <3>2, <4>2 DEF Register, Start, Say, Settle, SettleRaises, SettleError,
           Propagate, RecordCancelled, HandlerRaises, Unwind, Swallow, HandlerReports,
           HandlerReturns, Report, Runner, RunnerStep, HandlerStep
      <4>4. QED
        BY <4>3 DEF End
    <3>3. QED
      BY <3>1, <3>2
  <2>2. ASSUME NEW u \in Tasks, NEW k \in Keys \cup {NoKey}, CreateTask(u, k)
        PROVE  status'[t] \in {status[t], "gone"}
    <3>1. t # u /\ status \in [Tasks -> Statuses]
      BY <2>2 DEF CreateTask, IInv, Bookkeeping, TypeOK
    <3>2. \E d : status' = Evicted(d) \/ status' = [Evicted(d) EXCEPT ![u] = "pending"]
      BY <2>2 DEF CreateTask
    <3>3. QED
      BY <3>1, <3>2 DEF Evicted
  <2>3. ASSUME NEW n, EvictExpired(n)
        PROVE  status'[t] \in {status[t], "gone"}
    BY <2>3 DEF EvictExpired, Evicted
  <2>4. ASSUME NEW c \in Cancels, CancelStep(c)
        PROVE  status'[t] = status[t]
    BY <2>4 DEF CancelStep, CancelRead, CancelSet, CancelWrite, Cancelled, Active, IInv, TypeOK
  <2>5. Crash => status'[t] \in {status[t], "gone"}
    BY DEF Crash, Evicted
  <2>6. QED
    BY <2>1, <2>2, <2>3, <2>4, <2>5 DEF Next
<1>2. QED
  BY <1>1, Invariance, PTL DEF Spec, SettledIsFinal
=============================================================================
