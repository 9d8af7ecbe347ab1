------------------------- MODULE Registration_proofs -------------------------
(***************************************************************************)
(* Proofs about Registration: its type invariant, and that a DELETE takes  *)
(* down no registration but its sender's, for any number of processes, any *)
(* client and any faults, provided that no two processes share an instance *)
(* id.  The strengthening is that a DELETE is only ever on its way from a  *)
(* process that is leaving or has left.  Then, that a registry whose       *)
(* processes have all left lists none of them where no request fails.      *)
(***************************************************************************)
EXTENDS Registration, TLAPS

Gone == {"leaving", "stopped", "killed"}

DeletesAreFromLeavers == \A m \in net : m.kind = "delete" => ppc[m.from] \in Gone

IInv == TypeOK /\ DeletesAreFromLeavers

(* What runtime.py:2282-2285 takes for granted of HOSTNAME.                 *)
DistinctInstances ==
  \A p, q \in Procs : InstanceOf[p] = InstanceOf[q] => p = q

-----------------------------------------------------------------------------
(* What a process leaves behind when it stops waiting is the requests there *)
(* were, some of them marked late.                                          *)
LEMMA AbandonedKeeps ==
  ASSUME NEW p \in Procs, net \subseteq Message, NEW rest \in Abandoned(p)
  PROVE  /\ rest \subseteq Message
         /\ \A m \in rest : \E n \in net : m.kind = n.kind /\ m.from = n.from
<1> DEFINE mine == {m \in net : m.from = p /\ ~m.late}
<1> DEFINE marked == {[m EXCEPT !.late = TRUE] : m \in mine}
<1>1. mine \subseteq net
  OBVIOUS
<1>2. \A m \in mine : /\ [m EXCEPT !.late = TRUE] \in Message
                      /\ [m EXCEPT !.late = TRUE].kind = m.kind
                      /\ [m EXCEPT !.late = TRUE].from = m.from
  BY <1>1 DEF Message
<1>3. \A x \in marked : x \in Message /\ \E n \in net : x.kind = n.kind /\ x.from = n.from
  BY <1>1, <1>2
<1>4. rest = net \ mine \/ rest = (net \ mine) \cup marked
  BY DEF Abandoned
<1> HIDE DEF mine, marked
<1>5. QED
  BY <1>3, <1>4

(* A process that moves on keeps the invariant if it had not left and does  *)
(* not come back, the condition under which every action moves one.         *)
LEMMA MoveKeeps ==
  ASSUME NEW p \in Procs, NEW to \in PPCs, IInv, Move(p, to),
         ppc[p] \in Gone => to \in Gone
  PROVE  /\ ppc' \in [Procs -> PPCs]
         /\ reply' \in [Procs -> {"none", "ok", "missing", "superseded", "error"}]
         /\ net' \in SUBSET Message
         /\ DeletesAreFromLeavers'
<1>1. /\ ppc' = [ppc EXCEPT ![p] = to]
      /\ reply' = [reply EXCEPT ![p] = "none"]
  BY DEF Move
<1>2. ppc' \in [Procs -> PPCs] /\ reply' \in [Procs -> {"none", "ok", "missing", "superseded", "error"}]
  BY <1>1 DEF IInv, TypeOK
<1>3. PICK rest \in Abandoned(p) :
        net' = IF to \in Waiting THEN rest \cup {Msg(p, KindOf[to], FALSE)} ELSE rest
  BY DEF Move
<1>4. /\ rest \subseteq Message
      /\ \A m \in rest : \E n \in net : m.kind = n.kind /\ m.from = n.from
  BY AbandonedKeeps DEF IInv, TypeOK
<1>5. to \in Waiting => /\ Msg(p, KindOf[to], FALSE) \in Message
                        /\ Msg(p, KindOf[to], FALSE).from = p
                        /\ (Msg(p, KindOf[to], FALSE).kind = "delete" => to = "leaving")
  BY DEF Msg, KindOf, Waiting, Message
<1>6. net' \in SUBSET Message
  BY <1>3, <1>4, <1>5
<1>7. \A m \in net : m.kind = "delete" => ppc'[m.from] \in Gone
  BY <1>1 DEF IInv, TypeOK, DeletesAreFromLeavers, Message
<1>8. \A m \in rest : m.kind = "delete" => ppc'[m.from] \in Gone
  BY <1>4, <1>7
<1>9. \A m \in net' : m.kind = "delete" => ppc'[m.from] \in Gone
  <2>1. CASE to \in Waiting
    <3>1. to = "leaving" => ppc'[p] \in Gone
      BY <1>1 DEF IInv, TypeOK, Gone
    <3>2. QED
      BY <1>3, <1>5, <1>8, <2>1, <3>1
  <2>2. CASE to \notin Waiting
    BY <1>3, <1>8, <2>2
  <2>3. QED
    BY <2>1, <2>2
<1>10. QED
  BY <1>2, <1>6, <1>9 DEF DeletesAreFromLeavers

-----------------------------------------------------------------------------
LEMMA InitIInv == Init => IInv
  BY ConstantsAssumption DEF Init, IInv, TypeOK, DeletesAreFromLeavers, PPCs

LEMMA ProcKeeps ==
  ASSUME IInv, NEW p \in Procs, Start(p) \/ ClientStep(p) \/ Shutdown(p) \/ Kill(p)
  PROVE  IInv'
<1> USE ConstantsAssumption
<1>1. /\ ppc \in [Procs -> PPCs] /\ attempt \in [Procs -> 0..MaxAttempts]
      /\ listed \in Procs \cup {Nobody} /\ forgets \in 0..MaxForgets
  BY DEF IInv, TypeOK
<1>2. /\ \E to \in PPCs : Move(p, to) /\ (ppc[p] \in Gone => to \in Gone)
      /\ attempt' \in [Procs -> 0..MaxAttempts]
  <2>1. CASE Start(p)
    BY <1>1, <2>1 DEF Start, PPCs, Gone
  <2>2. CASE Registered(p)
    BY <1>1, <2>2 DEF Registered, PPCs, Gone
  <2>3. CASE RegisterAgain(p)
    BY <1>1, <2>3 DEF RegisterAgain, Attempts, PPCs, Gone
  <2>4. CASE RegisterGivesUp(p)
    BY <1>1, <2>4 DEF RegisterGivesUp, PPCs, Gone
  <2>5. CASE Beat(p)
    BY <1>1, <2>5 DEF Beat, PPCs, Gone
  <2>6. CASE BeatAnswered(p)
    BY <1>1, <2>6 DEF BeatAnswered, PPCs, Gone
  <2>7. CASE Left(p)
    BY <1>1, <2>7 DEF Left, PPCs, Gone
  <2>8. CASE Shutdown(p)
    BY <1>1, <2>8 DEF Shutdown, PPCs, Gone
  <2>9. CASE Kill(p)
    BY <1>1, <2>9 DEF Kill, PPCs, Gone
  <2>10. QED
    BY <2>1, <2>2, <2>3, <2>4, <2>5, <2>6, <2>7, <2>8, <2>9 DEF ClientStep
<1>3. listed' = listed /\ forgets' = forgets /\ conf' = conf
  BY DEF Start, ClientStep, Registered, RegisterAgain, RegisterGivesUp, Beat, BeatAnswered,
         Left, Shutdown, Kill
<1>4. PICK to \in PPCs : Move(p, to) /\ (ppc[p] \in Gone => to \in Gone)
  BY <1>2
<1>5. /\ ppc' \in [Procs -> PPCs]
      /\ reply' \in [Procs -> {"none", "ok", "missing", "superseded", "error"}]
      /\ net' \in SUBSET Message
      /\ DeletesAreFromLeavers'
  BY <1>4, MoveKeeps
<1>6. QED
  BY <1>1, <1>2, <1>3, <1>5 DEF IInv, TypeOK

LEMMA HandleKeeps ==
  ASSUME IInv, NEW m \in net, Handle(m) \/ Fail(m)
  PROVE  IInv'
<1>1. m \in Message /\ m.from \in Procs
  BY DEF IInv, TypeOK, Message
<1>2. ppc' = ppc /\ attempt' = attempt /\ forgets' = forgets /\ conf' = conf
  BY DEF Handle, Fail
<1>3. listed' \in Procs \cup {Nobody}
  BY <1>1 DEF Handle, Fail, IInv, TypeOK
<1>4. reply' \in [Procs -> {"none", "ok", "missing", "superseded", "error"}]
  <2>1. \A r \in {"ok", "missing", "superseded", "error"} :
          Answer(m, r) => reply' \in [Procs -> {"none", "ok", "missing", "superseded", "error"}]
    BY <1>1 DEF Answer, IInv, TypeOK
  <2>2. \E r \in {"ok", "missing", "superseded", "error"} : Answer(m, r)
    BY DEF Handle, Fail
  <2>3. QED
    BY <2>1, <2>2
<1>5. /\ net' \subseteq Message
      /\ \A x \in net' : \E n \in net : x.kind = n.kind /\ x.from = n.from
  <2>1. CASE Handle(m)
    BY <2>1 DEF Handle, IInv, TypeOK
  <2>2. CASE Fail(m)
    <3>1. PICK rest \in Abandoned(m.from) : net' = rest
      BY <2>2 DEF Fail
    <3>2. QED
      BY <1>1, <3>1, AbandonedKeeps DEF IInv, TypeOK
  <2>3. QED
    BY <2>1, <2>2
<1>6. DeletesAreFromLeavers'
  BY <1>2, <1>5 DEF IInv, DeletesAreFromLeavers
<1>7. QED
  BY <1>2, <1>3, <1>4, <1>5, <1>6 DEF IInv, TypeOK

LEMMA NextKeepsIInv == IInv /\ [Next]_vars => IInv'
<1> SUFFICES ASSUME IInv, [Next]_vars PROVE IInv'
  OBVIOUS
<1>1. ASSUME NEW p \in Procs, Start(p) \/ ClientStep(p) \/ Shutdown(p) \/ Kill(p)
      PROVE  IInv'
  BY <1>1, ProcKeeps
<1>2. ASSUME NEW m \in net, Handle(m) \/ Fail(m)
      PROVE  IInv'
  BY <1>2, HandleKeeps
<1>3. CASE Forget
  BY <1>3, ConstantsAssumption DEF Forget, IInv, TypeOK, DeletesAreFromLeavers
<1>4. CASE UNCHANGED vars
  BY <1>4 DEF vars, IInv, TypeOK, DeletesAreFromLeavers
<1>5. QED
  BY <1>1, <1>2, <1>3, <1>4 DEF Next

LEMMA Invariance == Spec => []IInv
  BY InitIInv, NextKeepsIInv, PTL DEF Spec

(* Every variable of the registration protocol (runtime.py:2259-2483,       *)
(* a2a_runtime.rs:1012-1277) keeps its type: in particular no register is   *)
(* tried more often than register_max_attempts.                             *)
THEOREM TypeCorrect == Spec => []TypeOK
<1>1. IInv => TypeOK
  BY DEF IInv
<1>2. QED
  BY <1>1, Invariance, PTL

(* If no two processes share an instance id, the DELETE of a process takes  *)
(* down no registration but its own, and only on its way out.               *)
THEOREM ReplacementIsSpared ==
  ASSUME DistinctInstances
  PROVE  Spec => DeleteSparesReplacement
<1>1. ASSUME IInv, [Next]_vars
      PROVE  [\A p \in Procs :
                listed = p /\ listed' = Nobody /\ forgets' = forgets
                => ppc[p] \in {"leaving", "stopped", "killed"}]_vars
  <2> SUFFICES ASSUME NEW p \in Procs, listed = p, listed' = Nobody, forgets' = forgets
               PROVE  ppc[p] \in {"leaving", "stopped", "killed"}
    OBVIOUS
  <2>1. listed' # listed
    BY ConstantsAssumption
  <2>2. ~Forget
    BY <1>1 DEF Forget, IInv, TypeOK
  <2>3. \A q \in Procs : ~(Start(q) \/ ClientStep(q) \/ Shutdown(q) \/ Kill(q))
    BY <2>1 DEF Start, ClientStep, Registered, RegisterAgain, RegisterGivesUp, Beat,
                BeatAnswered, Left, Shutdown, Kill
  <2>4. PICK m \in net : Handle(m)
    BY <2>1, <2>2, <2>3, <1>1 DEF Next, vars, Fail
  <2>5. m.from \in Procs
    BY <1>1 DEF IInv, TypeOK, Message
  <2>6. m.kind = "delete" /\ SameInstance(listed, m.from)
    BY <2>1, <2>4, <2>5, ConstantsAssumption DEF Handle
  <2>7. m.from = p
    BY <2>5, <2>6 DEF SameInstance, DistinctInstances
  <2>8. QED
    BY <2>6, <2>7, <1>1 DEF IInv, DeletesAreFromLeavers, Gone
<1>2. QED
  BY <1>1, Invariance, PTL DEF Spec, DeleteSparesReplacement
-----------------------------------------------------------------------------
(* Registries without ghosts: where no request fails, none overtakes the    *)
(* DELETE of its sender and no process is killed.                           *)

Quiet == Faults = {} \/ (Client = "rust_spawn" /\ Faults = {"late"})

\* a request on its way is the one its sender waits for
RequestsArePending ==
  \A m \in net :
    /\ ~m.late /\ ppc[m.from] \in Waiting
    /\ m.kind = KindOf[ppc[m.from]] /\ reply[m.from] = "none"

\* the process that is listed has yet to be told that it no longer is
ListedIsLive ==
  \A p \in Procs : listed = p =>
    \/ ppc[p] \in {"starting", "serving", "beating", "reregistering"}
    \/ ppc[p] = "leaving" /\ reply[p] = "none"

QuietInv ==
  Quiet => RequestsArePending /\ ListedIsLive /\ \A p \in Procs : reply[p] # "error"

\* each process of a quiet registry that moves on leaves no request behind
LEMMA QuietMove ==
  ASSUME TypeOK, Quiet, RequestsArePending, NEW p \in Procs, NEW to \in PPCs, Move(p, to),
         Faults = {} \/ reply[p] # "none" \/ ppc[p] \in {"off", "serving"}
  PROVE  /\ RequestsArePending'
         /\ ppc' = [ppc EXCEPT ![p] = to] /\ reply' = [reply EXCEPT ![p] = "none"]
<1>1. PICK rest \in Abandoned(p) :
        net' = IF to \in Waiting THEN rest \cup {Msg(p, KindOf[to], FALSE)} ELSE rest
  BY DEF Move
<1>2. rest = {m \in net : m.from # p}
  <2> DEFINE mine == {m \in net : m.from = p /\ ~m.late}
  <2>1. mine = {m \in net : m.from = p}
    BY DEF RequestsArePending
  <2>2. Faults = {} \/ mine = {}
    BY DEF RequestsArePending, Waiting
  <2>3. CASE Faults = {}
    BY <2>1, <2>3 DEF Abandoned
  <2>4. CASE mine = {}
    <3>1. rest = net
      BY <2>4 DEF Abandoned
    <3>2. QED
      BY <2>1, <2>4, <3>1
  <2>5. QED
    BY <2>2, <2>3, <2>4
<1>3. ppc' = [ppc EXCEPT ![p] = to] /\ reply' = [reply EXCEPT ![p] = "none"]
  BY DEF Move
<1>4. ASSUME NEW m \in net'
      PROVE  /\ ~m.late /\ ppc'[m.from] \in Waiting
             /\ m.kind = KindOf[ppc'[m.from]] /\ reply'[m.from] = "none"
  <2>1. CASE m \in rest
    BY <1>2, <1>3, <2>1 DEF RequestsArePending, TypeOK, Message
  <2>2. CASE m \notin rest
    <3>1. to \in Waiting /\ m = Msg(p, KindOf[to], FALSE)
      BY <1>1, <1>4, <2>2
    <3>2. QED
      BY <1>3, <3>1 DEF Msg, TypeOK
  <2>3. QED
    BY <2>1, <2>2
<1>5. QED
  BY <1>3, <1>4 DEF RequestsArePending, Waiting, KindOf

LEMMA QuietProc ==
  ASSUME TypeOK, Quiet, QuietInv, NEW p \in Procs,
         Start(p) \/ ClientStep(p) \/ Shutdown(p) \/ Kill(p)
  PROVE  RequestsArePending' /\ ListedIsLive' /\ \A q \in Procs : reply'[q] # "error"
<1>1. RequestsArePending /\ ListedIsLive /\ reply[p] # "error" /\ listed' = listed
  BY DEF QuietInv, Start, ClientStep, Registered, RegisterAgain, RegisterGivesUp, Beat,
         BeatAnswered, Left, Shutdown, Kill
<1>2. \E to \in PPCs :
        /\ Move(p, to)
        /\ Faults = {} \/ reply[p] # "none" \/ ppc[p] \in {"off", "serving"}
        /\ listed = p => to \in {"starting", "serving", "beating", "reregistering", "leaving"}
  <2>1. CASE Start(p)
    BY <2>1 DEF Start, PPCs
  <2>2. CASE Registered(p)
    BY <2>2 DEF Registered, PPCs
  <2>3. CASE Beat(p)
    BY <2>3 DEF Beat, PPCs
  <2>4. CASE BeatAnswered(p)
    BY <2>4 DEF BeatAnswered, PPCs
  <2>5. CASE Left(p)
    BY <1>1, <2>5 DEF Left, PPCs, ListedIsLive
  <2>6. CASE Shutdown(p)
    BY <2>6 DEF Shutdown, PPCs, Quiet
  <2>7. ~Kill(p) /\ ~RegisterAgain(p) /\ ~RegisterGivesUp(p)
    BY <1>1 DEF Kill, Quiet, RegisterAgain, RegisterGivesUp
  <2>8. QED
    BY <2>1, <2>2, <2>3, <2>4, <2>5, <2>6, <2>7 DEF ClientStep
<1>3. PICK to \in PPCs :
        /\ Move(p, to)
        /\ Faults = {} \/ reply[p] # "none" \/ ppc[p] \in {"off", "serving"}
        /\ listed = p => to \in {"starting", "serving", "beating", "reregistering", "leaving"}
  BY <1>2
<1>4. /\ RequestsArePending'
      /\ ppc' = [ppc EXCEPT ![p] = to] /\ reply' = [reply EXCEPT ![p] = "none"]
  BY <1>1, <1>3, QuietMove
<1>5. ListedIsLive'
  BY <1>1, <1>3, <1>4 DEF ListedIsLive, TypeOK
<1>6. \A q \in Procs : reply'[q] # "error"
  BY <1>4 DEF QuietInv, TypeOK
<1>7. QED
  BY <1>4, <1>5, <1>6

LEMMA QuietHandle ==
  ASSUME TypeOK, Quiet, QuietInv, NEW m \in net, Handle(m)
  PROVE  RequestsArePending' /\ ListedIsLive' /\ \A q \in Procs : reply'[q] # "error"
<1>1. RequestsArePending /\ ListedIsLive /\ \A q \in Procs : reply[q] # "error"
  BY DEF QuietInv
<1>2. /\ m.from \in Procs /\ ~m.late /\ ppc[m.from] \in Waiting
      /\ m.kind = KindOf[ppc[m.from]] /\ reply[m.from] = "none"
  BY <1>1 DEF RequestsArePending, TypeOK, Message
<1>3. ppc' = ppc /\ net' = net \ {m}
  BY DEF Handle
<1>4. PICK r \in {"ok", "missing", "superseded"} : reply' = [reply EXCEPT ![m.from] = r]
  BY <1>2 DEF Handle, Answer
<1>5. \A x \in net \ {m} : x.from # m.from
  <2> SUFFICES ASSUME NEW x \in net \ {m}, x.from = m.from PROVE FALSE
    OBVIOUS
  <2>1. x \in Message /\ m \in Message
    BY DEF TypeOK
  <2>2. x.kind = m.kind /\ ~x.late
    BY <1>1, <1>2 DEF RequestsArePending
  <2>3. x = m
    BY <1>2, <2>1, <2>2 DEF Message
  <2>4. QED
    BY <2>3
<1>6. RequestsArePending'
  BY <1>1, <1>3, <1>4, <1>5 DEF RequestsArePending, TypeOK, Message, Waiting, KindOf
<1>7. ListedIsLive'
  <2>1. CASE m.kind = "register"
    <3>1. listed' = m.from /\ ppc[m.from] \in {"starting", "reregistering"}
      BY <1>2, <2>1 DEF Handle, Waiting, KindOf
    <3>2. QED
      BY <1>2, <1>3, <3>1 DEF ListedIsLive
  <2>2. CASE m.kind = "heartbeat"
    <3>1. listed' = listed /\ ppc[m.from] = "beating"
      BY <1>2, <2>2 DEF Handle, Waiting, KindOf
    <3>2. QED
      BY <1>1, <1>3, <1>4, <3>1 DEF ListedIsLive, TypeOK
  <2>3. CASE m.kind = "delete"
    <3>1. listed' = Nobody \/ (listed' = listed /\ ~SameInstance(listed, m.from))
      BY <2>3 DEF Handle
    <3>2. listed' # m.from
      BY <1>2, <3>1, ConstantsAssumption DEF SameInstance
    <3>3. QED
      BY <1>1, <1>3, <1>4, <3>1, <3>2, ConstantsAssumption DEF ListedIsLive, TypeOK
  <2>4. QED
    BY <2>1, <2>2, <2>3 DEF TypeOK, Message
<1>8. \A q \in Procs : reply'[q] # "error"
  BY <1>1, <1>4 DEF TypeOK
<1>9. QED
  BY <1>6, <1>7, <1>8

LEMMA QuietStep ==
  ASSUME TypeOK, QuietInv, [Next]_vars
  PROVE  QuietInv'
<1>1. conf' = conf
  BY DEF Next, vars, Start, ClientStep, Registered, RegisterAgain, RegisterGivesUp, Beat,
         BeatAnswered, Left, Shutdown, Kill, Handle, Fail, Forget
<1>2. Quiet' <=> Quiet
  BY <1>1 DEF Quiet, Faults, Client
<1> SUFFICES ASSUME Quiet
             PROVE  RequestsArePending' /\ ListedIsLive' /\ \A q \in Procs : reply'[q] # "error"
  BY <1>2 DEF QuietInv
<1>3. ASSUME NEW p \in Procs, Start(p) \/ ClientStep(p) \/ Shutdown(p) \/ Kill(p)
      PROVE  RequestsArePending' /\ ListedIsLive' /\ \A q \in Procs : reply'[q] # "error"
  BY <1>3, QuietProc
<1>4. \A m \in net : ~Fail(m)
  BY DEF Fail, Quiet
<1>5. ASSUME NEW m \in net, Handle(m)
      PROVE  RequestsArePending' /\ ListedIsLive' /\ \A q \in Procs : reply'[q] # "error"
  BY <1>5, QuietHandle
<1>6. CASE Forget
  BY <1>6, ConstantsAssumption DEF Forget, QuietInv, RequestsArePending, ListedIsLive
<1>7. CASE UNCHANGED vars
  BY <1>7 DEF vars, QuietInv, RequestsArePending, ListedIsLive
<1>8. QED
  BY <1>3, <1>4, <1>5, <1>6, <1>7 DEF Next

(* A registry all of whose processes have left lists none of them, if no    *)
(* request fails and no process is killed, and for spawn even if a request  *)
(* may take effect after its sender gave up on it.                          *)
THEOREM NoGhostsStay == Spec => []NoGhosts
<1>1. Init => QuietInv
  BY ConstantsAssumption DEF Init, QuietInv, RequestsArePending, ListedIsLive
<1>2. TypeOK /\ QuietInv /\ [Next]_vars => QuietInv'
  BY QuietStep
<1>3. TypeOK /\ QuietInv => NoGhosts
  BY DEF TypeOK, QuietInv, Quiet, ListedIsLive, NoGhosts
<1>4. QED
  BY <1>1, <1>2, <1>3, TypeCorrect, PTL DEF Spec
=============================================================================
