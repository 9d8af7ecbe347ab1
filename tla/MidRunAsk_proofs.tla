--------------------------- MODULE MidRunAsk_proofs ---------------------------
(***************************************************************************)
(* Proofs about MidRunAsk, for any asks, answers, budget and deployment:   *)
(* type correctness, what becomes of an answer, when the platform's guard  *)
(* is up, and that ask implements AskContract.                             *)
(***************************************************************************)
EXTENDS MidRunAsk, TLAPS, FiniteSetTheorems

-----------------------------------------------------------------------------
(* The inductive invariant, in parts.                                       *)

\* the questions that were put to a human
Asked == {a \in Asks : apc[a] # "idle" /\ outcome[a] # "rejected"}

\* an ask has an outcome when it is over, its waiter lives while it waits, and
\* the budget counts the questions
ProgressOf(a) ==
  /\ outcome[a] = "none" <=> apc[a] # "ended"
  /\ apc[a] \in {"idle", "raised", "flagged"} => wpc[a] = "none"
  /\ apc[a] \in {"resuming", "reporting"} => wpc[a] = "returned"
  /\ log[a] # {} => a \in Asked

Progress == (\A a \in Asks : ProgressOf(a)) /\ count = Cardinality(Asked)

Landed(q, a) == qgate[q] = a /\ qpc[q] \in {"stored", "accepted"}

\* an answer names a question, and what the store or a waiter holds for a gate is
\* an answer that landed there
AnswersAreFor ==
  /\ \A q \in Answers : qpc[q] # "idle" => qgate[q] \in Asked
  /\ \A a \in Asks : resolutions[a] # NoAnswer => Landed(resolutions[a], a)
  /\ \A a \in Asks : got[a] # NoAnswer => Landed(got[a], a)

\* a waiter that came back with nothing had a timeout, or its task is over
NothingInVain ==
  \A a \in Asks : wpc[a] = "returned" /\ got[a] = NoAnswer /\ ~timed[a] => Over

\* one ask at a time, of a store that does not raise: who holds flag and record
GuardInv ==
  ~Concurrent /\ Faults = {} =>
    /\ \A a, b \in Asks : Pending(a) /\ Pending(b) => a = b
    /\ active <=> \E a \in Asks : apc[a] \in {"flagged", "waiting"}
    /\ \A a \in Asks : apc[a] = "waiting" => status = "waiting_for_human" \/ Over
    /\ status = "waiting_for_human" =>
         cancelEv \/ \E a \in Asks : apc[a] \in {"waiting", "resuming"}

IInv ==
  /\ TypeOK /\ Progress /\ AnswersAreFor /\ NothingInVain /\ GuardInv
  /\ NoAnswerSleptThrough /\ DefaultOnlyByTimeout

-----------------------------------------------------------------------------
LEMMA InitIInv == Init => IInv
<1> SUFFICES ASSUME Init PROVE IInv
  OBVIOUS
<1>1. TypeOK
  <2>1. /\ conf \in Deployments /\ status = "running" /\ count \in 0..Cap /\ cpc = "idle"
    BY ConstantsAssumption DEF Init
  <2>4. active \in BOOLEAN /\ cancelEv \in BOOLEAN /\ timed \in [Asks -> BOOLEAN]
    BY DEF Init
  <2>2. log \in [Asks -> SUBSET {"asked", "resolved", "resumed", "timeout"}]
    BY DEF Init
  <2>3. QED
    BY <2>1, <2>2, <2>4 DEF Init, TypeOK
<1>2. Progress
  <2>1. Asked = {} /\ Cardinality({}) = 0
    BY FS_EmptySet DEF Init, Asked
  <2>2. QED
    BY <2>1 DEF Init, Progress, ProgressOf
<1>3. AnswersAreFor /\ NothingInVain
  BY DEF Init, AnswersAreFor, NothingInVain
<1>6. GuardInv
  BY DEF Init, GuardInv, Pending
<1>4. NoAnswerSleptThrough /\ DefaultOnlyByTimeout
  BY DEF Init, NoAnswerSleptThrough, DefaultOnlyByTimeout
<1>5. QED
  BY <1>1, <1>2, <1>3, <1>4, <1>6 DEF IInv

LEMMA TypeKeeps == IInv /\ Next => TypeOK'
<1> SUFFICES ASSUME IInv, Next PROVE TypeOK'
  OBVIOUS
<1> USE ConstantsAssumption DEF IInv, TypeOK, Terminal, AnswersAreFor, Asked
<1>1. ASSUME NEW a \in Asks, RejectAsk(a)
      PROVE  TypeOK'
  BY <1>1 DEF RejectAsk, MayAsk
<1>2. ASSUME NEW a \in Asks, AskRaises(a)
      PROVE  TypeOK'
  BY <1>2 DEF AskRaises, Ask, MidBlock
<1>3. ASSUME NEW a \in Asks, \E t \in BOOLEAN : RaiseGate(a, t)
      PROVE  TypeOK'
  BY <1>3 DEF RaiseGate, MayAsk
<1>4. ASSUME NEW a \in Asks, Announce(a)
      PROVE  TypeOK'
  BY <1>4 DEF Announce, Ask, Logged
<1>5. ASSUME NEW a \in Asks, WaitForHuman(a)
      PROVE  TypeOK'
  BY <1>5 DEF WaitForHuman, Ask, Updated
<1>6. ASSUME NEW a \in Asks, AskWakes(a)
      PROVE  TypeOK'
  BY <1>6 DEF AskWakes, Ask
<1>7. ASSUME NEW a \in Asks, AskCancelled(a)
      PROVE  TypeOK'
  BY <1>7 DEF AskCancelled, Ask
<1>8. ASSUME NEW a \in Asks, Resume(a)
      PROVE  TypeOK'
  BY <1>8 DEF Resume, Ask, Updated
<1>9. ASSUME NEW a \in Asks, Report(a)
      PROVE  TypeOK'
  BY <1>9 DEF Report, Ask, Logged
<1>10. ASSUME NEW a \in Asks, WaiterLooks(a)
      PROVE  TypeOK'
  BY <1>10 DEF WaiterLooks, Returns, Waiter
<1>11. ASSUME NEW a \in Asks, WaiterChecksTask(a)
      PROVE  TypeOK'
  BY <1>11 DEF WaiterChecksTask, Returns, Waiter
<1>12. ASSUME NEW a \in Asks, TimesOut(a)
      PROVE  TypeOK'
  BY <1>12 DEF TimesOut, Returns, Waiter
<1>13. ASSUME NEW q \in Answers, \E a \in Asks : AnswerRead(q, a)
      PROVE  TypeOK'
  BY <1>13 DEF AnswerRead
<1>14. ASSUME NEW q \in Answers, AnswerUnknown(q)
      PROVE  TypeOK'
  BY <1>14 DEF AnswerUnknown
<1>15. ASSUME NEW q \in Answers, ResolveAsk(q)
      PROVE  TypeOK'
  BY <1>15 DEF ResolveAsk
<1>16. ASSUME NEW q \in Answers, LogResolved(q)
      PROVE  TypeOK'
  BY <1>16 DEF LogResolved, Logged
<1>17. ASSUME HandlerEnds
      PROVE  TypeOK'
  BY <1>17 DEF HandlerEnds
<1>18. ASSUME CancelSet
      PROVE  TypeOK'
  BY <1>18 DEF CancelSet
<1>19. ASSUME CancelWrite
      PROVE  TypeOK'
  BY <1>19 DEF CancelWrite
<1>20. ASSUME Evict
      PROVE  TypeOK'
  BY <1>20 DEF Evict
<1>21. QED
  BY <1>1, <1>2, <1>3, <1>4, <1>5, <1>6, <1>7, <1>8, <1>9, <1>10, <1>11, <1>12, <1>13, <1>14, <1>15, <1>16, <1>17, <1>18, <1>19, <1>20 DEF Next, AskStep, WaiterStep

LEMMA ProgressKeeps == IInv /\ Next => (\A b \in Asks : ProgressOf(b)')
<1> SUFFICES ASSUME IInv, Next PROVE (\A b \in Asks : ProgressOf(b)')
  OBVIOUS
<1> USE ConstantsAssumption DEF IInv, TypeOK, Progress, ProgressOf, Asked, AnswersAreFor
<1>1. ASSUME NEW a \in Asks, RejectAsk(a)
      PROVE  (\A b \in Asks : ProgressOf(b)')
  BY <1>1 DEF RejectAsk, MayAsk
<1>2. ASSUME NEW a \in Asks, AskRaises(a)
      PROVE  (\A b \in Asks : ProgressOf(b)')
  BY <1>2 DEF AskRaises, Ask, MidBlock
<1>3. ASSUME NEW a \in Asks, \E t \in BOOLEAN : RaiseGate(a, t)
      PROVE  (\A b \in Asks : ProgressOf(b)')
  BY <1>3 DEF RaiseGate, MayAsk
<1>4. ASSUME NEW a \in Asks, Announce(a)
      PROVE  (\A b \in Asks : ProgressOf(b)')
  BY <1>4 DEF Announce, Ask, Logged
<1>5. ASSUME NEW a \in Asks, WaitForHuman(a)
      PROVE  (\A b \in Asks : ProgressOf(b)')
  BY <1>5 DEF WaitForHuman, Ask, Updated
<1>6. ASSUME NEW a \in Asks, AskWakes(a)
      PROVE  (\A b \in Asks : ProgressOf(b)')
  BY <1>6 DEF AskWakes, Ask
<1>7. ASSUME NEW a \in Asks, AskCancelled(a)
      PROVE  (\A b \in Asks : ProgressOf(b)')
  BY <1>7 DEF AskCancelled, Ask
<1>8. ASSUME NEW a \in Asks, Resume(a)
      PROVE  (\A b \in Asks : ProgressOf(b)')
  BY <1>8 DEF Resume, Ask, Updated
<1>9. ASSUME NEW a \in Asks, Report(a)
      PROVE  (\A b \in Asks : ProgressOf(b)')
  BY <1>9 DEF Report, Ask, Logged
<1>10. ASSUME NEW a \in Asks, WaiterLooks(a)
      PROVE  (\A b \in Asks : ProgressOf(b)')
  BY <1>10 DEF WaiterLooks, Returns, Waiter
<1>11. ASSUME NEW a \in Asks, WaiterChecksTask(a)
      PROVE  (\A b \in Asks : ProgressOf(b)')
  BY <1>11 DEF WaiterChecksTask, Returns, Waiter
<1>12. ASSUME NEW a \in Asks, TimesOut(a)
      PROVE  (\A b \in Asks : ProgressOf(b)')
  BY <1>12 DEF TimesOut, Returns, Waiter
<1>13. ASSUME NEW q \in Answers, \E a \in Asks : AnswerRead(q, a)
      PROVE  (\A b \in Asks : ProgressOf(b)')
  BY <1>13 DEF AnswerRead
<1>14. ASSUME NEW q \in Answers, AnswerUnknown(q)
      PROVE  (\A b \in Asks : ProgressOf(b)')
  BY <1>14 DEF AnswerUnknown
<1>15. ASSUME NEW q \in Answers, ResolveAsk(q)
      PROVE  (\A b \in Asks : ProgressOf(b)')
  BY <1>15 DEF ResolveAsk
<1>16. ASSUME NEW q \in Answers, LogResolved(q)
      PROVE  (\A b \in Asks : ProgressOf(b)')
  BY <1>16 DEF LogResolved, Logged
<1>17. ASSUME HandlerEnds
      PROVE  (\A b \in Asks : ProgressOf(b)')
  BY <1>17 DEF HandlerEnds
<1>18. ASSUME CancelSet
      PROVE  (\A b \in Asks : ProgressOf(b)')
  BY <1>18 DEF CancelSet
<1>19. ASSUME CancelWrite
      PROVE  (\A b \in Asks : ProgressOf(b)')
  BY <1>19 DEF CancelWrite
<1>20. ASSUME Evict
      PROVE  (\A b \in Asks : ProgressOf(b)')
  BY <1>20 DEF Evict
<1>21. QED
  BY <1>1, <1>2, <1>3, <1>4, <1>5, <1>6, <1>7, <1>8, <1>9, <1>10, <1>11, <1>12, <1>13, <1>14, <1>15, <1>16, <1>17, <1>18, <1>19, <1>20 DEF Next, AskStep, WaiterStep

LEMMA AnswersKeep == IInv /\ Next => AnswersAreFor'
<1> SUFFICES ASSUME IInv, Next PROVE AnswersAreFor'
  OBVIOUS
<1> USE ConstantsAssumption DEF IInv, TypeOK, Progress, Asked, AnswersAreFor, Landed
<1>1. ASSUME NEW a \in Asks, RejectAsk(a)
      PROVE  AnswersAreFor'
  BY <1>1 DEF RejectAsk, MayAsk
<1>2. ASSUME NEW a \in Asks, AskRaises(a)
      PROVE  AnswersAreFor'
  BY <1>2 DEF AskRaises, Ask, MidBlock
<1>3. ASSUME NEW a \in Asks, \E t \in BOOLEAN : RaiseGate(a, t)
      PROVE  AnswersAreFor'
  BY <1>3 DEF RaiseGate, MayAsk
<1>4. ASSUME NEW a \in Asks, Announce(a)
      PROVE  AnswersAreFor'
  BY <1>4 DEF Announce, Ask, Logged
<1>5. ASSUME NEW a \in Asks, WaitForHuman(a)
      PROVE  AnswersAreFor'
  BY <1>5 DEF WaitForHuman, Ask, Updated
<1>6. ASSUME NEW a \in Asks, AskWakes(a)
      PROVE  AnswersAreFor'
  BY <1>6 DEF AskWakes, Ask
<1>7. ASSUME NEW a \in Asks, AskCancelled(a)
      PROVE  AnswersAreFor'
  BY <1>7 DEF AskCancelled, Ask
<1>8. ASSUME NEW a \in Asks, Resume(a)
      PROVE  AnswersAreFor'
  BY <1>8 DEF Resume, Ask, Updated
<1>9. ASSUME NEW a \in Asks, Report(a)
      PROVE  AnswersAreFor'
  BY <1>9 DEF Report, Ask, Logged
<1>10. ASSUME NEW a \in Asks, WaiterLooks(a)
      PROVE  AnswersAreFor'
  BY <1>10 DEF WaiterLooks, Returns, Waiter
<1>11. ASSUME NEW a \in Asks, WaiterChecksTask(a)
      PROVE  AnswersAreFor'
  BY <1>11 DEF WaiterChecksTask, Returns, Waiter
<1>12. ASSUME NEW a \in Asks, TimesOut(a)
      PROVE  AnswersAreFor'
  BY <1>12 DEF TimesOut, Returns, Waiter
<1>13. ASSUME NEW q \in Answers, \E a \in Asks : AnswerRead(q, a)
      PROVE  AnswersAreFor'
  <2>1. PICK a \in Asks :
          /\ qpc[q] = "idle" /\ "asked" \in log[a]
          /\ qpc' = [qpc EXCEPT ![q] = IF Over THEN "refused" ELSE "parsing"]
          /\ qgate' = [qgate EXCEPT ![q] = a]
          /\ UNCHANGED <<apc, outcome, resolutions, got>>
    BY <1>13 DEF AnswerRead
  <2>2. \A r \in Answers : r # q => qpc'[r] = qpc[r] /\ qgate'[r] = qgate[r]
    BY <2>1
  <2>3. \A r \in Answers : qpc'[r] # "idle" => qgate'[r] \in Asked'
    BY <2>1, <2>2 DEF ProgressOf
  <2>4. \A r \in Answers, b \in Asks : Landed(r, b) => r # q /\ Landed(r, b)'
    BY <2>1, <2>2
  <2>5. QED
    BY <2>1, <2>3, <2>4
<1>14. ASSUME NEW q \in Answers, AnswerUnknown(q)
      PROVE  AnswersAreFor'
  BY <1>14 DEF AnswerUnknown
<1>15. ASSUME NEW q \in Answers, ResolveAsk(q)
      PROVE  AnswersAreFor'
  BY <1>15 DEF ResolveAsk
<1>16. ASSUME NEW q \in Answers, LogResolved(q)
      PROVE  AnswersAreFor'
  BY <1>16 DEF LogResolved, Logged
<1>17. ASSUME HandlerEnds
      PROVE  AnswersAreFor'
  BY <1>17 DEF HandlerEnds
<1>18. ASSUME CancelSet
      PROVE  AnswersAreFor'
  BY <1>18 DEF CancelSet
<1>19. ASSUME CancelWrite
      PROVE  AnswersAreFor'
  BY <1>19 DEF CancelWrite
<1>20. ASSUME Evict
      PROVE  AnswersAreFor'
  BY <1>20 DEF Evict
<1>21. QED
  BY <1>1, <1>2, <1>3, <1>4, <1>5, <1>6, <1>7, <1>8, <1>9, <1>10, <1>11, <1>12, <1>13, <1>14, <1>15, <1>16, <1>17, <1>18, <1>19, <1>20 DEF Next, AskStep, WaiterStep

LEMMA VainKeeps == IInv /\ Next => NothingInVain'
<1> SUFFICES ASSUME IInv, Next PROVE NothingInVain'
  OBVIOUS
<1> USE ConstantsAssumption DEF IInv, TypeOK, Progress, Over, Terminal, NothingInVain
<1>1. ASSUME NEW a \in Asks, RejectAsk(a)
      PROVE  NothingInVain'
  BY <1>1 DEF RejectAsk, MayAsk
<1>2. ASSUME NEW a \in Asks, AskRaises(a)
      PROVE  NothingInVain'
  BY <1>2 DEF AskRaises, Ask, MidBlock
<1>3. ASSUME NEW a \in Asks, \E t \in BOOLEAN : RaiseGate(a, t)
      PROVE  NothingInVain'
  <2>1. /\ apc[a] = "idle" /\ wpc' = wpc /\ got' = got /\ status' = status
        /\ \E t \in BOOLEAN : timed' = [timed EXCEPT ![a] = t]
    BY <1>3 DEF RaiseGate, MayAsk
  <2>2. wpc[a] = "none" /\ \A b \in Asks : b # a => timed'[b] = timed[b]
    BY <2>1 DEF ProgressOf
  <2>3. QED
    BY <2>1, <2>2
<1>4. ASSUME NEW a \in Asks, Announce(a)
      PROVE  NothingInVain'
  BY <1>4 DEF Announce, Ask, Logged
<1>5. ASSUME NEW a \in Asks, WaitForHuman(a)
      PROVE  NothingInVain'
  BY <1>5 DEF WaitForHuman, Ask, Updated
<1>6. ASSUME NEW a \in Asks, AskWakes(a)
      PROVE  NothingInVain'
  BY <1>6 DEF AskWakes, Ask
<1>7. ASSUME NEW a \in Asks, AskCancelled(a)
      PROVE  NothingInVain'
  BY <1>7 DEF AskCancelled, Ask
<1>8. ASSUME NEW a \in Asks, Resume(a)
      PROVE  NothingInVain'
  BY <1>8 DEF Resume, Ask, Updated
<1>9. ASSUME NEW a \in Asks, Report(a)
      PROVE  NothingInVain'
  BY <1>9 DEF Report, Ask, Logged
<1>10. ASSUME NEW a \in Asks, WaiterLooks(a)
      PROVE  NothingInVain'
  BY <1>10 DEF WaiterLooks, Returns, Waiter
<1>11. ASSUME NEW a \in Asks, WaiterChecksTask(a)
      PROVE  NothingInVain'
  BY <1>11 DEF WaiterChecksTask, Returns, Waiter
<1>12. ASSUME NEW a \in Asks, TimesOut(a)
      PROVE  NothingInVain'
  BY <1>12 DEF TimesOut, Returns, Waiter
<1>13. ASSUME NEW q \in Answers, \E a \in Asks : AnswerRead(q, a)
      PROVE  NothingInVain'
  BY <1>13 DEF AnswerRead
<1>14. ASSUME NEW q \in Answers, AnswerUnknown(q)
      PROVE  NothingInVain'
  BY <1>14 DEF AnswerUnknown
<1>15. ASSUME NEW q \in Answers, ResolveAsk(q)
      PROVE  NothingInVain'
  BY <1>15 DEF ResolveAsk
<1>16. ASSUME NEW q \in Answers, LogResolved(q)
      PROVE  NothingInVain'
  BY <1>16 DEF LogResolved, Logged
<1>17. ASSUME HandlerEnds
      PROVE  NothingInVain'
  BY <1>17 DEF HandlerEnds
<1>18. ASSUME CancelSet
      PROVE  NothingInVain'
  BY <1>18 DEF CancelSet
<1>19. ASSUME CancelWrite
      PROVE  NothingInVain'
  BY <1>19 DEF CancelWrite
<1>20. ASSUME Evict
      PROVE  NothingInVain'
  BY <1>20 DEF Evict
<1>21. QED
  BY <1>1, <1>2, <1>3, <1>4, <1>5, <1>6, <1>7, <1>8, <1>9, <1>10, <1>11, <1>12, <1>13, <1>14, <1>15, <1>16, <1>17, <1>18, <1>19, <1>20 DEF Next, AskStep, WaiterStep

LEMMA SleepKeeps == IInv /\ Next => NoAnswerSleptThrough'
<1> SUFFICES ASSUME IInv, Next PROVE NoAnswerSleptThrough'
  OBVIOUS
<1> USE ConstantsAssumption DEF IInv, TypeOK, Progress, AnswersAreFor, Asked, NoAnswerSleptThrough
<1>1. ASSUME NEW a \in Asks, RejectAsk(a)
      PROVE  NoAnswerSleptThrough'
  BY <1>1 DEF RejectAsk, MayAsk
<1>2. ASSUME NEW a \in Asks, AskRaises(a)
      PROVE  NoAnswerSleptThrough'
  BY <1>2 DEF AskRaises, Ask, MidBlock
<1>3. ASSUME NEW a \in Asks, \E t \in BOOLEAN : RaiseGate(a, t)
      PROVE  NoAnswerSleptThrough'
  BY <1>3 DEF RaiseGate, MayAsk
<1>4. ASSUME NEW a \in Asks, Announce(a)
      PROVE  NoAnswerSleptThrough'
  BY <1>4 DEF Announce, Ask, Logged
<1>5. ASSUME NEW a \in Asks, WaitForHuman(a)
      PROVE  NoAnswerSleptThrough'
  BY <1>5 DEF WaitForHuman, Ask, Updated
<1>6. ASSUME NEW a \in Asks, AskWakes(a)
      PROVE  NoAnswerSleptThrough'
  BY <1>6 DEF AskWakes, Ask
<1>7. ASSUME NEW a \in Asks, AskCancelled(a)
      PROVE  NoAnswerSleptThrough'
  BY <1>7 DEF AskCancelled, Ask
<1>8. ASSUME NEW a \in Asks, Resume(a)
      PROVE  NoAnswerSleptThrough'
  BY <1>8 DEF Resume, Ask, Updated
<1>9. ASSUME NEW a \in Asks, Report(a)
      PROVE  NoAnswerSleptThrough'
  BY <1>9 DEF Report, Ask, Logged
<1>10. ASSUME NEW a \in Asks, WaiterLooks(a)
      PROVE  NoAnswerSleptThrough'
  BY <1>10 DEF WaiterLooks, Returns, Waiter
<1>11. ASSUME NEW a \in Asks, WaiterChecksTask(a)
      PROVE  NoAnswerSleptThrough'
  BY <1>11 DEF WaiterChecksTask, Returns, Waiter
<1>12. ASSUME NEW a \in Asks, TimesOut(a)
      PROVE  NoAnswerSleptThrough'
  BY <1>12 DEF TimesOut, Returns, Waiter
<1>13. ASSUME NEW q \in Answers, \E a \in Asks : AnswerRead(q, a)
      PROVE  NoAnswerSleptThrough'
  BY <1>13 DEF AnswerRead
<1>14. ASSUME NEW q \in Answers, AnswerUnknown(q)
      PROVE  NoAnswerSleptThrough'
  BY <1>14 DEF AnswerUnknown
<1>15. ASSUME NEW q \in Answers, ResolveAsk(q)
      PROVE  NoAnswerSleptThrough'
  BY <1>15 DEF ResolveAsk
<1>16. ASSUME NEW q \in Answers, LogResolved(q)
      PROVE  NoAnswerSleptThrough'
  BY <1>16 DEF LogResolved, Logged
<1>17. ASSUME HandlerEnds
      PROVE  NoAnswerSleptThrough'
  BY <1>17 DEF HandlerEnds
<1>18. ASSUME CancelSet
      PROVE  NoAnswerSleptThrough'
  BY <1>18 DEF CancelSet
<1>19. ASSUME CancelWrite
      PROVE  NoAnswerSleptThrough'
  BY <1>19 DEF CancelWrite
<1>20. ASSUME Evict
      PROVE  NoAnswerSleptThrough'
  BY <1>20 DEF Evict
<1>21. QED
  BY <1>1, <1>2, <1>3, <1>4, <1>5, <1>6, <1>7, <1>8, <1>9, <1>10, <1>11, <1>12, <1>13, <1>14, <1>15, <1>16, <1>17, <1>18, <1>19, <1>20 DEF Next, AskStep, WaiterStep

LEMMA DefaultKeeps == IInv /\ Next => DefaultOnlyByTimeout'
<1> SUFFICES ASSUME IInv, Next PROVE DefaultOnlyByTimeout'
  OBVIOUS
<1> USE ConstantsAssumption DEF IInv, TypeOK, Progress, Over, Terminal, NothingInVain, DefaultOnlyByTimeout
<1>1. ASSUME NEW a \in Asks, RejectAsk(a)
      PROVE  DefaultOnlyByTimeout'
  BY <1>1 DEF RejectAsk, MayAsk
<1>2. ASSUME NEW a \in Asks, AskRaises(a)
      PROVE  DefaultOnlyByTimeout'
  BY <1>2 DEF AskRaises, Ask, MidBlock
<1>3. ASSUME NEW a \in Asks, \E t \in BOOLEAN : RaiseGate(a, t)
      PROVE  DefaultOnlyByTimeout'
  <2>1. /\ apc[a] = "idle" /\ outcome' = outcome /\ status' = status
        /\ \E t \in BOOLEAN : timed' = [timed EXCEPT ![a] = t]
    BY <1>3 DEF RaiseGate, MayAsk
  <2>2. outcome[a] = "none" /\ \A b \in Asks : b # a => timed'[b] = timed[b]
    BY <2>1 DEF ProgressOf
  <2>3. QED
    BY <2>1, <2>2
<1>4. ASSUME NEW a \in Asks, Announce(a)
      PROVE  DefaultOnlyByTimeout'
  BY <1>4 DEF Announce, Ask, Logged
<1>5. ASSUME NEW a \in Asks, WaitForHuman(a)
      PROVE  DefaultOnlyByTimeout'
  BY <1>5 DEF WaitForHuman, Ask, Updated
<1>6. ASSUME NEW a \in Asks, AskWakes(a)
      PROVE  DefaultOnlyByTimeout'
  BY <1>6 DEF AskWakes, Ask
<1>7. ASSUME NEW a \in Asks, AskCancelled(a)
      PROVE  DefaultOnlyByTimeout'
  BY <1>7 DEF AskCancelled, Ask
<1>8. ASSUME NEW a \in Asks, Resume(a)
      PROVE  DefaultOnlyByTimeout'
  BY <1>8 DEF Resume, Ask, Updated
<1>9. ASSUME NEW a \in Asks, Report(a)
      PROVE  DefaultOnlyByTimeout'
  <2>1. /\ apc[a] = "reporting" /\ UNCHANGED <<status, timed>>
        /\ outcome' = [outcome EXCEPT ![a] = IF got[a] # NoAnswer THEN got[a] ELSE "default"]
    BY <1>9 DEF Report, Ask
  <2>2. got[a] = NoAnswer /\ ~timed[a] => Over
    BY <2>1 DEF ProgressOf
  <2>3. got[a] # NoAnswer => got[a] # "default"
    OBVIOUS
  <2>4. outcome'[a] = "default" /\ ~timed'[a] => Over'
    BY <2>1, <2>2, <2>3
  <2>5. \A b \in Asks : b # a => outcome'[b] = outcome[b]
    BY <2>1
  <2>6. QED
    BY <2>1, <2>4, <2>5
<1>10. ASSUME NEW a \in Asks, WaiterLooks(a)
      PROVE  DefaultOnlyByTimeout'
  BY <1>10 DEF WaiterLooks, Returns, Waiter
<1>11. ASSUME NEW a \in Asks, WaiterChecksTask(a)
      PROVE  DefaultOnlyByTimeout'
  BY <1>11 DEF WaiterChecksTask, Returns, Waiter
<1>12. ASSUME NEW a \in Asks, TimesOut(a)
      PROVE  DefaultOnlyByTimeout'
  BY <1>12 DEF TimesOut, Returns, Waiter
<1>13. ASSUME NEW q \in Answers, \E a \in Asks : AnswerRead(q, a)
      PROVE  DefaultOnlyByTimeout'
  BY <1>13 DEF AnswerRead
<1>14. ASSUME NEW q \in Answers, AnswerUnknown(q)
      PROVE  DefaultOnlyByTimeout'
  BY <1>14 DEF AnswerUnknown
<1>15. ASSUME NEW q \in Answers, ResolveAsk(q)
      PROVE  DefaultOnlyByTimeout'
  BY <1>15 DEF ResolveAsk
<1>16. ASSUME NEW q \in Answers, LogResolved(q)
      PROVE  DefaultOnlyByTimeout'
  BY <1>16 DEF LogResolved, Logged
<1>17. ASSUME HandlerEnds
      PROVE  DefaultOnlyByTimeout'
  BY <1>17 DEF HandlerEnds
<1>18. ASSUME CancelSet
      PROVE  DefaultOnlyByTimeout'
  BY <1>18 DEF CancelSet
<1>19. ASSUME CancelWrite
      PROVE  DefaultOnlyByTimeout'
  BY <1>19 DEF CancelWrite
<1>20. ASSUME Evict
      PROVE  DefaultOnlyByTimeout'
  BY <1>20 DEF Evict
<1>21. QED
  BY <1>1, <1>2, <1>3, <1>4, <1>5, <1>6, <1>7, <1>8, <1>9, <1>10, <1>11, <1>12, <1>13, <1>14, <1>15, <1>16, <1>17, <1>18, <1>19, <1>20 DEF Next, AskStep, WaiterStep

LEMMA GuardKeeps == IInv /\ Next => GuardInv'
<1> SUFFICES ASSUME IInv, Next PROVE GuardInv'
  OBVIOUS
<1> USE ConstantsAssumption DEF IInv, TypeOK, Progress, Over, Terminal, GuardInv, Concurrent, Faults, Pending
<1>1. ASSUME NEW a \in Asks, RejectAsk(a)
      PROVE  GuardInv'
  BY <1>1 DEF RejectAsk, MayAsk
<1>2. ASSUME NEW a \in Asks, AskRaises(a)
      PROVE  GuardInv'
  BY <1>2 DEF AskRaises, Ask, MidBlock
<1>3. ASSUME NEW a \in Asks, \E t \in BOOLEAN : RaiseGate(a, t)
      PROVE  GuardInv'
  BY <1>3 DEF RaiseGate, MayAsk
<1>4. ASSUME NEW a \in Asks, Announce(a)
      PROVE  GuardInv'
  BY <1>4 DEF Announce, Ask, Logged
<1>5. ASSUME NEW a \in Asks, WaitForHuman(a)
      PROVE  GuardInv'
  BY <1>5 DEF WaitForHuman, Ask, Updated
<1>6. ASSUME NEW a \in Asks, AskWakes(a)
      PROVE  GuardInv'
  BY <1>6 DEF AskWakes, Ask
<1>7. ASSUME NEW a \in Asks, AskCancelled(a)
      PROVE  GuardInv'
  BY <1>7 DEF AskCancelled, Ask
<1>8. ASSUME NEW a \in Asks, Resume(a)
      PROVE  GuardInv'
  BY <1>8 DEF Resume, Ask, Updated
<1>9. ASSUME NEW a \in Asks, Report(a)
      PROVE  GuardInv'
  BY <1>9 DEF Report, Ask, Logged
<1>10. ASSUME NEW a \in Asks, WaiterLooks(a)
      PROVE  GuardInv'
  BY <1>10 DEF WaiterLooks, Returns, Waiter
<1>11. ASSUME NEW a \in Asks, WaiterChecksTask(a)
      PROVE  GuardInv'
  BY <1>11 DEF WaiterChecksTask, Returns, Waiter
<1>12. ASSUME NEW a \in Asks, TimesOut(a)
      PROVE  GuardInv'
  BY <1>12 DEF TimesOut, Returns, Waiter
<1>13. ASSUME NEW q \in Answers, \E a \in Asks : AnswerRead(q, a)
      PROVE  GuardInv'
  BY <1>13 DEF AnswerRead
<1>14. ASSUME NEW q \in Answers, AnswerUnknown(q)
      PROVE  GuardInv'
  BY <1>14 DEF AnswerUnknown
<1>15. ASSUME NEW q \in Answers, ResolveAsk(q)
      PROVE  GuardInv'
  BY <1>15 DEF ResolveAsk
<1>16. ASSUME NEW q \in Answers, LogResolved(q)
      PROVE  GuardInv'
  BY <1>16 DEF LogResolved, Logged
<1>17. ASSUME HandlerEnds
      PROVE  GuardInv'
  BY <1>17 DEF HandlerEnds
<1>18. ASSUME CancelSet
      PROVE  GuardInv'
  BY <1>18 DEF CancelSet
<1>19. ASSUME CancelWrite
      PROVE  GuardInv'
  BY <1>19 DEF CancelWrite
<1>20. ASSUME Evict
      PROVE  GuardInv'
  BY <1>20 DEF Evict
<1>21. QED
  BY <1>1, <1>2, <1>3, <1>4, <1>5, <1>6, <1>7, <1>8, <1>9, <1>10, <1>11, <1>12, <1>13, <1>14, <1>15, <1>16, <1>17, <1>18, <1>19, <1>20 DEF Next, AskStep, WaiterStep

(* The questions that were asked only become more, and the count keeps up.  *)
LEMMA CountKeeps == IInv /\ Next => (count = Cardinality(Asked))'
<1> SUFFICES ASSUME IInv, Next PROVE count' = Cardinality(Asked')
  BY DEF Asked
<1> USE DEF IInv, TypeOK, Progress, ProgressOf
<1>1. ASSUME NEW a \in Asks, \E t \in BOOLEAN : RaiseGate(a, t)
      PROVE  count' = Cardinality(Asked')
  <2>1. /\ apc[a] = "idle" /\ count' = count + 1 /\ outcome' = outcome
        /\ apc' = [apc EXCEPT ![a] = "raised"]
    BY <1>1 DEF RaiseGate, MayAsk
  <2>2. outcome[a] = "none"
    BY <2>1
  <2>3. Asked' = Asked \cup {a} /\ a \notin Asked
    BY <2>1, <2>2 DEF Asked
  <2>4. IsFiniteSet(Asked)
    BY ConstantsAssumption, FS_Subset DEF Asked
  <2>5. Cardinality(Asked') = Cardinality(Asked) + 1
    BY <2>3, <2>4, FS_AddElement
  <2>6. QED
    BY <2>1, <2>5
<1>2. ASSUME NEW a \in Asks, RejectAsk(a)
      PROVE  count' = count /\ Asked' = Asked
  BY <1>2 DEF RejectAsk, MayAsk, Asked
<1>3. ASSUME NEW a \in Asks, AskRaises(a)
      PROVE  count' = count /\ Asked' = Asked
  BY <1>3 DEF AskRaises, Ask, MidBlock, Asked
<1>4. ASSUME NEW a \in Asks, Announce(a) \/ WaitForHuman(a) \/ AskWakes(a) \/ Resume(a)
      PROVE  count' = count /\ Asked' = Asked
  BY <1>4 DEF Announce, WaitForHuman, AskWakes, Resume, Ask, Asked
<1>5. ASSUME NEW a \in Asks, AskCancelled(a)
      PROVE  count' = count /\ Asked' = Asked
  BY <1>5 DEF AskCancelled, Ask, Asked
<1>6. ASSUME NEW a \in Asks, Report(a)
      PROVE  count' = count /\ Asked' = Asked
  <2>1. got[a] # "rejected"
    BY ConstantsAssumption
  <2>2. QED
    BY <1>6, <2>1 DEF Report, Ask, Asked
<1>7. CASE UNCHANGED <<apc, outcome, count>>
  BY <1>7 DEF Asked
<1>8. QED
  BY <1>1, <1>2, <1>3, <1>4, <1>5, <1>6, <1>7 DEF Next, AskStep, WaiterStep, WaiterLooks,
     WaiterChecksTask, TimesOut, AnswerRead, AnswerUnknown, ResolveAsk, LogResolved,
     HandlerEnds, CancelSet, CancelWrite, Evict

LEMMA NextKeepsIInv == IInv /\ [Next]_vars => IInv'
<1> SUFFICES ASSUME IInv, [Next]_vars PROVE IInv'
  OBVIOUS
<1>1. CASE Next
  <2>1. Progress'
    BY <1>1, ProgressKeeps, CountKeeps DEF Progress
  <2>2. QED
    BY <1>1, <2>1, TypeKeeps, AnswersKeep, VainKeeps, SleepKeeps, DefaultKeeps, GuardKeeps
       DEF IInv
<1>2. CASE UNCHANGED vars
  <2> USE DEF vars, IInv
  <2>1. TypeOK' /\ Progress' /\ NothingInVain' /\ GuardInv'
    BY <1>2 DEF TypeOK, Progress, ProgressOf, Asked, NothingInVain, GuardInv, Over, Pending,
       Concurrent, Faults
  <2>2. AnswersAreFor' /\ NoAnswerSleptThrough' /\ DefaultOnlyByTimeout'
    BY <1>2 DEF AnswersAreFor, Landed, Asked, NoAnswerSleptThrough, DefaultOnlyByTimeout, Over
  <2>3. QED
    BY <2>1, <2>2
<1>3. QED
  BY <1>1, <1>2

LEMMA Invariance == Spec => []IInv
BY InitIInv, NextKeepsIInv, PTL DEF Spec

-----------------------------------------------------------------------------
(* The refinement: each step of an ask is one of its contract or none.      *)

PhaseOf  == [a \in Asks |-> IF Pending(a) THEN "open" ELSE apc[a]]
OffersOf == [a \in Asks |-> {q \in Answers : qgate[q] = a /\ qpc[q] \in {"stored", "accepted"}}]

(* What the contract sees of a step that moves ask a only.                  *)
LEMMA PhaseMoves ==
  ASSUME IInv, NEW a \in Asks, NEW to, apc' = [apc EXCEPT ![a] = to]
  PROVE  PhaseOf' = [PhaseOf EXCEPT ![a] = IF to \in {"idle", "ended"} THEN to ELSE "open"]
<1>1. \A b \in Asks : PhaseOf'[b] = IF apc'[b] \in {"idle", "ended"} THEN apc'[b] ELSE "open"
  BY DEF PhaseOf, Pending
<1>2. \A b \in Asks : PhaseOf[b] = IF apc[b] \in {"idle", "ended"} THEN apc[b] ELSE "open"
  BY DEF PhaseOf, Pending
<1>3. /\ apc'[a] = to
      /\ \A b \in Asks : b # a => apc'[b] = apc[b]
  BY DEF IInv, TypeOK
<1>4. \A b \in Asks :
        PhaseOf'[b] = [PhaseOf EXCEPT ![a] = IF to \in {"idle", "ended"} THEN to ELSE "open"][b]
  BY <1>1, <1>2, <1>3 DEF PhaseOf
<1>5. QED
  BY <1>4 DEF PhaseOf

LEMMA PhaseStays ==
  ASSUME IInv, NEW a \in Asks, NEW to, apc' = [apc EXCEPT ![a] = to],
         Pending(a), to \notin {"idle", "ended"}
  PROVE  PhaseOf' = PhaseOf
<1>1. Pending(a) /\ \A b \in Asks : Pending(b)' <=> Pending(b)
  BY DEF Pending, IInv, TypeOK
<1>2. \A b \in Asks : ~Pending(b) => apc'[b] = apc[b]
  BY <1>1 DEF IInv, TypeOK
<1>3. QED
  BY <1>1, <1>2 DEF PhaseOf

(* The questions of the contract are those that ask put to a human, and it   *)
(* counts them alike.                                                       *)
LEMMA QuestionsAreAsked ==
  /\ Contract!Questions = Asked
  /\ Contract!Cardinality(Asked) = Cardinality(Asked)
<1>1. Contract!Questions = Asked
  BY DEF Contract!Questions, Asked, Pending
<1>2. \A S : Contract!Cardinality(S) = Cardinality(S)
  BY DEF Contract!Cardinality, Cardinality
<1>3. QED
  BY <1>1, <1>2

LEMMA StepImplements ==
  ASSUME IInv, Next
  PROVE  Contract!CNext \/ UNCHANGED <<PhaseOf, OffersOf, outcome>>
<1> USE DEF IInv, TypeOK, Progress, ProgressOf
<1>q. Contract!Questions = Asked /\ Contract!Cardinality(Asked) = Cardinality(Asked)
  BY QuestionsAreAsked
<1>1. ASSUME NEW a \in Asks, RejectAsk(a)
      PROVE  Contract!Reject(a)
  <2>1. /\ apc[a] = "idle" /\ count >= Cap /\ apc' = [apc EXCEPT ![a] = "ended"]
        /\ outcome' = [outcome EXCEPT ![a] = "rejected"] /\ UNCHANGED <<qpc, qgate>>
    BY <1>1 DEF RejectAsk, MayAsk
  <2>2. PhaseOf[a] = "idle" /\ PhaseOf' = [PhaseOf EXCEPT ![a] = "ended"]
    BY <2>1, PhaseMoves DEF PhaseOf, Pending
  <2>3. OffersOf' = OffersOf
    BY <2>1 DEF OffersOf
  <2>4. QED
    <3>1. Contract!Cardinality(Contract!Questions) >= Cap
      BY <1>q, <2>1
    <3>2. QED
      BY <2>1, <2>2, <2>3, <3>1 DEF Contract!Reject, PhaseOf, OffersOf
<1>2. ASSUME NEW a \in Asks, \E t \in BOOLEAN : RaiseGate(a, t)
      PROVE  Contract!Raise(a)
  <2>1. /\ apc[a] = "idle" /\ count < Cap /\ apc' = [apc EXCEPT ![a] = "raised"]
        /\ UNCHANGED <<outcome, qpc, qgate>>
    BY <1>2 DEF RaiseGate, MayAsk
  <2>2. PhaseOf[a] = "idle" /\ PhaseOf' = [PhaseOf EXCEPT ![a] = "open"]
    BY <2>1, PhaseMoves DEF PhaseOf, Pending
  <2>3. OffersOf' = OffersOf
    BY <2>1 DEF OffersOf
  <2>4. QED
    <3>1. Contract!Cardinality(Contract!Questions) < Cap
      BY <1>q, <2>1
    <3>2. QED
      BY <2>1, <2>2, <2>3, <3>1 DEF Contract!Raise, PhaseOf, OffersOf
<1>3. ASSUME NEW a \in Asks, AskRaises(a)
      PROVE  Contract!Finish(a, "raised")
  <2>1. /\ Pending(a) /\ apc' = [apc EXCEPT ![a] = "ended"]
        /\ outcome' = [outcome EXCEPT ![a] = "raised"] /\ UNCHANGED <<qpc, qgate>>
    BY <1>3 DEF AskRaises, Ask, MidBlock, Pending
  <2>2. PhaseOf[a] = "open" /\ PhaseOf' = [PhaseOf EXCEPT ![a] = "ended"]
    BY <2>1, PhaseMoves DEF PhaseOf
  <2>3. OffersOf' = OffersOf
    BY <2>1 DEF OffersOf
  <2>4. QED
    BY <2>1, <2>2, <2>3 DEF Contract!Finish, Contract!Endings, PhaseOf, OffersOf
<1>4. ASSUME NEW a \in Asks, AskCancelled(a)
      PROVE  Contract!Finish(a, "cancelled")
  <2>1. /\ Pending(a) /\ apc' = [apc EXCEPT ![a] = "ended"]
        /\ outcome' = [outcome EXCEPT ![a] = "cancelled"] /\ UNCHANGED <<qpc, qgate>>
    BY <1>4 DEF AskCancelled, Ask, Pending
  <2>2. PhaseOf[a] = "open" /\ PhaseOf' = [PhaseOf EXCEPT ![a] = "ended"]
    BY <2>1, PhaseMoves DEF PhaseOf
  <2>3. OffersOf' = OffersOf
    BY <2>1 DEF OffersOf
  <2>4. QED
    BY <2>1, <2>2, <2>3 DEF Contract!Finish, Contract!Endings, PhaseOf, OffersOf
<1>5. ASSUME NEW a \in Asks, Report(a)
      PROVE  \E o \in Contract!Endings \cup Answers : Contract!Finish(a, o)
  <2> DEFINE o == IF got[a] # NoAnswer THEN got[a] ELSE "default"
  <2>1. /\ Pending(a) /\ apc' = [apc EXCEPT ![a] = "ended"]
        /\ outcome' = [outcome EXCEPT ![a] = o] /\ UNCHANGED <<qpc, qgate>>
    BY <1>5 DEF Report, Ask, Pending
  <2>2. PhaseOf[a] = "open" /\ PhaseOf' = [PhaseOf EXCEPT ![a] = "ended"]
    BY <2>1, PhaseMoves DEF PhaseOf
  <2>3. OffersOf' = OffersOf
    BY <2>1 DEF OffersOf
  <2>4. o \in Contract!Endings \cup OffersOf[a] /\ o \in Contract!Endings \cup Answers
    BY DEF OffersOf, AnswersAreFor, Landed, Contract!Endings
  <2> HIDE DEF o
  <2>5. Contract!Finish(a, o)
    BY <2>1, <2>2, <2>3, <2>4 DEF Contract!Finish, PhaseOf, OffersOf
  <2>6. QED
    BY <2>4, <2>5 DEF Contract!Finish
<1>6. ASSUME NEW a \in Asks, Announce(a) \/ WaitForHuman(a) \/ AskWakes(a) \/ Resume(a)
      PROVE  UNCHANGED <<PhaseOf, OffersOf, outcome>>
  <2>1. /\ Pending(a) /\ UNCHANGED <<outcome, qpc, qgate>>
        /\ \E to \in {"flagged", "waiting", "resuming", "reporting"} :
             apc' = [apc EXCEPT ![a] = to]
    BY <1>6 DEF Announce, WaitForHuman, AskWakes, Resume, Ask, Pending
  <2>2. PhaseOf' = PhaseOf
    BY <2>1, PhaseStays
  <2>3. QED
    BY <2>1, <2>2 DEF OffersOf
<1>7. ASSUME NEW q \in Answers, NEW a \in Asks, AnswerRead(q, a)
      PROVE  UNCHANGED <<PhaseOf, OffersOf, outcome>>
  <2>1. /\ UNCHANGED <<apc, outcome>>
        /\ qpc[q] = "idle" /\ qpc'[q] \in {"parsing", "refused"}
        /\ \A r \in Answers : r # q => qpc'[r] = qpc[r] /\ qgate'[r] = qgate[r]
    BY <1>7 DEF AnswerRead
  <2>2. QED
    BY <2>1 DEF PhaseOf, OffersOf, Pending
<1>8. ASSUME NEW q \in Answers, AnswerUnknown(q) \/ LogResolved(q)
      PROVE  UNCHANGED <<PhaseOf, OffersOf, outcome>>
  <2>1. /\ UNCHANGED <<apc, outcome, qgate>>
        /\ \/ qpc[q] = "parsing" /\ qpc'[q] = "refused"
           \/ qpc[q] = "stored" /\ qpc'[q] = "accepted"
        /\ \A r \in Answers : r # q => qpc'[r] = qpc[r]
    BY <1>8 DEF AnswerUnknown, LogResolved
  <2>2. QED
    BY <2>1 DEF PhaseOf, OffersOf, Pending
<1>9. ASSUME NEW q \in Answers, ResolveAsk(q)
      PROVE  \E a \in Asks : Contract!Offer(a, q)
  <2> DEFINE a == qgate[q]
  <2>1. /\ qpc[q] = "parsing" /\ qpc' = [qpc EXCEPT ![q] = "stored"]
        /\ UNCHANGED <<apc, outcome, qgate>>
    BY <1>9 DEF ResolveAsk
  <2>2. a \in Asked /\ a \in Asks
    BY <2>1 DEF AnswersAreFor, Asked
  <2>3. \A b \in Asks : q \notin OffersOf[b]
    BY <2>1 DEF OffersOf
  <2>4. PhaseOf' = PhaseOf
    BY <2>1 DEF PhaseOf, Pending
  <2>5. \A b \in Asks : OffersOf'[b] = IF b = a THEN OffersOf[b] \cup {q} ELSE OffersOf[b]
    BY <2>1 DEF OffersOf
  <2>6. OffersOf' = [OffersOf EXCEPT ![a] = @ \cup {q}]
    BY <2>2, <2>5 DEF OffersOf
  <2>7. Contract!Offer(a, q)
    BY <1>q, <2>1, <2>2, <2>3, <2>4, <2>6 DEF Contract!Offer, PhaseOf, OffersOf
  <2>8. QED
    BY <2>2, <2>7 DEF Contract!Offer
<1>10. CASE UNCHANGED <<apc, outcome, qpc, qgate>>
  BY <1>10 DEF PhaseOf, OffersOf, Pending
<1>11. ASSUME NEW a \in Asks,
              Contract!Reject(a) \/ Contract!Raise(a) \/ Contract!Finish(a, "raised")
              \/ Contract!Finish(a, "cancelled")
              \/ (\E o \in Contract!Endings \cup Answers : Contract!Finish(a, o))
              \/ \E q \in Answers : Contract!Offer(a, q)
       PROVE  Contract!CNext
  BY <1>11 DEF Contract!CNext, Contract!Endings
<1>12. QED
  BY <1>1, <1>2, <1>3, <1>4, <1>5, <1>6, <1>7, <1>8, <1>9, <1>10, <1>11
     DEF Next, AskStep, WaiterStep, WaiterLooks, WaiterChecksTask, TimesOut, HandlerEnds,
         CancelSet, CancelWrite, Evict

-----------------------------------------------------------------------------
(* The results.                                                             *)

(* The variables keep their types: the budget is never exceeded, and an     *)
(* answer that is being handled names a gate.                               *)
THEOREM TypeCorrect == Spec => []TypeOK
BY Invariance, PTL DEF IInv

(* In memory no waiter sleeps on an answer, and only a timeout or the end   *)
(* of the task makes an ask fall back to its default, in any interleaving   *)
(* of asks, answers, cancellation and eviction.                             *)
THEOREM AcceptedAnswersAreTaken == Spec => []AnswersAreTaken
BY Invariance, PTL DEF IInv, AnswersAreTaken

(* Record and platform guard agree with the one question a sequential       *)
(* handler has, on a store that neither raises nor evicts.                  *)
THEOREM GuardAndRecordAgree == Spec => []GuardMatchesAsk
<1>1. IInv => GuardMatchesAsk
  <2> SUFFICES ASSUME IInv, ~Concurrent, Faults = {} PROVE GuardMatchesAsk
    BY DEF GuardMatchesAsk
  <2>1. \A a \in Asks : apc[a] = "waiting" => active /\ (status = "waiting_for_human" \/ Over)
    BY DEF IInv, GuardInv
  <2>2. (\A a \in Asks : ~Pending(a)) => ~active /\ (status = "waiting_for_human" => cancelEv)
    BY DEF IInv, GuardInv, Pending
  <2>3. QED
    BY <2>1, <2>2 DEF GuardMatchesAsk
<1>2. QED
  BY <1>1, Invariance, PTL

(* Whatever the store, ask implements its contract: the budget bounds the   *)
(* questions, each ends once, and with an answer only if it was accepted    *)
(* for that very question.                                                  *)
THEOREM AskImplementsContract == Spec => ImplementsContract
<1>1. Init => Contract!CInit
  <2> SUFFICES ASSUME Init PROVE Contract!CInit
    OBVIOUS
  <2>1. PhaseOf = [a \in Asks |-> "idle"]
    BY DEF Init, PhaseOf, Pending
  <2>2. OffersOf = [a \in Asks |-> {}]
    BY DEF Init, OffersOf
  <2>3. QED
    BY <2>1, <2>2 DEF Init, Contract!CInit, PhaseOf, OffersOf
<1>2. IInv /\ [Next]_vars => [Contract!CNext]_(Contract!cvars)
  <2> SUFFICES ASSUME IInv, [Next]_vars, ~Contract!CNext PROVE UNCHANGED Contract!cvars
    OBVIOUS
  <2>1. UNCHANGED <<PhaseOf, OffersOf, outcome>>
    <3>1. CASE Next
      BY <3>1, StepImplements
    <3>2. CASE UNCHANGED vars
      BY <3>2 DEF vars, PhaseOf, OffersOf, Pending
    <3>3. QED
      BY <3>1, <3>2
  <2>2. QED
    BY <2>1 DEF Contract!cvars, PhaseOf, OffersOf
<1>3. QED
  BY <1>1, <1>2, Invariance, PTL DEF Spec, ImplementsContract, Contract!CSpec
=============================================================================
