-------------------------- MODULE AgentServices_proofs --------------------------
(***************************************************************************)
(* Proofs about what runs around an agent's handler: the model it calls    *)
(* (LlmCalls), the artifacts it reads and collects (ArtifactTools,         *)
(* EvidencePack), the checkpoints it resumes from (ResumeCheckpoints), and *)
(* the Rust runtime (RustTasks, RustOneShot, RustCallbacks).  Each         *)
(* component has its own inductive invariant, for any values of its        *)
(* constants, and the last theorem puts them together for the composition. *)
(***************************************************************************)
EXTENDS MCAgentServices, Selection_proofs, FiniteSetTheorems, TLAPS

-----------------------------------------------------------------------------
(* A minimum of two.                                                        *)

(* The smaller of two numbers.                                              *)
LEMMA SmallerOfTwo ==
  \A a, b \in Nat : Min({a, b}) \in {a, b} /\ Min({a, b}) <= a /\ Min({a, b}) <= b
<1> SUFFICES ASSUME NEW a \in Nat, NEW b \in Nat
             PROVE  Min({a, b}) \in {a, b} /\ Min({a, b}) <= a /\ Min({a, b}) <= b
  OBVIOUS
<1>1. \E x \in {a, b} : \A y \in {a, b} : x =< y
  <2>1. CASE a <= b
    BY <2>1
  <2>2. CASE ~(a <= b)
    BY <2>2
  <2>3. QED
    BY <2>1, <2>2
<1>2. Min({a, b}) \in {a, b} /\ \A y \in {a, b} : Min({a, b}) =< y
  BY <1>1 DEF Min
<1>3. QED
  BY <1>2

-----------------------------------------------------------------------------
(* ArtifactTools.                                                           *)

Entries == [key : ToolKeys, text : Texts \cup {"already_provided"}]
Caches  == [reader : Seq(Entries), namespace : Seq(Entries), web : Seq(Entries)]
Tools   == {"fetch", "web"}

ToolTypes ==
  /\ cache \in Caches
  /\ \A lru \in {cache.reader, cache.namespace, cache.web} : Len(lru) <= CacheEntries
  /\ remaining \in [Tools -> 0 .. ReadBudget]
  /\ asked \in [Tools -> Nat]
  /\ pending \in [ToolCalls -> ToolKeys \cup {Idle}]
  /\ readState \subseteq {Note(req) : req \in FetchKeys}
  /\ degraded \subseteq {"artifact_read", "web_research"}

\* an answer has come that tells what a read of this key would
Answered(req, ans) ==
  \E a \in ans :
    /\ a.key \in FetchKeys /\ a.key.artifact = req.artifact
    /\ \/ a.key.mode = req.mode /\ a.key.at = req.at
       \/ a.key.mode = "summary" /\ req.mode = "chunks" /\ req.at = 0

\* what a cache holds of a key can be told whoever asks for it
Tellable(e, ans) == IF e.text \in Texts THEN e \in ans ELSE Answered(e.key, ans)
AllTellable(lru, ans) == \A n \in DOMAIN lru : Tellable(lru[n], ans)

\* advice stands in the reader's cache alone
NoAdvice(lru) == \A n \in DOMAIN lru : lru[n].text \in Texts

Charged == \A tool \in Tools : asked[tool] <= ReadBudget - remaining[tool]

CachesTellTheTruth ==
  /\ AllTellable(cache.reader, answers) /\ AllTellable(cache.namespace, answers)
  /\ AllTellable(cache.web, answers)
  /\ NoAdvice(cache.namespace)

NotesAreOfAnswers ==
  \A note \in readState : \E a \in answers : a.key \in FetchKeys /\ Note(a.key) = note

ToldTheTruth ==
  /\ told.text \in Texts => told \in answers
  /\ told.text = "already_provided" => Answered(told.key, answers)
  /\ told.text = "exhausted" => told.key.tool \in Tools /\ remaining[told.key.tool] = 0
  /\ told.text \notin Texts \cup {"already_provided", "exhausted"} => told.key = Idle

ToolInv == ToolTypes /\ Charged /\ CachesTellTheTruth /\ NotesAreOfAnswers /\ ToldTheTruth

(* A key names its tool.                                                    *)
LEMMA KeysNameTheirTool ==
  /\ \A req \in FetchKeys : req.tool = "fetch" /\ req \in ToolKeys
  /\ \A req \in WebKeys : req.tool = "web" /\ req \in ToolKeys
  /\ Idle \notin ToolKeys
<1>1. \A req \in FetchKeys : req.tool = "fetch" /\ req \in ToolKeys
  BY DEF FetchKeys, ToolKeys, Key
<1>2. \A req \in WebKeys : req.tool = "web" /\ req \in ToolKeys
  BY DEF WebKeys, ToolKeys
<1>3. Idle.tool = "none"
  BY DEF Idle
<1>4. QED
  BY <1>1, <1>2, <1>3 DEF ToolKeys

(* What stands in a cache after a set: the new entry, and entries it had.   *)
LEMMA KeptIsBounded ==
  ASSUME NEW lru \in Seq(Entries), NEW req \in ToolKeys,
         NEW text \in Texts \cup {"already_provided"}
  PROVE  /\ KeptIn(lru, req, text) \in Seq(Entries)
         /\ Len(KeptIn(lru, req, text)) <= CacheEntries
         /\ \A n \in DOMAIN KeptIn(lru, req, text) :
              \/ KeptIn(lru, req, text)[n] = Entry(req, text)
              \/ \E m \in DOMAIN lru : KeptIn(lru, req, text)[n] = lru[m]
<1> DEFINE places == {n \in DOMAIN lru : lru[n].key # req}
           rest == Chosen(lru, places)
           all  == Append(rest, Entry(req, text))
           keep == Min({Len(all), CacheEntries})
           from == Len(all) - keep
           left == SubSeq(all, from + 1, Len(all))
<1>1. KeptIn(lru, req, text) = left
  BY DEF KeptIn, Without
<1> HIDE DEF places
<1>2. rest \in Seq(Entries) /\ Len(rest) \in Nat
  <2>1. rest \in Seq(Entries)
    BY ChosenType
  <2>2. QED
    BY <2>1
<1>3. \A n \in 1 .. Len(rest) : \E m \in DOMAIN lru : rest[n] = lru[m]
  <2>1. PICK at \in [1 .. Len(rest) -> 1 .. Len(lru)] :
          \A i \in 1 .. Len(rest) : rest[i] = lru[at[i]]
    BY ChosenPlaces
  <2> HIDE DEF rest
  <2>2. \A n \in 1 .. Len(rest) : at[n] \in DOMAIN lru
    BY <2>1
  <2>3. QED
    BY <2>1, <2>2
<1> HIDE DEF rest
<1>4. Entry(req, text) \in Entries
  BY DEF Entry, Entries
<1> DEFINE Old(e) == e = Entry(req, text) \/ \E m \in DOMAIN lru : e = lru[m]
<1>5. all \in Seq(Entries) /\ Len(all) \in Nat /\ \A n \in 1 .. Len(all) : Old(all[n])
  <2>1. all \in Seq(Entries) /\ Len(all) = Len(rest) + 1
    BY <1>2, <1>4
  <2>2. \A n \in 1 .. Len(rest) : Old(all[n])
    <3> SUFFICES ASSUME NEW n \in 1 .. Len(rest) PROVE Old(all[n])
      OBVIOUS
    <3>1. all[n] = rest[n]
      BY <1>2, <1>4
    <3> HIDE DEF all
    <3>2. QED
      BY <3>1, <1>3
  <2>3. all[Len(rest) + 1] = Entry(req, text)
    BY <1>2, <1>4
  <2> HIDE DEF all, Old
  <2>4. Old(all[Len(rest) + 1])
    BY <2>3 DEF Old
  <2>5. \A n \in 1 .. Len(all) : n = Len(rest) + 1 \/ n \in 1 .. Len(rest)
    BY <1>2, <2>1
  <2>6. QED
    BY <1>2, <2>1, <2>2, <2>4, <2>5
<1> HIDE DEF all, Old
<1>6. keep \in Nat /\ keep <= Len(all) /\ keep <= CacheEntries
  <2>1. CacheEntries \in Nat
    BY ToolAssumption
  <2>2. Min({Len(all), CacheEntries}) \in {Len(all), CacheEntries}
    BY <1>5, <2>1, SmallerOfTwo
  <2>3. Min({Len(all), CacheEntries}) <= Len(all) /\ Min({Len(all), CacheEntries}) <= CacheEntries
    BY <1>5, <2>1, SmallerOfTwo
  <2>4. QED
    BY <1>5, <2>1, <2>2, <2>3
<1> HIDE DEF keep
<1>7. from \in Nat /\ from + keep = Len(all)
  BY <1>5, <1>6
<1> HIDE DEF from
<1>8. /\ left \in Seq(Entries) /\ Len(left) = keep
      /\ \A n \in 1 .. keep : left[n] = all[from + n]
  BY <1>5, <1>6, <1>7
<1> HIDE DEF left
<1>9. \A n \in 1 .. keep : from + n \in 1 .. Len(all)
  BY <1>5, <1>6, <1>7
<1>10. \A n \in DOMAIN left : n \in 1 .. keep
  BY <1>8
<1>11. \A n \in DOMAIN left : Old(left[n])
  BY <1>5, <1>8, <1>9, <1>10
<1>12. QED
  BY <1>1, <1>6, <1>8, <1>11 DEF Old

(* What a cache tells of a key that it holds is in one of its entries.      *)
LEMMA HeldEntry ==
  ASSUME NEW lru \in Seq(Entries), NEW req, Holds(lru, req)
  PROVE  \E n \in DOMAIN lru : lru[n] = Entry(req, TextOf(lru, req))
<1> DEFINE n == CHOOSE n \in DOMAIN lru : lru[n].key = req
<1>1. n \in DOMAIN lru /\ lru[n].key = req
  BY DEF Holds
<1>2. TextOf(lru, req) = lru[n].text
  BY DEF TextOf
<1> HIDE DEF n
<1>3. lru[n] \in Entries
  BY <1>1
<1>4. lru[n] = Entry(req, TextOf(lru, req))
  BY <1>1, <1>2, <1>3 DEF Entry, Entries
<1>5. QED
  BY <1>1, <1>4

(* A cache that takes up what can be told holds nothing else.               *)
LEMMA KeptIsTellable ==
  ASSUME NEW lru \in Seq(Entries), NEW req \in ToolKeys,
         NEW text \in Texts \cup {"already_provided"},
         NEW ans, AllTellable(lru, ans), Tellable(Entry(req, text), ans)
  PROVE  AllTellable(KeptIn(lru, req, text), ans)
BY KeptIsBounded DEF AllTellable

LEMMA UsedIsTellable ==
  ASSUME NEW lru \in Seq(Entries), NEW req \in ToolKeys, Holds(lru, req),
         NEW ans, AllTellable(lru, ans)
  PROVE  /\ Used(lru, req) \in Seq(Entries) /\ Len(Used(lru, req)) <= CacheEntries
         /\ AllTellable(Used(lru, req), ans)
         /\ TextOf(lru, req) \in Texts \cup {"already_provided"}
         /\ Tellable(Entry(req, TextOf(lru, req)), ans)
<1>1. PICK n \in DOMAIN lru : lru[n] = Entry(req, TextOf(lru, req))
  BY HeldEntry
<1>2. Tellable(Entry(req, TextOf(lru, req)), ans)
  BY <1>1 DEF AllTellable
<1>3. TextOf(lru, req) \in Texts \cup {"already_provided"}
  <2>1. lru[n] \in Entries
    OBVIOUS
  <2>2. lru[n].text \in Texts \cup {"already_provided"}
    BY <2>1 DEF Entries
  <2>3. Entry(req, TextOf(lru, req)).text = TextOf(lru, req)
    BY DEF Entry
  <2>4. QED
    BY <1>1, <2>2, <2>3
<1>4. QED
  BY <1>2, <1>3, KeptIsBounded, KeptIsTellable DEF Used

(* A cache without advice takes up none, and has none to tell.              *)
LEMMA AdviceStaysOut ==
  ASSUME NEW lru \in Seq(Entries), NEW req \in ToolKeys, NoAdvice(lru)
  PROVE  /\ \A text \in Texts : NoAdvice(KeptIn(lru, req, text))
         /\ Holds(lru, req) => NoAdvice(Used(lru, req)) /\ TextOf(lru, req) \in Texts
<1>1. ASSUME NEW text \in Texts PROVE NoAdvice(KeptIn(lru, req, text))
  <2>1. Entry(req, text).text = text
    BY DEF Entry
  <2>2. QED
    BY <2>1, KeptIsBounded DEF NoAdvice
<1>2. ASSUME Holds(lru, req) PROVE TextOf(lru, req) \in Texts
  <2>1. PICK n \in DOMAIN lru : lru[n] = Entry(req, TextOf(lru, req))
    BY <1>2, HeldEntry
  <2>2. lru[n].text = TextOf(lru, req)
    BY <2>1 DEF Entry
  <2>3. QED
    BY <2>2 DEF NoAdvice
<1>3. QED
  BY <1>1, <1>2 DEF Used

(* What can be told is the truth, and it stays so.                          *)
LEMMA TellingIsTrue ==
  ASSUME NEW req \in ToolKeys, NEW text \in Texts \cup {"already_provided"}, NEW ans,
         Tellable(Entry(req, text), ans)
  PROVE  /\ text \in Texts => Entry(req, text) \in ans
         /\ text = "already_provided" => Answered(req, ans)
<1>1. Entry(req, text).text = text /\ Entry(req, text).key = req
  BY DEF Entry
<1>2. "already_provided" \notin Texts
  BY DEF Texts
<1>3. QED
  BY <1>1, <1>2 DEF Tellable

LEMMA TellableStays ==
  ASSUME NEW ans, NEW more, ans \subseteq more
  PROVE  /\ \A req : Answered(req, ans) => Answered(req, more)
         /\ \A lru : AllTellable(lru, ans) => AllTellable(lru, more)
<1>1. \A req : Answered(req, ans) => Answered(req, more)
  BY DEF Answered
<1>2. \A e : Tellable(e, ans) => Tellable(e, more)
  BY <1>1 DEF Tellable
<1>3. QED
  BY <1>1, <1>2 DEF AllTellable

LEMMA ToolInit_Inv == ToolInit => ToolInv
<1> SUFFICES ASSUME ToolInit PROVE ToolInv
  OBVIOUS
<1>1. ReadBudget \in Nat /\ CacheEntries \in Nat
  BY ToolAssumption
<1>2. ToolTypes
  <2>1. cache \in Caches
    BY DEF ToolInit, Caches
  <2>2. \A lru \in {cache.reader, cache.namespace, cache.web} : Len(lru) <= CacheEntries
    BY <1>1 DEF ToolInit
  <2>3. remaining \in [Tools -> 0 .. ReadBudget] /\ asked \in [Tools -> Nat]
    BY <1>1 DEF ToolInit, Tools
  <2>4. QED
    BY <2>1, <2>2, <2>3 DEF ToolInit, ToolTypes
<1>3. Charged
  BY <1>1 DEF ToolInit, Charged, Tools
<1>4. CachesTellTheTruth
  BY DEF ToolInit, CachesTellTheTruth, AllTellable, NoAdvice
<1>5. NotesAreOfAnswers
  BY DEF ToolInit, NotesAreOfAnswers
<1>6. ToldTheTruth
  BY DEF ToolInit, ToldTheTruth, Entry, Texts
<1>7. QED
  BY <1>2, <1>3, <1>4, <1>5, <1>6 DEF ToolInv

(* A call that is told what can be told, and charges nothing or one read.   *)
LEMMA TellKeepsTruth ==
  ASSUME NEW req \in ToolKeys, NEW text \in Texts \cup {"already_provided"},
         Tellable(Entry(req, text), answers'), Tell(req, text)
  PROVE  ToldTheTruth'
<1>1. told' = Entry(req, text) /\ told'.text = text /\ told'.key = req
  BY DEF Tell, Entry
<1>2. /\ text \in Texts => told' \in answers'
      /\ text = "already_provided" => Answered(told'.key, answers')
  BY <1>1, TellingIsTrue
<1>3. QED
  BY <1>1, <1>2 DEF ToldTheTruth, Texts

(* Calls that are answered without the platform.                            *)
LEMMA CachedStep ==
  ASSUME ToolInv, NEW c \in ToolCalls, NEW req \in FetchKeys, CallFetch(c, req),
         FetchCached(req) \/ FetchDuplicate(req) \/ Exhausted(req, remaining.fetch)
  PROVE  ToolInv'
<1> USE DEF ToolInv
<1>0. req \in ToolKeys /\ req.tool = "fetch"
  BY KeysNameTheirTool
<1>1. /\ cache \in Caches /\ cache.reader \in Seq(Entries) /\ AllTellable(cache.reader, answers)
      /\ Len(cache.namespace) <= CacheEntries /\ Len(cache.web) <= CacheEntries
      /\ Len(cache.reader) <= CacheEntries
  BY DEF ToolTypes, Caches, CachesTellTheTruth
<1>2. UNCHANGED <<remaining, readState, pending, degraded, asked, answers>>
  BY DEF CallFetch, FetchCached, FetchDuplicate, Exhausted
<1>3. Charged' /\ NotesAreOfAnswers'
  BY <1>2 DEF Charged, NotesAreOfAnswers
<1> DEFINE Sets(lru, text) ==
      /\ cache' = [cache EXCEPT !.reader = lru]
      /\ lru \in Seq(Entries) /\ Len(lru) <= CacheEntries /\ AllTellable(lru, answers)
      /\ text \in Texts \cup {"already_provided"} /\ Tellable(Entry(req, text), answers)
      /\ Tell(req, text)
<1>4. ASSUME NEW lru, NEW text, Sets(lru, text) PROVE ToolInv'
  <2>1. /\ cache'.reader = lru /\ cache'.namespace = cache.namespace /\ cache'.web = cache.web
        /\ cache' \in Caches
    BY <1>1, <1>4 DEF Caches
  <2>2. ToolTypes'
    BY <2>1, <1>1, <1>2, <1>4 DEF ToolTypes
  <2>3. CachesTellTheTruth'
    BY <2>1, <1>1, <1>2, <1>4 DEF CachesTellTheTruth
  <2>4. ToldTheTruth'
    BY <1>0, <1>2, <1>4, TellKeepsTruth
  <2>5. QED
    BY <2>2, <2>3, <2>4, <1>3
<1>5. CASE FetchCached(req)
  <2> DEFINE lru == Used(cache.reader, req)
             text == TextOf(cache.reader, req)
  <2>1. Holds(cache.reader, req)
    BY <1>5 DEF FetchCached
  <2>2. /\ lru \in Seq(Entries) /\ Len(lru) <= CacheEntries /\ AllTellable(lru, answers)
        /\ text \in Texts \cup {"already_provided"} /\ Tellable(Entry(req, text), answers)
    BY <1>0, <1>1, <2>1, UsedIsTellable
  <2>3. cache' = [cache EXCEPT !.reader = lru] /\ Tell(req, text)
    BY <1>5 DEF FetchCached
  <2> HIDE DEF lru, text
  <2>4. QED
    BY <2>2, <2>3, <1>4
<1>6. CASE FetchDuplicate(req)
  <2> DEFINE lru == KeptIn(cache.reader, req, "already_provided")
  <2>1. Answered(req, answers)
    <3>1. IsDuplicate(req)
      BY <1>6 DEF FetchDuplicate
    <3>2. PICK note \in readState :
            /\ note.artifact = req.artifact
            /\ \/ note.mode = req.mode /\ note.at = req.at
               \/ note.mode = "summary" /\ req.mode = "chunks" /\ req.at = 0
      BY <3>1 DEF IsDuplicate, Note
    <3>3. PICK a \in answers : a.key \in FetchKeys /\ Note(a.key) = note
      BY DEF NotesAreOfAnswers
    <3>4. a.key.artifact = note.artifact /\ a.key.mode = note.mode /\ a.key.at = note.at
      BY <3>3 DEF Note
    <3>5. QED
      BY <3>2, <3>3, <3>4 DEF Answered
  <2>2. Tellable(Entry(req, "already_provided"), answers)
    BY <2>1 DEF Tellable, Entry, Texts
  <2>3. /\ lru \in Seq(Entries) /\ Len(lru) <= CacheEntries /\ AllTellable(lru, answers)
    BY <1>0, <1>1, <2>2, KeptIsBounded, KeptIsTellable
  <2>4. cache' = [cache EXCEPT !.reader = lru] /\ Tell(req, "already_provided")
    BY <1>6 DEF FetchDuplicate
  <2> HIDE DEF lru
  <2>5. QED
    BY <2>2, <2>3, <2>4, <1>4
<1>7. CASE Exhausted(req, remaining.fetch)
  <2>1. cache' = cache /\ told' = Entry(req, "exhausted") /\ remaining.fetch <= 0
    BY <1>7 DEF Exhausted, Tell
  <2>2. ToolTypes' /\ CachesTellTheTruth'
    BY <2>1, <1>2 DEF ToolTypes, CachesTellTheTruth
  <2>3. remaining[req.tool] = 0
    <3>1. remaining["fetch"] \in 0 .. ReadBudget /\ ReadBudget \in Nat
      BY ToolAssumption DEF ToolTypes, Tools
    <3>2. QED
      BY <1>0, <2>1, <3>1
  <2>4. told'.text = "exhausted" /\ told'.key = req
    BY <2>1 DEF Entry
  <2>5. ToldTheTruth'
    BY <1>0, <1>2, <2>3, <2>4 DEF ToldTheTruth, Texts, Tools
  <2>6. QED
    BY <2>2, <2>5, <1>3
<1>8. QED
  BY <1>5, <1>6, <1>7

(* A call that charges a read and asks the platform.                        *)
LEMMA AskStep ==
  ASSUME ToolInv, NEW c \in ToolCalls, NEW tool \in Tools, NEW req \in ToolKeys,
         req.tool = tool, remaining[tool] > 0,
         remaining' = [remaining EXCEPT ![tool] = @ - 1],
         pending' = [pending EXCEPT ![c] = req],
         asked' = [asked EXCEPT ![tool] = @ + 1],
         UNCHANGED <<cache, readState, degraded, answers, told>>
  PROVE  ToolInv'
<1> USE DEF ToolInv
<1>1. /\ ReadBudget \in Nat /\ remaining[tool] \in 0 .. ReadBudget /\ asked[tool] \in Nat
      /\ \A t \in Tools : remaining[t] \in 0 .. ReadBudget /\ asked[t] \in Nat
  BY ToolAssumption DEF ToolTypes
<1>2. /\ remaining' \in [Tools -> 0 .. ReadBudget] /\ asked' \in [Tools -> Nat]
      /\ remaining'[tool] = remaining[tool] - 1 /\ asked'[tool] = asked[tool] + 1
      /\ \A t \in Tools \ {tool} : remaining'[t] = remaining[t] /\ asked'[t] = asked[t]
  BY <1>1 DEF ToolTypes
<1>3. ToolTypes'
  <2>1. pending' \in [ToolCalls -> ToolKeys \cup {Idle}]
    BY DEF ToolTypes
  <2>2. QED
    BY <1>2, <2>1 DEF ToolTypes
<1>4. Charged'
  <2>1. asked'[tool] <= ReadBudget - remaining'[tool]
    BY <1>1, <1>2 DEF Charged
  <2>2. QED
    BY <1>2, <2>1 DEF Charged
<1>5. CachesTellTheTruth' /\ NotesAreOfAnswers'
  BY DEF CachesTellTheTruth, NotesAreOfAnswers
<1>6. ToldTheTruth'
  <2>1. told.text = "exhausted" => told.key.tool \in Tools /\ remaining'[told.key.tool] = 0
    <3> SUFFICES ASSUME told.text = "exhausted"
                 PROVE  told.key.tool \in Tools /\ remaining'[told.key.tool] = 0
      OBVIOUS
    <3>1. told.key.tool \in Tools /\ remaining[told.key.tool] = 0
      BY DEF ToldTheTruth
    <3>2. told.key.tool # tool
      BY <3>1
    <3>3. QED
      BY <1>2, <3>1, <3>2
  <2>2. QED
    BY <2>1 DEF ToldTheTruth
<1>7. QED
  BY <1>3, <1>4, <1>5, <1>6

(* The namespace has the text that the reader asks for.                     *)
LEMMA NamespaceStep ==
  ASSUME ToolInv, NEW req \in FetchKeys, Holds(cache.namespace, req), remaining.fetch > 0,
         FetchFromNamespace(req), UNCHANGED degraded
  PROVE  ToolInv'
<1> USE DEF ToolInv
<1> DEFINE text == TextOf(cache.namespace, req)
           inNamespace == Used(cache.namespace, req)
           inReader == KeptIn(cache.reader, req, text)
<1>1. req \in ToolKeys /\ req.tool = "fetch"
  BY KeysNameTheirTool
<1>2. /\ cache \in Caches /\ cache.reader \in Seq(Entries) /\ cache.namespace \in Seq(Entries)
      /\ AllTellable(cache.reader, answers) /\ AllTellable(cache.namespace, answers)
      /\ AllTellable(cache.web, answers) /\ Len(cache.web) <= CacheEntries
      /\ NoAdvice(cache.namespace)
  BY DEF ToolTypes, Caches, CachesTellTheTruth
<1>3. /\ inNamespace \in Seq(Entries) /\ Len(inNamespace) <= CacheEntries
      /\ AllTellable(inNamespace, answers)
      /\ NoAdvice(inNamespace)
      /\ text \in Texts /\ Tellable(Entry(req, text), answers)
  BY <1>1, <1>2, UsedIsTellable, AdviceStaysOut
<1>4. /\ cache' = [cache EXCEPT !.namespace = inNamespace, !.reader = inReader]
      /\ remaining' = [remaining EXCEPT !.fetch = @ - 1]
      /\ readState' = readState \cup {Note(req)} /\ Tell(req, text)
      /\ UNCHANGED <<pending, asked, answers>>
  BY DEF FetchFromNamespace
<1> HIDE DEF text, inNamespace
<1>5. /\ inReader \in Seq(Entries) /\ Len(inReader) <= CacheEntries /\ AllTellable(inReader, answers)
  BY <1>1, <1>2, <1>3, KeptIsBounded, KeptIsTellable
<1> HIDE DEF inReader
<1>6. /\ cache'.reader = inReader /\ cache'.namespace = inNamespace /\ cache'.web = cache.web
      /\ cache' \in Caches
  BY <1>2, <1>3, <1>4, <1>5 DEF Caches
<1>7. /\ ReadBudget \in Nat /\ remaining.fetch \in 0 .. ReadBudget
      /\ \A t \in Tools : remaining[t] \in 0 .. ReadBudget /\ asked[t] \in Nat
  BY ToolAssumption DEF ToolTypes, Tools
<1>8. /\ remaining' \in [Tools -> 0 .. ReadBudget] /\ remaining'["fetch"] = remaining["fetch"] - 1
      /\ remaining'["web"] = remaining["web"]
  BY <1>4, <1>7 DEF ToolTypes, Tools
<1>9. ToolTypes'
  <2>1. readState' \subseteq {Note(k) : k \in FetchKeys}
    BY <1>4 DEF ToolTypes
  <2>2. QED
    BY <1>2, <1>3, <1>4, <1>5, <1>6, <1>8, <2>1 DEF ToolTypes
<1>10. Charged'
  BY <1>4, <1>7, <1>8 DEF Charged, Tools
<1>11. CachesTellTheTruth'
  BY <1>2, <1>3, <1>4, <1>5, <1>6 DEF CachesTellTheTruth
<1>12. Tellable(Entry(req, text), answers')
  BY <1>3, <1>4
<1>13. ToldTheTruth'
  BY <1>1, <1>3, <1>4, <1>12, TellKeepsTruth
<1>14. NotesAreOfAnswers'
  <2>1. \E a \in answers : a.key \in FetchKeys /\ Note(a.key) = Note(req)
    <3>1. Entry(req, text).text = text /\ Entry(req, text).key = req
      BY DEF Entry
    <3>2. QED
      BY <1>3, <3>1 DEF Tellable
  <2>2. QED
    BY <1>4, <2>1 DEF NotesAreOfAnswers
<1>15. QED
  BY <1>9, <1>10, <1>11, <1>13, <1>14

(* An answer comes: it is cached, told, and noted if it is a read.          *)
LEMMA ReturnStep ==
  ASSUME ToolInv, NEW c \in ToolCalls, NEW req \in ToolKeys, NEW text \in Texts,
         pending' = [pending EXCEPT ![c] = Idle],
         cache' \in Caches,
         \A which \in {"reader", "namespace", "web"} :
           cache'[which] \in {cache[which], KeptIn(cache[which], req, text)},
         answers' = answers \cup {Entry(req, text)},
         Tell(req, text),
         readState' \subseteq readState \cup {Note(a) : a \in {req} \cap FetchKeys},
         degraded' \subseteq degraded \cup {"artifact_read", "web_research"},
         UNCHANGED <<remaining, asked>>
  PROVE  ToolInv'
<1> USE DEF ToolInv
<1> DEFINE Caching == {"reader", "namespace", "web"}
<1>1. Entry(req, text).key = req /\ Entry(req, text).text = text
  BY DEF Entry
<1>2. Tellable(Entry(req, text), answers')
  BY <1>1 DEF Tellable
<1>3. \A which \in Caching :
        cache[which] \in Seq(Entries) /\ AllTellable(cache[which], answers')
          /\ Len(cache[which]) <= CacheEntries
  <2>1. \A which \in Caching :
          cache[which] \in Seq(Entries) /\ AllTellable(cache[which], answers)
            /\ Len(cache[which]) <= CacheEntries
    BY DEF ToolTypes, Caches, CachesTellTheTruth
  <2>2. QED
    BY <2>1, TellableStays
<1>4. \A which \in Caching :
        AllTellable(cache'[which], answers') /\ Len(cache'[which]) <= CacheEntries
  <2> SUFFICES ASSUME NEW which \in Caching
               PROVE  AllTellable(cache'[which], answers') /\ Len(cache'[which]) <= CacheEntries
    OBVIOUS
  <2>1. /\ Len(KeptIn(cache[which], req, text)) <= CacheEntries
        /\ AllTellable(KeptIn(cache[which], req, text), answers')
    BY <1>2, <1>3, KeptIsBounded, KeptIsTellable
  <2>2. QED
    BY <1>3, <2>1
<1>5. NoAdvice(cache'.namespace)
  <2>1. NoAdvice(cache.namespace) /\ cache.namespace \in Seq(Entries)
    BY <1>3 DEF CachesTellTheTruth
  <2>2. NoAdvice(KeptIn(cache.namespace, req, text))
    BY <2>1, AdviceStaysOut
  <2>3. QED
    BY <2>1, <2>2
<1>6. CachesTellTheTruth'
  BY <1>4, <1>5 DEF CachesTellTheTruth
<1>7. ToolTypes'
  <2>1. pending' \in [ToolCalls -> ToolKeys \cup {Idle}]
    BY DEF ToolTypes
  <2>2. readState' \subseteq {Note(k) : k \in FetchKeys}
    BY DEF ToolTypes
  <2>3. degraded' \subseteq {"artifact_read", "web_research"}
    BY DEF ToolTypes
  <2>4. QED
    BY <1>4, <2>1, <2>2, <2>3 DEF ToolTypes
<1>8. Charged'
  BY DEF Charged
<1>9. NotesAreOfAnswers'
  <2> SUFFICES ASSUME NEW note \in readState'
               PROVE  \E a \in answers' : a.key \in FetchKeys /\ Note(a.key) = note
    BY DEF NotesAreOfAnswers
  <2>1. CASE note \in readState
    BY <2>1 DEF NotesAreOfAnswers
  <2>2. CASE note \notin readState
    <3>1. req \in FetchKeys /\ note = Note(req)
      BY <2>2
    <3>2. QED
      BY <1>1, <3>1
  <2>3. QED
    BY <2>1, <2>2
<1>10. ToldTheTruth'
  BY <1>2, TellKeepsTruth
<1>11. QED
  BY <1>6, <1>7, <1>8, <1>9, <1>10

(* web_research answers from its cache, or its budget is spent.             *)
LEMMA WebCachedStep ==
  ASSUME ToolInv, NEW c \in ToolCalls, NEW req \in WebKeys, CallWeb(c, req), remaining' = remaining
  PROVE  ToolInv'
<1> USE DEF ToolInv
<1>0. req \in ToolKeys /\ req.tool = "web"
  BY KeysNameTheirTool
<1>1. /\ cache \in Caches /\ cache.web \in Seq(Entries) /\ AllTellable(cache.web, answers)
      /\ remaining["web"] \in 0 .. ReadBudget /\ ReadBudget \in Nat
  BY ToolAssumption DEF ToolTypes, Caches, CachesTellTheTruth, Tools
<1>2. CASE Holds(cache.web, req)
  <2> DEFINE lru == Used(cache.web, req)
             text == TextOf(cache.web, req)
  <2>1. /\ lru \in Seq(Entries) /\ Len(lru) <= CacheEntries /\ AllTellable(lru, answers)
        /\ text \in Texts \cup {"already_provided"} /\ Tellable(Entry(req, text), answers)
    BY <1>0, <1>1, <1>2, UsedIsTellable
  <2>2. /\ cache' = [cache EXCEPT !.web = lru] /\ Tell(req, text)
        /\ UNCHANGED <<readState, pending, asked, answers, degraded>>
    BY <1>2 DEF CallWeb
  <2> HIDE DEF lru, text
  <2>3. /\ cache'.web = lru /\ cache'.namespace = cache.namespace /\ cache'.reader = cache.reader
        /\ cache' \in Caches
    BY <1>1, <2>1, <2>2 DEF Caches
  <2>4. ToolTypes'
    BY <2>1, <2>2, <2>3 DEF ToolTypes
  <2>5. CachesTellTheTruth'
    BY <2>1, <2>2, <2>3 DEF CachesTellTheTruth
  <2>6. ToldTheTruth'
    BY <1>0, <2>1, <2>2, TellKeepsTruth
  <2>7. Charged' /\ NotesAreOfAnswers'
    BY <2>2 DEF Charged, NotesAreOfAnswers
  <2>8. QED
    BY <2>4, <2>5, <2>6, <2>7
<1>3. CASE ~Holds(cache.web, req)
  <2>1. /\ Exhausted(req, remaining.web)
        /\ degraded' = degraded \cup {"web_research"}
    <3>1. ~(remaining.web > 0 /\ remaining' = [remaining EXCEPT !.web = @ - 1])
      BY <1>1 DEF ToolTypes, Tools
    <3>2. QED
      BY <1>3, <3>1 DEF CallWeb
  <2>2. /\ cache' = cache /\ told' = Entry(req, "exhausted") /\ remaining.web <= 0
        /\ UNCHANGED <<readState, pending, asked, answers>>
    BY <2>1 DEF Exhausted, Tell
  <2>3. ToolTypes' /\ CachesTellTheTruth' /\ Charged' /\ NotesAreOfAnswers'
    BY <2>1, <2>2 DEF ToolTypes, CachesTellTheTruth, Charged, NotesAreOfAnswers
  <2>4. remaining[req.tool] = 0
    BY <1>0, <1>1, <2>2
  <2>5. told'.text = "exhausted" /\ told'.key = req
    BY <2>2 DEF Entry
  <2>6. ToldTheTruth'
    BY <1>0, <2>4, <2>5 DEF ToldTheTruth, Texts, Tools
  <2>7. QED
    BY <2>3, <2>6
<1>4. QED
  BY <1>2, <1>3

LEMMA ToolStep == ToolInv /\ [ToolNext]_toolVars => ToolInv'
<1> SUFFICES ASSUME ToolInv, [ToolNext]_toolVars PROVE ToolInv'
  OBVIOUS
<1>0. /\ cache \in Caches /\ \A req \in FetchKeys : req \in ToolKeys /\ req.tool = "fetch"
      /\ \A req \in WebKeys : req \in ToolKeys /\ req.tool = "web"
  BY KeysNameTheirTool DEF ToolInv, ToolTypes
<1>1. ASSUME NEW c \in ToolCalls, NEW req \in FetchKeys, CallFetch(c, req) PROVE ToolInv'
  <2>1. CASE FetchCached(req) \/ FetchDuplicate(req) \/ Exhausted(req, remaining.fetch)
    BY <1>1, <2>1, CachedStep
  <2>2. CASE remaining.fetch > 0 /\ Holds(cache.namespace, req) /\ FetchFromNamespace(req)
    BY <1>1, <2>2, NamespaceStep DEF CallFetch
  <2>3. CASE remaining.fetch > 0 /\ StartFetch(c, req)
    <3>1. /\ remaining' = [remaining EXCEPT !["fetch"] = @ - 1]
          /\ pending' = [pending EXCEPT ![c] = req]
          /\ asked' = [asked EXCEPT !["fetch"] = @ + 1]
          /\ UNCHANGED <<cache, readState, degraded, answers, told>>
      BY <1>0, <1>1, <2>3 DEF CallFetch, StartFetch
    <3>2. "fetch" \in Tools /\ remaining["fetch"] > 0 /\ req \in ToolKeys /\ req.tool = "fetch"
      BY <1>0, <2>3 DEF Tools
    <3>3. QED
      BY <3>1, <3>2, AskStep
  <2>4. QED
    BY <1>1, <2>1, <2>2, <2>3 DEF CallFetch
<1>2. ASSUME NEW c \in ToolCalls, NEW req \in FetchKeys, FetchReturns(c, req) PROVE ToolInv'
  <2>1. PICK text \in Texts :
          /\ cache' = [cache EXCEPT !.reader = KeptIn(@, req, text),
                                    !.namespace = IF legacy THEN @ ELSE KeptIn(@, req, text)]
          /\ answers' = answers \cup {Entry(req, text)}
          /\ Tell(req, text)
          /\ degraded' = IF legacy /\ text = "unavailable" THEN degraded \cup {"artifact_read"} ELSE degraded
    BY <1>2 DEF FetchReturns
  <2>2. KeptIn(cache.reader, req, text) \in Seq(Entries) /\ KeptIn(cache.namespace, req, text) \in Seq(Entries)
    BY <1>0, KeptIsBounded DEF Caches
  <2>3. /\ cache' \in Caches /\ cache'["web"] = cache["web"]
        /\ cache'["reader"] = KeptIn(cache["reader"], req, text)
        /\ cache'["namespace"] \in {cache["namespace"], KeptIn(cache["namespace"], req, text)}
    BY <1>0, <2>1, <2>2 DEF Caches
  <2>4. /\ pending' = [pending EXCEPT ![c] = Idle] /\ readState' = readState \cup {Note(req)}
        /\ UNCHANGED <<remaining, asked>>
    BY <1>2 DEF FetchReturns
  <2>5. readState' \subseteq readState \cup {Note(a) : a \in {req} \cap FetchKeys}
    BY <2>4
  <2>6. degraded' \subseteq degraded \cup {"artifact_read", "web_research"}
    BY <2>1
  <2>7. \A which \in {"reader", "namespace", "web"} :
           cache'[which] \in {cache[which], KeptIn(cache[which], req, text)}
    BY <2>3
  <2>8. QED
    BY <1>0, <2>1, <2>3, <2>4, <2>5, <2>6, <2>7, ReturnStep
<1>3. ASSUME NEW c \in ToolCalls, NEW req \in WebKeys, CallWeb(c, req) PROVE ToolInv'
  <2>1. CASE remaining' = remaining
    BY <1>3, <2>1, WebCachedStep
  <2>2. CASE remaining' # remaining
    <3>1. /\ remaining.web > 0
          /\ remaining' = [remaining EXCEPT !["web"] = @ - 1]
          /\ pending' = [pending EXCEPT ![c] = req]
          /\ asked' = [asked EXCEPT !["web"] = @ + 1]
          /\ UNCHANGED <<cache, readState, degraded, answers, told>>
      BY <1>0, <1>3, <2>2 DEF CallWeb, Exhausted
    <3>2. "web" \in Tools /\ remaining["web"] > 0 /\ req \in ToolKeys /\ req.tool = "web"
      BY <1>0, <3>1 DEF Tools
    <3>3. QED
      BY <3>1, <3>2, AskStep
  <2>3. QED
    BY <2>1, <2>2
<1>4. ASSUME NEW c \in ToolCalls, NEW req \in WebKeys, WebReturns(c, req) PROVE ToolInv'
  <2>1. PICK text \in Texts :
          /\ cache' = [cache EXCEPT !.web = KeptIn(@, req, text)]
          /\ answers' = answers \cup {Entry(req, text)}
          /\ Tell(req, text)
          /\ degraded' = IF text = "unavailable" THEN degraded \cup {"web_research"} ELSE degraded
    BY <1>4 DEF WebReturns
  <2>2. KeptIn(cache.web, req, text) \in Seq(Entries)
    BY <1>0, KeptIsBounded DEF Caches
  <2>3. /\ cache' \in Caches /\ cache'["web"] = KeptIn(cache["web"], req, text)
        /\ cache'["reader"] = cache["reader"] /\ cache'["namespace"] = cache["namespace"]
    BY <1>0, <2>1, <2>2 DEF Caches
  <2>4. /\ pending' = [pending EXCEPT ![c] = Idle] /\ readState' = readState
        /\ UNCHANGED <<remaining, asked>>
    BY <1>4 DEF WebReturns
  <2>5. degraded' \subseteq degraded \cup {"artifact_read", "web_research"}
    BY <2>1
  <2>6. \A which \in {"reader", "namespace", "web"} :
           cache'[which] \in {cache[which], KeptIn(cache[which], req, text)}
    BY <2>3
  <2>7. QED
    BY <1>0, <2>1, <2>3, <2>4, <2>5, <2>6, ReturnStep
<1>5. ASSUME NEW c \in ToolCalls, ToolCallCancelled(c) PROVE ToolInv'
  <2>1. pending' \in [ToolCalls -> ToolKeys \cup {Idle}]
    BY <1>5 DEF ToolCallCancelled, ToolInv, ToolTypes
  <2>2. UNCHANGED <<cache, remaining, readState, degraded, asked, answers, told>>
    BY <1>5 DEF ToolCallCancelled
  <2>3. QED
    BY <2>1, <2>2 DEF ToolInv, ToolTypes, Charged, CachesTellTheTruth, NotesAreOfAnswers, ToldTheTruth
<1>6. CASE UNCHANGED toolVars
  BY <1>6 DEF toolVars, ToolInv, ToolTypes, Charged, CachesTellTheTruth, NotesAreOfAnswers, ToldTheTruth
<1>7. QED
  BY <1>1, <1>2, <1>3, <1>4, <1>5, <1>6 DEF ToolNext

LEMMA ToolInv_Holds == ToolSpec => []ToolInv
BY ToolInit_Inv, ToolStep, PTL DEF ToolSpec

LEMMA ToolInv_Types == ToolInv => ToolTypeOK
BY DEF ToolInv, ToolTypes, ToolTypeOK, Tools

(* Every call is told the truth, however the calls of a model overlap: what *)
(* the platform answered to that very request, or that the text has been    *)
(* given, or that the budget is spent.                                      *)
LEMMA ToolInv_Truth == ToolInv => ToolsTellTheTruth
<1> SUFFICES ASSUME ToolInv PROVE ToolsTellTheTruth
  OBVIOUS
<1>1. \A tool \in {"fetch", "web"} : asked[tool] <= ReadBudget - remaining[tool]
  BY DEF ToolInv, Charged, Tools
<1>2. CASE told.text \in Texts
  <2>1. told \in answers /\ told.text # "already_provided" /\ told.text # "exhausted"
    BY <1>2 DEF ToolInv, ToldTheTruth, Texts
  <2>2. QED
    BY <1>1, <1>2, <2>1 DEF ToolsTellTheTruth
<1>3. CASE told.text = "already_provided"
  <2>1. Answered(told.key, answers) /\ told.text \notin Texts
    BY <1>3 DEF ToolInv, ToldTheTruth, Texts
  <2>2. QED
    BY <1>1, <1>3, <2>1 DEF ToolsTellTheTruth, Answered
<1>4. CASE told.text = "exhausted"
  <2>1. remaining[told.key.tool] = 0 /\ told.text \notin Texts
    BY <1>4 DEF ToolInv, ToldTheTruth, Texts
  <2>2. QED
    BY <1>1, <1>4, <2>1 DEF ToolsTellTheTruth
<1>5. CASE told.text \notin Texts \cup {"already_provided", "exhausted"}
  <2>1. told.key = Idle /\ told.text \notin Texts /\ told.text # "already_provided" /\ told.text # "exhausted"
    BY <1>5 DEF ToolInv, ToldTheTruth
  <2>2. QED
    BY <1>1, <2>1 DEF ToolsTellTheTruth
<1>6. QED
  BY <1>2, <1>3, <1>4, <1>5

(* The variables of the artifact tools keep their types.                    *)
THEOREM ToolsTypeCorrect == ToolSpec => []ToolTypeOK
BY ToolInv_Types, ToolInv_Holds, PTL

(* What a tool tells the model is what the platform answered that call, or  *)
(* that the model has that answer already; the budget of a tool bounds its  *)
(* calls of the platform; what failed or was refused is not kept: for any   *)
(* tools, artifacts, budget and size of the caches, and any calls of the    *)
(* model that overlap.                                                      *)
THEOREM ToolsSpeakTrue == ToolSpec => []ToolsTellTheTruth
BY ToolInv_Truth, ToolInv_Holds, PTL

-----------------------------------------------------------------------------
(* EvidencePack.                                                            *)

Given    == Cardinality(ToSet(Upstream))
Refs     == Nat \ {0}
Items    == [id : Refs, summary : Nat, content : Nat]
WorkNotes == [step : Steps, ref : Nat]
Warnings == {"workpad_snapshot_unavailable", "empty_evidence_ignored", "evidence_pack_budget_exhausted"}
Packs    ==
  [phase : {"none", "resolve", "built"}, refs : Seq(Refs), items : Seq(Items),
   warnings : SUBSET Warnings, empty : Nat, left : Nat, owed : SUBSET Nat]

PackTypes ==
  /\ artifacts \in Seq(Bodies) /\ Given <= Len(artifacts)
  /\ workpad \in Seq(WorkNotes) /\ \A k \in DOMAIN workpad : workpad[k].ref <= Len(artifacts)
  /\ writer \in [Steps -> Int]
  /\ \A s \in Steps : writer[s] = NotRecording \/ writer[s] \in 0 .. Len(artifacts)
  /\ pack \in Packs

\* upstream refers to it, or an entry of another step
IsEvidence(ref, pad) ==
  \/ \E i \in DOMAIN Upstream : Upstream[i] = ref
  \/ \E k \in DOMAIN pad : pad[k].ref = ref /\ pad[k].step # Author

RecordedIsThere ==
  \A ref \in recorded : ref \in Nat /\ \E k \in DOMAIN workpad : workpad[k].ref = ref /\ workpad[k].step # Author

WithinBudget(p) ==
  /\ p.left + Total(p.items) = ContextBudget.total
  /\ \A n \in DOMAIN p.items : Chars(p.items[n]) \in 1 .. ContextBudget.item

OfEvidence(p, pad) ==
  /\ \A n \in DOMAIN p.refs : IsEvidence(p.refs[n], pad)
  /\ \A n \in DOMAIN p.items : IsEvidence(p.items[n].id, pad)

Distinct(p) ==
  /\ \A m, n \in DOMAIN p.refs : p.refs[m] = p.refs[n] => m = n
  /\ \A m, n \in DOMAIN p.items : p.items[m].id = p.items[n].id => m = n
  /\ \A m \in DOMAIN p.refs, n \in DOMAIN p.items : p.refs[m] # p.items[n].id

InItems(ref, p) == \E n \in DOMAIN p.items : p.items[n].id = ref
InRefs(ref, p)  == \E n \in DOMAIN p.refs : p.refs[n] = ref

\* what is owed is in the pack, or comes, or something tells that it does not
Accounted(p) ==
  /\ p.phase = "none" => p.items = <<>>
  /\ p.phase = "resolve" =>
       (\A ref \in p.owed : InItems(ref, p) \/ InRefs(ref, p)) \/ p.warnings # {} \/ p.empty > 0
  /\ p.phase = "built" => (\A ref \in p.owed : InItems(ref, p)) \/ p.warnings # {}

PackIsSound(p, pad) == WithinBudget(p) /\ OfEvidence(p, pad) /\ Distinct(p) /\ Accounted(p)

PackInv == PackTypes /\ RecordedIsThere /\ PackIsSound(pack, workpad)

(* The artifacts of upstream are there from the start.                      *)
LEMMA UpstreamIsGiven ==
  /\ Given \in Nat /\ Upstream \in Seq(Nat)
  /\ \A i \in DOMAIN Upstream : Upstream[i] \in 1 .. Given
  /\ \A ref \in ToSet(Upstream) : \E i \in DOMAIN Upstream : Upstream[i] = ref
<1>1. Upstream \in Seq(Nat) /\ ToSet(Upstream) = 1 .. Given
  BY PackAssumption DEF Given
<1>2. ToSet(Upstream) = {Upstream[i] : i \in DOMAIN Upstream}
  BY DEF ToSet
<1>3. Len(Upstream) \in Nat /\ DOMAIN Upstream = 1 .. Len(Upstream)
  BY <1>1
<1>4. IsFiniteSet(DOMAIN Upstream)
  <2>1. IsFiniteSet(1 .. Len(Upstream))
    BY <1>3, FS_Interval
  <2>2. QED
    BY <1>3, <2>1
<1>5. IsFiniteSet(ToSet(Upstream))
  <2>1. Upstream \in Surjection(DOMAIN Upstream, ToSet(Upstream))
    BY <1>1, <1>2, <1>3 DEF Surjection
  <2>2. QED
    BY <1>4, <2>1, FS_Surjection
<1>6. Given \in Nat
  BY <1>5, FS_CardinalityType DEF Given
<1>7. QED
  BY <1>1, <1>2, <1>6

(* The first references: each once, none without an id, none left out.      *)
LEMMA DedupedIsOnceEach ==
  ASSUME NEW refs \in Seq(Nat)
  PROVE  /\ Deduped(refs) \in Seq(Refs)
         /\ \A i \in DOMAIN Deduped(refs) : \E n \in DOMAIN refs : refs[n] = Deduped(refs)[i]
         /\ \A i, j \in DOMAIN Deduped(refs) : Deduped(refs)[i] = Deduped(refs)[j] => i = j
         /\ \A n \in DOMAIN refs : refs[n] # NoRef => \E i \in DOMAIN Deduped(refs) : Deduped(refs)[i] = refs[n]
<1> DEFINE firsts == {n \in DOMAIN refs : refs[n] # NoRef /\ \A m \in 1 .. n - 1 : refs[m] # refs[n]}
           d == Deduped(refs)
           K == Len(d)
<1>0. d = Chosen(refs, firsts)
  BY DEF Deduped
<1>1. /\ Len(refs) \in Nat /\ DOMAIN refs = 1 .. Len(refs)
      /\ \A n \in firsts : n \in 1 .. Len(refs) /\ refs[n] # NoRef /\ \A m \in 1 .. n - 1 : refs[m] # refs[n]
      /\ \A n \in 1 .. Len(refs) : refs[n] # NoRef /\ (\A m \in 1 .. n - 1 : refs[m] # refs[n]) => n \in firsts
  OBVIOUS
<1> HIDE DEF firsts, d
<1>2. d \in Seq(Nat) /\ K \in Nat /\ DOMAIN d = 1 .. K
  <2>1. d \in Seq(Nat)
    BY <1>0, ChosenType
  <2>2. QED
    BY <2>1
<1>3. PICK at \in [1 .. K -> 1 .. Len(refs)] :
        /\ \A i \in 1 .. K : at[i] \in firsts /\ d[i] = refs[at[i]]
        /\ \A i, j \in 1 .. K : i < j => at[i] < at[j]
        /\ \A n \in 1 .. Len(refs) : n \in firsts => \E i \in 1 .. K : at[i] = n
  <2>1. \E at \in [1 .. Len(Chosen(refs, firsts)) -> 1 .. Len(refs)] :
           /\ \A i \in 1 .. Len(Chosen(refs, firsts)) :
                at[i] \in firsts /\ Chosen(refs, firsts)[i] = refs[at[i]]
           /\ \A i, j \in 1 .. Len(Chosen(refs, firsts)) : i < j => at[i] < at[j]
           /\ \A n \in 1 .. Len(refs) : n \in firsts =>
                \E i \in 1 .. Len(Chosen(refs, firsts)) : at[i] = n
    BY ChosenPlaces
  <2>2. QED
    BY <1>0, <2>1
<1> HIDE DEF K
<1>4. \A i \in 1 .. K : d[i] # NoRef /\ d[i] \in Nat
  BY <1>1, <1>2, <1>3
<1>5. d \in Seq(Refs)
  <2>1. \A i \in 1 .. K : d[i] \in Refs
    BY <1>4 DEF NoRef, Refs
  <2>2. d = [i \in 1 .. K |-> d[i]]
    BY <1>2
  <2>3. d \in [1 .. K -> Refs]
    BY <2>1, <2>2
  <2>4. QED
    BY <1>2, <2>3
<1>6. \A i, j \in 1 .. K : i < j => d[i] # d[j]
  <2> SUFFICES ASSUME NEW i \in 1 .. K, NEW j \in 1 .. K, i < j PROVE d[i] # d[j]
    OBVIOUS
  <2>1. at[i] < at[j] /\ at[i] \in Nat /\ at[j] \in Nat /\ at[i] >= 1
    BY <1>1, <1>3
  <2>2. at[i] \in 1 .. at[j] - 1
    BY <2>1
  <2>3. QED
    BY <1>1, <1>3, <2>2
<1>7. \A i, j \in 1 .. K : d[i] = d[j] => i = j
  <2> SUFFICES ASSUME NEW i \in 1 .. K, NEW j \in 1 .. K, d[i] = d[j] PROVE i = j
    OBVIOUS
  <2>1. ~(i < j) /\ ~(j < i)
    BY <1>6
  <2>2. i \in Int /\ j \in Int
    BY <1>2
  <2>3. QED
    BY <2>1, <2>2
<1>8. ASSUME NEW n \in 1 .. Len(refs), refs[n] # NoRef PROVE \E i \in 1 .. K : d[i] = refs[n]
  <2> DEFINE same == {m \in 1 .. Len(refs) : refs[m] = refs[n]}
  <2>1. same \subseteq Nat /\ same # {}
    BY <1>1
  <2>2. PICK m \in same : \A k \in same : ~(k < m)
    BY <2>1, LeastNumber
  <2>3. m \in 1 .. Len(refs) /\ refs[m] = refs[n]
    OBVIOUS
  <2>4. \A k \in 1 .. m - 1 : refs[k] # refs[m]
    <3> SUFFICES ASSUME NEW k \in 1 .. m - 1, refs[k] = refs[m] PROVE FALSE
      OBVIOUS
    <3>1. k \in 1 .. Len(refs) /\ k < m
      BY <1>1, <2>3
    <3>2. QED
      BY <2>2, <2>3, <3>1
  <2>5. m \in firsts
    BY <1>1, <1>8, <2>3, <2>4
  <2>6. QED
    BY <1>3, <2>3, <2>5
<1>9. QED
  BY <1>1, <1>2, <1>3, <1>5, <1>7, <1>8 DEF d

(* The references of the entries of other steps.                            *)
LEMMA RefsOfOthers ==
  ASSUME NEW entries \in Seq(WorkNotes)
  PROVE  /\ RefsOf(entries) \in Seq(Nat)
         /\ \A i \in DOMAIN RefsOf(entries) :
              \E k \in DOMAIN entries : entries[k].ref = RefsOf(entries)[i] /\ entries[k].step # Author
         /\ \A k \in DOMAIN entries : entries[k].step # Author =>
              \E i \in DOMAIN RefsOf(entries) : RefsOf(entries)[i] = entries[k].ref
<1> DEFINE fits == {n \in DOMAIN entries : entries[n].step # Author}
           others == Chosen(entries, fits)
           K == Len(others)
           refs == [n \in DOMAIN others |-> others[n].ref]
<1>0. RefsOf(entries) = refs
  BY DEF RefsOf
<1>1. /\ Len(entries) \in Nat /\ DOMAIN entries = 1 .. Len(entries)
      /\ \A n \in 1 .. Len(entries) : n \in fits <=> entries[n].step # Author
      /\ \A n \in 1 .. Len(entries) : entries[n] \in WorkNotes
  OBVIOUS
<1> HIDE DEF fits
<1>2. others \in Seq(WorkNotes) /\ K \in Nat /\ DOMAIN others = 1 .. K
  <2>1. others \in Seq(WorkNotes)
    BY ChosenType
  <2> HIDE DEF others
  <2>2. QED
    BY <2>1
<1>3. PICK at \in [1 .. K -> 1 .. Len(entries)] :
        /\ \A i \in 1 .. K : at[i] \in fits /\ others[i] = entries[at[i]]
        /\ \A i, j \in 1 .. K : i < j => at[i] < at[j]
        /\ \A n \in 1 .. Len(entries) : n \in fits => \E i \in 1 .. K : at[i] = n
  BY ChosenPlaces
<1> HIDE DEF others, K
<1>4. DOMAIN refs = 1 .. K /\ \A i \in 1 .. K : refs[i] = others[i].ref
  BY <1>2
<1>5. \A i \in 1 .. K : refs[i] \in Nat
  <2> SUFFICES ASSUME NEW i \in 1 .. K PROVE refs[i] \in Nat
    OBVIOUS
  <2>1. others[i] \in WorkNotes
    BY <1>2
  <2>2. QED
    BY <1>4, <2>1 DEF WorkNotes
<1>6. refs \in Seq(Nat)
  <2>1. refs = [i \in 1 .. K |-> refs[i]]
    BY <1>2
  <2> HIDE DEF refs
  <2>2. refs \in [1 .. K -> Nat]
    BY <1>5, <2>1
  <2>3. QED
    BY <1>2, <2>2
<1> HIDE DEF refs
<1>7. \A i \in 1 .. K : \E k \in 1 .. Len(entries) : entries[k].ref = refs[i] /\ entries[k].step # Author
  <2> SUFFICES ASSUME NEW i \in 1 .. K
               PROVE  \E k \in 1 .. Len(entries) : entries[k].ref = refs[i] /\ entries[k].step # Author
    OBVIOUS
  <2>1. at[i] \in 1 .. Len(entries) /\ refs[i] = entries[at[i]].ref /\ entries[at[i]].step # Author
    BY <1>1, <1>3, <1>4
  <2>2. QED
    BY <2>1
<1>8. \A k \in 1 .. Len(entries) : entries[k].step # Author => \E i \in 1 .. K : refs[i] = entries[k].ref
  <2> SUFFICES ASSUME NEW k \in 1 .. Len(entries), entries[k].step # Author
               PROVE  \E i \in 1 .. K : refs[i] = entries[k].ref
    OBVIOUS
  <2>1. PICK i \in 1 .. K : at[i] = k
    BY <1>1, <1>3
  <2>2. QED
    BY <1>3, <1>4, <2>1
<1>9. QED
  BY <1>0, <1>1, <1>4, <1>6, <1>7, <1>8

(* The first elements of a sequence.                                        *)
FirstOf(s, n) == SubSeq(s, 1, Min({Len(s), n}))

LEMMA FirstOnes ==
  ASSUME NEW T, NEW s \in Seq(T), NEW n \in Nat
  PROVE  /\ FirstOf(s, n) \in Seq(T)
         /\ \A i \in DOMAIN FirstOf(s, n) : i \in DOMAIN s /\ FirstOf(s, n)[i] = s[i]
         /\ Len(s) <= n => FirstOf(s, n) = s
<1> DEFINE k == Min({Len(s), n})
           front == SubSeq(s, 1, k)
<1>1. Len(s) \in Nat
  OBVIOUS
<1>2. k \in {Len(s), n} /\ k <= Len(s) /\ k <= n
  BY <1>1, SmallerOfTwo
<1>3. k \in Nat
  BY <1>1, <1>2
<1> HIDE DEF k
<1>4. front \in Seq(T) /\ Len(front) = k /\ \A i \in 1 .. k : front[i] = s[i]
  BY <1>1, <1>2, <1>3
<1>5. Len(s) <= n => k = Len(s)
  BY <1>1, <1>2, <1>3
<1>6. k = Len(s) => front = s
  <2> SUFFICES ASSUME k = Len(s) PROVE front = s
    OBVIOUS
  <2>1. front = [i \in 1 .. k |-> front[i]] /\ s = [i \in 1 .. k |-> s[i]]
    BY <1>4
  <2> HIDE DEF front
  <2>2. QED
    BY <1>4, <2>1
<1> HIDE DEF front
<1>7. \A i \in DOMAIN front : i \in 1 .. k /\ i \in DOMAIN s
  <2>1. DOMAIN front = 1 .. k /\ DOMAIN s = 1 .. Len(s)
    BY <1>4
  <2>2. \A i \in 1 .. k : i \in 1 .. Len(s)
    BY <1>1, <1>2, <1>3
  <2>3. QED
    BY <2>1, <2>2
<1>8. FirstOf(s, n) = front
  BY DEF front, k, FirstOf
<1>9. QED
  BY <1>4, <1>5, <1>6, <1>7, <1>8

(* The snapshot is a part of the workpad, or all of it.                     *)
LEMMA SnapshotIsOfWorkpad ==
  ASSUME workpad \in Seq(WorkNotes)
  PROVE  /\ Snapshot \in Seq(WorkNotes)
         /\ \A n \in DOMAIN Snapshot : \E k \in DOMAIN workpad : Snapshot[n] = workpad[k]
         /\ ~(Len(Snapshot) < Len(workpad)) => Snapshot = workpad
<1> DEFINE k == Min({Len(workpad), ContextBudget.entries})
           from == Len(workpad) - k
           snapshot == SubSeq(workpad, from + 1, Len(workpad))
<1>0. Snapshot = snapshot
  BY DEF Snapshot
<1>1. Len(workpad) \in Nat /\ ContextBudget.entries \in Nat
  BY PackAssumption
<1>2. k \in {Len(workpad), ContextBudget.entries} /\ k <= Len(workpad) /\ k <= ContextBudget.entries
  BY <1>1, SmallerOfTwo
<1>3. k \in Nat
  BY <1>1, <1>2
<1> HIDE DEF k
<1>4. from \in Nat /\ from + k = Len(workpad) /\ from <= Len(workpad)
  BY <1>1, <1>2, <1>3
<1> HIDE DEF from
<1>5. snapshot \in Seq(WorkNotes) /\ Len(snapshot) = k /\ \A i \in 1 .. k : snapshot[i] = workpad[from + i]
  BY <1>1, <1>3, <1>4
<1>6. k = Len(workpad) => snapshot = workpad
  <2> SUFFICES ASSUME k = Len(workpad) PROVE snapshot = workpad
    OBVIOUS
  <2>1. from = 0
    BY <1>1, <1>4
  <2>2. \A i \in 1 .. k : snapshot[i] = workpad[i]
    BY <1>5, <2>1
  <2>3. snapshot = [i \in 1 .. k |-> snapshot[i]] /\ workpad = [i \in 1 .. k |-> workpad[i]]
    BY <1>5
  <2> HIDE DEF snapshot
  <2>4. QED
    BY <2>2, <2>3
<1> HIDE DEF snapshot
<1>7. \A n \in DOMAIN snapshot : \E m \in DOMAIN workpad : snapshot[n] = workpad[m]
  <2> SUFFICES ASSUME NEW n \in 1 .. k PROVE \E m \in DOMAIN workpad : snapshot[n] = workpad[m]
    BY <1>5
  <2>1. from + n \in 1 .. Len(workpad)
    BY <1>1, <1>3, <1>4
  <2>2. QED
    BY <1>5, <2>1
<1>8. ~(k < Len(workpad)) => k = Len(workpad)
  BY <1>1, <1>2, <1>3
<1>9. QED
  BY <1>0, <1>5, <1>6, <1>7, <1>8

LEMMA PackInit_Inv == PackInit => PackInv
<1> SUFFICES ASSUME PackInit PROVE PackInv
  OBVIOUS
<1>1. Given \in Nat /\ artifacts \in [1 .. Given -> Bodies]
  BY UpstreamIsGiven DEF PackInit, Given
<1>2. artifacts \in Seq(Bodies) /\ Len(artifacts) = Given
  BY <1>1
<1>3. ContextBudget.total \in Nat
  BY PackAssumption
<1>4. /\ pack.phase = "none" /\ pack.refs = <<>> /\ pack.items = <<>> /\ pack.left = ContextBudget.total
      /\ pack.warnings = {} /\ pack.empty = 0 /\ pack.owed = {}
  BY DEF PackInit
<1>5. pack \in Packs
  BY <1>3 DEF PackInit, Packs
<1>6. PackTypes
  BY <1>1, <1>2, <1>5 DEF PackInit, PackTypes, NotRecording
<1>7. Total(<<>>) = 0
  <2>1. [n \in DOMAIN <<>> |-> Chars(<<>>[n])] = <<>>
    OBVIOUS
  <2>2. QED
    BY <2>1, SumType DEF Total
<1>8. PackIsSound(pack, workpad)
  BY <1>3, <1>4, <1>7 DEF PackIsSound, WithinBudget, OfEvidence, Distinct, Accounted
<1>9. RecordedIsThere
  BY DEF PackInit, RecordedIsThere
<1>10. QED
  BY <1>6, <1>8, <1>9 DEF PackInv

(* What stays when the workpad grows at its end.                            *)
LEMMA WorkpadGrows ==
  ASSUME PackInv, NEW s \in Steps, writer[s] # NotRecording
  PROVE  /\ WithEntry(s) \in Seq(WorkNotes)
         /\ \A k \in DOMAIN WithEntry(s) : WithEntry(s)[k].ref <= Len(artifacts)
         /\ \A k \in DOMAIN workpad : k \in DOMAIN WithEntry(s) /\ WithEntry(s)[k] = workpad[k]
         /\ \E k \in DOMAIN WithEntry(s) : WithEntry(s)[k].ref = writer[s] /\ WithEntry(s)[k].step = s
         /\ writer[s] \in Nat
<1> DEFINE note == [step |-> s, ref |-> writer[s]]
           grown == Append(workpad, note)
<1>0. WithEntry(s) = grown
  BY DEF WithEntry
<1>1. writer[s] \in 0 .. Len(artifacts) /\ workpad \in Seq(WorkNotes) /\ Len(artifacts) \in Nat
      /\ \A k \in DOMAIN workpad : workpad[k].ref <= Len(artifacts)
  BY DEF PackInv, PackTypes
<1>2. note \in WorkNotes /\ note.ref = writer[s] /\ note.step = s
  BY <1>1 DEF WorkNotes
<1> HIDE DEF note
<1>3. /\ grown \in Seq(WorkNotes) /\ Len(grown) = Len(workpad) + 1 /\ Len(workpad) \in Nat
      /\ grown[Len(workpad) + 1] = note
      /\ \A k \in 1 .. Len(workpad) : grown[k] = workpad[k]
      /\ DOMAIN workpad = 1 .. Len(workpad) /\ DOMAIN grown = 1 .. Len(workpad) + 1
  BY <1>1, <1>2
<1> HIDE DEF grown
<1>4. \A k \in 1 .. Len(workpad) + 1 : k = Len(workpad) + 1 \/ k \in 1 .. Len(workpad)
  BY <1>3
<1>5. \A k \in 1 .. Len(workpad) : k \in 1 .. Len(workpad) + 1
  BY <1>3
<1>6. Len(workpad) + 1 \in 1 .. Len(workpad) + 1
  BY <1>3
<1>7. note.ref <= Len(artifacts)
  BY <1>1, <1>2
<1>8. \A k \in DOMAIN grown : grown[k].ref <= Len(artifacts)
  BY <1>1, <1>3, <1>4, <1>7
<1>9. \E k \in DOMAIN grown : grown[k].ref = writer[s] /\ grown[k].step = s
  BY <1>2, <1>3, <1>6
<1>10. QED
  BY <1>0, <1>1, <1>3, <1>5, <1>8, <1>9

(* The steps before and between: the pack stays, the workpad may grow.      *)
LEMMA WritersKeepInv ==
  ASSUME PackInv, PackTypes', UNCHANGED pack,
         \A k \in DOMAIN workpad : k \in DOMAIN workpad' /\ workpad'[k] = workpad[k],
         \A ref \in recorded' \ recorded :
           ref \in Nat /\ \E k \in DOMAIN workpad' : workpad'[k].ref = ref /\ workpad'[k].step # Author
  PROVE  PackInv'
<1>1. \A ref : IsEvidence(ref, workpad) => IsEvidence(ref, workpad')
  BY DEF IsEvidence
<1>2. PackIsSound(pack, workpad')
  BY <1>1 DEF PackInv, PackIsSound, OfEvidence
<1>3. RecordedIsThere'
  <2> SUFFICES ASSUME NEW ref \in recorded'
               PROVE  ref \in Nat /\ \E k \in DOMAIN workpad' : workpad'[k].ref = ref /\ workpad'[k].step # Author
    BY DEF RecordedIsThere
  <2>1. CASE ref \in recorded
    BY <2>1 DEF PackInv, RecordedIsThere
  <2>2. CASE ref \notin recorded
    BY <2>2
  <2>3. QED
    BY <2>1, <2>2
<1>4. QED
  BY <1>2, <1>3 DEF PackInv

LEMMA CreateArtifact_Inv ==
  ASSUME PackInv, NEW s \in Steps, CreateArtifact(s) PROVE PackInv'
<1>1. PICK body \in Bodies : artifacts' = Append(artifacts, body)
  BY DEF CreateArtifact
<1>2. artifacts \in Seq(Bodies) /\ Given <= Len(artifacts) /\ Len(artifacts) \in Nat /\ Given \in Nat
  BY UpstreamIsGiven DEF PackInv, PackTypes
<1>3. artifacts' \in Seq(Bodies) /\ Len(artifacts') = Len(artifacts) + 1
  BY <1>1, <1>2
<1>4. /\ workpad' = workpad /\ recorded' = recorded /\ pack' = pack
      /\ \E said \in CreateAnswers(Len(artifacts')) : writer' = [writer EXCEPT ![s] = said]
  BY DEF CreateArtifact
<1>5. \A k \in DOMAIN workpad : workpad[k] \in WorkNotes /\ workpad[k].ref <= Len(artifacts)
  BY DEF PackInv, PackTypes
<1>6. \A k \in DOMAIN workpad : workpad[k].ref <= Len(artifacts) + 1
  BY <1>2, <1>5 DEF WorkNotes
<1>7. writer' \in [Steps -> Int] /\ \A t \in Steps : writer'[t] = NotRecording \/ writer'[t] \in 0 .. Len(artifacts')
  <2>1. writer \in [Steps -> Int] /\ \A t \in Steps : writer[t] = NotRecording \/ writer[t] \in 0 .. Len(artifacts)
    BY DEF PackInv, PackTypes
  <2>2. \A n \in 0 .. Len(artifacts) : n \in 0 .. Len(artifacts')
    BY <1>2, <1>3
  <2>3. PICK said \in {Len(artifacts'), NoRef, NotRecording} : writer' = [writer EXCEPT ![s] = said]
    BY <1>4 DEF CreateAnswers
  <2>4. said \in Int /\ (said = NotRecording \/ said \in 0 .. Len(artifacts'))
    BY <1>2, <1>3 DEF NoRef, NotRecording
  <2>5. QED
    BY <2>1, <2>2, <2>3, <2>4
<1>8. PackTypes'
  <2>1. Given <= Len(artifacts')
    BY <1>2, <1>3
  <2>2. QED
    BY <1>3, <1>4, <1>6, <1>7, <2>1 DEF PackInv, PackTypes
<1>9. QED
  BY <1>4, <1>8, WritersKeepInv

LEMMA RecordStep_Inv ==
  ASSUME PackInv, NEW s \in Steps, RecordFails(s) \/ RecordEntry(s) \/ StepDies(s) PROVE PackInv'
<1>1. /\ writer[s] # NotRecording /\ writer' = [writer EXCEPT ![s] = NotRecording]
      /\ workpad' = workpad \/ workpad' = WithEntry(s)
      /\ recorded' = recorded \/ (recorded' = NowRecorded(s) /\ workpad' = WithEntry(s))
      /\ UNCHANGED <<artifacts, pack>>
  BY DEF RecordFails, RecordEntry, StepDies
<1>2. /\ WithEntry(s) \in Seq(WorkNotes)
      /\ \A k \in DOMAIN WithEntry(s) : WithEntry(s)[k].ref <= Len(artifacts)
      /\ \A k \in DOMAIN workpad : k \in DOMAIN WithEntry(s) /\ WithEntry(s)[k] = workpad[k]
      /\ \E k \in DOMAIN WithEntry(s) : WithEntry(s)[k].ref = writer[s] /\ WithEntry(s)[k].step = s
      /\ writer[s] \in Nat
  BY <1>1, WorkpadGrows
<1>3. writer' \in [Steps -> Int] /\ \A t \in Steps : writer'[t] = NotRecording \/ writer'[t] \in 0 .. Len(artifacts)
  BY <1>1 DEF PackInv, PackTypes, NotRecording
<1>4. PackTypes'
  BY <1>1, <1>2, <1>3 DEF PackInv, PackTypes
<1>5. \A k \in DOMAIN workpad : k \in DOMAIN workpad' /\ workpad'[k] = workpad[k]
  BY <1>1, <1>2
<1>6. ASSUME NEW ref \in recorded' \ recorded
      PROVE  ref \in Nat /\ \E k \in DOMAIN workpad' : workpad'[k].ref = ref /\ workpad'[k].step # Author
  <2>1. ref = writer[s] /\ s # Author /\ workpad' = WithEntry(s)
    BY <1>1, <1>6 DEF NowRecorded
  <2>2. QED
    BY <1>2, <2>1
<1>7. QED
  BY <1>1, <1>4, <1>5, <1>6, WritersKeepInv

(* A pack that begins with the first of these references.                   *)
LEMMA StartPack_Inv ==
  ASSUME PackInv, pack.phase = "none", NEW refs \in Seq(Nat), NEW warnings \in SUBSET Warnings,
         NEW owed \in SUBSET Nat,
         StartPack(refs, warnings, owed), UNCHANGED <<artifacts, workpad, writer, recorded>>,
         \A n \in DOMAIN refs : IsEvidence(refs[n], workpad),
         (\A ref \in owed : \E n \in DOMAIN FoundRefs(refs) : FoundRefs(refs)[n] = ref) \/ warnings # {}
  PROVE  PackInv'
<1> DEFINE d == Deduped(refs)
           found == FoundRefs(refs)
<1>1. /\ d \in Seq(Refs) /\ \A i \in DOMAIN d : \E n \in DOMAIN refs : refs[n] = d[i]
      /\ \A i, j \in DOMAIN d : d[i] = d[j] => i = j
  BY DedupedIsOnceEach
<1>2. ContextBudget.refs \in Nat
  BY PackAssumption
<1> HIDE DEF d
<1>3. found = FirstOf(d, ContextBudget.refs)
  BY DEF FoundRefs, FirstOf, d
<1>4. /\ found \in Seq(Refs)
      /\ \A i \in DOMAIN found : i \in DOMAIN d /\ found[i] = d[i]
  <2> HIDE DEF found
  <2>1. QED
    BY <1>1, <1>2, <1>3, FirstOnes
<1>5. /\ pack'.phase = "resolve" /\ pack'.refs = found /\ pack'.warnings = warnings /\ pack'.owed = owed
      /\ pack'.items = pack.items /\ pack'.left = pack.left /\ pack'.empty = pack.empty /\ pack' \in Packs
  BY <1>4 DEF StartPack, PackInv, PackTypes, Packs
<1> HIDE DEF found
<1>6. pack.items = <<>>
  BY DEF PackInv, PackIsSound, Accounted
<1>7. WithinBudget(pack')
  BY <1>5 DEF PackInv, PackIsSound, WithinBudget
<1>8. OfEvidence(pack', workpad)
  <2>1. \A i \in DOMAIN found : IsEvidence(found[i], workpad)
    BY <1>1, <1>4
  <2>2. QED
    BY <1>5, <1>6, <2>1 DEF OfEvidence
<1>9. Distinct(pack')
  <2>1. \A i, j \in DOMAIN found : found[i] = found[j] => i = j
    BY <1>1, <1>4
  <2>2. QED
    BY <1>5, <1>6, <2>1 DEF Distinct
<1>10. Accounted(pack')
  BY <1>5 DEF Accounted, InRefs, found
<1>11. QED
  BY <1>5, <1>7, <1>8, <1>9, <1>10 DEF PackInv, PackTypes, RecordedIsThere, PackIsSound

LEMMA TakeSnapshot_Inv == PackInv /\ TakeSnapshot => PackInv'
<1> SUFFICES ASSUME PackInv, TakeSnapshot PROVE PackInv'
  OBVIOUS
<1>1. /\ pack.phase = "none" /\ UNCHANGED <<artifacts, workpad, writer, recorded>>
      /\ workpad \in Seq(WorkNotes) /\ RecordedIsThere
  BY DEF TakeSnapshot, PackInv, PackTypes
<1>2. /\ Upstream \in Seq(Nat) /\ Given \in Nat /\ Len(Upstream) \in Nat /\ DOMAIN Upstream = 1 .. Len(Upstream)
      /\ \A i \in DOMAIN Upstream : Upstream[i] \in 1 .. Given
      /\ \A ref \in ToSet(Upstream) : \E i \in DOMAIN Upstream : Upstream[i] = ref
  BY UpstreamIsGiven
<1>3. \A i \in DOMAIN Upstream : IsEvidence(Upstream[i], workpad)
  BY DEF IsEvidence
<1>4. CASE StartPack(Upstream, {"workpad_snapshot_unavailable"}, {})
  <2>1. {"workpad_snapshot_unavailable"} \in SUBSET Warnings /\ {} \in SUBSET Nat
    BY DEF Warnings
  <2>2. QED
    BY <1>1, <1>2, <1>3, <1>4, <2>1, StartPack_Inv
<1> DEFINE others == RefsOf(Snapshot)
           refs == others \o Upstream
           owed == Owed(refs, Snapshot)
<1>5. CASE StartPack(refs, {}, owed)
  <2>1. /\ Snapshot \in Seq(WorkNotes)
        /\ \A n \in DOMAIN Snapshot : \E k \in DOMAIN workpad : Snapshot[n] = workpad[k]
        /\ ~(Len(Snapshot) < Len(workpad)) => Snapshot = workpad
    BY <1>1, SnapshotIsOfWorkpad
  <2>2. /\ others \in Seq(Nat)
        /\ \A i \in DOMAIN others :
             \E k \in DOMAIN Snapshot : Snapshot[k].ref = others[i] /\ Snapshot[k].step # Author
        /\ \A k \in DOMAIN Snapshot : Snapshot[k].step # Author =>
             \E i \in DOMAIN others : others[i] = Snapshot[k].ref
    BY <2>1, RefsOfOthers
  <2> HIDE DEF others
  <2>3. Len(others) \in Nat /\ DOMAIN others = 1 .. Len(others)
    BY <2>2
  <2>4. /\ refs \in Seq(Nat) /\ Len(refs) = Len(others) + Len(Upstream)
        /\ \A i \in 1 .. Len(others) : refs[i] = others[i]
        /\ \A i \in 1 .. Len(Upstream) : refs[Len(others) + i] = Upstream[i]
    BY <1>2, <2>2, <2>3
  <2>5. DOMAIN refs = 1 .. Len(others) + Len(Upstream)
    BY <2>4
  <2> HIDE DEF refs
  <2>6. /\ \A i \in 1 .. Len(others) : i \in DOMAIN refs
        /\ \A i \in 1 .. Len(Upstream) : Len(others) + i \in DOMAIN refs
        /\ \A n \in DOMAIN refs : n \in 1 .. Len(others) \/ (n - Len(others) \in 1 .. Len(Upstream)
                                    /\ n = Len(others) + (n - Len(others)))
    BY <1>2, <2>3, <2>5
  <2>7. \A i \in DOMAIN others : IsEvidence(others[i], workpad)
    <3> SUFFICES ASSUME NEW i \in DOMAIN others PROVE IsEvidence(others[i], workpad)
      OBVIOUS
    <3>1. PICK k \in DOMAIN Snapshot : Snapshot[k].ref = others[i] /\ Snapshot[k].step # Author
      BY <2>2
    <3>2. PICK m \in DOMAIN workpad : Snapshot[k] = workpad[m]
      BY <2>1
    <3>3. QED
      BY <3>1, <3>2 DEF IsEvidence
  <2>8. \A n \in DOMAIN refs : IsEvidence(refs[n], workpad)
    <3> SUFFICES ASSUME NEW n \in DOMAIN refs PROVE IsEvidence(refs[n], workpad)
      OBVIOUS
    <3>1. CASE n \in 1 .. Len(others)
      BY <2>3, <2>4, <2>7, <3>1
    <3>2. CASE n - Len(others) \in 1 .. Len(Upstream) /\ n = Len(others) + (n - Len(others))
      <4>1. refs[n] = Upstream[n - Len(others)]
        BY <2>4, <3>2
      <4>2. QED
        BY <1>2, <1>3, <3>2, <4>1
    <3>3. QED
      BY <2>6, <3>1, <3>2
  <2>9. owed \in SUBSET Nat
    BY <1>1, <1>2 DEF Owed, RecordedIsThere
  <2>10. \A ref \in owed : \E n \in DOMAIN FoundRefs(refs) : FoundRefs(refs)[n] = ref
    <3> SUFFICES ASSUME NEW ref \in owed PROVE \E n \in DOMAIN FoundRefs(refs) : FoundRefs(refs)[n] = ref
      OBVIOUS
    <3>1. /\ ~(Len(Snapshot) < Len(workpad)) /\ ~(Len(Deduped(refs)) > ContextBudget.refs)
          /\ ref \in (recorded \ {NoRef}) \cup ToSet(Upstream)
      BY DEF Owed
    <3>2. /\ Deduped(refs) \in Seq(Refs)
          /\ \A n \in DOMAIN refs : refs[n] # NoRef => \E i \in DOMAIN Deduped(refs) : Deduped(refs)[i] = refs[n]
      BY <2>4, DedupedIsOnceEach
    <3>3. FoundRefs(refs) = Deduped(refs)
      <4>1. ContextBudget.refs \in Nat /\ Len(Deduped(refs)) \in Nat
        BY <3>2, PackAssumption
      <4>2. Len(Deduped(refs)) <= ContextBudget.refs
        BY <3>1, <4>1
      <4>3. QED
        BY <3>2, <4>1, <4>2, FirstOnes DEF FoundRefs, FirstOf
    <3>4. ref # NoRef /\ \E n \in DOMAIN refs : refs[n] = ref
      <4>1. CASE ref \in recorded \ {NoRef}
        <5>1. PICK k \in DOMAIN workpad : workpad[k].ref = ref /\ workpad[k].step # Author
          BY <1>1, <4>1 DEF RecordedIsThere
        <5>2. PICK i \in DOMAIN others : others[i] = ref
          BY <2>1, <2>2, <3>1, <5>1
        <5>3. refs[i] = ref /\ i \in DOMAIN refs
          BY <2>3, <2>4, <2>6, <5>2
        <5>4. QED
          BY <4>1, <5>3
      <4>2. CASE ref \in ToSet(Upstream)
        <5>1. PICK i \in DOMAIN Upstream : Upstream[i] = ref
          BY <1>2, <4>2
        <5>2. refs[Len(others) + i] = ref /\ Len(others) + i \in DOMAIN refs /\ ref \in 1 .. Given
          BY <1>2, <2>4, <2>6, <5>1
        <5>3. ref # NoRef
          BY <1>2, <5>2 DEF NoRef
        <5>4. QED
          BY <5>2, <5>3
      <4>3. QED
        BY <3>1, <4>1, <4>2
    <3>5. QED
      BY <3>2, <3>3, <3>4
  <2>11. {} \in SUBSET Warnings
    OBVIOUS
  <2> HIDE DEF owed
  <2>12. QED
    BY <1>1, <1>5, <2>4, <2>8, <2>9, <2>10, <2>11, StartPack_Inv
<1>6. QED
  BY <1>4, <1>5 DEF TakeSnapshot

(* What a reference gives is no longer than what is asked for.              *)
LEMMA ItemIsWithinBudget ==
  ASSUME PackInv, NEW ref \in Refs, ref <= Len(artifacts), NEW maximum \in Nat,
         NEW item \in Resolved(ref, maximum)
  PROVE  item \in Items /\ item.id = ref /\ Chars(item) \in 0 .. maximum
<1>1. artifacts \in Seq(Bodies) /\ ref \in 1 .. Len(artifacts)
  BY DEF PackInv, PackTypes, Refs
<1>2. artifacts[ref] \in [summary : Nat, content : Nat]
  BY <1>1, PackAssumption
<1> DEFINE lengths(n) == {0, Min({n, maximum})}
<1>3. item \in [id : {ref}, summary : lengths(artifacts[ref].summary), content : lengths(artifacts[ref].content)]
  BY DEF Resolved
<1>4. \A n \in Nat : lengths(n) \subseteq 0 .. maximum
  <2> SUFFICES ASSUME NEW n \in Nat PROVE lengths(n) \subseteq 0 .. maximum
    OBVIOUS
  <2>1. Min({n, maximum}) \in {n, maximum} /\ Min({n, maximum}) <= maximum
    BY SmallerOfTwo
  <2>2. QED
    BY <2>1
<1> HIDE DEF lengths
<1>5. artifacts[ref].summary \in Nat /\ artifacts[ref].content \in Nat
  BY <1>2
<1>6. item.id = ref /\ item.summary \in 0 .. maximum /\ item.content \in 0 .. maximum
      /\ item = [id |-> item.id, summary |-> item.summary, content |-> item.content]
  BY <1>3, <1>4, <1>5
<1>7. item \in Items
  BY <1>6 DEF Items
<1>8. QED
  BY <1>6, <1>7 DEF Chars

LEMMA TotalGrows ==
  ASSUME NEW items \in Seq(Items), NEW item \in Items
  PROVE  Total(Append(items, item)) = Total(items) + Chars(item) /\ Total(items) \in Nat /\ Chars(item) \in Nat
<1> DEFINE lengths == [n \in DOMAIN items |-> Chars(items[n])]
           more == Append(items, item)
<1>1. \A x \in Items : Chars(x) \in Nat
  BY DEF Chars, Items
<1>2. Len(items) \in Nat /\ DOMAIN items = 1 .. Len(items) /\ \A n \in 1 .. Len(items) : items[n] \in Items
  OBVIOUS
<1>3. lengths \in Seq(Nat) /\ Len(lengths) = Len(items)
  <2>1. lengths \in [1 .. Len(items) -> Nat]
    BY <1>1, <1>2
  <2> HIDE DEF lengths
  <2>2. QED
    BY <1>2, <2>1
<1>4. [n \in DOMAIN more |-> Chars(more[n])] = Append(lengths, Chars(item))
  <2>1. DOMAIN more = 1 .. Len(items) + 1 /\ more[Len(items) + 1] = item
        /\ \A n \in 1 .. Len(items) : more[n] = items[n]
    BY <1>2
  <2> HIDE DEF more
  <2> DEFINE left == [n \in DOMAIN more |-> Chars(more[n])]
             right == Append(lengths, Chars(item))
  <2>2. /\ Len(right) = Len(items) + 1 /\ right \in Seq(Nat)
        /\ right[Len(items) + 1] = Chars(item)
        /\ \A n \in 1 .. Len(items) : right[n] = lengths[n]
    <3> HIDE DEF lengths
    <3>1. Chars(item) \in Nat
      BY <1>1
    <3>2. QED
      BY <1>2, <1>3, <3>1
  <2>3. right = [n \in 1 .. Len(items) + 1 |-> right[n]]
    <3> HIDE DEF right
    <3>1. QED
      BY <1>2, <2>2
  <2>4. \A n \in 1 .. Len(items) : lengths[n] = Chars(items[n])
    BY <1>2
  <2> HIDE DEF right, lengths
  <2>5. \A n \in 1 .. Len(items) + 1 : Chars(more[n]) = right[n]
    <3> SUFFICES ASSUME NEW n \in 1 .. Len(items) + 1 PROVE Chars(more[n]) = right[n]
      OBVIOUS
    <3>1. CASE n = Len(items) + 1
      BY <2>1, <2>2, <3>1
    <3>2. CASE n \in 1 .. Len(items)
      BY <2>1, <2>2, <2>4, <3>2
    <3>3. QED
      BY <1>2, <3>1, <3>2
  <2>6. left = right
    BY <2>1, <2>3, <2>5
  <2>7. QED
    BY <2>6 DEF right
<1> HIDE DEF lengths, more
<1>5. Sum(Append(lengths, Chars(item))) = Sum(lengths) + Chars(item) /\ Sum(lengths) \in Nat
  BY <1>1, <1>3, SumAppend, SumType
<1>6. QED
  BY <1>1, <1>4, <1>5 DEF Total, lengths, more

LEMMA ResolveRef_Inv == PackInv /\ ResolveRef => PackInv'
<1> SUFFICES ASSUME PackInv, ResolveRef PROVE PackInv'
  OBVIOUS
<1> DEFINE ref == Head(pack.refs)
           rest == Tail(pack.refs)
           maximum == Min({ContextBudget.item, pack.left})
<1>0. /\ pack \in Packs /\ PackIsSound(pack, workpad) /\ pack.phase = "resolve" /\ pack.left > 0
      /\ pack.refs \in Seq(Refs) /\ pack.refs # <<>> /\ pack.items \in Seq(Items)
      /\ pack.left \in Nat /\ pack.empty \in Nat
      /\ UNCHANGED <<artifacts, workpad, writer, recorded>>
  BY DEF PackInv, PackTypes, Packs, ResolveRef
<1>1. /\ ref \in Refs /\ rest \in Seq(Refs) /\ ref = pack.refs[1] /\ 1 \in DOMAIN pack.refs
      /\ \A n \in DOMAIN rest : n + 1 \in DOMAIN pack.refs /\ rest[n] = pack.refs[n + 1] /\ n + 1 # 1 /\ n \in Nat
      /\ \A n \in DOMAIN pack.refs : n = 1 \/ (n - 1 \in DOMAIN rest /\ pack.refs[n] = rest[n - 1])
  <2> DEFINE r == pack.refs
  <2>1. r \in Seq(Refs) /\ r # <<>>
    BY <1>0
  <2> HIDE DEF r
  <2>2. Len(r) \in Nat /\ Len(r) >= 1 /\ DOMAIN r = 1 .. Len(r)
    BY <2>1
  <2>3. Head(r) = r[1] /\ Tail(r) \in Seq(Refs) /\ Len(Tail(r)) = Len(r) - 1
        /\ \A n \in 1 .. Len(r) - 1 : Tail(r)[n] = r[n + 1]
    BY <2>1, <2>2
  <2>4. DOMAIN Tail(r) = 1 .. Len(r) - 1
    BY <2>2, <2>3
  <2>5. r[1] \in Refs
    BY <2>1, <2>2
  <2>6. \A n \in 1 .. Len(r) - 1 : n + 1 \in 1 .. Len(r) /\ n + 1 # 1 /\ n \in Nat
    BY <2>2
  <2>7. \A n \in 1 .. Len(r) : n = 1 \/ (n - 1 \in 1 .. Len(r) - 1 /\ (n - 1) + 1 = n)
    BY <2>2
  <2>8. QED
    BY <2>2, <2>3, <2>4, <2>5, <2>6, <2>7 DEF r
<1>2. IsEvidence(ref, workpad)
  BY <1>0, <1>1 DEF PackIsSound, OfEvidence
<1>3. ref <= Len(artifacts)
  <2>1. CASE \E i \in DOMAIN Upstream : Upstream[i] = ref
    <3>1. ref \in 1 .. Given /\ Given \in Nat /\ Given <= Len(artifacts) /\ Len(artifacts) \in Nat
      BY <2>1, UpstreamIsGiven DEF PackInv, PackTypes
    <3>2. QED
      BY <3>1
  <2>2. CASE \E k \in DOMAIN workpad : workpad[k].ref = ref
    BY <2>2 DEF PackInv, PackTypes
  <2>3. QED
    BY <1>2, <2>1, <2>2 DEF IsEvidence
<1>4. maximum \in Nat /\ maximum <= ContextBudget.item /\ maximum <= pack.left /\ ContextBudget.item \in Nat
  <2>1. ContextBudget.item \in Nat
    BY PackAssumption
  <2>2. QED
    BY <1>0, <2>1, SmallerOfTwo
<1> HIDE DEF maximum
<1>5. PICK item \in Resolved(ref, maximum) :
        pack' = IF Chars(item) = 0
                THEN [pack EXCEPT !.refs = rest, !.empty = @ + 1]
                ELSE [pack EXCEPT !.refs = rest, !.items = Append(@, item), !.left = @ - Chars(item)]
  BY DEF ResolveRef, maximum
<1>6. item \in Items /\ item.id = ref /\ Chars(item) \in 0 .. maximum
  BY <1>1, <1>3, <1>4, ItemIsWithinBudget
<1> HIDE DEF ref, rest
<1>7. /\ \A n \in DOMAIN rest : IsEvidence(rest[n], workpad)
      /\ \A m, n \in DOMAIN rest : rest[m] = rest[n] => m = n
      /\ \A m \in DOMAIN rest, n \in DOMAIN pack.items : rest[m] # pack.items[n].id
      /\ \A m \in DOMAIN rest : rest[m] # ref
      /\ \A n \in DOMAIN pack.items : pack.items[n].id # ref
      /\ \A x : InRefs(x, pack) => x = ref \/ \E n \in DOMAIN rest : rest[n] = x
  <2>1. /\ \A n \in DOMAIN pack.refs : IsEvidence(pack.refs[n], workpad)
        /\ \A m, n \in DOMAIN pack.refs : pack.refs[m] = pack.refs[n] => m = n
        /\ \A m \in DOMAIN pack.refs, n \in DOMAIN pack.items : pack.refs[m] # pack.items[n].id
    BY <1>0 DEF PackIsSound, OfEvidence, Distinct
  <2>2. \A m, n \in DOMAIN rest : rest[m] = rest[n] => m = n
    <3> SUFFICES ASSUME NEW m \in DOMAIN rest, NEW n \in DOMAIN rest, rest[m] = rest[n] PROVE m = n
      OBVIOUS
    <3>1. m + 1 = n + 1 /\ m \in Nat /\ n \in Nat
      BY <1>1, <2>1
    <3>2. QED
      BY <3>1
  <2>3. QED
    BY <1>1, <2>1, <2>2 DEF InRefs
<1>8. CASE Chars(item) = 0
  <2>1. /\ pack' \in Packs /\ pack'.refs = rest /\ pack'.empty = pack.empty + 1 /\ pack'.phase = "resolve"
        /\ pack'.items = pack.items /\ pack'.left = pack.left
    <3>1. pack' = [pack EXCEPT !.refs = rest, !.empty = pack.empty + 1]
      BY <1>5, <1>8
    <3>2. pack.empty + 1 \in Nat
      BY <1>0
    <3>3. QED
      BY <1>0, <1>1, <3>1, <3>2 DEF Packs
  <2>2. pack'.empty > 0
    BY <1>0, <2>1
  <2>3. WithinBudget(pack') /\ OfEvidence(pack', workpad) /\ Distinct(pack')
    BY <1>0, <1>7, <2>1 DEF PackIsSound, WithinBudget, OfEvidence, Distinct
  <2>4. Accounted(pack')
    BY <2>1, <2>2 DEF Accounted
  <2>5. QED
    BY <1>0, <2>1, <2>3, <2>4 DEF PackInv, PackTypes, RecordedIsThere, PackIsSound
<1>9. CASE Chars(item) # 0
  <2> DEFINE more == Append(pack.items, item)
             left == pack.left - Chars(item)
  <2>1. /\ more \in Seq(Items) /\ Len(more) = Len(pack.items) + 1 /\ Len(pack.items) \in Nat
        /\ more[Len(pack.items) + 1] = item
        /\ \A n \in 1 .. Len(pack.items) : more[n] = pack.items[n]
        /\ DOMAIN more = 1 .. Len(pack.items) + 1 /\ DOMAIN pack.items = 1 .. Len(pack.items)
    BY <1>0, <1>6
  <2>2. \A n \in DOMAIN more : (n = Len(pack.items) + 1 /\ more[n] = item)
                               \/ (n \in DOMAIN pack.items /\ more[n] = pack.items[n])
    BY <2>1
  <2>3. Total(more) = Total(pack.items) + Chars(item) /\ Total(pack.items) \in Nat
    BY <1>0, <1>6, TotalGrows
  <2> HIDE DEF more
  <2>4. left \in Nat /\ left + Chars(item) = pack.left
    BY <1>0, <1>4, <1>6
  <2>5. /\ pack'.refs = rest /\ pack'.items = more /\ pack'.left = left /\ pack'.phase = "resolve"
        /\ pack'.owed = pack.owed /\ pack'.warnings = pack.warnings /\ pack'.empty = pack.empty
        /\ pack' \in Packs
    <3>1. pack' = [pack EXCEPT !.refs = rest, !.items = more, !.left = left]
      BY <1>5, <1>9 DEF more
    <3> HIDE DEF left
    <3>2. QED
      BY <1>0, <1>1, <2>1, <2>4, <3>1 DEF Packs
  <2> HIDE DEF left
  <2>6. WithinBudget(pack')
    <3>1. Chars(item) \in 1 .. ContextBudget.item
      BY <1>4, <1>6, <1>9
    <3>2. \A n \in DOMAIN more : Chars(more[n]) \in 1 .. ContextBudget.item
      BY <1>0, <2>2, <3>1 DEF PackIsSound, WithinBudget
    <3>3. pack.left + Total(pack.items) = ContextBudget.total
      BY <1>0 DEF PackIsSound, WithinBudget
    <3>4. Chars(item) \in Nat
      BY <1>4, <1>6
    <3>5. left + Total(more) = ContextBudget.total
      BY <2>3, <2>4, <3>3, <3>4
    <3>6. QED
      BY <2>5, <3>2, <3>5 DEF WithinBudget
  <2>7. OfEvidence(pack', workpad)
    <3>1. \A n \in DOMAIN more : IsEvidence(more[n].id, workpad)
      BY <1>0, <1>2, <1>6, <2>2 DEF PackIsSound, OfEvidence
    <3>2. QED
      BY <1>7, <2>5, <3>1 DEF OfEvidence
  <2>8. Distinct(pack')
    <3>1. \A m, n \in DOMAIN more : more[m].id = more[n].id => m = n
      BY <1>0, <1>6, <1>7, <2>2 DEF PackIsSound, Distinct
    <3>2. \A m \in DOMAIN rest, n \in DOMAIN more : rest[m] # more[n].id
      BY <1>6, <1>7, <2>2
    <3>3. QED
      BY <1>7, <2>5, <3>1, <3>2 DEF Distinct
  <2>9. Accounted(pack')
    <3>1. \A x : InItems(x, pack) => InItems(x, pack')
      <4> SUFFICES ASSUME NEW n \in DOMAIN pack.items
                   PROVE  n \in DOMAIN more /\ more[n].id = pack.items[n].id
        BY <2>5 DEF InItems
      <4>1. n \in 1 .. Len(pack.items) /\ n \in 1 .. Len(pack.items) + 1
        BY <2>1
      <4>2. QED
        BY <2>1, <4>1
    <3>2. InItems(ref, pack')
      <4>1. Len(pack.items) + 1 \in DOMAIN more
        BY <2>1
      <4>2. QED
        BY <1>6, <2>1, <2>5, <4>1 DEF InItems
    <3>3. \A x : InRefs(x, pack) => InRefs(x, pack') \/ InItems(x, pack')
      BY <1>7, <2>5, <3>2 DEF InRefs
    <3>4. (\A x \in pack.owed : InItems(x, pack) \/ InRefs(x, pack)) \/ pack.warnings # {} \/ pack.empty > 0
      BY <1>0 DEF PackIsSound, Accounted
    <3>5. QED
      BY <2>5, <3>1, <3>3, <3>4 DEF Accounted
  <2>10. QED
    BY <1>0, <2>5, <2>6, <2>7, <2>8, <2>9 DEF PackInv, PackTypes, RecordedIsThere, PackIsSound
<1>10. QED
  BY <1>8, <1>9

LEMMA FinishPack_Inv == PackInv /\ FinishPack => PackInv'
<1> SUFFICES ASSUME PackInv, FinishPack PROVE PackInv'
  OBVIOUS
<1>1. /\ pack \in Packs /\ PackIsSound(pack, workpad) /\ pack.phase = "resolve"
      /\ UNCHANGED <<artifacts, workpad, writer, recorded>>
  BY DEF PackInv, PackTypes, FinishPack
<1>2. PICK warnings \in {{}, {"evidence_pack_budget_exhausted"}} :
        /\ Finished(warnings)
        /\ warnings = {} => pack.refs = <<>>
  BY DEF FinishPack
<1> DEFINE all == pack.warnings \cup warnings \cup (IF pack.empty > 0 THEN {"empty_evidence_ignored"} ELSE {})
<1>3. pack' = [pack EXCEPT !.phase = "built", !.warnings = all]
  BY <1>2 DEF Finished
<1>4. all \subseteq Warnings
  BY <1>1, <1>2 DEF Packs, Warnings
<1>5. /\ pack.empty > 0 => all # {}
      /\ pack.warnings # {} => all # {}
      /\ warnings # {} => all # {}
  OBVIOUS
<1> HIDE DEF all
<1>6. /\ pack' \in Packs /\ pack'.phase = "built" /\ pack'.warnings = all /\ pack'.refs = pack.refs
      /\ pack'.items = pack.items /\ pack'.left = pack.left /\ pack'.owed = pack.owed
  BY <1>1, <1>3, <1>4 DEF Packs
<1>7. WithinBudget(pack') /\ OfEvidence(pack', workpad) /\ Distinct(pack')
  BY <1>1, <1>6 DEF PackIsSound, WithinBudget, OfEvidence, Distinct
<1>8. Accounted(pack')
  <2>1. (\A x \in pack.owed : InItems(x, pack) \/ InRefs(x, pack)) \/ all # {}
    BY <1>1, <1>5 DEF PackIsSound, Accounted
  <2>2. pack.refs = <<>> => \A x : ~InRefs(x, pack)
    BY DEF InRefs
  <2>3. (\A x \in pack.owed : InItems(x, pack)) \/ all # {}
    BY <1>2, <1>5, <2>1, <2>2
  <2>4. QED
    BY <1>6, <2>3 DEF Accounted, InItems
<1>9. QED
  BY <1>1, <1>6, <1>7, <1>8 DEF PackInv, PackTypes, RecordedIsThere, PackIsSound

LEMMA PackStep == PackInv /\ [PackNext]_packVars => PackInv'
<1> SUFFICES ASSUME PackInv, [PackNext]_packVars PROVE PackInv'
  OBVIOUS
<1>1. ASSUME NEW s \in Steps, CreateArtifact(s) PROVE PackInv'
  BY <1>1, CreateArtifact_Inv
<1>2. ASSUME NEW s \in Steps, RecordFails(s) \/ RecordEntry(s) \/ StepDies(s) PROVE PackInv'
  BY <1>2, RecordStep_Inv
<1>3. CASE TakeSnapshot \/ ResolveRef \/ FinishPack
  BY <1>3, TakeSnapshot_Inv, ResolveRef_Inv, FinishPack_Inv
<1>4. CASE UNCHANGED packVars
  BY <1>4 DEF packVars, PackInv, PackTypes, RecordedIsThere
<1>5. QED
  BY <1>1, <1>2, <1>3, <1>4 DEF PackNext

LEMMA PackInv_Holds == PackSpec => []PackInv
BY PackInit_Inv, PackStep, PTL DEF PackSpec

LEMMA PackInv_Types == PackInv => PackTypeOK
<1> SUFFICES ASSUME PackInv PROVE PackTypeOK
  OBVIOUS
<1>1. \A n \in DOMAIN artifacts : artifacts[n] \in Bodies
  BY DEF PackInv, PackTypes
<1>2. Len(artifacts) \in Nat
  BY DEF PackInv, PackTypes
<1>3. ASSUME NEW n \in DOMAIN workpad PROVE workpad[n].step \in Steps /\ workpad[n].ref \in 0 .. Len(artifacts)
  <2>1. workpad[n] \in WorkNotes /\ workpad[n].ref <= Len(artifacts)
    BY DEF PackInv, PackTypes
  <2>2. QED
    BY <1>2, <2>1 DEF WorkNotes
<1>4. writer \in [Steps -> {NotRecording} \cup 0 .. Len(artifacts)]
  BY DEF PackInv, PackTypes
<1>5. pack.phase \in {"none", "resolve", "built"}
  BY DEF PackInv, PackTypes, Packs
<1>6. QED
  BY <1>1, <1>3, <1>4, <1>5 DEF PackTypeOK

LEMMA PackInv_Accounts == PackInv => PackAccountsForEvidence
<1> SUFFICES ASSUME PackInv, pack.phase = "built" PROVE PackAccountsForEvidence
  BY DEF PackAccountsForEvidence
<1>1. PackIsSound(pack, workpad) /\ pack.left \in Nat /\ pack.items \in Seq(Items)
  BY DEF PackInv, PackTypes, Packs
<1>2. Total(pack.items) <= ContextBudget.total
  <2>1. pack.left + Total(pack.items) = ContextBudget.total
    BY <1>1 DEF PackIsSound, WithinBudget
  <2>2. Total(pack.items) \in Nat
    <3>1. [id |-> 1, summary |-> 0, content |-> 0] \in Items
      BY DEF Items, Refs
    <3>2. QED
      BY <1>1, <3>1, TotalGrows
  <2>3. QED
    BY <1>1, <2>1, <2>2
<1>3. ASSUME NEW n \in DOMAIN pack.items
      PROVE  /\ Chars(pack.items[n]) \in 1 .. ContextBudget.item
             /\ \A m \in DOMAIN pack.items : pack.items[m].id = pack.items[n].id => m = n
             /\ \/ Contains(Upstream, pack.items[n].id)
                \/ \E k \in DOMAIN workpad : workpad[k].ref = pack.items[n].id /\ workpad[k].step # Author
  <2>1. IsEvidence(pack.items[n].id, workpad)
    BY <1>1 DEF PackIsSound, OfEvidence
  <2>2. DOMAIN Upstream = 1 .. Len(Upstream)
    BY UpstreamIsGiven
  <2>3. QED
    BY <1>1, <2>1, <2>2 DEF PackIsSound, WithinBudget, Distinct, IsEvidence, Contains
<1>4. pack.owed \subseteq {pack.items[n].id : n \in DOMAIN pack.items} \/ pack.warnings # {}
  BY <1>1 DEF PackIsSound, Accounted, InItems
<1>5. QED
  BY <1>2, <1>3, <1>4 DEF PackAccountsForEvidence

(* The variables of the workpads and the pack keep their types.             *)
THEOREM PackTypeCorrect == PackSpec => []PackTypeOK
BY PackInv_Types, PackInv_Holds, PTL

(* A pack keeps its budgets, holds nothing but evidence that was recorded   *)
(* or given upstream, and tells what it left out: for any steps, artifacts, *)
(* budgets and order of the writers that append while it is put together.   *)
THEOREM PacksAreAccounted == PackSpec => []PackAccountsForEvidence
BY PackInv_Accounts, PackInv_Holds, PTL

-----------------------------------------------------------------------------
(* ResumeCheckpoints.                                                       *)

Records ==
  [of : Invocations, phase : {"draft", "finalize"}, narrative : BOOLEAN, names : Labels]

ResumeInv ==
  /\ runs \in [Invocations -> Phases]
  /\ resumed \in [Invocations -> 0 .. Len(kept)]
  /\ kept \in Seq(Records)

(* A set of places of a sequence that is not empty has a last one.          *)
LEMMA LastPlace ==
  ASSUME NEW N \in Nat, NEW places, places \subseteq 1 .. N, places # {}
  PROVE  \E n \in places : \A m \in places : m <= n
<1> DEFINE fromEnd == {N - n : n \in places}
<1>0. \A n \in places : n \in Nat /\ n <= N
  OBVIOUS
<1>1. fromEnd \subseteq Nat /\ fromEnd # {}
  <2>1. \A n \in places : N - n \in Nat
    BY <1>0
  <2>2. QED
    BY <2>1
<1>2. PICK k \in fromEnd : \A m \in fromEnd : ~(m < k)
  BY <1>1, LeastNumber
<1>3. PICK n \in places : k = N - n
  BY <1>2
<1>4. \A m \in places : N - m \in fromEnd
  OBVIOUS
<1>5. ASSUME NEW m \in places PROVE m <= n
  <2>1. ~(N - m < N - n)
    BY <1>2, <1>3, <1>4
  <2>2. m \in Nat /\ n \in Nat
    BY <1>0
  <2>3. QED
    BY <2>1, <2>2
<1>6. QED
  BY <1>5

(* What the platform finds is the last checkpoint of those it looks at.     *)
LEMMA LatestIsLast ==
  ASSUME ResumeInv, NEW i \in Invocations
  PROVE  /\ Latest(i) \in 0 .. Len(kept)
         /\ kept # <<>> /\ Named(kept[Len(kept)], "step") = i.step => Latest(i) = Len(kept)
<1> DEFINE fits == {n \in DOMAIN kept : NamesStep(i) => Named(kept[n], "step") = i.step}
<1>1. Latest(i) = IF fits = {} THEN NoCheckpoint ELSE CHOOSE n \in fits : \A m \in fits : m <= n
  BY DEF Latest
<1>2. Len(kept) \in Nat /\ DOMAIN kept = 1 .. Len(kept) /\ fits \subseteq 1 .. Len(kept)
  BY DEF ResumeInv
<1>3. kept # <<>> /\ Named(kept[Len(kept)], "step") = i.step => Len(kept) \in fits
  <2>1. kept # <<>> => Len(kept) \in 1 .. Len(kept)
    BY <1>2 DEF ResumeInv
  <2>2. QED
    BY <1>2, <2>1
<1> HIDE DEF fits
<1>4. CASE fits = {}
  BY <1>1, <1>2, <1>3, <1>4 DEF NoCheckpoint
<1>5. CASE fits # {}
  <2> DEFINE last == CHOOSE n \in fits : \A m \in fits : m <= n
  <2>1. \E n \in fits : \A m \in fits : m <= n
    BY <1>2, <1>5, LastPlace
  <2>2. last \in fits /\ \A m \in fits : m <= last
    BY <2>1
  <2>3. Latest(i) = last
    BY <1>1, <1>5
  <2> HIDE DEF last
  <2>4. last \in Nat /\ last <= Len(kept)
    BY <1>2, <2>2
  <2>5. Len(kept) \in fits => last = Len(kept)
    <3>1. Len(kept) \in fits => Len(kept) <= last
      BY <2>2
    <3>2. Len(kept) \in Nat
      BY <1>2
    <3>3. ASSUME Len(kept) \in fits PROVE last = Len(kept)
      BY <2>4, <3>1, <3>2, <3>3
    <3>4. QED
      BY <3>3
  <2>6. QED
    <3>1. last \in 0 .. Len(kept)
      BY <1>2, <2>4
    <3>2. QED
      BY <1>3, <2>3, <2>5, <3>1
<1>6. QED
  BY <1>4, <1>5

LEMMA ResumeInit_Inv == ResumeInit => ResumeInv
BY DEF ResumeInit, ResumeInv, Phases, NoCheckpoint

(* A checkpoint is added at the end, if any is.                             *)
LEMMA KeptGrows ==
  ASSUME ResumeInv, NEW i \in Invocations, runs[i] \in {"draft", "finalize"},
         NEW narrative \in BOOLEAN, NEW names \in Labels
  PROVE  /\ Append(kept, Record(i, narrative, names)) \in Seq(Records)
         /\ Len(Append(kept, Record(i, narrative, names))) = Len(kept) + 1
         /\ resumed \in [Invocations -> 0 .. Len(kept) + 1]
<1> DEFINE checkpoint == Record(i, narrative, names)
<1>1. checkpoint \in Records
  BY DEF Record, Records
<1>2. kept \in Seq(Records) /\ Len(kept) \in Nat
  BY DEF ResumeInv
<1> HIDE DEF checkpoint
<1>3. Append(kept, checkpoint) \in Seq(Records) /\ Len(Append(kept, checkpoint)) = Len(kept) + 1
  BY <1>1, <1>2
<1>4. \A n \in 0 .. Len(kept) : n \in 0 .. Len(kept) + 1
  BY <1>2
<1>5. resumed \in [Invocations -> 0 .. Len(kept) + 1]
  BY <1>4 DEF ResumeInv
<1>6. QED
  BY <1>3, <1>5 DEF checkpoint

LEMMA ResumeStep == ResumeInv /\ [ResumeNext]_resumeVars => ResumeInv'
<1> SUFFICES ASSUME ResumeInv, [ResumeNext]_resumeVars PROVE ResumeInv'
  OBVIOUS
<1>0. Len(kept) \in Nat /\ NoCheckpoint \in 0 .. Len(kept)
  BY DEF ResumeInv, NoCheckpoint
<1>1. ASSUME NEW i \in Invocations, GetFails(i) PROVE ResumeInv'
  BY <1>0, <1>1 DEF GetFails, StartAfresh, ResumeInv, Phases
<1>2. ASSUME NEW i \in Invocations, GetCheckpoint(i) PROVE ResumeInv'
  <2>1. Latest(i) \in 0 .. Len(kept)
    BY LatestIsLast
  <2>2. UNCHANGED kept
    BY <1>2 DEF GetCheckpoint
  <2>3. runs' \in [Invocations -> Phases]
    BY <1>2 DEF GetCheckpoint, StartAfresh, ResumeInv, Phases
  <2>4. resumed' = resumed \/ resumed' = [resumed EXCEPT ![i] = NoCheckpoint]
        \/ resumed' = [resumed EXCEPT ![i] = Latest(i)]
    BY <1>2 DEF GetCheckpoint, StartAfresh
  <2>5. resumed' \in [Invocations -> 0 .. Len(kept)]
    BY <1>0, <2>1, <2>4 DEF ResumeInv
  <2>6. QED
    BY <2>2, <2>3, <2>5 DEF ResumeInv
<1>3. ASSUME NEW i \in Invocations, PutCheckpoint(i) PROVE ResumeInv'
  <2>1. PICK narrative \in BOOLEAN, names \in Labels : kept' = Append(kept, Record(i, narrative, names))
    BY <1>3 DEF PutCheckpoint
  <2>2. runs[i] \in {"draft", "finalize"} /\ resumed' = resumed
    BY <1>3 DEF PutCheckpoint
  <2>3. kept' \in Seq(Records) /\ resumed' \in [Invocations -> 0 .. Len(kept')]
    BY <2>1, <2>2, KeptGrows
  <2>4. runs' \in [Invocations -> Phases]
    BY <1>3 DEF PutCheckpoint, PhaseAfter, ResumeInv, Phases
  <2>5. QED
    BY <2>3, <2>4 DEF ResumeInv
<1>4. ASSUME NEW i \in Invocations, PutFails(i) PROVE ResumeInv'
  <2>1. UNCHANGED kept \/ \E names \in Labels : kept' = Append(kept, Record(i, TRUE, names))
    BY <1>4 DEF PutFails
  <2>2. runs[i] \in {"draft", "finalize"} /\ resumed' = resumed
    BY <1>4 DEF PutFails
  <2>3. kept' \in Seq(Records) /\ resumed' \in [Invocations -> 0 .. Len(kept')]
    <3>1. ASSUME NEW names \in Labels, kept' = Append(kept, Record(i, TRUE, names))
          PROVE  kept' \in Seq(Records) /\ resumed' \in [Invocations -> 0 .. Len(kept')]
      BY <3>1, <2>2, KeptGrows
    <3>2. CASE UNCHANGED kept
      BY <3>2, <2>2 DEF ResumeInv
    <3>3. QED
      BY <2>1, <3>1, <3>2
  <2>4. runs' \in [Invocations -> Phases]
    BY <1>4 DEF PutFails, ResumeInv, Phases
  <2>5. QED
    BY <2>3, <2>4 DEF ResumeInv
<1>5. ASSUME NEW i \in Invocations, StartAgain(i) PROVE ResumeInv'
  BY <1>5 DEF StartAgain, ResumeInv, Phases
<1>6. CASE UNCHANGED resumeVars
  BY <1>6 DEF resumeVars, ResumeInv
<1>7. QED
  BY <1>1, <1>2, <1>3, <1>4, <1>5, <1>6 DEF ResumeNext

LEMMA ResumeInv_Holds == ResumeSpec => []ResumeInv
BY ResumeInit_Inv, ResumeStep, PTL DEF ResumeSpec

LEMMA ResumeInv_Types == ResumeInv => ResumeTypeOK
<1> SUFFICES ASSUME ResumeInv, NEW n \in DOMAIN kept
             PROVE  /\ kept[n].of \in Invocations /\ kept[n].phase \in {"draft", "finalize"}
                    /\ kept[n].names \in Labels
  BY DEF ResumeInv, ResumeTypeOK
<1>1. kept[n] \in Records
  BY DEF ResumeInv
<1>2. QED
  BY <1>1 DEF Records

(* What a checkpoint that a run goes on from says of its origin is true of  *)
(* that run.                                                                *)
SaysNothingElse(n, i) ==
  /\ IsFinished(n)
  /\ \A field \in kept[n].names \cap {"step", "workflow", "capability", "input"} :
       Unnamed \notin {i[field], kept[n].of[field]} => kept[n].of[field] = i[field]
  /\ IsSigned(n, i) => IsWorkOf(n, i)

LEMMA CandidateIsOwnWork ==
  ASSUME NEW i, NEW n, IsCandidate(i, n) PROVE SaysNothingElse(n, i)
<1>1. IsFinished(n)
  BY DEF IsCandidate, IsFinished
<1>2. ASSUME NEW field \in kept[n].names \cap {"step", "workflow", "capability", "input"},
             Unnamed \notin {i[field], kept[n].of[field]}
      PROVE  kept[n].of[field] = i[field]
  <2>1. Named(kept[n], field) = kept[n].of[field]
    BY <1>2 DEF Named
  <2>2. CASE field = "input"
    <3>1. Named(kept[n], "input") \in {Unnamed, i.input}
      BY DEF IsCandidate, Matches
    <3>2. QED
      BY <1>2, <2>1, <2>2, <3>1
  <2>3. CASE field \in {"step", "workflow", "capability"}
    <3>1. ~Differs(i, kept[n], field)
      BY <2>3 DEF IsCandidate, Matches
    <3>2. QED
      BY <1>2, <2>1, <3>1 DEF Differs
  <2>4. QED
    BY <2>2, <2>3
<1>3. ASSUME IsSigned(n, i) PROVE IsWorkOf(n, i)
  <2>1. \A field \in {"step", "capability", "input"} :
          Unnamed \notin {i[field], kept[n].of[field]} => kept[n].of[field] = i[field]
    BY <1>2, <1>3 DEF IsSigned
  <2>2. Unnamed \notin {i.workflow, kept[n].of.workflow} => kept[n].of.workflow = i.workflow
    BY <1>2, <1>3 DEF IsSigned
  <2>3. /\ Unnamed \notin {i.step, kept[n].of.step}
        /\ Unnamed \notin {i.capability, kept[n].of.capability}
        /\ Unnamed \notin {i.input, kept[n].of.input}
    BY <1>3 DEF IsSigned
  <2>4. kept[n].of.step = i.step /\ kept[n].of.capability = i.capability /\ kept[n].of.input = i.input
    BY <2>1, <2>3
  <2>5. QED
    BY <1>1, <2>2, <2>4 DEF IsWorkOf
<1>4. QED
  BY <1>1, <1>2, <1>3 DEF SaysNothingElse

LEMMA ResumesStep ==
  ASSUME ResumeInv, [ResumeNext]_resumeVars, NEW i \in Invocations
  PROVE  /\ resumed'[i] \notin {resumed[i], NoCheckpoint} => SaysNothingElse(resumed'[i], i)
         /\ GetCheckpoint(i) /\ kept # <<>> /\ IsWorkOf(Len(kept), i) /\ "step" \in kept[Len(kept)].names =>
              runs'[i] = "complete" /\ resumed'[i] = Len(kept)
<1>0. runs \in [Invocations -> Phases] /\ resumed \in [Invocations -> 0 .. Len(kept)]
  BY DEF ResumeInv
<1>1. ASSUME resumed'[i] \notin {resumed[i], NoCheckpoint} PROVE SaysNothingElse(resumed'[i], i)
  <2>1. PICK j \in Invocations : GetFails(j) \/ GetCheckpoint(j)
    BY <1>1 DEF ResumeNext, resumeVars, PutCheckpoint, PutFails, StartAgain
  <2>2. j = i
    BY <1>0, <1>1, <2>1 DEF GetFails, GetCheckpoint, StartAfresh
  <2>3. ~StartAfresh(i)
    BY <1>0, <1>1 DEF StartAfresh
  <2>4. IsCandidate(i, Latest(i)) /\ resumed' = [resumed EXCEPT ![i] = Latest(i)]
    BY <1>1, <2>1, <2>2, <2>3 DEF GetFails, GetCheckpoint
  <2>5. QED
    BY <1>0, <2>4, CandidateIsOwnWork
<1>2. ASSUME GetCheckpoint(i), kept # <<>>, IsWorkOf(Len(kept), i), "step" \in kept[Len(kept)].names
      PROVE  runs'[i] = "complete" /\ resumed'[i] = Len(kept)
  <2>1. Latest(i) = Len(kept) /\ Latest(i) # NoCheckpoint
    <3>1. Latest(i) = Len(kept)
      BY <1>2, LatestIsLast DEF IsWorkOf, Named
    <3>2. Len(kept) # 0
      BY <1>2 DEF ResumeInv
    <3>3. QED
      BY <3>1, <3>2 DEF NoCheckpoint
  <2>2. IsCandidate(i, Latest(i)) /\ ~MayNotValidate(i, kept[Latest(i)])
    <3>1. \A field \in {"step", "workflow", "capability"} : ~Differs(i, kept[Len(kept)], field)
      BY <1>2 DEF IsWorkOf, Differs, Named
    <3>2. Named(kept[Len(kept)], "input") \in {Unnamed, i.input}
      BY <1>2 DEF IsWorkOf, Named
    <3>3. QED
      BY <1>2, <2>1, <3>1, <3>2 DEF IsWorkOf, IsFinished, IsCandidate, Matches, MayNotValidate
  <2>3. runs' = [runs EXCEPT ![i] = "complete"] /\ resumed' = [resumed EXCEPT ![i] = Latest(i)]
    BY <1>2, <2>1, <2>2 DEF GetCheckpoint
  <2>4. QED
    BY <1>0, <2>1, <2>3
<1>3. QED
  BY <1>1, <1>2

(* A run goes on only from a finished document, and what that says of its   *)
(* step, capability, workflow and input is true of the run; so one that is  *)
(* signed is its own work.  And it does go on if its own work, with its     *)
(* step, was the last thing kept: for any invocations, whatever agents      *)
(* write beside their work, and any number of puts between.                 *)
THEOREM ResumesItsOwnWork == ResumeSpec => ResumesOwnWork
<1>1. ResumeInv /\ [ResumeNext]_resumeVars =>
        [\A i \in Invocations :
           /\ resumed'[i] \notin {resumed[i], NoCheckpoint} => SaysNothingElse(resumed'[i], i)
           /\ GetCheckpoint(i) /\ kept # <<>> /\ IsWorkOf(Len(kept), i) /\ "step" \in kept[Len(kept)].names =>
                runs'[i] = "complete" /\ resumed'[i] = Len(kept)]_resumeVars
  BY ResumesStep
<1>2. ResumeSpec =>
        [][\A i \in Invocations :
             /\ resumed'[i] \notin {resumed[i], NoCheckpoint} => SaysNothingElse(resumed'[i], i)
             /\ GetCheckpoint(i) /\ kept # <<>> /\ IsWorkOf(Len(kept), i) /\ "step" \in kept[Len(kept)].names =>
                  runs'[i] = "complete" /\ resumed'[i] = Len(kept)]_resumeVars
  BY <1>1, ResumeInv_Holds, PTL DEF ResumeSpec
<1>3. QED
  BY <1>2, PTL DEF ResumesOwnWork, SaysNothingElse

(* The variables of the checkpoint service keep their types.                *)
THEOREM ResumeTypeCorrect == ResumeSpec => []ResumeTypeOK
BY ResumeInv_Types, ResumeInv_Holds, PTL

-----------------------------------------------------------------------------
(* LlmCalls: the tool calls of one response.                                *)

Ids == {"a", "b", "call_0", "call_1"}

\* what the accumulators call a tool call
IdOf(style, c) == IF style = "index" THEN GeneratedId(c) ELSE <<"a", "b">>[c + 1]

Places(p)      == [n \in DOMAIN p |-> n]
Firsts(p)      == {n \in DOMAIN p : \A m \in 1 .. n - 1 : p[m] # p[n]}
Opened(p)      == Chosen(Places(p), Firsts(p))
PiecesOf(p, c) == Chosen(Places(p), {n \in DOMAIN p : p[n] = c})
IsOpen(p, c)   == \E m \in DOMAIN p : p[m] = c

\* the accumulator has put each of the pieces p to its call
Stitches(a, p, style) ==
  /\ a.order \in Seq(Ids) /\ DOMAIN a.order = DOMAIN Opened(p)
  /\ \A n \in DOMAIN a.order : a.order[n] = IdOf(style, p[Opened(p)[n]])
  /\ a.named = {IdOf(style, p[n]) : n \in DOMAIN p}
  /\ a.args = [id \in a.named |-> a.args[id]]
  /\ \A c \in Calls : IsOpen(p, c) => a.args[IdOf(style, c)] = PiecesOf(p, c)

\* pieces that tell their call
Tells(p, style) == style = "first_id" => \A m, n \in DOMAIN p : p[m] = p[n]

\* an index is bound to the id of its call; with the id in the first piece alone every
\* index there is, and the last one among them, to that of the only call
Binds(a, p, style) ==
  /\ a.stitch = [ids |-> a.stitch.ids, indexes |-> a.stitch.indexes,
                 next |-> a.stitch.next, last |-> a.stitch.last]
  /\ style \in {"index", "index_and_id"} =>
       \A c \in Calls : /\ c \in DOMAIN a.stitch.ids <=> IsOpen(p, c)
                        /\ IsOpen(p, c) => a.stitch.ids[c] = IdOf(style, c)
  /\ style = "first_id" /\ p = <<>> => a.stitch = Unstitched
  /\ style = "first_id" /\ p # <<>> =>
       /\ a.stitch.last \in DOMAIN a.stitch.ids /\ a.stitch.last # Unset
       /\ \A x \in DOMAIN a.stitch.ids : a.stitch.ids[x] = IdOf(style, p[1])

\* the piece of call c that comes after the pieces p
Fits(piece, p, c, style) ==
  piece = [first |-> ~IsOpen(p, c), part |-> Len(p) + 1,
           index |-> IF style \in {"id", "first_id"} THEN Unset ELSE c,
           id    |-> IF style = "id" \/ (style \in {"index_and_id", "first_id"} /\ ~IsOpen(p, c))
                     THEN <<"a", "b">>[c + 1] ELSE NoId]

(* The ids of the two calls are two.                                        *)
LEMMA IdsDiffer ==
  ASSUME NEW style
  PROVE  /\ \A c \in Calls : IdOf(style, c) \in Ids /\ IdOf(style, c) # NoId
         /\ \A c, d \in Calls : IdOf(style, c) = IdOf(style, d) => c = d
<1>1. Calls = {0, 1}
  BY DEF Calls
<1>2. IdOf(style, 0) \in {"a", "call_0"} /\ IdOf(style, 1) \in {"b", "call_1"}
  BY DEF IdOf, GeneratedId
<1>3. QED
  BY <1>1, <1>2 DEF Ids, NoId

(* What is chosen if there is nothing, or everything, to choose.            *)
LEMMA ChosenOfNoPlace ==
  ASSUME NEW T, NEW s \in Seq(T), NEW places, \A n \in 1 .. Len(s) : n \notin places
  PROVE  Chosen(s, places) = <<>>
<1> DEFINE K == Len(Chosen(s, places))
<1>1. Chosen(s, places) \in Seq(T) /\ K \in Nat
  <2>1. Chosen(s, places) \in Seq(T)
    BY ChosenType
  <2>2. QED
    BY <2>1
<1>2. PICK at \in [1 .. K -> 1 .. Len(s)] :
        /\ \A i \in 1 .. K : at[i] \in places /\ Chosen(s, places)[i] = s[at[i]]
        /\ \A i, j \in 1 .. K : i < j => at[i] < at[j]
        /\ \A n \in 1 .. Len(s) : n \in places => \E i \in 1 .. K : at[i] = n
  BY ChosenPlaces
<1>3. K = 0
  <2> SUFFICES ASSUME K # 0 PROVE FALSE
    OBVIOUS
  <2> HIDE DEF K
  <2>1. 1 \in 1 .. K
    BY <1>1
  <2>2. at[1] \in places /\ at[1] \in 1 .. Len(s)
    BY <1>2, <2>1
  <2>3. QED
    BY <2>2
<1>4. QED
  BY <1>1, <1>3

(* A place that is chosen holds one of the elements of the result.          *)
LEMMA ChosenHasPlace ==
  ASSUME NEW T, NEW s \in Seq(T), NEW places, NEW m \in 1 .. Len(s), m \in places
  PROVE  \E i \in 1 .. Len(Chosen(s, places)) : Chosen(s, places)[i] = s[m]
<1> DEFINE K == Len(Chosen(s, places))
<1>1. PICK at \in [1 .. K -> 1 .. Len(s)] :
        /\ \A i \in 1 .. K : at[i] \in places /\ Chosen(s, places)[i] = s[at[i]]
        /\ \A i, j \in 1 .. K : i < j => at[i] < at[j]
        /\ \A n \in 1 .. Len(s) : n \in places => \E i \in 1 .. K : at[i] = n
  BY ChosenPlaces
<1>2. PICK i \in 1 .. K : at[i] = m
  BY <1>1
<1>3. QED
  BY <1>1, <1>2

LEMMA ChosenOfAll ==
  ASSUME NEW T, NEW s \in Seq(T), NEW places, \A n \in 1 .. Len(s) : n \in places
  PROVE  Chosen(s, places) = s
<1> DEFINE N == Len(s)
           p == Parts(s, places)
           S == {n \in 0..N : p[n] = [i \in 1..n |-> s[i]]}
<1>1. /\ p[0] = <<>> /\ Chosen(s, places) = p[N] /\ N \in Nat /\ p \in [0..N -> Seq(T)]
      /\ \A n \in 1..N : p[n] = IF n \in places THEN Append(p[n - 1], s[n]) ELSE p[n - 1]
  BY PartsExist
<1> HIDE DEF p
<1>2. 0 \in S
  BY <1>1
<1>3. ASSUME NEW n \in 1..N, n - 1 \in S PROVE n \in S
  <2>1. p[n] = Append(p[n - 1], s[n]) /\ p[n - 1] = [i \in 1..(n - 1) |-> s[i]]
    BY <1>1, <1>3
  <2> DEFINE b == p[n - 1]
  <2>2. b \in Seq(T) /\ s[n] \in T /\ n - 1 \in 0..N
    BY <1>1
  <2>3. Len(b) = n - 1
    BY <2>1, <2>2
  <2> HIDE DEF b
  <2>4. Append(b, s[n]) = [i \in 1..n |-> Append(b, s[n])[i]]
    BY <2>2, <2>3
  <2>5. \A i \in 1..n : Append(b, s[n])[i] = s[i]
    <3> SUFFICES ASSUME NEW i \in 1..n PROVE Append(b, s[n])[i] = s[i]
      OBVIOUS
    <3>1. CASE i = n
      BY <2>2, <2>3, <3>1
    <3>2. CASE i \in 1..(n - 1)
      <4>1. Append(b, s[n])[i] = b[i]
        BY <2>2, <2>3, <3>2
      <4>2. b[i] = s[i]
        BY <2>1, <3>2 DEF b
      <4>3. QED
        BY <4>1, <4>2
    <3>3. n \in Nat /\ (i = n \/ i \in 1..(n - 1))
      OBVIOUS
    <3>4. QED
      BY <3>1, <3>2, <3>3
  <2>6. Append(b, s[n]) = [i \in 1..n |-> s[i]]
    BY <2>4, <2>5
  <2>7. n \in 0..N /\ p[n] = [i \in 1..n |-> s[i]]
    <3>1. p[n] = Append(b, s[n])
      BY <2>1 DEF b
    <3>2. QED
      BY <2>6, <3>1
  <2>8. QED
    BY <2>7
<1>4. N \in S
  <2> HIDE DEF S
  <2>1. \A n \in 0..N : n \in S
    BY <1>1, <1>2, <1>3, UpTo
  <2>2. QED
    BY <1>1, <2>1
<1>5. s = [i \in 1..N |-> s[i]]
  OBVIOUS
<1>6. QED
  BY <1>1, <1>4, <1>5

(* One piece more: it is one of its call, which it opens if it is the first. *)
LEMMA OpenedGrows ==
  ASSUME NEW p \in Seq(Calls), NEW c \in Calls, NEW q, q = Append(p, c)
  PROVE  /\ q \in Seq(Calls) /\ Len(q) = Len(p) + 1 /\ Len(p) \in Nat
         /\ q[Len(p) + 1] = c /\ \A n \in 1 .. Len(p) : q[n] = p[n]
         /\ Opened(p) \in Seq(1 .. Len(p))
         /\ Opened(q) = IF IsOpen(p, c) THEN Opened(p) ELSE Append(Opened(p), Len(p) + 1)
         /\ PiecesOf(q, c) = Append(PiecesOf(p, c), Len(p) + 1)
         /\ \A d \in Calls \ {c} : PiecesOf(q, d) = PiecesOf(p, d)
         /\ ~IsOpen(p, c) => PiecesOf(p, c) = <<>>
         /\ \A d \in Calls : IsOpen(q, d) <=> d = c \/ IsOpen(p, d)
<1> DEFINE N == Len(p)
<1>1. /\ q \in Seq(Calls) /\ Len(q) = N + 1 /\ N \in Nat /\ q[N + 1] = c
      /\ \A n \in 1 .. N : q[n] = p[n]
      /\ DOMAIN p = 1 .. N /\ DOMAIN q = 1 .. N + 1
  OBVIOUS
<1> HIDE DEF N
<1>2. /\ \A n \in 1 .. N + 1 : n = N + 1 \/ n \in 1 .. N
      /\ \A n \in 1 .. N : n \in 1 .. N + 1 /\ n # N + 1
      /\ N + 1 \in 1 .. N + 1 /\ N + 1 \notin 1 .. N
  BY <1>1
<1>3. /\ Places(p) \in Seq(1 .. N) /\ Len(Places(p)) = N
      /\ Places(p) \in Seq(Nat)
      /\ Places(q) = Append(Places(p), N + 1)
  <2>1. Places(p) = [n \in 1 .. N |-> n] /\ Places(q) = [n \in 1 .. N + 1 |-> n]
    BY <1>1 DEF Places
  <2>2. Places(p) \in [1 .. N -> 1 .. N] /\ Places(p) \in [1 .. N -> Nat]
    BY <1>1, <2>1
  <2>3. Places(p) \in Seq(1 .. N) /\ Places(p) \in Seq(Nat) /\ Len(Places(p)) = N
    BY <1>1, <2>2
  <2> DEFINE more == Append(Places(p), N + 1)
  <2>4. /\ more \in Seq(Nat) /\ Len(more) = N + 1 /\ more[N + 1] = N + 1
        /\ \A n \in 1 .. N : more[n] = Places(p)[n]
    BY <1>1, <2>3
  <2> HIDE DEF more
  <2>5. more = [n \in 1 .. N + 1 |-> more[n]]
    BY <1>1, <2>4
  <2>6. \A n \in 1 .. N + 1 : more[n] = n
    BY <1>2, <2>1, <2>4
  <2>7. more = Places(q)
    BY <2>1, <2>5, <2>6
  <2>8. QED
    BY <2>3, <2>7 DEF more
<1>4. IsOpen(p, c) <=> \E m \in 1 .. N : p[m] = c
  BY <1>1 DEF IsOpen
<1>5. /\ N + 1 \in Firsts(q) <=> ~IsOpen(p, c)
      /\ \A n \in 1 .. N : n \in Firsts(p) <=> n \in Firsts(q)
  <2>1. N + 1 \in Firsts(q) <=> ~IsOpen(p, c)
    <3>1. 1 .. (N + 1) - 1 = 1 .. N
      BY <1>1
    <3>2. N + 1 \in Firsts(q) <=> \A m \in 1 .. N : q[m] # q[N + 1]
      BY <1>1, <1>2, <3>1 DEF Firsts
    <3>3. QED
      BY <1>1, <1>4, <3>2
  <2>2. ASSUME NEW n \in 1 .. N PROVE n \in Firsts(p) <=> n \in Firsts(q)
    <3>1. \A m \in 1 .. n - 1 : m \in 1 .. N
      BY <1>1
    <3>2. \A m \in 1 .. n - 1 : q[m] = p[m]
      BY <1>1, <3>1
    <3>3. q[n] = p[n] /\ n \in DOMAIN p /\ n \in DOMAIN q
      BY <1>1, <1>2
    <3>4. QED
      BY <3>2, <3>3 DEF Firsts
  <2>3. QED
    BY <2>1, <2>2
<1>6. Opened(p) \in Seq(1 .. N)
  BY <1>3, ChosenType DEF Opened
<1>7. Opened(q) = IF IsOpen(p, c) THEN Opened(p) ELSE Append(Opened(p), N + 1)
  <2> DEFINE new == Firsts(q)
  <2>1. Chosen(Places(p), Firsts(p)) = Chosen(Places(p), new)
    BY <1>3, <1>5, ChosenSame
  <2>2. N + 1 \in Nat /\ (N + 1 \in new <=> ~IsOpen(p, c))
    BY <1>1, <1>5
  <2>3. Opened(q) = Chosen(Append(Places(p), N + 1), new)
    BY <1>3 DEF Opened
  <2> HIDE DEF new
  <2>4. Chosen(Append(Places(p), N + 1), new) =
          IF Len(Places(p)) + 1 \in new THEN Append(Chosen(Places(p), new), N + 1)
          ELSE Chosen(Places(p), new)
    BY ZenonT(40), <1>3, <2>2, ChosenAppend
  <2>5. QED
    BY <1>3, <2>1, <2>2, <2>3, <2>4 DEF Opened
<1>8. ASSUME NEW d \in Calls
      PROVE  PiecesOf(q, d) = IF c = d THEN Append(PiecesOf(p, d), N + 1) ELSE PiecesOf(p, d)
  <2> DEFINE old == {n \in DOMAIN p : p[n] = d}
             new == {n \in DOMAIN q : q[n] = d}
  <2>1. \A n \in 1 .. N : n \in old <=> n \in new
    BY <1>1, <1>2
  <2>2. N + 1 \in new <=> c = d
    BY <1>1, <1>2
  <2> DEFINE places == Places(p)
  <2>3. places \in Seq(Nat) /\ N + 1 \in Nat
    BY <1>1, <1>3
  <2>4. Chosen(places, old) = Chosen(places, new)
    <3>1. \A n \in 1 .. Len(places) : n \in old <=> n \in new
      BY <1>3, <2>1
    <3> HIDE DEF old, new, places
    <3>2. QED
      BY <2>3, <3>1, ChosenSame
  <2>5. Chosen(Append(places, N + 1), new) =
          IF Len(places) + 1 \in new THEN Append(Chosen(places, new), N + 1)
          ELSE Chosen(places, new)
    <3> HIDE DEF old, new, places
    <3>1. QED
      BY ZenonT(40), <2>3, ChosenAppend
  <2> HIDE DEF old, new
  <2>6. QED
    BY <1>3, <2>2, <2>4, <2>5 DEF PiecesOf, old, new
<1>9. ~IsOpen(p, c) => PiecesOf(p, c) = <<>>
  <2> SUFFICES ASSUME ~IsOpen(p, c) PROVE PiecesOf(p, c) = <<>>
    OBVIOUS
  <2> DEFINE places == {n \in DOMAIN p : p[n] = c}
  <2>1. \A n \in 1 .. Len(Places(p)) : n \notin places
    BY <1>3, <1>4
  <2> HIDE DEF places
  <2>2. QED
    BY <1>3, <2>1, ChosenOfNoPlace DEF PiecesOf, places
<1>10. \A d \in Calls : IsOpen(q, d) <=> d = c \/ IsOpen(p, d)
  BY <1>1, <1>2 DEF IsOpen
<1>11. QED
  BY <1>1, <1>6, <1>7, <1>8, <1>9, <1>10 DEF N

(* A piece that is put to its call: the calls are stitched as before, and   *)
(* this piece with them.                                                    *)
LEMMA PieceIsStitched ==
  ASSUME NEW a, NEW p \in Seq(Calls), NEW c \in Calls, NEW style, NEW piece, NEW ordinal,
         Stitches(a, p, style),
         StableId(a.stitch, piece, IndexOf(a.stitch, piece, ordinal)) = IdOf(style, c),
         piece.first <=> ~IsOpen(p, c), piece.part = Len(p) + 1
  PROVE  Stitches(AddPiece(a, piece, ordinal), Append(p, c), style)
<1> DEFINE id == IdOf(style, c)
           q  == Append(p, c)
           b  == AddPiece(a, piece, ordinal)
           N  == Len(p)
<1>1. /\ q \in Seq(Calls) /\ Len(q) = N + 1 /\ N \in Nat
      /\ q[N + 1] = c /\ \A n \in 1 .. N : q[n] = p[n]
      /\ Opened(p) \in Seq(1 .. N)
      /\ Opened(q) = IF IsOpen(p, c) THEN Opened(p) ELSE Append(Opened(p), N + 1)
      /\ PiecesOf(q, c) = Append(PiecesOf(p, c), N + 1)
      /\ \A d \in Calls \ {c} : PiecesOf(q, d) = PiecesOf(p, d)
      /\ ~IsOpen(p, c) => PiecesOf(p, c) = <<>>
      /\ \A d \in Calls : IsOpen(q, d) <=> d = c \/ IsOpen(p, d)
  BY OpenedGrows
<1>2. /\ \A d \in Calls : IdOf(style, d) \in Ids /\ IdOf(style, d) # NoId
      /\ \A d, e \in Calls : IdOf(style, d) = IdOf(style, e) => d = e
  BY IdsDiffer
<1>3. id \in Ids /\ id # NoId
  BY <1>2
<1> HIDE DEF q, N, id
<1>4. DOMAIN p = 1 .. N /\ DOMAIN q = 1 .. N + 1 /\ \A n \in 1 .. N : p[n] \in Calls
  BY <1>1 DEF N
<1>5. /\ \A n \in 1 .. N + 1 : n = N + 1 \/ n \in 1 .. N
      /\ \A n \in 1 .. N : n \in 1 .. N + 1
      /\ N + 1 \in 1 .. N + 1
  BY <1>1
<1>6. /\ b.order = IF Contains(a.order, id) THEN a.order ELSE Append(a.order, id)
      /\ b.named = IF piece.first THEN a.named \cup {id} ELSE a.named
      /\ b.args = IF id \in DOMAIN a.args THEN [a.args EXCEPT ![id] = Append(@, N + 1)]
                  ELSE Put(a.args, id, <<N + 1>>)
  BY <1>3 DEF AddPiece, id, N
<1> HIDE DEF b
<1>7. /\ a.order \in Seq(Ids) /\ DOMAIN a.order = DOMAIN Opened(p)
      /\ \A n \in DOMAIN a.order : a.order[n] = IdOf(style, p[Opened(p)[n]])
      /\ a.named = {IdOf(style, p[n]) : n \in DOMAIN p}
      /\ a.args = [x \in a.named |-> a.args[x]]
      /\ \A d \in Calls : IsOpen(p, d) => a.args[IdOf(style, d)] = PiecesOf(p, d)
  BY DEF Stitches
<1>8. id \in a.named <=> IsOpen(p, c)
  BY <1>2, <1>4, <1>7 DEF IsOpen, id
<1>9. DOMAIN a.args = a.named
  BY <1>7
<1>10. \A d \in Calls : IsOpen(p, d) => IdOf(style, d) \in a.named
  BY <1>7 DEF IsOpen
<1>11. b.named = {IdOf(style, q[n]) : n \in DOMAIN q}
  <2>1. {IdOf(style, q[n]) : n \in DOMAIN q} = a.named \cup {id}
    <3>1. ASSUME NEW x \in {IdOf(style, q[n]) : n \in DOMAIN q} PROVE x \in a.named \cup {id}
      <4>1. PICK n \in 1 .. N + 1 : x = IdOf(style, q[n])
        BY <1>4
      <4>2. CASE n = N + 1
        BY <1>1, <4>1, <4>2 DEF id
      <4>3. CASE n \in 1 .. N
        BY <1>1, <1>4, <1>7, <4>1, <4>3
      <4>4. QED
        BY <1>5, <4>2, <4>3
    <3>2. ASSUME NEW x \in a.named PROVE x \in {IdOf(style, q[n]) : n \in DOMAIN q}
      <4>1. PICK n \in 1 .. N : x = IdOf(style, p[n])
        BY <1>4, <1>7
      <4>2. q[n] = p[n] /\ n \in DOMAIN q
        BY <1>1, <1>4, <1>5
      <4>3. QED
        BY <4>1, <4>2
    <3>3. id \in {IdOf(style, q[n]) : n \in DOMAIN q}
      BY <1>1, <1>4, <1>5 DEF id
    <3>4. QED
      BY <3>1, <3>2, <3>3
  <2>2. QED
    BY <1>6, <1>8, <2>1
<1>12. /\ b.args = [x \in b.named |-> b.args[x]]
       /\ \A d \in Calls : IsOpen(q, d) => b.args[IdOf(style, d)] = PiecesOf(q, d)
  <2>1. CASE IsOpen(p, c)
    <3>1. b.args = [a.args EXCEPT ![id] = Append(@, N + 1)] /\ b.named = a.named /\ id \in DOMAIN a.args
      BY <1>6, <1>8, <1>9, <2>1
    <3>2. b.args = [x \in b.named |-> b.args[x]]
      BY <1>9, <3>1
    <3>3. ASSUME NEW d \in Calls, IsOpen(q, d) PROVE b.args[IdOf(style, d)] = PiecesOf(q, d)
      <4>1. CASE d = c
        BY <1>1, <1>7, <2>1, <3>1, <4>1 DEF id
      <4>2. CASE d # c
        <5>1. IsOpen(p, d) /\ IdOf(style, d) # id /\ IdOf(style, d) \in DOMAIN a.args
          BY <1>1, <1>2, <1>9, <1>10, <3>3, <4>2 DEF id
        <5>2. b.args[IdOf(style, d)] = a.args[IdOf(style, d)]
          BY <3>1, <5>1
        <5>3. QED
          BY <1>1, <1>7, <4>2, <5>1, <5>2
      <4>3. QED
        BY <4>1, <4>2
    <3>4. QED
      BY <3>2, <3>3
  <2>2. CASE ~IsOpen(p, c)
    <3>1. /\ b.args = Put(a.args, id, <<N + 1>>) /\ b.named = a.named \cup {id} /\ id \notin DOMAIN a.args
      BY <1>6, <1>8, <1>9, <2>2
    <3>2. /\ DOMAIN b.args = b.named /\ b.args[id] = <<N + 1>>
          /\ \A x \in DOMAIN a.args : b.args[x] = a.args[x]
          /\ b.args = [x \in b.named |-> b.args[x]]
      BY <1>9, <3>1 DEF Put
    <3>3. ASSUME NEW d \in Calls, IsOpen(q, d) PROVE b.args[IdOf(style, d)] = PiecesOf(q, d)
      <4>1. CASE d = c
        <5>1. PiecesOf(q, c) = <<N + 1>>
          BY <1>1, <2>2
        <5>2. QED
          BY <3>2, <4>1, <5>1 DEF id
      <4>2. CASE d # c
        <5>1. IsOpen(p, d) /\ IdOf(style, d) \in DOMAIN a.args
          BY <1>1, <1>9, <1>10, <3>3, <4>2
        <5>2. QED
          BY <1>1, <1>7, <3>2, <4>2, <5>1
      <4>3. QED
        BY <4>1, <4>2
    <3>4. QED
      BY <3>2, <3>3
  <2>3. QED
    BY <2>1, <2>2
<1>13. DOMAIN a.order = 1 .. Len(a.order) /\ DOMAIN Opened(p) = 1 .. Len(Opened(p))
       /\ Len(a.order) \in Nat /\ Len(Opened(p)) \in Nat /\ Len(a.order) = Len(Opened(p))
  <2>1. DOMAIN a.order = 1 .. Len(a.order) /\ Len(a.order) \in Nat
    BY <1>7
  <2>2. DOMAIN Opened(p) = 1 .. Len(Opened(p)) /\ Len(Opened(p)) \in Nat
    BY <1>1
  <2> DEFINE A == Len(a.order)
             B == Len(Opened(p))
  <2>3. 1 .. A = 1 .. B /\ A \in Nat /\ B \in Nat
    BY <1>7, <2>1, <2>2
  <2> HIDE DEF A, B
  <2>4. ~(A < B)
    <3> SUFFICES ASSUME A < B PROVE FALSE
      OBVIOUS
    <3>1. B \in 1 .. B
      BY <2>3
    <3>2. B \in 1 .. A
      BY <2>3, <3>1
    <3>3. QED
      BY <2>3, <3>2
  <2>5. ~(B < A)
    <3> SUFFICES ASSUME B < A PROVE FALSE
      OBVIOUS
    <3>1. A \in 1 .. A
      BY <2>3
    <3>2. A \in 1 .. B
      BY <2>3, <3>1
    <3>3. QED
      BY <2>3, <3>2
  <2>6. A = B
    BY <2>3, <2>4, <2>5
  <2>7. QED
    BY <2>1, <2>2, <2>6 DEF A, B
<1>14. \A n \in 1 .. Len(a.order) : Opened(p)[n] \in 1 .. N
  BY <1>1, <1>13
<1>15. Contains(a.order, id) <=> IsOpen(p, c)
  <2>1. Contains(a.order, id) => IsOpen(p, c)
    <3> SUFFICES ASSUME NEW n \in 1 .. Len(a.order), a.order[n] = id PROVE IsOpen(p, c)
      BY DEF Contains
    <3>1. IdOf(style, p[Opened(p)[n]]) = id /\ Opened(p)[n] \in 1 .. N
      BY <1>7, <1>13, <1>14
    <3>2. p[Opened(p)[n]] = c
      BY <1>2, <1>4, <3>1 DEF id
    <3>3. QED
      BY <1>4, <3>1, <3>2 DEF IsOpen
  <2>2. IsOpen(p, c) => Contains(a.order, id)
    <3> SUFFICES ASSUME IsOpen(p, c) PROVE Contains(a.order, id)
      OBVIOUS
    <3> DEFINE same == {m \in 1 .. N : p[m] = c}
    <3>1. same \subseteq Nat /\ same # {}
      BY <1>1, <1>4 DEF IsOpen
    <3>2. PICK m \in same : \A k \in same : ~(k < m)
      BY <3>1, LeastNumber
    <3>3. m \in 1 .. N /\ p[m] = c /\ \A k \in 1 .. m - 1 : p[k] # c
      <4>1. m \in 1 .. N /\ p[m] = c
        OBVIOUS
      <4>2. ASSUME NEW k \in 1 .. m - 1, p[k] = c PROVE FALSE
        <5>1. k \in 1 .. N /\ k < m
          BY <1>1, <4>1
        <5>2. QED
          BY <3>2, <4>2, <5>1
      <4>3. QED
        BY <4>1, <4>2
    <3>4. m \in Firsts(p)
      BY <1>4, <3>3 DEF Firsts
    <3>5. /\ Places(p) \in Seq(Nat) /\ Len(Places(p)) = N /\ \A k \in 1 .. N : Places(p)[k] = k
      <4>1. Places(p) = [k \in 1 .. N |-> k]
        BY <1>4 DEF Places
      <4>2. Places(p) \in [1 .. N -> Nat]
        BY <1>1, <4>1
      <4>3. QED
        BY <1>1, <4>1, <4>2
    <3> DEFINE places == Places(p)
               firsts == Firsts(p)
    <3>6. places \in Seq(Nat) /\ places[m] = m /\ m \in firsts /\ m \in 1 .. Len(places)
      BY <3>3, <3>4, <3>5
    <3>7. Opened(p) = Chosen(places, firsts)
      BY DEF Opened
    <3> HIDE DEF places, firsts
    <3>8. \E i \in 1 .. Len(Opened(p)) : Opened(p)[i] = m
      <4>1. \E i \in 1 .. Len(Chosen(places, firsts)) : Chosen(places, firsts)[i] = places[m]
        BY <3>6, ChosenHasPlace, ZenonT(60)
      <4>2. QED
        BY <3>6, <3>7, <4>1
    <3>9. \E i \in 1 .. Len(a.order) : a.order[i] = id
      BY <1>7, <1>13, <3>3, <3>8 DEF id
    <3>10. QED
      BY <3>9 DEF Contains
  <2>3. QED
    BY <2>1, <2>2
<1>16. /\ b.order \in Seq(Ids) /\ DOMAIN b.order = DOMAIN Opened(q)
       /\ \A n \in DOMAIN b.order : b.order[n] = IdOf(style, q[Opened(q)[n]])
  <2>1. CASE IsOpen(p, c)
    <3>1. b.order = a.order /\ Opened(q) = Opened(p)
      BY <1>1, <1>6, <1>15, <2>1
    <3>2. \A n \in 1 .. Len(a.order) : q[Opened(p)[n]] = p[Opened(p)[n]]
      BY <1>1, <1>14
    <3>3. QED
      BY <1>7, <1>13, <3>1, <3>2
  <2>2. CASE ~IsOpen(p, c)
    <3> DEFINE K == Len(a.order)
    <3>1. b.order = Append(a.order, id) /\ Opened(q) = Append(Opened(p), N + 1)
      BY <1>1, <1>6, <1>15, <2>2
    <3>2. /\ b.order \in Seq(Ids) /\ DOMAIN b.order = 1 .. K + 1 /\ b.order[K + 1] = id
          /\ \A n \in 1 .. K : b.order[n] = a.order[n]
      <4>1. a.order \in Seq(Ids) /\ K \in Nat
        BY <1>7, <1>13
      <4>2. QED
        BY <1>3, <3>1, <4>1
    <3>3. /\ DOMAIN Opened(q) = 1 .. K + 1 /\ Opened(q)[K + 1] = N + 1
          /\ \A n \in 1 .. K : Opened(q)[n] = Opened(p)[n]
      <4> DEFINE o == Opened(p)
      <4>1. o \in Seq(1 .. N) /\ Len(o) = K /\ K \in Nat /\ Opened(q) = Append(o, N + 1)
        BY <1>1, <1>13, <3>1
      <4> HIDE DEF o, K
      <4>2. QED
        BY <4>1 DEF o
    <3>4. ASSUME NEW n \in 1 .. K + 1 PROVE b.order[n] = IdOf(style, q[Opened(q)[n]])
      <4>1. CASE n = K + 1
        BY <1>1, <3>2, <3>3, <4>1 DEF id
      <4>2. CASE n \in 1 .. K
        <5>1. b.order[n] = IdOf(style, p[Opened(p)[n]]) /\ Opened(p)[n] \in 1 .. N
          BY <1>7, <1>13, <1>14, <3>2, <4>2
        <5>2. q[Opened(q)[n]] = p[Opened(p)[n]]
          BY <1>1, <3>3, <4>2, <5>1
        <5>3. QED
          BY <5>1, <5>2
      <4>3. K \in Nat
        BY <1>13
      <4>4. QED
        BY <4>1, <4>2, <4>3
    <3>5. QED
      BY <3>2, <3>3, <3>4
  <2>3. QED
    BY <2>1, <2>2
<1>17. QED
  BY <1>11, <1>12, <1>16 DEF Stitches, b, q

(* A piece that comes in as a provider marks it is put to its call.         *)
LEMMA PieceIsAdded ==
  ASSUME NEW a, NEW p \in Seq(Calls), NEW c \in Calls, NEW style \in Styles, NEW piece, NEW ordinal,
         Stitches(a, p, style), Binds(a, p, style), Fits(piece, p, c, style),
         Tells(Append(p, c), style)
  PROVE  /\ StableId(a.stitch, piece, IndexOf(a.stitch, piece, ordinal)) = IdOf(style, c)
         /\ Stitches(AddPiece(a, piece, ordinal), Append(p, c), style)
         /\ Binds(AddPiece(a, piece, ordinal), Append(p, c), style)
<1> DEFINE i  == IndexOf(a.stitch, piece, ordinal)
           id == StableId(a.stitch, piece, i)
           b  == AddPiece(a, piece, ordinal)
           q  == Append(p, c)
<1>1. /\ piece.first <=> ~IsOpen(p, c)
      /\ piece.part = Len(p) + 1
      /\ piece.index = IF style \in {"id", "first_id"} THEN Unset ELSE c
      /\ piece.id = IF style = "id" \/ (style \in {"index_and_id", "first_id"} /\ ~IsOpen(p, c))
                    THEN <<"a", "b">>[c + 1] ELSE NoId
  BY DEF Fits
<1>2. c \in {0, 1} /\ c # Unset /\ <<"a", "b">>[c + 1] \in {"a", "b"} /\ <<"a", "b">>[c + 1] # NoId
  BY DEF Calls, Unset, NoId
<1>3. style \in {"index", "index_and_id"} => i = c
  BY <1>1, <1>2 DEF IndexOf
<1>s. q # <<>> /\ (style = "first_id" => q[1] = c /\ (p # <<>> => p[1] = c) /\ (IsOpen(p, c) <=> p # <<>>))
  <2>1. /\ q \in Seq(Calls) /\ Len(q) = Len(p) + 1 /\ q[Len(p) + 1] = c /\ Len(p) \in Nat
        /\ \A n \in 1 .. Len(p) : q[n] = p[n]
        /\ DOMAIN p = 1 .. Len(p) /\ DOMAIN q = 1 .. Len(p) + 1
    BY OpenedGrows
  <2>2. p # <<>> => 1 \in 1 .. Len(p)
    BY <2>1
  <2>3. 1 \in DOMAIN q /\ Len(p) + 1 \in DOMAIN q /\ q # <<>>
    BY <2>1
  <2>4. style = "first_id" => q[1] = c
    BY <2>1, <2>3 DEF Tells
  <2>5. style = "first_id" /\ p # <<>> => p[1] = c /\ IsOpen(p, c)
    BY <2>1, <2>2, <2>4 DEF IsOpen
  <2>6. p = <<>> => ~IsOpen(p, c)
    BY DEF IsOpen
  <2>7. QED
    BY <2>3, <2>4, <2>5, <2>6
\* with the id in the first piece alone: the first one gets index 0, and the others that of
\* their place or the last one
<1>t. style = "first_id" =>
        /\ p = <<>> => i = 0 /\ piece.id = IdOf(style, c)
        /\ p # <<>> => i \in DOMAIN a.stitch.ids /\ piece.id = NoId
  <2>1. CASE style = "first_id" /\ p = <<>>
    <3>1. piece.index = Unset /\ piece.id = <<"a", "b">>[c + 1] /\ piece.id # NoId
      BY <1>1, <1>2, <1>s, <2>1
    <3>2. a.stitch.next = Unset /\ DOMAIN a.stitch.indexes = {}
      BY <2>1 DEF Binds, Unstitched
    <3>3. QED
      BY <2>1, <3>1, <3>2 DEF IndexOf, IdOf
  <2>2. CASE style = "first_id" /\ p # <<>>
    <3>1. piece.index = Unset /\ piece.id = NoId
      BY <1>1, <1>s, <2>2
    <3>2. a.stitch.last \in DOMAIN a.stitch.ids /\ a.stitch.last # Unset
      BY <2>2 DEF Binds
    <3>3. QED
      BY <2>2, <3>1, <3>2 DEF IndexOf
  <2>3. QED
    BY <2>1, <2>2
<1>4. id = IdOf(style, c)
  <2>1. CASE style = "id"
    BY <1>1, <1>2, <2>1 DEF StableId, IdOf
  <2>2. CASE style = "index_and_id" /\ ~IsOpen(p, c)
    BY <1>1, <1>2, <2>2 DEF StableId, IdOf
  <2>3. CASE style = "index_and_id" /\ IsOpen(p, c)
    BY <1>1, <1>3, <2>3 DEF StableId, IdOf, Binds
  <2>4. CASE style = "index"
    <3>1. piece.id = NoId /\ i = c
      BY <1>1, <1>3, <2>4
    <3>2. CASE IsOpen(p, c)
      BY <3>1, <3>2, <2>4 DEF StableId, IdOf, Binds
    <3>3. CASE ~IsOpen(p, c)
      BY <1>1, <3>1, <3>3, <2>4 DEF StableId, IdOf, Binds
    <3>4. QED
      BY <3>2, <3>3
  <2>5. CASE style = "first_id"
    <3> HIDE DEF i
    <3>1. CASE p = <<>>
      <4>1. piece.id # NoId
        BY <1>t, <2>5, <3>1, IdsDiffer
      <4>2. QED
        BY <1>t, <2>5, <3>1, <4>1 DEF StableId
    <3>2. CASE p # <<>>
      <4>1. a.stitch.ids[i] = IdOf(style, c)
        BY <1>s, <1>t, <2>5, <3>2 DEF Binds
      <4>2. QED
        BY <1>t, <2>5, <3>2, <4>1 DEF StableId
    <3>3. QED
      BY <3>1, <3>2
  <2>6. QED
    BY <2>1, <2>2, <2>3, <2>4, <2>5 DEF Styles
<1>5. Stitches(b, q, style)
  <2> HIDE DEF i
  <2>1. QED
    BY <1>1, <1>4, PieceIsStitched DEF i
<1>6. id # NoId
  BY <1>4, IdsDiffer
<1>7. b.stitch = Bound(a.stitch, piece, i)
  BY <1>6 DEF AddPiece
<1>8. /\ b.stitch = [ids |-> b.stitch.ids, indexes |-> b.stitch.indexes,
                     next |-> b.stitch.next, last |-> b.stitch.last]
      /\ b.stitch.ids = Put(a.stitch.ids, i, id)
      /\ b.stitch.last = IF piece.id = NoId THEN a.stitch.last ELSE i
  <2> DEFINE st   == a.stitch
             ids  == Put(st.ids, i, id)
             ixs  == Put(st.indexes, id, i)
             bound == [st EXCEPT !.ids = Put(@, i, id), !.indexes = Put(@, id, i)]
             next == IF st.next > i + 1 THEN st.next ELSE i + 1
  <2>1. st = [ids |-> st.ids, indexes |-> st.indexes, next |-> st.next, last |-> st.last]
    BY DEF Binds
  <2>0. bound = [st EXCEPT !.ids = ids, !.indexes = ixs]
    BY <2>1
  <2>2. b.stitch = IF piece.id = NoId THEN bound
                   ELSE [bound EXCEPT !.last = i, !.next = IF @ > i + 1 THEN @ ELSE i + 1]
    BY <1>7 DEF Bound
  <2> HIDE DEF st, id, i, ids, ixs, b, bound
  <2>3. bound = [ids |-> ids, indexes |-> ixs, next |-> st.next, last |-> st.last]
    BY <2>0, <2>1
  <2>4. CASE piece.id = NoId
    BY <2>2, <2>3, <2>4 DEF ids, st
  <2>5. CASE piece.id # NoId
    <3>1. b.stitch = [bound EXCEPT !.last = i, !.next = next]
      BY <2>2, <2>3, <2>5
    <3> HIDE DEF next
    <3>2. b.stitch = [ids |-> ids, indexes |-> ixs, next |-> next, last |-> i]
      BY <2>3, <3>1
    <3>3. QED
      BY <2>5, <3>2 DEF ids, st
  <2>6. QED
    BY <2>4, <2>5
<1>9. Binds(b, q, style)
  <2>1. \A d \in Calls : IsOpen(q, d) <=> d = c \/ IsOpen(p, d)
    BY OpenedGrows
  <2> HIDE DEF b, q, i, id
  <2>2. CASE style \in {"index", "index_and_id"}
    <3>1. b.stitch.ids = Put(a.stitch.ids, c, IdOf(style, c))
      BY <1>3, <1>4, <1>8, <2>2
    <3>2. /\ DOMAIN b.stitch.ids = DOMAIN a.stitch.ids \cup {c}
          /\ \A d \in DOMAIN b.stitch.ids :
               b.stitch.ids[d] = IF d = c THEN IdOf(style, c) ELSE a.stitch.ids[d]
      BY <3>1 DEF Put
    <3>3. \A d \in Calls : /\ d \in DOMAIN a.stitch.ids <=> IsOpen(p, d)
                           /\ IsOpen(p, d) => a.stitch.ids[d] = IdOf(style, d)
      BY <2>2 DEF Binds
    <3>4. QED
      BY <1>8, <2>1, <2>2, <3>2, <3>3 DEF Binds
  <2>3. CASE style = "id"
    BY <1>8, <2>3 DEF Binds
  <2>4. CASE style = "first_id"
    <3>1. /\ DOMAIN b.stitch.ids = DOMAIN a.stitch.ids \cup {i}
          /\ \A x \in DOMAIN b.stitch.ids :
               b.stitch.ids[x] = IF x = i THEN IdOf(style, c) ELSE a.stitch.ids[x]
      BY <1>4, <1>8 DEF Put
    <3>2. CASE p = <<>>
      <4>1. DOMAIN a.stitch.ids = {}
        BY <2>4, <3>2 DEF Binds, Unstitched
      <4>2. b.stitch.last = 0 /\ i = 0 /\ 0 # Unset
        <5>1. piece.id # NoId /\ i = 0
          BY <1>t, <2>4, <3>2, IdsDiffer
        <5>2. QED
          BY <1>8, <5>1 DEF Unset
      <4>3. \A x \in DOMAIN b.stitch.ids : b.stitch.ids[x] = IdOf(style, q[1])
        BY <1>s, <2>4, <3>1, <4>1
      <4>4. QED
        BY <1>8, <1>s, <2>4, <3>1, <4>2, <4>3 DEF Binds
    <3>3. CASE p # <<>>
      <4>1. \A x \in DOMAIN a.stitch.ids : a.stitch.ids[x] = IdOf(style, c)
        BY <1>s, <2>4, <3>3 DEF Binds
      <4>2. \A x \in DOMAIN b.stitch.ids : b.stitch.ids[x] = IdOf(style, q[1])
        BY <1>s, <2>4, <3>1, <4>1
      <4>3. b.stitch.last = a.stitch.last /\ a.stitch.last \in DOMAIN b.stitch.ids /\ a.stitch.last # Unset
        BY <1>8, <1>t, <2>4, <3>1, <3>3 DEF Binds
      <4>4. QED
        BY <1>8, <1>s, <2>4, <4>2, <4>3 DEF Binds
    <3>4. QED
      BY <3>2, <3>3
  <2>5. QED
    BY <2>2, <2>3, <2>4 DEF Styles
<1>10. QED
  BY <1>4, <1>5, <1>9

(* Several pieces are added one after the other; a batch holds one or two.  *)
LEMMA FewAreAdded ==
  ASSUME NEW a, NEW pieces
  PROVE  /\ Len(pieces) = 0 => AddChunks(a, pieces) = a
         /\ Len(pieces) = 1 => AddChunks(a, pieces) = AddPiece(a, pieces[1], 0)
         /\ Len(pieces) = 2 =>
              AddChunks(a, pieces) = AddPiece(AddPiece(a, pieces[1], 0), pieces[2], 1)
<1> SUFFICES ASSUME Len(pieces) \in {0, 1, 2}
             PROVE  AddChunks(a, pieces) =
                      IF Len(pieces) = 0 THEN a
                      ELSE IF Len(pieces) = 1 THEN AddPiece(a, pieces[1], 0)
                      ELSE AddPiece(AddPiece(a, pieces[1], 0), pieces[2], 1)
  OBVIOUS
<1> DEFINE L == Len(pieces)
           one == AddPiece(a, pieces[1], 0)
           two == AddPiece(one, pieces[2], 1)
           f == [n \in 0 .. L |-> IF n = 0 THEN a ELSE IF n = 1 THEN one ELSE two]
           Adds(g) == g = [n \in 0 .. L |-> IF n = 0 THEN a ELSE AddPiece(g[n - 1], pieces[n], n - 1)]
           g == CHOOSE h : Adds(h)
<1>1. L \in {0, 1, 2}
  OBVIOUS
<1>2. Adds(f)
  <2>1. ASSUME NEW n \in 0 .. L
        PROVE  f[n] = IF n = 0 THEN a ELSE AddPiece(f[n - 1], pieces[n], n - 1)
    <3>1. n \in {0, 1, 2}
      <4>1. n \in 0 .. L /\ L \in {0, 1, 2}
        BY <1>1
      <4> HIDE DEF L
      <4>2. n \in Int /\ n >= 0 /\ n <= 2
        BY <4>1
      <4>3. QED
        BY <4>2
    <3>2. CASE n = 0
      BY <3>2
    <3>3. CASE n = 1
      <4>1. f[0] = a /\ f[1] = one
        BY <1>1, <3>3
      <4>2. n - 1 = 0 /\ pieces[n] = pieces[1] /\ n # 0 /\ f[n] = f[1]
        BY <3>3
      <4> HIDE DEF f
      <4>3. QED
        BY <4>1, <4>2
    <3>4. CASE n = 2
      <4>1. f[1] = one /\ f[2] = two
        BY <1>1, <3>4
      <4>2. n - 1 = 1 /\ pieces[n] = pieces[2] /\ n # 0 /\ f[n] = f[2]
        BY <3>4
      <4> HIDE DEF f
      <4>3. QED
        BY <4>1, <4>2
    <3>5. QED
      BY <3>1, <3>2, <3>3, <3>4
  <2>2. f = [n \in 0 .. L |-> f[n]]
    OBVIOUS
  <2> HIDE DEF f
  <2>3. QED
    BY <2>1, <2>2
<1> HIDE DEF f
<1>3. Adds(g)
  <2> HIDE DEF Adds
  <2>1. QED
    BY <1>2
<1>4. AddChunks(a, pieces) = g[L]
  BY DEF AddChunks
<1> HIDE DEF g
<1>5. \A n \in 0 .. L : g[n] = IF n = 0 THEN a ELSE AddPiece(g[n - 1], pieces[n], n - 1)
  <2> DEFINE h(n) == IF n = 0 THEN a ELSE AddPiece(g[n - 1], pieces[n], n - 1)
  <2>1. g = [n \in 0 .. L |-> h(n)]
    BY <1>3
  <2> HIDE DEF h
  <2>2. \A n \in 0 .. L : g[n] = h(n)
    BY <2>1
  <2>3. QED
    BY <2>2 DEF h
<1> HIDE DEF Adds
<1>6. CASE L = 0
  BY <1>4, <1>5, <1>6
<1>7. CASE L # 0
  <2>1. 0 \in 0 .. L /\ 1 \in 0 .. L
    BY <1>1, <1>7
  <2>2. g[0] = a
    BY <1>5, <2>1
  <2>3. g[1] = AddPiece(g[1 - 1], pieces[1], 1 - 1)
    BY <1>5, <2>1
  <2>4. g[1] = one
    BY <2>2, <2>3
  <2>5. CASE L = 1
    BY <1>4, <2>4, <2>5
  <2>6. CASE L = 2
    <3>1. g[2] = AddPiece(g[2 - 1], pieces[2], 2 - 1)
      BY <1>5, <2>6
    <3>2. 2 - 1 = 1
      OBVIOUS
    <3>3. g[2] = two
      BY <2>4, <3>1, <3>2
    <3>4. QED
      BY <1>4, <2>6, <3>3
  <2>7. QED
    BY <1>1, <1>7, <2>5, <2>6
<1>8. QED
  BY <1>6, <1>7

LEMMA PieceOfCall ==
  ASSUME NEW p \in Seq(Calls), NEW calls \in Seq(Calls), NEW n \in 1 .. Len(calls),
         n = Len(p) + 1, \A m \in 1 .. n - 1 : calls[m] = p[m]
  PROVE  Fits(Piece(calls, n), p, calls[n], llm.style)
<1>1. 1 .. n - 1 = 1 .. Len(p) /\ DOMAIN p = 1 .. Len(p)
  BY DEF Calls
<1>2. (\A m \in 1 .. n - 1 : calls[m] # calls[n]) <=> ~IsOpen(p, calls[n])
  BY <1>1 DEF IsOpen
<1> DEFINE c     == calls[n]
           first == \A m \in 1 .. n - 1 : calls[m] # c
<1>3. Piece(calls, n) =
        [first |-> first, part |-> n, index |-> IF llm.style \in {"id", "first_id"} THEN Unset ELSE c,
         id    |-> IF llm.style = "id" \/ (llm.style \in {"index_and_id", "first_id"} /\ first)
                   THEN <<"a", "b">>[c + 1] ELSE NoId]
  BY DEF Piece
<1>4. first = ~IsOpen(p, c)
  BY <1>2
<1> HIDE DEF c, first
<1>5. Piece(calls, n) =
        [first |-> ~IsOpen(p, c), part |-> Len(p) + 1,
         index |-> IF llm.style \in {"id", "first_id"} THEN Unset ELSE c,
         id    |-> IF llm.style = "id" \/ (llm.style \in {"index_and_id", "first_id"} /\ ~IsOpen(p, c))
                   THEN <<"a", "b">>[c + 1] ELSE NoId]
  BY <1>3, <1>4
<1>6. QED
  BY <1>5 DEF Fits, c

(* The same piece, with the id and the index that were found for it.        *)
Identified(st, piece, ordinal) ==
  [piece EXCEPT !.index = IndexOf(st, piece, ordinal),
                !.id = StableId(st, piece, IndexOf(st, piece, ordinal))]

LEMMA PieceIsHeard ==
  ASSUME NEW a, NEW h, NEW p \in Seq(Calls), NEW c \in Calls, NEW style \in Styles, NEW piece,
         NEW ordinal, Stitches(a, p, style), Binds(a, p, style), Fits(piece, p, c, style),
         Tells(Append(p, c), style), Stitches(h, p, style)
  PROVE  Stitches(AddPiece(h, Identified(a.stitch, piece, ordinal), ordinal), Append(p, c), style)
<1> DEFINE new == Identified(a.stitch, piece, ordinal)
<1>1. StableId(a.stitch, piece, IndexOf(a.stitch, piece, ordinal)) = IdOf(style, c)
  BY PieceIsAdded
<1>2. piece = [first |-> ~IsOpen(p, c), part |-> Len(p) + 1, index |-> piece.index, id |-> piece.id]
  BY DEF Fits
<1>3. new.id = IdOf(style, c) /\ (new.first <=> ~IsOpen(p, c)) /\ new.part = Len(p) + 1
  <2> DEFINE x == IndexOf(a.stitch, piece, ordinal)
             y == StableId(a.stitch, piece, x)
  <2>1. new = [piece EXCEPT !.index = x, !.id = y]
    BY DEF Identified
  <2>2. y = IdOf(style, c)
    BY <1>1
  <2> HIDE DEF x, y, new
  <2>3. new.id = y /\ new.first = piece.first /\ new.part = piece.part
    BY <1>2, <2>1
  <2>4. (piece.first <=> ~IsOpen(p, c)) /\ piece.part = Len(p) + 1
    BY DEF Fits
  <2>5. QED
    BY <2>2, <2>3, <2>4
<1>4. IdOf(style, c) # NoId
  BY IdsDiffer
<1> HIDE DEF new
<1>5. StableId(h.stitch, new, IndexOf(h.stitch, new, ordinal)) = IdOf(style, c)
  BY <1>3, <1>4 DEF StableId
<1>6. QED
  BY <1>3, <1>5, PieceIsStitched DEF new

(* A batch of pieces is added, and so is the event made of it.              *)
LEMMA BatchIsAdded ==
  ASSUME NEW a, NEW h, NEW p \in Seq(Calls), NEW k \in 1 .. 2, NEW batch \in [1 .. k -> Calls],
         NEW calls, calls = p \o batch,
         NEW pieces, pieces = [n \in DOMAIN batch |-> Piece(calls, Len(p) + n)],
         NEW style \in Styles, style = llm.style,
         Stitches(a, p, style), Binds(a, p, style), Tells(calls, style)
  PROVE  /\ calls \in Seq(Calls) /\ Len(calls) = Len(p) + k
         /\ Stitches(AddChunks(a, pieces), calls, style)
         /\ Binds(AddChunks(a, pieces), calls, style)
         /\ Stitches(h, p, style) =>
              Stitches(AddChunks(h, NormaliseStreamEvent(a, pieces)), calls, style)
<1> DEFINE N == Len(p)
           q == Append(p, batch[1])
           one == pieces[1]
           two == pieces[2]
           a1 == AddPiece(a, one, 0)
           event == NormaliseStreamEvent(a, pieces)
           h1 == AddPiece(h, event[1], 0)
<1>1. k = 1 \/ k = 2
  OBVIOUS
<1>2. N \in Nat /\ 1 \in 1 .. k /\ batch \in Seq(Calls) /\ Len(batch) = k /\ DOMAIN batch = 1 .. k
      /\ batch[1] \in Calls
  OBVIOUS
<1>3. /\ calls \in Seq(Calls) /\ Len(calls) = N + k
      /\ \A n \in 1 .. N : calls[n] = p[n]
      /\ \A n \in 1 .. k : calls[N + n] = batch[n]
  BY <1>2
<1>4. q \in Seq(Calls) /\ Len(q) = N + 1 /\ q[N + 1] = batch[1] /\ \A n \in 1 .. N : q[n] = p[n]
  BY <1>2
<1>w. Tells(q, style)
  <2>1. N + 1 \in 1 .. N + k /\ \A n \in 1 .. N + 1 : n \in 1 .. N + k /\ (n = N + 1 \/ n \in 1 .. N)
    BY <1>2
  <2>2. \A n \in 1 .. N + 1 : q[n] = calls[n]
    BY <1>2, <1>3, <1>4, <2>1
  <2>3. DOMAIN q = 1 .. N + 1 /\ DOMAIN calls = 1 .. N + k
    BY <1>3, <1>4
  <2> HIDE DEF q, N
  <2>4. ASSUME style = "first_id", NEW m \in DOMAIN q, NEW n \in DOMAIN q PROVE q[m] = q[n]
    <3>1. m \in DOMAIN calls /\ n \in DOMAIN calls /\ q[m] = calls[m] /\ q[n] = calls[n]
      BY <2>1, <2>2, <2>3
    <3>2. QED
      BY <2>4, <3>1 DEF Tells
  <2>5. QED
    BY <2>4 DEF Tells
<1>5. one = Piece(calls, N + 1) /\ k = 2 => two = Piece(calls, N + 2)
  BY <1>2
<1>6. DOMAIN pieces = 1 .. k /\ pieces \in [1 .. k -> {one, pieces[k]}] /\ Len(pieces) = k
  <2>1. pieces \in [1 .. k -> {one, pieces[k]}]
    BY <1>1, <1>2
  <2>2. QED
    BY <2>1
<1>7. Fits(one, p, batch[1], style)
  <2>1. N + 1 \in 1 .. Len(calls) /\ \A m \in 1 .. (N + 1) - 1 : calls[m] = p[m]
    BY <1>1, <1>2, <1>3
  <2>2. calls[N + 1] = batch[1]
    BY <1>2, <1>3
  <2>3. one = Piece(calls, N + 1)
    BY <1>2
  <2> HIDE DEF one
  <2>4. Fits(Piece(calls, N + 1), p, calls[N + 1], style)
    BY <1>3, <2>1, PieceOfCall
  <2>5. QED
    BY <2>2, <2>3, <2>4
<1>8. Stitches(a1, q, style) /\ Binds(a1, q, style)
  <2> HIDE DEF one
  <2>1. QED
    BY <1>2, <1>7, <1>w, PieceIsAdded
<1>9. event = [n \in 1 .. k |-> Identified(AddChunks(a, SubSeq(pieces, 1, n - 1)).stitch, pieces[n], n - 1)]
  BY <1>6 DEF NormaliseStreamEvent, Identified
<1>10. AddChunks(a, SubSeq(pieces, 1, 0)) = a
  <2> DEFINE none == SubSeq(pieces, 1, 0)
  <2>1. Len(none) = 0
    BY <1>6
  <2> HIDE DEF none
  <2>2. AddChunks(a, none) = a
    BY <2>1, FewAreAdded
  <2>3. QED
    BY <2>2 DEF none
<1>11. event[1] = Identified(a.stitch, one, 0)
  <2>1. event[1] = Identified(AddChunks(a, SubSeq(pieces, 1, 1 - 1)).stitch, pieces[1], 1 - 1)
    BY <1>2, <1>9
  <2>2. 1 - 1 = 0
    OBVIOUS
  <2>3. QED
    BY <1>10, <2>1, <2>2
<1>12. Len(event) = k
  <2>1. event \in [1 .. k -> {event[n] : n \in 1 .. k}]
    BY <1>9
  <2>2. QED
    BY <2>1
<1>13. Stitches(h, p, style) => Stitches(h1, q, style)
  <2> HIDE DEF one, event
  <2>1. QED
    BY <1>2, <1>7, <1>11, <1>w, PieceIsHeard
<1>14. CASE k = 1
  <2>1. AddChunks(a, pieces) = a1
    BY <1>6, <1>14, FewAreAdded
  <2> HIDE DEF event
  <2>2. AddChunks(h, event) = h1
    BY <1>12, <1>14, FewAreAdded
  <2>3. calls = q
    <3>1. Len(calls) = Len(q) /\ \A n \in 1 .. Len(calls) : calls[n] = q[n]
      <4>1. ASSUME NEW n \in 1 .. N + 1 PROVE calls[n] = q[n]
        <5>1. n = N + 1 \/ n \in 1 .. N
          BY <1>2
        <5>2. QED
          BY <1>2, <1>3, <1>4, <5>1
      <4>2. QED
        BY <1>3, <1>4, <1>14, <4>1
    <3>2. QED
      BY <1>3, <1>4, <3>1
  <2>4. QED
    BY <1>3, <1>8, <1>13, <1>14, <2>1, <2>2, <2>3 DEF event
<1>15. CASE k = 2
  <2> DEFINE r == Append(q, batch[2])
  <2>1. batch[2] \in Calls /\ 2 \in 1 .. k
    BY <1>15
  <2>2. r \in Seq(Calls) /\ Len(r) = N + 2 /\ r[N + 2] = batch[2] /\ \A n \in 1 .. N + 1 : r[n] = q[n]
    BY <1>2, <1>4, <2>1
  <2>3. calls = r
    <3>1. Len(calls) = Len(r) /\ \A n \in 1 .. Len(calls) : calls[n] = r[n]
      <4>1. ASSUME NEW n \in 1 .. N + 2 PROVE calls[n] = r[n]
        <5>1. n = N + 2 \/ n = N + 1 \/ n \in 1 .. N
          BY <1>2
        <5>2. CASE n \in 1 .. N
          BY <1>2, <1>3, <1>4, <2>2, <5>2
        <5>3. CASE n = N + 1
          BY <1>2, <1>3, <1>4, <2>2, <5>3
        <5>4. CASE n = N + 2
          BY <1>3, <2>1, <2>2, <5>4
        <5>5. QED
          BY <5>1, <5>2, <5>3, <5>4
      <4>2. QED
        BY <1>3, <1>15, <2>2, <4>1
    <3>2. QED
      BY <1>3, <2>2, <3>1
  <2>w. Tells(Append(q, batch[2]), style)
    BY <2>3
  <2>4. Fits(two, q, batch[2], style)
    <3>1. /\ N + 2 \in 1 .. Len(calls) /\ N + 2 = Len(q) + 1
          /\ \A m \in 1 .. (N + 2) - 1 : calls[m] = q[m]
      <4>1. (N + 2) - 1 = N + 1 /\ N + 2 \in 1 .. N + 2
        BY <1>2
      <4>2. QED
        BY <1>3, <1>4, <1>15, <2>2, <2>3, <4>1
    <3>2. calls[N + 2] = batch[2]
      BY <1>3, <2>1
    <3>3. two = Piece(calls, N + 2)
      BY <1>2, <1>15
    <3> HIDE DEF q, two
    <3>4. Fits(Piece(calls, N + 2), q, calls[N + 2], style)
      BY <1>3, <1>4, <3>1, PieceOfCall
    <3>5. QED
      BY <3>2, <3>3, <3>4
  <2>5. AddChunks(a, pieces) = AddPiece(a1, two, 1)
    BY <1>6, <1>15, FewAreAdded
  <2>6. Stitches(AddPiece(a1, two, 1), r, style) /\ Binds(AddPiece(a1, two, 1), r, style)
    <3> HIDE DEF q, a1, two
    <3>1. QED
      BY <1>4, <1>8, <2>1, <2>4, <2>w, PieceIsAdded
  <2>7. AddChunks(a, SubSeq(pieces, 1, 1)) = a1
    <3> DEFINE head == SubSeq(pieces, 1, 1)
    <3>1. pieces \in Seq({one, two}) /\ Len(pieces) = 2 /\ pieces[1] = one
      BY <1>6, <1>15
    <3> HIDE DEF one, two
    <3>2. Len(head) = 1 /\ head[1] = one
      BY <3>1
    <3> HIDE DEF head
    <3>3. AddChunks(a, head) = AddPiece(a, one, 0)
      BY <3>2, FewAreAdded
    <3>4. QED
      BY <3>3 DEF head
  <2>8. event[2] = Identified(a1.stitch, two, 1)
    <3>1. event[2] = Identified(AddChunks(a, SubSeq(pieces, 1, 2 - 1)).stitch, pieces[2], 2 - 1)
      BY <1>9, <2>1
    <3>2. 2 - 1 = 1
      OBVIOUS
    <3>3. QED
      BY <2>7, <3>1, <3>2
  <2> HIDE DEF event
  <2>9. AddChunks(h, event) = AddPiece(h1, event[2], 1)
    BY <1>12, <1>15, FewAreAdded
  <2>10. Stitches(h1, q, style) => Stitches(AddPiece(h1, event[2], 1), r, style)
    <3> SUFFICES ASSUME Stitches(h1, q, style)
                 PROVE  Stitches(AddPiece(h1, event[2], 1), r, style)
      OBVIOUS
    <3> HIDE DEF q, a1, h1, two
    <3>1. Stitches(AddPiece(h1, Identified(a1.stitch, two, 1), 1), Append(q, batch[2]), style)
      BY <1>4, <1>8, <2>1, <2>4, <2>w, PieceIsHeard
    <3>2. QED
      BY <2>8, <3>1
  <2>11. QED
    BY <1>3, <1>13, <1>15, <2>3, <2>5, <2>6, <2>9, <2>10 DEF event
<1>16. QED
  BY <1>1, <1>14, <1>15

(* What is stitched is what was sent.                                       *)
LEMMA StitchedIsSent ==
  ASSUME NEW a, sent.pieces \in Seq(Calls), NEW style, Stitches(a, sent.pieces, style)
  PROVE  ToolCallsOf(a) = CallsSent
<1> DEFINE p == sent.pieces
           o == Opened(p)
<1>1. p \in Seq(Calls) /\ DOMAIN p = 1 .. Len(p) /\ Len(p) \in Nat
  OBVIOUS
<1>2. o \in Seq(1 .. Len(p))
  <2>1. 0 \in Calls
    BY DEF Calls
  <2> HIDE DEF p
  <2>2. QED
    BY <1>1, <2>1, OpenedGrows
<1>3. CallsSent = [n \in DOMAIN o |-> PiecesOf(p, p[o[n]])]
  BY DEF CallsSent, Opened, Places, Firsts, PiecesOf
<1>4. /\ a.order \in Seq(Ids) /\ DOMAIN a.order = DOMAIN o
      /\ \A n \in DOMAIN a.order : a.order[n] = IdOf(style, p[o[n]])
      /\ a.named = {IdOf(style, p[n]) : n \in DOMAIN p}
      /\ \A c \in Calls : IsOpen(p, c) => a.args[IdOf(style, c)] = PiecesOf(p, c)
  BY DEF Stitches
<1> HIDE DEF p, o
<1>5. \A n \in DOMAIN o : o[n] \in DOMAIN p
  BY <1>1, <1>2
<1>6. \A n \in DOMAIN o : IsOpen(p, p[o[n]]) /\ p[o[n]] \in Calls
  BY <1>1, <1>5 DEF IsOpen
<1> DEFINE order == a.order
           places == {n \in DOMAIN order : order[n] \in a.named}
<1>7. \A n \in 1 .. Len(order) : n \in places
  BY <1>4, <1>5
<1>8. order \in Seq(Ids)
  BY <1>4
<1>9. ToolCallsOf(a) = [n \in DOMAIN Chosen(order, places) |-> a.args[Chosen(order, places)[n]]]
  BY DEF ToolCallsOf
<1> HIDE DEF order, places
<1>10. Chosen(order, places) = order
  BY <1>7, <1>8, ChosenOfAll
<1>11. \A n \in DOMAIN o : a.args[order[n]] = PiecesOf(p, p[o[n]])
  BY <1>4, <1>6 DEF order
<1>12. ToolCallsOf(a) = [n \in DOMAIN o |-> a.args[order[n]]]
  BY <1>4, <1>9, <1>10 DEF order
<1>13. QED
  BY <1>3, <1>11, <1>12

(* A response holds the tokens of its attempt, in order.                    *)
Tokens(t, n) == [i \in 1 .. n |-> <<t, i>>]

LEMMA TokensGrow ==
  ASSUME NEW t
  PROVE  /\ Tokens(t, 0) = <<>> /\ Tokens(t, 1) = <<<<t, 1>>>>
         /\ \A n \in Nat : Append(Tokens(t, n), <<t, n + 1>>) = Tokens(t, n + 1)
<1>1. Tokens(t, 0) = <<>>
  BY DEF Tokens
<1>2. Tokens(t, 1) = <<<<t, 1>>>>
  BY DEF Tokens
<1>3. ASSUME NEW n \in Nat PROVE Append(Tokens(t, n), <<t, n + 1>>) = Tokens(t, n + 1)
  <2> DEFINE old == Tokens(t, n)
             S   == {<<t, i>> : i \in 1 .. n + 1}
  <2>1. old \in [1 .. n -> S] /\ <<t, n + 1>> \in S /\ \A i \in 1 .. n : old[i] = <<t, i>>
    BY DEF Tokens
  <2>2. old \in Seq(S) /\ Len(old) = n
    BY <2>1
  <2> HIDE DEF old, S
  <2>3. /\ Append(old, <<t, n + 1>>) = [i \in 1 .. n + 1 |-> Append(old, <<t, n + 1>>)[i]]
        /\ \A i \in 1 .. n + 1 : Append(old, <<t, n + 1>>)[i] = IF i \in 1 .. n THEN old[i] ELSE <<t, n + 1>>
    BY <2>1, <2>2
  <2>4. \A i \in 1 .. n + 1 : Append(old, <<t, n + 1>>)[i] = <<t, i>>
    <3>1. \A i \in 1 .. n + 1 : i \in 1 .. n \/ i = n + 1
      OBVIOUS
    <3>2. QED
      BY <2>1, <2>3, <3>1
  <2>5. Append(old, <<t, n + 1>>) = [i \in 1 .. n + 1 |-> <<t, i>>]
    BY <2>3, <2>4
  <2>6. QED
    BY <2>5 DEF old, Tokens
<1>4. QED
  BY <1>1, <1>2, <1>3

(* Nothing stitches nothing.                                                *)
LEMMA EmptyStitchesNothing ==
  ASSUME NEW style
  PROVE  Stitches(Empty, <<>>, style) /\ Binds(Empty, <<>>, style)
<1>1. Opened(<<>>) = <<>>
  <2>1. Places(<<>>) = <<>>
    BY DEF Places
  <2>2. QED
    BY <2>1, ChosenOfNone DEF Opened
<1>2. \A c \in Calls : ~IsOpen(<<>>, c)
  BY DEF IsOpen
<1>3. /\ Empty.order = <<>> /\ Empty.named = {} /\ Empty.args = <<>>
      /\ Empty.stitch = [ids |-> <<>>, indexes |-> <<>>, next |-> Unset, last |-> Unset]
  BY DEF Empty, Unstitched
<1>4. <<>> \in Seq(Ids) /\ DOMAIN <<>> = {} /\ <<>> = [x \in {} |-> Empty.args[x]]
  OBVIOUS
<1>5. {IdOf(style, <<>>[n]) : n \in DOMAIN <<>>} = {}
  BY <1>4
<1>6. Stitches(Empty, <<>>, style)
  BY <1>1, <1>2, <1>3, <1>4, <1>5 DEF Stitches
<1>7. Binds(Empty, <<>>, style)
  <2>1. Empty.stitch = Unstitched
    BY DEF Empty
  <2>2. QED
    BY <1>2, <1>3, <1>4, <2>1 DEF Binds
<1>8. QED
  BY <1>6, <1>7

-----------------------------------------------------------------------------
(* LlmCalls: the invariant.                                                 *)

Failures ==
  Failure(PlatformCodes \cup LocalCodes \cup OtherErrors, {NoHint, "marker"} \cup EnvelopeHints)

LlmCounts ==
  /\ llm \in LlmSetup
  /\ phase \in {"ready", "reading", "answered", "raised"}
  /\ attempt \in 1 .. MaxAttempts
  /\ sent \in [texts : 0 .. MaxEvents, pieces : Seq(Calls), done : BOOLEAN]
  /\ refused \in Seq(Failures)
  /\ Len(refused) = IF phase = "raised" THEN attempt ELSE attempt - 1
  /\ answer.given <=> phase = "answered"
  /\ raised # NoError <=> phase = "raised"

\* what the response under way has brought is there, and nothing else
LlmReading ==
  phase = "reading" =>
    /\ OverStream
    /\ parts = Tokens(attempt, sent.texts)
    /\ llm.client # "chat" => chunks = parts
    /\ Tells(sent.pieces, llm.style) =>
         /\ Stitches(acc, sent.pieces, llm.style) /\ Binds(acc, sent.pieces, llm.style)
         /\ llm.client = "agent" => Stitches(heard, sent.pieces, llm.style)

LlmAnswered ==
  phase = "answered" =>
    /\ sent.done
    /\ answer.text = Tokens(attempt, sent.texts)
    /\ OverStream =>
         /\ answer.calls = ToolCallsOf(acc)
         /\ Tells(sent.pieces, llm.style) =>
              /\ Stitches(acc, sent.pieces, llm.style)
              /\ llm.client = "agent" => Stitches(heard, sent.pieces, llm.style)

LlmInv == LlmCounts /\ LlmReading /\ LlmAnswered /\ DenialIsFinal

LEMMA LlmInit_Inv == LlmInit => LlmInv
<1> SUFFICES ASSUME LlmInit PROVE LlmInv
  OBVIOUS
<1>1. LlmCounts
  BY LlmAssumption DEF LlmInit, LlmCounts, NothingSent, NoAnswer, NoError
<1>2. LlmReading /\ LlmAnswered
  BY DEF LlmInit, LlmReading, LlmAnswered
<1>3. DenialIsFinal
  BY DEF LlmInit, DenialIsFinal
<1>4. QED
  BY <1>1, <1>2, <1>3 DEF LlmInv

(* A failed attempt: again only after an error that may pass.               *)
LEMMA Fail_Inv ==
  ASSUME LlmInv, phase \in {"ready", "reading"}, NEW failure \in Failures, Fail(failure)
  PROVE  LlmInv'
<1> DEFINE err   == ErrorOf(failure)
           again == llm.client = "author" /\ attempt < MaxAttempts /\ MayPass(err)
<1>1. /\ refused' = Append(refused, failure)
      /\ phase' = IF again THEN "ready" ELSE "raised"
      /\ attempt' = IF again THEN attempt + 1 ELSE attempt
      /\ raised' = IF again THEN raised ELSE err
      /\ llm' = llm /\ sent' = sent /\ answer' = answer
  BY DEF Fail
<1>2. err # NoError
  <2>1. err.class # "none"
    BY DEF ErrorOf, ErrorClass, Error
  <2>2. QED
    BY <2>1 DEF NoError
<1>3. IsDenial(failure) => ~IsTransient(err) /\ ~again
  <2> SUFFICES ASSUME IsDenial(failure) PROVE ~IsTransient(err) /\ ~again
    OBVIOUS
  <2>1. /\ failure.code = "denied_by_binding" \/ (failure.code = "status_403" /\ llm.client = "structured")
        /\ failure.hint \in {"none", "final"}
    BY DEF IsDenial, NoHint
  <2>2. ClassifyEnvelopeError(failure.code) = "binding_denied" /\ Kind(failure) = "binding_denied"
    BY <2>1 DEF ClassifyEnvelopeError, Kind
  <2>3. err.code = failure.code /\ err.hint = failure.hint
        /\ err.kind \in {"unconfigured", "provider_error", "binding_denied"}
    BY <2>2 DEF ErrorOf, Error
  <2>4. ~IsTransient(err)
    BY <2>1, <2>3 DEF IsTransient
  <2>5. llm.client = "author" => ~MayPass(err)
    BY <2>1, <2>3, <2>4 DEF MayPass
  <2>6. QED
    BY <2>4, <2>5
<1> HIDE DEF err
<1>4. raised = NoError /\ answer.given # TRUE /\ Len(refused) = attempt - 1 /\ refused \in Seq(Failures)
      /\ attempt \in 1 .. MaxAttempts
  BY DEF LlmInv, LlmCounts
<1>5. LlmCounts'
  <2>1. refused' \in Seq(Failures) /\ Len(refused') = Len(refused) + 1 /\ attempt \in Nat
    BY <1>1, <1>4, LlmAssumption
  <2>2. CASE again
    <3>1. attempt + 1 \in 1 .. MaxAttempts
      BY <1>4, <2>2, LlmAssumption
    <3>2. QED
      BY <1>1, <1>4, <2>1, <2>2, <3>1 DEF LlmInv, LlmCounts
  <2>3. CASE ~again
    BY <1>1, <1>2, <1>4, <2>1, <2>3 DEF LlmInv, LlmCounts
  <2>4. QED
    BY <2>2, <2>3
<1>6. LlmReading' /\ LlmAnswered'
  BY <1>1 DEF LlmReading, LlmAnswered
<1>7. DenialIsFinal'
  <2>1. \A n \in DOMAIN refused : ~IsDenial(refused[n])
    BY DEF LlmInv, DenialIsFinal
  <2>2. /\ DOMAIN refused' = 1 .. Len(refused) + 1 /\ refused'[Len(refused) + 1] = failure
        /\ Len(refused') = Len(refused) + 1 /\ Len(refused) \in Nat
        /\ \A n \in 1 .. Len(refused) : refused'[n] = refused[n] /\ n \in DOMAIN refused
    BY <1>1, <1>4
  <2>3. \A n \in 1 .. Len(refused) + 1 : n = Len(refused) + 1 \/ n \in 1 .. Len(refused)
    BY <2>2
  <2>0. \A f : IsDenial(f)' <=> IsDenial(f)
    BY <1>1 DEF IsDenial
  <2>4. ASSUME NEW n \in DOMAIN refused', IsDenial(refused'[n])
        PROVE  phase' = "raised" /\ n = Len(refused') /\ ~IsTransient(raised')
    <3>1. n = Len(refused) + 1 /\ IsDenial(failure)
      BY <2>1, <2>2, <2>3, <2>4
    <3>2. ~again
      BY <1>3, <3>1
    <3>3. QED
      BY <1>1, <1>3, <2>2, <3>1, <3>2
  <2>5. QED
    BY <1>1, <2>4 DEF DenialIsFinal, IsDenial, IsTransient
<1>8. QED
  BY <1>5, <1>6, <1>7 DEF LlmInv

LEMMA LlmStep == LlmInv /\ [LlmNext]_llmVars => LlmInv'
<1> SUFFICES ASSUME LlmInv, [LlmNext]_llmVars PROVE LlmInv'
  OBVIOUS
<1>0. LlmCounts /\ LlmReading /\ LlmAnswered /\ DenialIsFinal
  BY DEF LlmInv
<1>c. StreamFailures \cup PostFailures \cup ProviderFailures \cup {NoBackend} \subseteq Failures
  <2> DEFINE codes == PlatformCodes \cup LocalCodes \cup OtherErrors
             hints == {NoHint, "marker"} \cup EnvelopeHints
  <2>1. /\ PlatformCodes \subseteq codes /\ PlatformCodes \cup LocalCodes \subseteq codes
        /\ {"denied_by_binding"} \subseteq codes /\ {"provider_error"} \subseteq codes
        /\ {"transport_error", "platform_llm_structured_timeout", "non_json_response"} \subseteq codes
        /\ "no_backend" \in codes
    BY DEF PlatformCodes, LocalCodes, OtherErrors
  <2>2. /\ {NoHint} \subseteq hints /\ {"marker"} \subseteq hints /\ {NoHint, "marker"} \subseteq hints
        /\ {NoHint} \cup EnvelopeHints \subseteq hints
    OBVIOUS
  <2> HIDE DEF codes, hints
  <2>3. \A C, H : C \subseteq codes /\ H \subseteq hints => Failure(C, H) \subseteq Failure(codes, hints)
    BY DEF Failure
  <2>4. Failures = Failure(codes, hints)
    BY DEF Failures, codes, hints
  <2>5. StreamFailures \subseteq Failures
    BY <2>1, <2>2, <2>3, <2>4 DEF StreamFailures
  <2>6. PostFailures \subseteq Failures
    BY <2>1, <2>2, <2>3, <2>4 DEF PostFailures
  <2>7. ProviderFailures \subseteq Failures
    BY <2>1, <2>2, <2>3, <2>4 DEF ProviderFailures
  <2>8. NoBackend \in Failures
    BY <2>1, <2>2, <2>4 DEF NoBackend, Failure
  <2>9. QED
    BY <2>5, <2>6, <2>7, <2>8
<1>d. /\ phase # "raised" => \A n \in DOMAIN refused : ~IsDenial(refused[n])
      /\ refused' = refused /\ phase # "raised" /\ llm' = llm => DenialIsFinal'
  BY <1>0 DEF DenialIsFinal, IsDenial
<1>1. CASE OpenResponse
  <2>1. /\ phase = "ready" /\ OverStream /\ phase' = "reading"
        /\ sent' = NothingSent /\ parts' = <<>> /\ chunks' = <<>> /\ acc' = Empty /\ heard' = Empty
        /\ llm' = llm /\ attempt' = attempt /\ answer' = answer /\ raised' = raised /\ refused' = refused
    BY <1>1 DEF OpenResponse
  <2>2. NothingSent.texts = 0 /\ NothingSent.pieces = <<>>
        /\ NothingSent \in [texts : 0 .. MaxEvents, pieces : Seq(Calls), done : BOOLEAN]
    BY LlmAssumption DEF NothingSent
  <2>3. LlmCounts'
    BY <1>0, <2>1, <2>2 DEF LlmCounts
  <2>4. Tokens(attempt, 0) = <<>> /\ Stitches(Empty, <<>>, llm.style) /\ Binds(Empty, <<>>, llm.style)
    BY TokensGrow, EmptyStitchesNothing
  <2>5. LlmReading' /\ LlmAnswered'
    BY <2>1, <2>2, <2>4 DEF LlmReading, LlmAnswered, OverStream
  <2>6. QED
    BY <1>d, <2>1, <2>3, <2>5 DEF LlmInv
<1>2. CASE RefuseStream
  <2>1. PICK failure \in StreamFailures : Fail(failure)
    BY <1>2 DEF RefuseStream
  <2>2. failure \in Failures /\ phase = "ready"
    BY <1>2, <1>c DEF RefuseStream
  <2>3. QED
    BY <2>1, <2>2, Fail_Inv
<1>3. CASE ReadText
  <2> DEFINE n     == sent.texts
             token == <<attempt, n + 1>>
  <2>1. /\ phase = "reading" /\ Room
        /\ sent' = [sent EXCEPT !.texts = @ + 1]
        /\ parts' = Append(parts, token)
        /\ chunks' = IF llm.client = "chat" THEN chunks ELSE Append(chunks, token)
        /\ llm' = llm /\ phase' = phase /\ attempt' = attempt /\ acc' = acc /\ heard' = heard
        /\ answer' = answer /\ raised' = raised /\ refused' = refused
    BY <1>3 DEF ReadText
  <2>2. /\ n \in 0 .. MaxEvents /\ Len(sent.pieces) \in Nat
        /\ sent = [texts |-> n, pieces |-> sent.pieces, done |-> sent.done]
        /\ sent.pieces \in Seq(Calls) /\ sent.done \in BOOLEAN
    BY <1>0 DEF LlmCounts
  <2>3. n + 1 \in 0 .. MaxEvents
    BY <2>1, <2>2, LlmAssumption DEF Room
  <2>4. sent' = [texts |-> n + 1, pieces |-> sent.pieces, done |-> sent.done]
    BY <2>1, <2>2
  <2>5. LlmCounts'
    <3>1. sent' \in [texts : 0 .. MaxEvents, pieces : Seq(Calls), done : BOOLEAN]
      BY <2>2, <2>3, <2>4
    <3>2. QED
      BY <1>0, <2>1, <3>1 DEF LlmCounts
  <2>6. parts' = Tokens(attempt, n + 1) /\ (llm.client # "chat" => chunks' = parts')
    <3>1. Append(Tokens(attempt, n), token) = Tokens(attempt, n + 1)
      <4>1. n \in Nat
        BY <2>2
      <4> HIDE DEF n
      <4>2. QED
        BY <4>1, TokensGrow
    <3>2. QED
      BY <1>0, <2>1, <3>1 DEF LlmReading
  <2>7. LlmReading' /\ LlmAnswered'
    BY <1>0, <2>1, <2>4, <2>6 DEF LlmReading, LlmAnswered, OverStream
  <2>8. QED
    BY <1>d, <2>1, <2>5, <2>7 DEF LlmInv
<1>4. CASE ReadPieces
  <2>1. PICK batch \in UNION {[1 .. n -> Calls] : n \in 1 .. 2} :
          LET calls  == sent.pieces \o batch
              pieces == [n \in DOMAIN batch |-> Piece(calls, Len(sent.pieces) + n)] IN
          /\ sent' = [sent EXCEPT !.pieces = calls]
          /\ acc' = AddChunks(acc, pieces)
          /\ heard' = IF llm.client = "chat" THEN heard
                     ELSE AddChunks(heard, NormaliseStreamEvent(acc, pieces))
    BY <1>4 DEF ReadPieces
  <2>2. PICK k \in 1 .. 2 : batch \in [1 .. k -> Calls]
    OBVIOUS
  <2> DEFINE p      == sent.pieces
             calls  == p \o batch
             pieces == [n \in DOMAIN batch |-> Piece(calls, Len(p) + n)]
             style  == llm.style
  <2>3. /\ phase = "reading" /\ Room
        /\ llm' = llm /\ phase' = phase /\ attempt' = attempt /\ parts' = parts /\ chunks' = chunks
        /\ answer' = answer /\ raised' = raised /\ refused' = refused
    BY <1>4 DEF ReadPieces
  <2>4. p \in Seq(Calls) /\ style \in Styles
        /\ sent = [texts |-> sent.texts, pieces |-> p, done |-> sent.done]
        /\ sent.texts \in 0 .. MaxEvents /\ sent.done \in BOOLEAN
    BY <1>0 DEF LlmCounts, LlmSetup
  <2>5. /\ Tells(p, style) =>
             /\ Stitches(acc, p, style) /\ Binds(acc, p, style)
             /\ llm.client = "agent" => Stitches(heard, p, style)
        /\ OverStream /\ parts = Tokens(attempt, sent.texts) /\ (llm.client # "chat" => chunks = parts)
    BY <1>0, <2>3 DEF LlmReading
  <2> HIDE DEF calls, pieces, p, style
  <2>c. calls \in Seq(Calls) /\ (Tells(calls, style) => Tells(p, style))
    <3>1. batch \in Seq(Calls)
      BY <2>2
    <3>2. calls \in Seq(Calls) /\ Len(calls) = Len(p) + Len(batch) /\ \A n \in 1 .. Len(p) : calls[n] = p[n]
      BY <2>4, <3>1 DEF calls
    <3>3. DOMAIN p = 1 .. Len(p) /\ \A n \in 1 .. Len(p) : n \in DOMAIN calls
      <4>1. Len(p) \in Nat /\ Len(batch) \in Nat /\ DOMAIN calls = 1 .. Len(calls) /\ DOMAIN p = 1 .. Len(p)
        BY <2>4, <3>1, <3>2
      <4>2. QED
        BY <3>2, <4>1
    <3>4. QED
      BY <3>2, <3>3 DEF Tells
  <2>6. ASSUME Tells(calls, style)
        PROVE  /\ Stitches(AddChunks(acc, pieces), calls, style)
               /\ Binds(AddChunks(acc, pieces), calls, style)
               /\ Stitches(heard, p, style) =>
                    Stitches(AddChunks(heard, NormaliseStreamEvent(acc, pieces)), calls, style)
    <3>1. calls = p \o batch /\ pieces = [n \in DOMAIN batch |-> Piece(calls, Len(p) + n)]
          /\ style = llm.style
      BY DEF calls, pieces, style
    <3>2. Stitches(acc, p, style) /\ Binds(acc, p, style)
      BY <2>5, <2>6, <2>c
    <3>3. QED
      BY <2>2, <2>4, <2>6, <3>1, <3>2, BatchIsAdded
  <2>7. /\ sent' = [sent EXCEPT !.pieces = calls]
        /\ acc' = AddChunks(acc, pieces)
        /\ llm.client = "agent" => heard' = AddChunks(heard, NormaliseStreamEvent(acc, pieces))
    BY <2>1 DEF calls, pieces, p
  <2>8. sent' = [texts |-> sent.texts, pieces |-> calls, done |-> sent.done]
    BY <2>4, <2>7
  <2>9. LlmCounts'
    <3>1. sent' \in [texts : 0 .. MaxEvents, pieces : Seq(Calls), done : BOOLEAN]
      BY <2>4, <2>c, <2>8
    <3>2. QED
      BY <1>0, <2>3, <3>1 DEF LlmCounts
  <2>10. LlmReading'
    <3>1. sent'.texts = sent.texts /\ sent'.pieces = calls /\ llm'.style = style
      BY <2>3, <2>8 DEF style
    <3>2. ASSUME Tells(calls, style)
          PROVE  /\ Stitches(acc', calls, style) /\ Binds(acc', calls, style)
                 /\ llm.client = "agent" => Stitches(heard', calls, style)
      BY <2>5, <2>6, <2>7, <2>c, <3>2
    <3>3. QED
      BY <2>3, <2>5, <3>1, <3>2 DEF LlmReading, OverStream
  <2>11. LlmAnswered'
    BY <2>3 DEF LlmAnswered
  <2>12. QED
    BY <1>d, <2>3, <2>9, <2>10, <2>11 DEF LlmInv
<1>5. CASE ReadDone
  <2>1. /\ phase = "reading" /\ phase' = "answered"
        /\ sent' = [sent EXCEPT !.done = TRUE]
        /\ answer' = [text |-> IF llm.client = "author" /\ chunks # <<>> THEN chunks ELSE parts,
                      calls |-> ToolCallsOf(acc), given |-> TRUE]
        /\ llm' = llm /\ attempt' = attempt /\ acc' = acc /\ heard' = heard
        /\ raised' = raised /\ refused' = refused
    BY <1>5 DEF ReadDone, Answer
  <2>2. /\ sent'.texts = sent.texts /\ sent'.pieces = sent.pieces /\ sent'.done = TRUE
        /\ sent' \in [texts : 0 .. MaxEvents, pieces : Seq(Calls), done : BOOLEAN]
    BY <1>0, <2>1 DEF LlmCounts
  <2>3. LlmCounts'
    BY <1>0, <2>1, <2>2 DEF LlmCounts
  <2>4. /\ parts = Tokens(attempt, sent.texts) /\ (llm.client # "chat" => chunks = parts)
        /\ Tells(sent.pieces, llm.style) =>
             /\ Stitches(acc, sent.pieces, llm.style)
             /\ llm.client = "agent" => Stitches(heard, sent.pieces, llm.style)
    BY <1>0, <2>1 DEF LlmReading
  <2>5. answer'.text = Tokens(attempt, sent.texts) /\ answer'.calls = ToolCallsOf(acc)
    BY <2>1, <2>4
  <2>6. LlmReading' /\ LlmAnswered'
    BY <2>1, <2>2, <2>4, <2>5 DEF LlmReading, LlmAnswered
  <2>7. QED
    BY <1>d, <2>1, <2>3, <2>6 DEF LlmInv
<1>6. CASE StreamBreaks
  <2>1. PICK failure \in StreamFailures : Fail(failure)
    BY <1>6 DEF StreamBreaks
  <2>2. failure \in Failures /\ phase = "reading"
    BY <1>6, <1>c DEF StreamBreaks
  <2>3. QED
    BY <2>1, <2>2, Fail_Inv
<1>7. CASE CallStructured
  <2>1. phase = "ready" /\ llm.backend = "platform" /\ llm.client = "structured"
    BY <1>7 DEF CallStructured
  <2>2. CASE /\ sent' = [NothingSent EXCEPT !.texts = 1, !.done = TRUE]
             /\ Answer(<<<<attempt, 1>>>>, <<>>)
             /\ UNCHANGED <<parts, chunks>>
    <3>1. sent' = [texts |-> 1, pieces |-> <<>>, done |-> TRUE]
      BY <2>2 DEF NothingSent
    <3>2. /\ phase' = "answered" /\ answer'.text = <<<<attempt, 1>>>> /\ answer'.given = TRUE
          /\ llm' = llm /\ attempt' = attempt /\ raised' = raised /\ refused' = refused
      BY <2>2 DEF Answer
    <3>3. sent' \in [texts : 0 .. MaxEvents, pieces : Seq(Calls), done : BOOLEAN]
      BY <3>1, LlmAssumption
    <3>4. LlmCounts'
      BY <1>0, <2>1, <3>2, <3>3 DEF LlmCounts
    <3>5. LlmReading' /\ LlmAnswered'
      BY <2>1, <3>1, <3>2, TokensGrow DEF LlmReading, LlmAnswered, OverStream
    <3>6. QED
      BY <1>d, <2>1, <3>2, <3>4, <3>5 DEF LlmInv
  <2>3. CASE \E failure \in PostFailures : Fail(failure)
    <3>1. PICK failure \in PostFailures : Fail(failure)
      BY <2>3
    <3>2. failure \in Failures
      BY <1>c
    <3>3. QED
      BY <2>1, <3>1, <3>2, Fail_Inv
  <2>4. QED
    BY <1>7, <2>2, <2>3 DEF CallStructured
<1>8. CASE CallProvider
  <2>1. phase = "ready" /\ llm.backend = "byok"
    BY <1>8 DEF CallProvider
  <2>2. CASE /\ sent' = [NothingSent EXCEPT !.texts = 1, !.done = TRUE]
             /\ parts' = <<<<attempt, 1>>>> /\ chunks' = <<<<attempt, 1>>>>
             /\ Answer(parts', <<>>)
    <3>1. sent' = [texts |-> 1, pieces |-> <<>>, done |-> TRUE]
      BY <2>2 DEF NothingSent
    <3>2. /\ phase' = "answered" /\ answer'.text = <<<<attempt, 1>>>> /\ answer'.given = TRUE
          /\ llm' = llm /\ attempt' = attempt /\ raised' = raised /\ refused' = refused
      BY <2>2 DEF Answer
    <3>3. sent' \in [texts : 0 .. MaxEvents, pieces : Seq(Calls), done : BOOLEAN]
      BY <3>1, LlmAssumption
    <3>4. LlmCounts'
      BY <1>0, <2>1, <3>2, <3>3 DEF LlmCounts
    <3>5. LlmReading' /\ LlmAnswered'
      BY <2>1, <3>1, <3>2, TokensGrow DEF LlmReading, LlmAnswered, OverStream
    <3>6. QED
      BY <1>d, <2>1, <3>2, <3>4, <3>5 DEF LlmInv
  <2>3. CASE \E failure \in ProviderFailures : Fail(failure)
    <3>1. PICK failure \in ProviderFailures : Fail(failure)
      BY <2>3
    <3>2. failure \in Failures
      BY <1>c
    <3>3. QED
      BY <2>1, <3>1, <3>2, Fail_Inv
  <2>4. QED
    BY <1>8, <2>2, <2>3 DEF CallProvider
<1>9. CASE CallNothing
  <2>1. phase = "ready" /\ Fail(NoBackend)
    BY <1>9 DEF CallNothing
  <2>2. QED
    BY <1>c, <2>1, Fail_Inv
<1>10. CASE UNCHANGED llmVars
  BY <1>0, <1>10 DEF llmVars, LlmInv, LlmCounts, LlmReading, LlmAnswered, DenialIsFinal, IsDenial, OverStream
<1>11. QED
  BY <1>1, <1>2, <1>3, <1>4, <1>5, <1>6, <1>7, <1>8, <1>9, <1>10 DEF LlmNext

LEMMA LlmInv_Holds == LlmSpec => []LlmInv
<1>1. QED
  BY LlmInit_Inv, LlmStep, PTL DEF LlmSpec

LEMMA LlmInv_Types == LlmInv => LlmTypeOK
<1> SUFFICES ASSUME LlmInv PROVE LlmTypeOK
  OBVIOUS
<1>1. LlmCounts
  BY DEF LlmInv
<1>2. Len(refused) <= MaxAttempts
  BY <1>1, LlmAssumption DEF LlmCounts
<1>3. QED
  BY <1>1, <1>2 DEF LlmCounts, LlmTypeOK

LEMMA LlmInv_Sound == LlmInv => LlmAnswersAreSound
<1> SUFFICES ASSUME LlmInv PROVE LlmAnswersAreSound
  OBVIOUS
<1>1. LlmCounts /\ LlmReading /\ LlmAnswered /\ DenialIsFinal
  BY DEF LlmInv
<1>2. AnswerIsOneWholeResponse
  BY <1>1 DEF LlmAnswered, AnswerIsOneWholeResponse, Tokens
<1>3. CallsAreStitched
  <2> SUFFICES ASSUME phase \in {"reading", "answered"}, OverStream, Telling
               PROVE  /\ ToolCallsOf(acc) = CallsSent
                      /\ llm.client = "agent" => ToolCallsOf(heard) = CallsSent
                      /\ phase = "answered" => answer.calls = CallsSent
    BY DEF CallsAreStitched
  <2>0. Tells(sent.pieces, llm.style)
    BY DEF Telling, Tells
  <2>1. /\ Stitches(acc, sent.pieces, llm.style)
        /\ llm.client = "agent" => Stitches(heard, sent.pieces, llm.style)
        /\ phase = "answered" => answer.calls = ToolCallsOf(acc)
    BY <1>1, <2>0 DEF LlmReading, LlmAnswered
  <2>2. sent.pieces \in Seq(Calls)
    BY <1>1 DEF LlmCounts
  <2>3. \A a : Stitches(a, sent.pieces, llm.style) => ToolCallsOf(a) = CallsSent
    BY <2>2, StitchedIsSent
  <2>4. QED
    BY <2>1, <2>3
<1>4. QED
  BY <1>1, <1>2, <1>3 DEF LlmAnswersAreSound

(* The variables of a call of a model keep their types.                     *)
THEOREM LlmTypeCorrect == LlmSpec => []LlmTypeOK
BY LlmInv_Types, LlmInv_Holds, PTL

(* The answer is the whole of one response; each tool call has its own      *)
(* pieces in order wherever they tell their call, as they do unless a       *)
(* provider sends two calls with the id in the first piece alone; and a     *)
(* call that is refused with the code of the binding, and nothing beside    *)
(* that says it may pass, is made once: for every client, provider and way  *)
(* to mark the pieces, any number of attempts and responses of any length.  *)
THEOREM LlmSoundness == LlmSpec => []LlmAnswersAreSound
BY LlmInv_Sound, LlmInv_Holds, PTL

-----------------------------------------------------------------------------
(* RustTasks: a key has one run, which is told of its cancellations.        *)

USE ConstantsAssumption

\* the index of the keys names the run of each, and is never lost
KeysAreHeld ==
  Durable \/ "crash" \notin Faults =>
    \A t \in Tasks : keyOf[t] # NoKey /\ runner[t] # "hit" => holder[keyOf[t]] = t

\* a run has a record until it is over, and only a task that had a run has one
RunsHaveRecords ==
  \A t \in Tasks :
    /\ InRun(t) => status[t] # "none"
    /\ runner[t] \in {"none", "hit"} => status[t] = "none"
    /\ runner[t] = "none" => ~flag[t]
    /\ runner[t] = "setting" => target[t] # "none"

\* a cancel request names a task that was created, and the record it read is there
CancelsHaveTasks ==
  \A c \in Cancels : cpc[c] # "idle" =>
    /\ ctask[c] \in Tasks
    /\ runner[ctask[c]] # "none"
    /\ cpc[c] = "read" => status[ctask[c]] # "none"

TasksInv == TypeOK /\ KeysAreHeld /\ RunsHaveRecords /\ CancelsHaveTasks /\ CancelIsSeen

-----------------------------------------------------------------------------
LEMMA UnlessType == \A read, old, new \in Statuses : Unless(read, old, new) \in Statuses
BY DEF Unless

LEMMA TasksInit_Inv == Init => TasksInv
<1> SUFFICES ASSUME Init PROVE TasksInv
  OBVIOUS
<1>1. flag \in [Tasks -> BOOLEAN] /\ result \in [Tasks -> BOOLEAN]
  BY DEF Init
<1>2. TypeOK
  BY <1>1 DEF Init, TypeOK, Statuses, RunnerPCs
<1>3. KeysAreHeld /\ CancelsHaveTasks
  BY DEF Init, KeysAreHeld, CancelsHaveTasks
<1>4. RunsHaveRecords /\ CancelIsSeen
  BY DEF Init, RunsHaveRecords, CancelIsSeen, InRun, Known
<1>5. QED
  BY <1>2, <1>3, <1>4 DEF TasksInv

LEMMA TasksTypeKeeps == TasksInv /\ Next => TypeOK'
<1> SUFFICES ASSUME TasksInv, Next PROVE TypeOK'
  OBVIOUS
<1> USE DEF TasksInv, TypeOK, Statuses, Active, Terminal, RunnerPCs, Unless, IsTerminal, CancelsHaveTasks
<1>1. ASSUME NEW t \in Tasks, NEW k \in Keys \cup {NoKey}, CreateTask(t, k)
      PROVE  TypeOK'
  BY <1>1 DEF CreateTask
<1>2. ASSUME NEW t \in Tasks, Start(t) \/ \E s \in Reported : SetStatus(t, s)
      PROVE  TypeOK'
  BY <1>2 DEF Start, SetStatus, UpdateRead, Runner
<1>3. ASSUME NEW t \in Tasks, UpdateWrite(t)
      PROVE  TypeOK'
  BY <1>3 DEF UpdateWrite, Runner
<1>4. ASSUME NEW t \in Tasks, \E ok \in BOOLEAN : HandlerReturns(t, ok)
      PROVE  TypeOK'
  BY <1>4 DEF HandlerReturns, Runner
<1>5. ASSUME NEW t \in Tasks, SetResult(t)
      PROVE  TypeOK'
  BY <1>5 DEF SetResult, Runner
<1>6. ASSUME NEW t \in Tasks, SetErrorRead(t)
      PROVE  TypeOK'
  BY <1>6 DEF SetErrorRead, Runner
<1>7. ASSUME NEW t \in Tasks, SetErrorWrite(t)
      PROVE  TypeOK'
  BY <1>7 DEF SetErrorWrite, Runner
<1>8. ASSUME NEW t \in Tasks, HandlerPanics(t)
      PROVE  TypeOK'
  BY <1>8 DEF HandlerPanics, Runner
<1>9. ASSUME NEW c \in Cancels, NEW t \in Tasks, CancelRead(c, t)
      PROVE  TypeOK'
  BY <1>9 DEF CancelRead, Known
<1>10. ASSUME NEW c \in Cancels, CancelWrite(c)
      PROVE  TypeOK'
  BY <1>10 DEF CancelWrite
<1>11. ASSUME Crash
      PROVE  TypeOK'
  <2>1. /\ runner' \in [Tasks -> RunnerPCs]
        /\ cpc' \in [Cancels -> {"idle", "read", "accepted", "refused", "dead"}]
    BY <1>11 DEF Crash
  <2>2. status' \in [Tasks -> Statuses] /\ holder' \in [Keys -> Tasks \cup {NoKey}]
    BY <1>11 DEF Crash
  <2>3. CASE Durable
    BY <1>11, <2>3 DEF Crash
  <2>4. CASE ~Durable
    <3>1. flag' = [t \in Tasks |-> FALSE] /\ result' = [t \in Tasks |-> FALSE]
      BY <1>11, <2>4 DEF Crash
    <3>2. flag' \in [Tasks -> BOOLEAN] /\ result' \in [Tasks -> BOOLEAN]
      BY <3>1, Zenon
    <3>3. QED
      BY <1>11, <2>1, <2>2, <3>2 DEF Crash
  <2>5. QED
    BY <2>3, <2>4
<1>12. QED
  BY <1>1, <1>2, <1>3, <1>4, <1>5, <1>6, <1>7, <1>8, <1>9, <1>10, <1>11 DEF Next, StoreStep

LEMMA KeysKeep == TasksInv /\ Next => KeysAreHeld'
<1> SUFFICES ASSUME TasksInv, Next PROVE KeysAreHeld'
  OBVIOUS
<1> USE DEF TasksInv, TypeOK, KeysAreHeld, Durable, Faults
<1>1. ASSUME NEW t \in Tasks, NEW k \in Keys \cup {NoKey}, CreateTask(t, k)
      PROVE  KeysAreHeld'
  BY <1>1 DEF CreateTask
<1>2. ASSUME NEW t \in Tasks, Start(t) \/ \E s \in Reported : SetStatus(t, s)
      PROVE  KeysAreHeld'
  BY <1>2 DEF Start, SetStatus, UpdateRead, Runner
<1>3. ASSUME NEW t \in Tasks, UpdateWrite(t)
      PROVE  KeysAreHeld'
  BY <1>3 DEF UpdateWrite, Runner
<1>4. ASSUME NEW t \in Tasks, \E ok \in BOOLEAN : HandlerReturns(t, ok)
      PROVE  KeysAreHeld'
  BY <1>4 DEF HandlerReturns, Runner
<1>5. ASSUME NEW t \in Tasks, SetResult(t)
      PROVE  KeysAreHeld'
  BY <1>5 DEF SetResult, Runner
<1>6. ASSUME NEW t \in Tasks, SetErrorRead(t)
      PROVE  KeysAreHeld'
  BY <1>6 DEF SetErrorRead, Runner
<1>7. ASSUME NEW t \in Tasks, SetErrorWrite(t)
      PROVE  KeysAreHeld'
  BY <1>7 DEF SetErrorWrite, Runner
<1>8. ASSUME NEW t \in Tasks, HandlerPanics(t)
      PROVE  KeysAreHeld'
  BY <1>8 DEF HandlerPanics, Runner
<1>9. ASSUME NEW c \in Cancels, NEW t \in Tasks, CancelRead(c, t)
      PROVE  KeysAreHeld'
  BY <1>9 DEF CancelRead, Known
<1>10. ASSUME NEW c \in Cancels, CancelWrite(c)
      PROVE  KeysAreHeld'
  BY <1>10 DEF CancelWrite
<1>11. ASSUME Crash
      PROVE  KeysAreHeld'
  BY <1>11 DEF Crash
<1>12. QED
  BY <1>1, <1>2, <1>3, <1>4, <1>5, <1>6, <1>7, <1>8, <1>9, <1>10, <1>11 DEF Next, StoreStep

LEMMA RunsKeep == TasksInv /\ Next => RunsHaveRecords'
<1> SUFFICES ASSUME TasksInv, Next PROVE RunsHaveRecords'
  OBVIOUS
<1> USE DEF TasksInv, TypeOK, RunsHaveRecords, CancelsHaveTasks, InRun, Unless, RunnerPCs
<1>1. ASSUME NEW t \in Tasks, NEW k \in Keys \cup {NoKey}, CreateTask(t, k)
      PROVE  RunsHaveRecords'
  BY <1>1 DEF CreateTask
<1>2. ASSUME NEW t \in Tasks, Start(t) \/ \E s \in Reported : SetStatus(t, s)
      PROVE  RunsHaveRecords'
  <2>1. PICK s \in Active \cup Terminal :
          /\ runner[t] \in {"queued", "handler"}
          /\ runner' = [runner EXCEPT ![t] = "setting"]
          /\ target' = [target EXCEPT ![t] = s]
          /\ UNCHANGED <<status, flag>>
    BY <1>2 DEF Start, SetStatus, UpdateRead, Runner, Active
  <2>2. s # "none"
    BY DEF Active, Terminal
  <2>3. QED
    BY <2>1, <2>2
<1>3. ASSUME NEW t \in Tasks, UpdateWrite(t)
      PROVE  RunsHaveRecords'
  BY <1>3 DEF UpdateWrite, Runner
<1>4. ASSUME NEW t \in Tasks, \E ok \in BOOLEAN : HandlerReturns(t, ok)
      PROVE  RunsHaveRecords'
  BY <1>4 DEF HandlerReturns, Runner
<1>5. ASSUME NEW t \in Tasks, SetResult(t)
      PROVE  RunsHaveRecords'
  BY <1>5 DEF SetResult, Runner
<1>6. ASSUME NEW t \in Tasks, SetErrorRead(t)
      PROVE  RunsHaveRecords'
  BY <1>6 DEF SetErrorRead, Runner
<1>7. ASSUME NEW t \in Tasks, SetErrorWrite(t)
      PROVE  RunsHaveRecords'
  BY <1>7 DEF SetErrorWrite, Runner
<1>8. ASSUME NEW t \in Tasks, HandlerPanics(t)
      PROVE  RunsHaveRecords'
  BY <1>8 DEF HandlerPanics, Runner
<1>9. ASSUME NEW c \in Cancels, NEW t \in Tasks, CancelRead(c, t)
      PROVE  RunsHaveRecords'
  BY <1>9 DEF CancelRead, Known
<1>10. ASSUME NEW c \in Cancels, CancelWrite(c)
      PROVE  RunsHaveRecords'
  BY <1>10 DEF CancelWrite
<1>11. ASSUME Crash
      PROVE  RunsHaveRecords'
  BY <1>11 DEF Crash
<1>12. QED
  BY <1>1, <1>2, <1>3, <1>4, <1>5, <1>6, <1>7, <1>8, <1>9, <1>10, <1>11 DEF Next, StoreStep

LEMMA CancelsKeep == TasksInv /\ Next => CancelsHaveTasks'
<1> SUFFICES ASSUME TasksInv, Next PROVE CancelsHaveTasks'
  OBVIOUS
<1> USE DEF TasksInv, TypeOK, RunsHaveRecords, CancelsHaveTasks, InRun, Unless, RunnerPCs
<1>1. ASSUME NEW t \in Tasks, NEW k \in Keys \cup {NoKey}, CreateTask(t, k)
      PROVE  CancelsHaveTasks'
  BY <1>1 DEF CreateTask
<1>2. ASSUME NEW t \in Tasks, Start(t) \/ \E s \in Reported : SetStatus(t, s)
      PROVE  CancelsHaveTasks'
  BY <1>2 DEF Start, SetStatus, UpdateRead, Runner
<1>3. ASSUME NEW t \in Tasks, UpdateWrite(t)
      PROVE  CancelsHaveTasks'
  BY <1>3 DEF UpdateWrite, Runner
<1>4. ASSUME NEW t \in Tasks, \E ok \in BOOLEAN : HandlerReturns(t, ok)
      PROVE  CancelsHaveTasks'
  BY <1>4 DEF HandlerReturns, Runner
<1>5. ASSUME NEW t \in Tasks, SetResult(t)
      PROVE  CancelsHaveTasks'
  BY <1>5 DEF SetResult, Runner
<1>6. ASSUME NEW t \in Tasks, SetErrorRead(t)
      PROVE  CancelsHaveTasks'
  BY <1>6 DEF SetErrorRead, Runner
<1>7. ASSUME NEW t \in Tasks, SetErrorWrite(t)
      PROVE  CancelsHaveTasks'
  BY <1>7 DEF SetErrorWrite, Runner
<1>8. ASSUME NEW t \in Tasks, HandlerPanics(t)
      PROVE  CancelsHaveTasks'
  BY <1>8 DEF HandlerPanics, Runner
<1>9. ASSUME NEW c \in Cancels, NEW t \in Tasks, CancelRead(c, t)
      PROVE  CancelsHaveTasks'
  BY <1>9 DEF CancelRead, Known
<1>10. ASSUME NEW c \in Cancels, CancelWrite(c)
      PROVE  CancelsHaveTasks'
  BY <1>10 DEF CancelWrite
<1>11. ASSUME Crash
      PROVE  CancelsHaveTasks'
  BY <1>11 DEF Crash
<1>12. QED
  BY <1>1, <1>2, <1>3, <1>4, <1>5, <1>6, <1>7, <1>8, <1>9, <1>10, <1>11 DEF Next, StoreStep

LEMMA SeenKeeps == TasksInv /\ Next => CancelIsSeen'
<1> SUFFICES ASSUME TasksInv, Next PROVE CancelIsSeen'
  OBVIOUS
<1> USE DEF TasksInv, TypeOK, RunsHaveRecords, CancelsHaveTasks, InRun, RunnerPCs, CancelIsSeen, Known, Durable
<1>1. ASSUME NEW t \in Tasks, NEW k \in Keys \cup {NoKey}, CreateTask(t, k)
      PROVE  CancelIsSeen'
  BY <1>1 DEF CreateTask
<1>2. ASSUME NEW t \in Tasks, Start(t) \/ \E s \in Reported : SetStatus(t, s)
      PROVE  CancelIsSeen'
  BY <1>2 DEF Start, SetStatus, UpdateRead, Runner
<1>3. ASSUME NEW t \in Tasks, UpdateWrite(t)
      PROVE  CancelIsSeen'
  BY <1>3 DEF UpdateWrite, Runner
<1>4. ASSUME NEW t \in Tasks, \E ok \in BOOLEAN : HandlerReturns(t, ok)
      PROVE  CancelIsSeen'
  BY <1>4 DEF HandlerReturns, Runner
<1>5. ASSUME NEW t \in Tasks, SetResult(t)
      PROVE  CancelIsSeen'
  BY <1>5 DEF SetResult, Runner
<1>6. ASSUME NEW t \in Tasks, SetErrorRead(t)
      PROVE  CancelIsSeen'
  BY <1>6 DEF SetErrorRead, Runner
<1>7. ASSUME NEW t \in Tasks, SetErrorWrite(t)
      PROVE  CancelIsSeen'
  BY <1>7 DEF SetErrorWrite, Runner
<1>8. ASSUME NEW t \in Tasks, HandlerPanics(t)
      PROVE  CancelIsSeen'
  BY <1>8 DEF HandlerPanics, Runner
<1>9. ASSUME NEW c \in Cancels, NEW t \in Tasks, CancelRead(c, t)
      PROVE  CancelIsSeen'
  BY <1>9 DEF CancelRead, Known
<1>10. ASSUME NEW c \in Cancels, CancelWrite(c)
      PROVE  CancelIsSeen'
  <2> DEFINE t == ctask[c]
  <2>1. /\ cpc[c] = "read" /\ ctask' = ctask /\ t \in Tasks /\ status[t] # "none"
        /\ cpc' = [cpc EXCEPT ![c] = IF IsTerminal(cseen[c]) THEN "refused" ELSE "accepted"]
        /\ \A u \in Tasks : u # t => status'[u] = status[u] /\ flag'[u] = flag[u]
    BY <1>10 DEF CancelWrite
  <2>2. flag'[t] <=> flag[t] \/ ~IsTerminal(cseen[c])
    <3>1. flag' = [flag EXCEPT ![t] = flag[t] \/ ~IsTerminal(cseen[c])]
      BY <1>10 DEF CancelWrite
    <3> HIDE DEF t
    <3>2. QED
      BY <2>1, <3>1, Zenon
  <2>3. \A u \in Tasks : (\E d \in Cancels : ctask'[d] = u /\ cpc'[d] = "accepted")
          <=> \/ \E d \in Cancels : ctask[d] = u /\ cpc[d] = "accepted"
              \/ u = t /\ ~IsTerminal(cseen[c])
    BY <2>1
  <2>4. \A u \in Tasks : status'[u] # "none" => status[u] # "none"
    BY <2>1
  <2> HIDE DEF t
  <2>5. QED
    BY <2>1, <2>2, <2>3, <2>4
<1>11. ASSUME Crash
      PROVE  CancelIsSeen'
  BY <1>11 DEF Crash
<1>12. QED
  BY <1>1, <1>2, <1>3, <1>4, <1>5, <1>6, <1>7, <1>8, <1>9, <1>10, <1>11 DEF Next, StoreStep

LEMMA TasksStep == TasksInv /\ [Next]_vars => TasksInv'
<1> SUFFICES ASSUME TasksInv, [Next]_vars PROVE TasksInv'
  OBVIOUS
<1>1. CASE Next
  BY <1>1, TasksTypeKeeps, KeysKeep, RunsKeep, CancelsKeep, SeenKeeps DEF TasksInv
<1>2. CASE UNCHANGED vars
  BY <1>2 DEF vars, TasksInv, TypeOK, KeysAreHeld, Durable, Faults, RunsHaveRecords, InRun,
     CancelsHaveTasks, CancelIsSeen, Known
<1>3. QED
  BY <1>1, <1>2

LEMMA TasksInv_Holds == Spec => []TasksInv
BY TasksInit_Inv, TasksStep, PTL DEF Spec

-----------------------------------------------------------------------------
(* The results.                                                             *)

(* The variables keep their types.                                          *)
THEOREM TasksTypeCorrect == Spec => []TypeOK
BY TasksInv_Holds, PTL DEF TasksInv

(* A key starts one handler, across restarts of a durable store, and that   *)
(* handler can see the cancellations the endpoint accepted and no others:   *)
(* for any number of POSTs and cancels between the reads and the writes of  *)
(* the store.                                                               *)
THEOREM OneRunAndItsCancels == Spec => []RunsAndCancelsAgree
<1>1. TasksInv => OneRunPerKey
  BY DEF TasksInv, KeysAreHeld, OneRunPerKey
<1>2. QED
  BY <1>1, TasksInv_Holds, PTL DEF RunsAndCancelsAgree, TasksInv

HIDE ConstantsAssumption

-----------------------------------------------------------------------------
(* RustOneShot: one worker and one answer for a key (OncePerKey).           *)

USE OneShotAssumption

\* a request that is not sent yet has nothing, and one that looks for a row has a key
RequestsAreServed ==
  \A r \in Requests :
    /\ stage[r] = "unsent" => key[r] = Keyless /\ reply[r] = Nobody
    /\ stage[r] = "missing" => key[r] # Keyless /\ deployed.sqlite
    /\ stage[r] # "unsent" => proc[r] \in deployed.procs

\* start_or_get runs under the lock of its process
LockIsHeld ==
  \A r, q \in Requests :
    stage[r] = "missing" /\ stage[q] = "missing" /\ proc[r] = proc[q] => r = q

\* what was read of a sound key is still so when it is inserted
MissingIsAbsent ==
  \A r \in Requests :
    stage[r] = "missing" /\ key[r] \in SoundKeys => record[key[r]] = "absent"

\* a handler of a sound key is the only one, and its row waits for it
WorkIsRecorded ==
  \A k \in SoundKeys : \A r \in Working(k) :
    record[k] = "in_progress" /\ Working(k) = {r}

OnceInv ==
  OneShotTypeOK /\ RequestsAreServed /\ LockIsHeld /\ MissingIsAbsent /\ WorkIsRecorded

-----------------------------------------------------------------------------
LEMMA OnceInit_Inv == OneShotInit => OnceInv
<1> SUFFICES ASSUME OneShotInit PROVE OnceInv
  OBVIOUS
<1>1. OneShotTypeOK
  BY DEF OneShotInit, OneShotTypeOK, Stages
<1>2. RequestsAreServed /\ LockIsHeld /\ MissingIsAbsent
  BY DEF OneShotInit, RequestsAreServed, LockIsHeld, MissingIsAbsent
<1>3. WorkIsRecorded
  BY DEF OneShotInit, WorkIsRecorded, Working
<1>4. QED
  BY <1>1, <1>2, <1>3 DEF OnceInv

(* A deployment never changes, and the sound keys with it.                  *)
LEMMA DeploymentStays == OneShotNext => deployed' = deployed /\ SoundKeys' = SoundKeys
<1>1. OneShotNext => deployed' = deployed
  BY DEF OneShotNext, Arrive, Insert, HandlerOk, HandlerErr, HandlerDropped, ProcessDies
<1>2. QED
  BY <1>1 DEF SoundKeys, Sound

(* What is known of a sound key: its statements do not fail, one process    *)
(* serves it, and its row survives that process.                            *)
LEMMA SoundIsSafe ==
  ASSUME NEW k \in SoundKeys
  PROVE  /\ k \in InvocationKeys /\ k # Keyless /\ ~StatementFails(k)
         /\ \E p \in Processes : deployed.procs = {p}
         /\ deployed.sqlite \/ ~deployed.mortal
BY DEF SoundKeys, Sound, StatementFails

LEMMA OnceTypeKeeps == OnceInv /\ OneShotNext => OneShotTypeOK'
<1> SUFFICES ASSUME OnceInv, OneShotNext PROVE OneShotTypeOK'
  OBVIOUS
<1> USE DEF OnceInv, OneShotTypeOK, Stages, RequestsAreServed
<1>1. ASSUME NEW r \in Requests, NEW p \in Processes, NEW k \in InvocationKeys \cup {Keyless},
             Arrive(r, p, k)
      PROVE  OneShotTypeOK'
  <2>1. CASE k = Keyless
    BY <1>1, <2>1 DEF Arrive
  <2>2. CASE k # Keyless /\ LockFree(p) /\ StartOrGet(r, k)
    BY <1>1, <2>2 DEF Arrive, StartOrGet, Found, LockFree
  <2>3. QED
    BY <1>1, <2>1, <2>2 DEF Arrive
<1>2. ASSUME NEW r \in Requests, Insert(r)
      PROVE  OneShotTypeOK'
  BY <1>2 DEF Insert, Inserted
<1>3. ASSUME NEW r \in Requests, HandlerOk(r)
      PROVE  OneShotTypeOK'
  BY <1>3 DEF HandlerOk, Kept
<1>4. ASSUME NEW r \in Requests, HandlerErr(r)
      PROVE  OneShotTypeOK'
  BY <1>4 DEF HandlerErr
<1>5. ASSUME NEW r \in Requests, HandlerDropped(r)
      PROVE  OneShotTypeOK'
  BY <1>5 DEF HandlerDropped
<1>6. ASSUME NEW p \in Processes, ProcessDies(p)
      PROVE  OneShotTypeOK'
  BY <1>6 DEF ProcessDies
<1>7. QED
  BY <1>1, <1>2, <1>3, <1>4, <1>5, <1>6 DEF OneShotNext

LEMMA ServedKeeps == OnceInv /\ OneShotNext => RequestsAreServed'
<1> SUFFICES ASSUME OnceInv, OneShotNext PROVE RequestsAreServed'
  OBVIOUS
<1> USE DEF OnceInv, OneShotTypeOK, Stages, RequestsAreServed
<1>1. ASSUME NEW r \in Requests, NEW p \in Processes, NEW k \in InvocationKeys \cup {Keyless},
             Arrive(r, p, k)
      PROVE  RequestsAreServed'
  <2>1. CASE k = Keyless
    BY <1>1, <2>1 DEF Arrive
  <2>2. CASE k # Keyless /\ LockFree(p) /\ StartOrGet(r, k)
    BY <1>1, <2>2 DEF Arrive, StartOrGet, Found, LockFree
  <2>3. QED
    BY <1>1, <2>1, <2>2 DEF Arrive
<1>2. ASSUME NEW r \in Requests, Insert(r)
      PROVE  RequestsAreServed'
  BY <1>2 DEF Insert
<1>3. ASSUME NEW r \in Requests, HandlerOk(r)
      PROVE  RequestsAreServed'
  BY <1>3 DEF HandlerOk
<1>4. ASSUME NEW r \in Requests, HandlerErr(r)
      PROVE  RequestsAreServed'
  BY <1>4 DEF HandlerErr
<1>5. ASSUME NEW r \in Requests, HandlerDropped(r)
      PROVE  RequestsAreServed'
  BY <1>5 DEF HandlerDropped
<1>6. ASSUME NEW p \in Processes, ProcessDies(p)
      PROVE  RequestsAreServed'
  BY <1>6 DEF ProcessDies
<1>7. QED
  BY <1>1, <1>2, <1>3, <1>4, <1>5, <1>6 DEF OneShotNext

LEMMA LockKeeps == OnceInv /\ OneShotNext => LockIsHeld'
<1> SUFFICES ASSUME OnceInv, OneShotNext PROVE LockIsHeld'
  OBVIOUS
<1> USE DEF OnceInv, OneShotTypeOK, Stages, LockIsHeld
<1>1. ASSUME NEW r \in Requests, NEW p \in Processes, NEW k \in InvocationKeys \cup {Keyless},
             Arrive(r, p, k)
      PROVE  LockIsHeld'
  <2>1. CASE k = Keyless
    BY <1>1, <2>1 DEF Arrive
  <2>2. CASE k # Keyless /\ LockFree(p) /\ StartOrGet(r, k)
    BY <1>1, <2>2 DEF Arrive, StartOrGet, Found, LockFree
  <2>3. QED
    BY <1>1, <2>1, <2>2 DEF Arrive
<1>2. ASSUME NEW r \in Requests, Insert(r)
      PROVE  LockIsHeld'
  BY <1>2 DEF Insert
<1>3. ASSUME NEW r \in Requests, HandlerOk(r)
      PROVE  LockIsHeld'
  BY <1>3 DEF HandlerOk
<1>4. ASSUME NEW r \in Requests, HandlerErr(r)
      PROVE  LockIsHeld'
  BY <1>4 DEF HandlerErr
<1>5. ASSUME NEW r \in Requests, HandlerDropped(r)
      PROVE  LockIsHeld'
  BY <1>5 DEF HandlerDropped
<1>6. ASSUME NEW p \in Processes, ProcessDies(p)
      PROVE  LockIsHeld'
  BY <1>6 DEF ProcessDies
<1>7. QED
  BY <1>1, <1>2, <1>3, <1>4, <1>5, <1>6 DEF OneShotNext

LEMMA MissingKeeps == OnceInv /\ OneShotNext => MissingIsAbsent'
<1> SUFFICES ASSUME OnceInv, OneShotNext PROVE MissingIsAbsent'
  OBVIOUS
<1> USE DEF OnceInv, OneShotTypeOK, Stages, RequestsAreServed, LockIsHeld, MissingIsAbsent,
             WorkIsRecorded, Working
<1>1. ASSUME NEW r \in Requests, NEW p \in Processes, NEW k \in InvocationKeys \cup {Keyless},
             Arrive(r, p, k)
      PROVE  MissingIsAbsent'
  <2>1. CASE k = Keyless
    BY <1>1, <2>1, DeploymentStays, SoundIsSafe DEF Arrive
  <2>2. CASE k # Keyless /\ LockFree(p) /\ StartOrGet(r, k)
    BY <1>1, <2>2, DeploymentStays, SoundIsSafe DEF Arrive, StartOrGet, Found, LockFree
  <2>3. QED
    BY <1>1, <2>1, <2>2 DEF Arrive
<1>2. ASSUME NEW r \in Requests, Insert(r)
      PROVE  MissingIsAbsent'
  BY <1>2, DeploymentStays, SoundIsSafe DEF Insert, Inserted
<1>3. ASSUME NEW r \in Requests, HandlerOk(r)
      PROVE  MissingIsAbsent'
  BY <1>3, DeploymentStays, SoundIsSafe DEF HandlerOk, Kept
<1>4. ASSUME NEW r \in Requests, HandlerErr(r)
      PROVE  MissingIsAbsent'
  BY <1>4, DeploymentStays, SoundIsSafe DEF HandlerErr
<1>5. ASSUME NEW r \in Requests, HandlerDropped(r)
      PROVE  MissingIsAbsent'
  BY <1>5, DeploymentStays, SoundIsSafe DEF HandlerDropped
<1>6. ASSUME NEW p \in Processes, ProcessDies(p)
      PROVE  MissingIsAbsent'
  BY <1>6, DeploymentStays, SoundIsSafe DEF ProcessDies
<1>7. QED
  BY <1>1, <1>2, <1>3, <1>4, <1>5, <1>6 DEF OneShotNext

LEMMA WorkKeeps == OnceInv /\ OneShotNext => WorkIsRecorded'
<1> SUFFICES ASSUME OnceInv, OneShotNext PROVE WorkIsRecorded'
  OBVIOUS
<1> USE DEF OnceInv, OneShotTypeOK, Stages, RequestsAreServed, LockIsHeld, MissingIsAbsent,
             WorkIsRecorded, Working
<1>1. ASSUME NEW r \in Requests, NEW p \in Processes, NEW k \in InvocationKeys \cup {Keyless},
             Arrive(r, p, k)
      PROVE  WorkIsRecorded'
  <2>1. CASE k = Keyless
    BY <1>1, <2>1, DeploymentStays, SoundIsSafe DEF Arrive
  <2>2. CASE k # Keyless /\ LockFree(p) /\ StartOrGet(r, k)
    BY <1>1, <2>2, DeploymentStays, SoundIsSafe DEF Arrive, StartOrGet, Found, LockFree
  <2>3. QED
    BY <1>1, <2>1, <2>2 DEF Arrive
<1>2. ASSUME NEW r \in Requests, Insert(r)
      PROVE  WorkIsRecorded'
  BY <1>2, DeploymentStays, SoundIsSafe DEF Insert, Inserted
<1>3. ASSUME NEW r \in Requests, HandlerOk(r)
      PROVE  WorkIsRecorded'
  BY <1>3, DeploymentStays, SoundIsSafe DEF HandlerOk, Kept
<1>4. ASSUME NEW r \in Requests, HandlerErr(r)
      PROVE  WorkIsRecorded'
  BY <1>4, DeploymentStays, SoundIsSafe DEF HandlerErr
<1>5. ASSUME NEW r \in Requests, HandlerDropped(r)
      PROVE  WorkIsRecorded'
  BY <1>5, DeploymentStays, SoundIsSafe DEF HandlerDropped
<1>6. ASSUME NEW p \in Processes, ProcessDies(p)
      PROVE  WorkIsRecorded'
  BY <1>6, DeploymentStays, SoundIsSafe DEF ProcessDies
<1>7. QED
  BY <1>1, <1>2, <1>3, <1>4, <1>5, <1>6 DEF OneShotNext

LEMMA OnceStep == OnceInv /\ [OneShotNext]_oneShotVars => OnceInv'
<1>1. CASE OneShotNext
  BY <1>1, OnceTypeKeeps, ServedKeeps, LockKeeps, MissingKeeps, WorkKeeps DEF OnceInv
<1>2. CASE UNCHANGED oneShotVars
  BY <1>2 DEF oneShotVars, OnceInv, OneShotTypeOK, RequestsAreServed, LockIsHeld, MissingIsAbsent,
              WorkIsRecorded, Working, SoundKeys, Sound
<1>3. QED
  BY <1>1, <1>2

LEMMA OnceInv_Holds == OneShotSpec => []OnceInv
BY OnceInit_Inv, OnceStep, PTL DEF OneShotSpec

(* Every variable of the one-shot endpoints keeps its type, whatever the    *)
(* deployment, the headers and the order of the requests.                   *)
THEOREM OneShotTypeCorrect == OneShotSpec => []OneShotTypeOK
<1>1. OnceInv => OneShotTypeOK
  BY DEF OnceInv
<1>2. QED
  BY <1>1, OnceInv_Holds, PTL

-----------------------------------------------------------------------------
(* The refinement: each step of the endpoints is one of the contract's, or  *)
(* none of its state changes.                                               *)

LEMMA InitIsOnce == OneShotInit => Once!Init
BY DEF OneShotInit, Once!Init, WorkerOf, AnswerOf, SpentKeys, ReplyTo, Working, SoundKeys

AbstractStays == UNCHANGED <<WorkerOf, AnswerOf, SpentKeys, ReplyTo>>

(* A step that touches one request and one row.                             *)
LEMMA OthersKeep ==
  ASSUME OneShotTypeOK, SoundKeys' = SoundKeys, NEW r \in Requests,
         \A q \in Requests \ {r} : /\ key'[q] = key[q] /\ stage'[q] = stage[q]
                                   /\ reply'[q] = reply[q]
  PROVE  /\ \A k \in InvocationKeys : Working(k)' \ {r} = Working(k) \ {r}
         /\ \A q \in Requests \ {r} : ReplyTo'[q] = ReplyTo[q]
BY DEF OneShotTypeOK, Working, ReplyTo

LEMMA AbstractionKeeps ==
  ASSUME SoundKeys' = SoundKeys,
         \A k \in SoundKeys : Working(k)' = Working(k) /\ record'[k] = record[k],
         \A q \in Requests : ReplyTo'[q] = ReplyTo[q]
  PROVE  AbstractStays
<1>1. WorkerOf' = WorkerOf
  BY DEF WorkerOf
<1>2. AnswerOf' = AnswerOf /\ SpentKeys' = SpentKeys
  BY DEF AnswerOf, SpentKeys, SoundKeys
<1>3. ReplyTo' = ReplyTo
  BY DEF ReplyTo
<1>4. QED
  BY <1>1, <1>2, <1>3 DEF AbstractStays

LEMMA BeginIsOnce ==
  ASSUME OneShotTypeOK, SoundKeys' = SoundKeys, NEW k \in SoundKeys, NEW r \in Requests,
         record[k] = "absent", record' = [record EXCEPT ![k] = "in_progress"],
         Working(k)' = {r},
         \A i \in SoundKeys \ {k} : Working(i)' = Working(i),
         \A q \in Requests : ReplyTo'[q] = ReplyTo[q]
  PROVE  Once!Next
<1>1. k \in InvocationKeys
  BY DEF SoundKeys
<1>2. record \in [InvocationKeys -> {"absent", "in_progress"} \cup Requests]
  BY DEF OneShotTypeOK
<1>3. WorkerOf' = [WorkerOf EXCEPT ![k] = {r}]
  BY <1>1 DEF WorkerOf
<1>4. AnswerOf' = AnswerOf
  BY <1>1, <1>2 DEF AnswerOf
<1>5. k \notin SpentKeys /\ SpentKeys' = SpentKeys \cup {k}
  BY <1>1, <1>2 DEF SpentKeys, SoundKeys
<1>6. ReplyTo' = ReplyTo
  BY DEF ReplyTo
<1>7. Once!Begin(k, r)
  BY <1>3, <1>4, <1>5, <1>6 DEF Once!Begin
<1>8. QED
  BY <1>1, <1>7 DEF Once!Next

LEMMA ArriveIsOnce ==
  ASSUME OnceInv, NEW r \in Requests, NEW p \in Processes, NEW k \in InvocationKeys \cup {Keyless},
         Arrive(r, p, k), OneShotNext
  PROVE  Once!Next \/ AbstractStays
<1> USE DEF OnceInv, OneShotTypeOK, Stages, RequestsAreServed
<1>1. /\ SoundKeys' = SoundKeys /\ key[r] = Keyless /\ stage[r] = "unsent"
      /\ key' = [key EXCEPT ![r] = k]
  BY DeploymentStays DEF Arrive
<1>2. \A q \in Requests \ {r} :
        key'[q] = key[q] /\ stage'[q] = stage[q] /\ reply'[q] = reply[q]
  BY DEF Arrive, StartOrGet
<1>3. /\ \A i \in InvocationKeys : Working(i)' \ {r} = Working(i) \ {r}
      /\ \A q \in Requests \ {r} : ReplyTo'[q] = ReplyTo[q]
  BY <1>1, <1>2, OthersKeep
<1>4. /\ \A i \in InvocationKeys : r \notin Working(i)
      /\ ReplyTo[r] = Nobody
  BY <1>1, SoundIsSafe DEF Working, ReplyTo
<1>5. \A i \in InvocationKeys \ {k} : r \notin Working(i)' /\ Working(i)' = Working(i)
  BY <1>1, <1>3, <1>4 DEF Working
<1>6. CASE k \notin SoundKeys
  <2>1. ReplyTo'[r] = Nobody
    BY <1>1, <1>6 DEF ReplyTo
  <2>2. \A i \in SoundKeys : record'[i] = record[i]
    BY <1>6, SoundIsSafe DEF Arrive, StartOrGet
  <2>3. \A i \in SoundKeys : Working(i)' = Working(i)
    BY <1>5, <1>6, SoundIsSafe
  <2>4. QED
    BY <1>1, <1>3, <1>4, <2>1, <2>2, <2>3, AbstractionKeeps
<1>7. CASE k \in SoundKeys
  <2> k \in InvocationKeys /\ k # Keyless /\ ~StatementFails(k)
    BY <1>7, SoundIsSafe
  <2>1. /\ stage' = [stage EXCEPT ![r] = IF Found(k) = "missing" /\ ~deployed.sqlite
                                        THEN "handler" ELSE Found(k)]
        /\ reply' = [reply EXCEPT ![r] = IF Found(k) = "answered" THEN record[k] ELSE Nobody]
        /\ record' = IF Found(k) = "missing" /\ ~deployed.sqlite
                     THEN [record EXCEPT ![k] = "in_progress"] ELSE record
    BY DEF Arrive, StartOrGet
  <2>2. ReplyTo'[r] = IF Found(k) = "answered" THEN record[k] ELSE Nobody
    BY <1>1, <1>7, <2>1 DEF ReplyTo
  <2>3. \A i \in SoundKeys \ {k} : Working(i)' = Working(i)
    BY <1>5, SoundIsSafe
  <2>4. CASE Found(k) = "missing" /\ ~deployed.sqlite
    <3>1. record[k] = "absent"
      BY <2>4 DEF Found
    <3>2. Working(k) = {}
      BY <1>7, <3>1 DEF WorkIsRecorded
    <3>3. r \in Working(k)'
      BY <1>1, <2>1, <2>4 DEF Working
    <3>4. Working(k)' = {r}
      BY <1>3, <3>2, <3>3
    <3>5. \A q \in Requests : ReplyTo'[q] = ReplyTo[q]
      BY <1>3, <1>4, <2>2, <2>4
    <3>6. QED
      BY <1>1, <1>7, <2>1, <2>3, <2>4, <3>1, <3>4, <3>5, BeginIsOnce
  <2>5. CASE ~(Found(k) = "missing" /\ ~deployed.sqlite)
    <3>1. r \notin Working(k)'
      BY <2>1, <2>5 DEF Working, Found
    <3>2. \A i \in SoundKeys : Working(i)' = Working(i) /\ record'[i] = record[i]
      <4>1. Working(k)' = Working(k)
        <5>1. Working(k)' \ {r} = Working(k) \ {r} /\ r \notin Working(k)
          BY <1>3, <1>4
        <5>2. QED
          BY <3>1, <5>1
      <4>2. QED
        BY <2>1, <2>3, <2>5, <4>1
    <3>3. CASE Found(k) = "answered"
      <4>1. record[k] \in Requests
        BY <3>3 DEF Found
      <4>2. AnswerOf[k] = record[k] /\ AnswerOf[k] # Nobody
        BY <1>7, <4>1 DEF AnswerOf
      <4>3. ReplyTo' = [ReplyTo EXCEPT ![r] = AnswerOf[k]]
        BY <1>3, <2>2, <3>3, <4>2 DEF ReplyTo
      <4>4. WorkerOf' = WorkerOf
        BY <1>1, <3>2 DEF WorkerOf
      <4>5. AnswerOf' = AnswerOf /\ SpentKeys' = SpentKeys
        BY <1>1, <3>2 DEF AnswerOf, SpentKeys, SoundKeys
      <4>6. Once!Replay(k, r)
        BY <4>2, <4>3, <4>4, <4>5 DEF Once!Replay
      <4>7. QED
        BY <4>6 DEF Once!Next
    <3>4. CASE Found(k) # "answered"
      <4>1. \A q \in Requests : ReplyTo'[q] = ReplyTo[q]
        BY <1>3, <1>4, <2>2, <3>4
      <4>2. QED
        BY <1>1, <3>2, <4>1, AbstractionKeeps
    <3>5. QED
      BY <3>3, <3>4
  <2>6. QED
    BY <2>4, <2>5
<1>8. QED
  BY <1>6, <1>7

LEMMA InsertIsOnce ==
  ASSUME OnceInv, NEW r \in Requests, Insert(r), OneShotNext
  PROVE  Once!Next \/ AbstractStays
<1> USE DEF OnceInv, OneShotTypeOK, Stages, RequestsAreServed
<1> DEFINE k == key[r]
<1>1. /\ SoundKeys' = SoundKeys /\ key' = key /\ reply' = reply
      /\ stage[r] = "missing" /\ stage' = [stage EXCEPT ![r] = "handler"]
  BY DeploymentStays DEF Insert
<1>2. \A i \in InvocationKeys : Working(i)' \ {r} = Working(i) \ {r}
  BY <1>1, OthersKeep
<1>3. \A i \in SoundKeys \ {k} : Working(i)' = Working(i)
  BY <1>1 DEF Working
<1>4. \A q \in Requests : ReplyTo'[q] = ReplyTo[q]
  BY <1>1 DEF ReplyTo
<1>5. CASE k \notin SoundKeys
  <2>1. \A i \in SoundKeys : record'[i] = record[i]
    BY <1>5, SoundIsSafe DEF Insert, Inserted
  <2>2. QED
    BY <1>1, <1>3, <1>4, <1>5, <2>1, AbstractionKeeps
<1>6. CASE k \in SoundKeys
  <2>1. record[k] = "absent" /\ record' = [record EXCEPT ![k] = "in_progress"]
    BY <1>1, <1>6, SoundIsSafe DEF Insert, Inserted, MissingIsAbsent
  <2>2. Working(k) = {}
    BY <1>6, <2>1 DEF WorkIsRecorded
  <2>3. r \in Working(k)'
    BY <1>1 DEF Working
  <2>4. Working(k)' = {r}
    BY <1>1, <1>2, <1>6, <2>2, <2>3, SoundIsSafe
  <2>5. QED
    BY <1>1, <1>3, <1>4, <1>6, <2>1, <2>4, BeginIsOnce
<1>7. QED
  BY <1>5, <1>6

LEMMA HandlerOkIsOnce ==
  ASSUME OnceInv, NEW r \in Requests, HandlerOk(r), OneShotNext
  PROVE  Once!Next \/ AbstractStays
<1> USE DEF OnceInv, OneShotTypeOK, Stages, RequestsAreServed
<1> DEFINE k == key[r]
<1>1. /\ SoundKeys' = SoundKeys /\ key' = key /\ reply' = [reply EXCEPT ![r] = r]
      /\ stage[r] = "handler" /\ stage' = [stage EXCEPT ![r] = "answered"]
  BY DeploymentStays DEF HandlerOk
<1>2. \A i \in InvocationKeys : Working(i)' \ {r} = Working(i) \ {r}
  BY <1>1, OthersKeep
<1>3. \A i \in SoundKeys \ {k} : Working(i)' = Working(i)
  BY <1>1 DEF Working
<1>4. CASE k \notin SoundKeys
  <2>1. \A i \in SoundKeys : record'[i] = record[i]
    BY <1>4, SoundIsSafe DEF HandlerOk, Kept
  <2>2. \A q \in Requests : ReplyTo'[q] = ReplyTo[q]
    BY <1>1, <1>4 DEF ReplyTo
  <2>3. QED
    BY <1>1, <1>3, <1>4, <2>1, <2>2, AbstractionKeeps
<1>5. CASE k \in SoundKeys
  <2>1. r \in Working(k) /\ k \in InvocationKeys
    BY <1>1, <1>5, SoundIsSafe DEF Working
  <2>2. Working(k) = {r} /\ record[k] = "in_progress"
    BY <1>5, <2>1 DEF WorkIsRecorded
  <2>3. record' = [record EXCEPT ![k] = r]
    BY <1>5, <2>2, SoundIsSafe DEF HandlerOk, Kept
  <2>4. Working(k)' = {}
    BY <1>1, <1>2, <2>1, <2>2 DEF Working
  <2>5. WorkerOf[k] = {r} /\ WorkerOf' = [WorkerOf EXCEPT ![k] = {}]
    BY <1>1, <1>3, <1>5, <2>1, <2>2, <2>4 DEF WorkerOf
  <2>6. AnswerOf[k] = Nobody /\ AnswerOf' = [AnswerOf EXCEPT ![k] = r]
    <3>1. AnswerOf[k] = Nobody
      BY <2>1, <2>2 DEF AnswerOf
    <3>2. AnswerOf'[k] = r
      BY <1>1, <1>5, <2>1, <2>3 DEF AnswerOf
    <3>3. \A i \in InvocationKeys \ {k} : AnswerOf'[i] = AnswerOf[i]
      BY <1>1, <2>3 DEF AnswerOf
    <3>4. /\ AnswerOf = [i \in InvocationKeys |-> AnswerOf[i]]
          /\ AnswerOf' = [i \in InvocationKeys |-> AnswerOf'[i]]
      BY DEF AnswerOf
    <3>5. QED
      BY <2>1, <3>1, <3>2, <3>3, <3>4
  <2>7. SpentKeys' = SpentKeys
    BY <1>1, <1>5, <2>2, <2>3 DEF SpentKeys, SoundKeys
  <2>8. ReplyTo' = [ReplyTo EXCEPT ![r] = r]
    BY <1>1, <1>5 DEF ReplyTo
  <2>9. Once!Finish(k, r)
    BY <2>5, <2>6, <2>7, <2>8 DEF Once!Finish
  <2>10. QED
    BY <2>1, <2>9 DEF Once!Next
<1>6. QED
  BY <1>4, <1>5

LEMMA HandlerLostIsOnce ==
  ASSUME OnceInv, NEW r \in Requests, HandlerErr(r) \/ HandlerDropped(r), OneShotNext
  PROVE  Once!Next \/ AbstractStays
<1> USE DEF OnceInv, OneShotTypeOK, Stages, RequestsAreServed
<1> DEFINE k == key[r]
<1>1. /\ SoundKeys' = SoundKeys /\ key' = key /\ reply' = reply /\ record' = record
      /\ stage[r] = "handler"
      /\ \E s \in {"failed", "lost"} : stage' = [stage EXCEPT ![r] = s]
  BY DeploymentStays DEF HandlerErr, HandlerDropped
<1>2. \A i \in InvocationKeys : Working(i)' \ {r} = Working(i) \ {r}
  BY <1>1, OthersKeep
<1>3. \A i \in SoundKeys \ {k} : Working(i)' = Working(i)
  BY <1>1 DEF Working
<1>4. \A q \in Requests : ReplyTo'[q] = ReplyTo[q]
  BY <1>1 DEF ReplyTo
<1>5. CASE k \notin SoundKeys
  BY <1>1, <1>3, <1>4, <1>5, AbstractionKeeps
<1>6. CASE k \in SoundKeys
  <2>1. r \in Working(k) /\ k \in InvocationKeys
    BY <1>1, <1>6, SoundIsSafe DEF Working
  <2>2. Working(k) = {r} /\ record[k] = "in_progress"
    BY <1>6, <2>1 DEF WorkIsRecorded
  <2>3. Working(k)' = {}
    BY <1>1, <1>2, <2>1, <2>2 DEF Working
  <2>4. WorkerOf' = [i \in InvocationKeys |-> IF i \in {k} THEN {} ELSE WorkerOf[i]]
    BY <1>1, <1>3, <1>6, <2>1, <2>3 DEF WorkerOf
  <2>5. AnswerOf[k] = Nobody /\ AnswerOf' = AnswerOf /\ SpentKeys' = SpentKeys
    BY <1>1, <2>1, <2>2 DEF AnswerOf, SpentKeys
  <2>6. ReplyTo' = ReplyTo
    BY <1>4 DEF ReplyTo
  <2>7. Once!Lose({k})
    BY <2>4, <2>5, <2>6 DEF Once!Lose
  <2>8. {k} \in SUBSET InvocationKeys
    BY <2>1
  <2>9. QED
    BY <2>7, <2>8 DEF Once!Next
<1>7. QED
  BY <1>5, <1>6

LEMMA DeathIsOnce ==
  ASSUME OnceInv, NEW p \in Processes, ProcessDies(p), OneShotNext
  PROVE  Once!Next \/ AbstractStays
<1> USE DEF OnceInv, OneShotTypeOK, Stages, RequestsAreServed, WorkIsRecorded
<1> DEFINE ks == {k \in SoundKeys : Working(k) # {}}
<1>1. Once!Lose(ks)
  <2>1. \A k \in ks : AnswerOf[k] = Nobody
    BY SoundIsSafe DEF AnswerOf, Working
  <2>7. \A k \in SoundKeys : Working(k)' = {}
    BY SoundIsSafe DEF ProcessDies, Working
  <2>2. WorkerOf' = [k \in InvocationKeys |-> IF k \in ks THEN {} ELSE WorkerOf[k]]
    BY <2>7, DeploymentStays DEF WorkerOf
  <2>3. \A k \in SoundKeys : record'[k] = record[k]
    BY SoundIsSafe DEF ProcessDies
  <2>4. AnswerOf' = AnswerOf /\ SpentKeys' = SpentKeys
    BY <2>3, DeploymentStays DEF AnswerOf, SpentKeys
  <2>5. ReplyTo' = ReplyTo
    BY DeploymentStays DEF ProcessDies, ReplyTo
  <2>6. QED
    BY <2>1, <2>2, <2>4, <2>5 DEF Once!Lose
<1>2. ks \in SUBSET InvocationKeys
  BY SoundIsSafe
<1>3. QED
  BY <1>1, <1>2 DEF Once!Next

LEMMA NextIsOnce == OnceInv /\ [OneShotNext]_oneShotVars => [Once!Next]_Once!vars
<1> SUFFICES ASSUME OnceInv, [OneShotNext]_oneShotVars PROVE Once!Next \/ AbstractStays
  BY DEF AbstractStays, Once!vars
<1>1. CASE OneShotNext
  BY <1>1, ArriveIsOnce, InsertIsOnce, HandlerOkIsOnce, HandlerLostIsOnce, DeathIsOnce
     DEF OneShotNext
<1>2. CASE UNCHANGED oneShotVars
  BY <1>2 DEF oneShotVars, AbstractStays, WorkerOf, AnswerOf, SpentKeys, ReplyTo, Working,
              SoundKeys, Sound
<1>3. QED
  BY <1>1, <1>2

(* For every key that one process serves, whose store survives that process *)
(* and whose statements do not fail, the endpoints implement the contract   *)
(* of OncePerKey: no second handler, and one answer for all.                *)
THEOREM OneShotImplementsContract == OneShotSpec => ImplementsOnce
<1>1. OneShotSpec => Once!Init /\ [][Once!Next]_Once!vars
  BY InitIsOnce, NextIsOnce, OnceInv_Holds, PTL DEF OneShotSpec
<1>2. QED
  BY <1>1 DEF ImplementsOnce, Once!Spec

HIDE OneShotAssumption

-----------------------------------------------------------------------------
(* RustCallbacks: what the platform sees of the callbacks.                  *)

USE CallbackAssumption

Outcomes == {"new", "awaiting", "backoff", "ok", "failed"}
OverNow == {"ok", "failed"}

Underway(c) == {r \in wire : r.callback = c}

\* a callback is new until its first request, and waits only while one is left
Sending ==
  /\ outcome \in [Callbacks -> Outcomes]
  /\ tries \in [Callbacks -> Nat]
  /\ timeline \in Seq(Events)
  /\ effects \in [RemoteCalls -> Nat]
  /\ \A c \in Callbacks :
       /\ tries[c] <= Attempts(c)
       /\ outcome[c] = "new" <=> tries[c] = 0
       /\ outcome[c] = "backoff" => tries[c] < Attempts(c)

\* a request on the wire is one of the attempts of its callback, under its one id
WireInv ==
  /\ IsFiniteSet(wire)
  /\ \A r \in wire : /\ r.callback \in Callbacks
                     /\ r.try \in 1..tries[r.callback]
                     /\ r.id = <<r.callback, 0>>

\* the events are reported one after another
InOrder ==
  \A d \in Events : tries[d] > 0 => \A c \in 1..d - 1 : outcome[c] \in OverNow

\* the platform knows the ids of the events it has recorded, each of which was
\* sent; one that it recorded after a later one had been given up by then
Recorded ==
  /\ \A c \in Events : <<c, 0>> \in known <=> \E i \in DOMAIN timeline : timeline[i] = c
  /\ \A i, j \in DOMAIN timeline : timeline[i] = timeline[j] => i = j
  /\ \A i \in DOMAIN timeline : tries[timeline[i]] > 0
  /\ \A i, j \in DOMAIN timeline :
       i < j /\ timeline[j] < timeline[i] => outcome[timeline[j]] = "failed"

\* what was acknowledged was done, and no request is carried out twice
Done ==
  /\ \A c \in Callbacks : outcome[c] = "ok" =>
       IF c \in Events THEN \E i \in DOMAIN timeline : timeline[i] = c ELSE effects[c] > 0
  /\ \A c \in RemoteCalls : effects[c] + Cardinality(Underway(c)) <= tries[c]

CallInv == Sending /\ WireInv /\ InOrder /\ Recorded /\ Done

-----------------------------------------------------------------------------
LEMMA AttemptsType == \A c \in Callbacks : Attempts(c) \in Nat \ {0}
BY DEF Attempts

(* What a try leaves of its callback; only a success acknowledges it.       *)
LEMMA AfterRange ==
  ASSUME NEW c \in Callbacks, NEW kind
  PROVE  /\ After(c, kind) \in {"ok", "backoff", "failed"}
         /\ After(c, kind) = "ok" => kind = "none"
         /\ After(c, kind) = "backoff" => tries[c] < Attempts(c)
BY DEF After

(* The platform says 200 only when it has done what it was asked.           *)
LEMMA SuccessIsDone ==
  ASSUME NEW c \in Callbacks, NEW done \in BOOLEAN, NEW a \in Responses(done),
         ErrorKind(c, a) = "none"
  PROVE  done
<1>1. a.status \in {200, 401, 404, 409, 500, 503}
  BY DEF Responses, Response
<1>2. a.status = 200
  BY <1>1 DEF ErrorKind
<1>3. QED
  BY <1>2 DEF Responses

LEMMA EventsAreCallbacks == /\ Events \subseteq Callbacks /\ RemoteCalls \subseteq Callbacks
                            /\ Events \subseteq Nat
BY DEF Events, Callbacks

LEMMA TimelineRange ==
  ASSUME NEW seq \in Seq(Events), NEW i \in DOMAIN seq
  PROVE  seq[i] \in Events /\ seq[i] \in Callbacks /\ seq[i] \in Nat
<1>1. seq[i] \in Events
  OBVIOUS
<1>2. QED
  BY <1>1, EventsAreCallbacks

LEMMA CallInit_Inv == CallbackInit => CallInv
<1> SUFFICES ASSUME CallbackInit PROVE CallInv
  OBVIOUS
<1>1. Sending
  <2>1. \A c \in Callbacks : outcome[c] = "new" /\ tries[c] = 0 /\ tries[c] <= Attempts(c)
    BY AttemptsType DEF CallbackInit
  <2>2. QED
    BY <2>1 DEF CallbackInit, Sending, Outcomes
<1>2. WireInv
  BY FS_EmptySet DEF CallbackInit, WireInv
<1>3. InOrder
  BY EventsAreCallbacks DEF CallbackInit, InOrder
<1>4. Recorded
  BY DEF CallbackInit, Recorded
<1>5. Done
  <2>1. \A c \in RemoteCalls : Underway(c) = {} /\ Cardinality({}) = 0
    BY FS_EmptySet DEF CallbackInit, Underway
  <2>2. \A c \in RemoteCalls : effects[c] = 0 /\ tries[c] = 0
    BY EventsAreCallbacks DEF CallbackInit
  <2>3. \A c \in Callbacks : outcome[c] # "ok"
    BY DEF CallbackInit
  <2>4. \A c \in RemoteCalls : effects[c] + Cardinality(Underway(c)) <= tries[c]
    BY <2>1, <2>2
  <2>5. QED
    BY <2>3, <2>4 DEF Done
<1>6. QED
  BY <1>1, <1>2, <1>3, <1>4, <1>5 DEF CallInv

-----------------------------------------------------------------------------
(* The sender.                                                              *)

LEMMA SendKeeps ==
  ASSUME CallInv, NEW c \in Callbacks, SendRequest(c)
  PROVE  CallInv'
<1> DEFINE msg == [callback |-> c, try |-> tries[c] + 1, id |-> RequestId(c)]
<1>1. /\ outcome[c] \in {"new", "backoff"} /\ MayStart(c)
      /\ outcome' = [outcome EXCEPT ![c] = "awaiting"]
      /\ tries' = [tries EXCEPT ![c] = @ + 1]
      /\ wire' = wire \cup {msg}
      /\ UNCHANGED <<timeline, known, effects>>
  BY DEF SendRequest
<1>2. /\ outcome'[c] = "awaiting" /\ tries'[c] = tries[c] + 1
      /\ \A d \in Callbacks : d # c => outcome'[d] = outcome[d] /\ tries'[d] = tries[d]
      /\ outcome' \in [Callbacks -> Outcomes] /\ tries' \in [Callbacks -> Nat]
      /\ tries[c] \in Nat
  BY <1>1 DEF CallInv, Sending, Outcomes
<1>3. \A d \in Callbacks : tries[d] \in Nat /\ tries[d] <= tries'[d]
  <2>1. ASSUME NEW d \in Callbacks
        PROVE  tries[d] \in Nat /\ tries[d] <= tries'[d]
    <3>1. tries[d] \in Nat
      BY DEF CallInv, Sending
    <3>2. tries'[d] = tries[d] \/ tries'[d] = tries[d] + 1
      BY <1>2
    <3>3. QED
      BY <3>1, <3>2
  <2>2. QED
    BY <2>1
<1>4. msg.callback = c /\ msg.try = tries[c] + 1 /\ msg.id = <<c, 0>>
  BY DEF RequestId
<1> HIDE DEF msg
<1>5. Sending'
  <2>1. tries[c] < Attempts(c)
    BY <1>1, AttemptsType DEF CallInv, Sending
  <2>2. \A d \in Callbacks : Attempts(d)' = Attempts(d)
    BY DEF Attempts
  <2>3. tries'[c] <= Attempts(c) /\ tries'[c] # 0
    BY <1>2, <2>1, AttemptsType
  <2>4. QED
    BY <1>1, <1>2, <2>2, <2>3 DEF CallInv, Sending
<1>6. WireInv'
  <2>1. IsFiniteSet(wire')
    BY <1>1, FS_AddElement DEF CallInv, WireInv
  <2>2. \A r \in wire : r.try \in 1..tries'[r.callback]
    <3>1. \A r \in wire : r.callback \in Callbacks /\ r.try \in 1..tries[r.callback]
      BY DEF CallInv, WireInv
    <3>2. \A d \in Callbacks : tries[d] \in Nat /\ tries'[d] \in Nat /\ tries[d] <= tries'[d]
      BY <1>2, <1>3
    <3>3. QED
      BY <3>1, <3>2
  <2>3. msg.try \in 1..tries'[c]
    BY <1>2, <1>4
  <2>4. QED
    BY <1>1, <1>4, <2>1, <2>2, <2>3 DEF CallInv, WireInv
<1>7. InOrder'
  <2> SUFFICES ASSUME NEW d \in Events, tries'[d] > 0, NEW b \in 1..d - 1
               PROVE  outcome'[b] \in OverNow
    BY DEF InOrder
  <2>1. /\ d \in Callbacks /\ b \in Callbacks /\ b \in Events /\ b # d /\ d \in Nat /\ b \in Nat
    BY DEF Events, Callbacks
  <2>2. outcome[b] \in OverNow
    <3>1. CASE d # c
      BY <1>2, <2>1, <3>1 DEF CallInv, InOrder
    <3>2. CASE d = c
      <4>1. d > 1 /\ outcome[d - 1] \in OverNow /\ d - 1 \in Events /\ d - 1 \in Callbacks
        BY <1>1, <2>1, <3>2 DEF MayStart, OverNow, Events, Callbacks
      <4>2. tries[d - 1] > 0
        BY <1>3, <4>1 DEF CallInv, Sending, OverNow
      <4>3. b = d - 1 \/ b \in 1..(d - 1) - 1
        BY <2>1
      <4>4. QED
        BY <4>1, <4>2, <4>3 DEF CallInv, InOrder
    <3>3. QED
      BY <3>1, <3>2
  <2>3. b # c
    BY <1>1, <2>2 DEF OverNow
  <2>4. QED
    BY <1>2, <2>1, <2>2, <2>3
<1>8. Recorded'
  <2>1. \A i \in DOMAIN timeline : timeline[i] \in Callbacks
    BY TimelineRange DEF CallInv, Sending
  <2>2. \A i \in DOMAIN timeline : tries'[timeline[i]] > 0
    <3>1. \A i \in DOMAIN timeline : tries[timeline[i]] > 0
      BY DEF CallInv, Recorded
    <3>2. QED
      BY <1>3, <1>2, <2>1, <3>1
  <2>3. \A i \in DOMAIN timeline : outcome[timeline[i]] = "failed" => outcome'[timeline[i]] = "failed"
    BY <1>1, <1>2, <2>1
  <2>4. QED
    BY <1>1, <2>2, <2>3 DEF CallInv, Recorded
<1>9. Done'
  <2>1. \A d \in Callbacks : outcome'[d] = "ok" => outcome[d] = "ok"
    BY <1>2
  <2>2. ASSUME NEW d \in RemoteCalls
        PROVE  effects[d] + Cardinality(Underway(d)') <= tries'[d]
    <3>1. d \in Callbacks /\ effects[d] \in Nat
      BY EventsAreCallbacks DEF CallInv, Sending
    <3>2. IsFiniteSet(Underway(d)) /\ Cardinality(Underway(d)) \in Nat
      BY FS_Subset, FS_CardinalityType DEF CallInv, WireInv, Underway
    <3>3. CASE d = c
      <4>1. msg \notin Underway(d)
        BY <1>2, <1>4 DEF CallInv, WireInv, Underway
      <4>2. Underway(d)' = Underway(d) \cup {msg}
        BY <1>1, <1>4, <3>3 DEF Underway
      <4>3. Cardinality(Underway(d)') = Cardinality(Underway(d)) + 1
        BY <3>2, <4>1, <4>2, FS_AddElement
      <4>4. QED
        BY <1>2, <3>1, <3>2, <3>3, <4>3 DEF CallInv, Done
    <3>4. CASE d # c
      <4>1. Underway(d)' = Underway(d)
        BY <1>1, <1>4, <3>4 DEF Underway
      <4>2. QED
        BY <1>2, <3>1, <3>4, <4>1 DEF CallInv, Done
    <3>5. QED
      BY <3>3, <3>4
  <2>3. QED
    BY <1>1, <2>1, <2>2 DEF CallInv, Done
<1>10. QED
  BY <1>5, <1>6, <1>7, <1>8, <1>9 DEF CallInv

(* What keeps the invariant of a callback that is no longer waited for and  *)
(* of nothing else: its acknowledgement needs the deed.                     *)
LEMMA AnswerKeeps ==
  ASSUME Sending, InOrder, NEW c \in Callbacks, outcome[c] = "awaiting",
         NEW to \in {"ok", "backoff", "failed"}, to = "backoff" => tries[c] < Attempts(c),
         outcome' = [outcome EXCEPT ![c] = to], tries' = tries
  PROVE  /\ outcome' \in [Callbacks -> Outcomes]
         /\ \A d \in Callbacks :
              /\ outcome'[d] = "new" <=> tries'[d] = 0
              /\ outcome'[d] = "backoff" => tries'[d] < Attempts(d)
              /\ outcome[d] \in OverNow => outcome'[d] = outcome[d]
              /\ outcome'[d] = "ok" => outcome[d] = "ok" \/ (d = c /\ to = "ok")
         /\ InOrder'
<1>1. /\ outcome' \in [Callbacks -> Outcomes]
      /\ outcome'[c] = to
      /\ \A d \in Callbacks : d # c => outcome'[d] = outcome[d]
  BY DEF Sending, Outcomes
<1>2. \A d \in Callbacks :
              /\ outcome'[d] = "new" <=> tries'[d] = 0
              /\ outcome'[d] = "backoff" => tries'[d] < Attempts(d)
              /\ outcome[d] \in OverNow => outcome'[d] = outcome[d]
              /\ outcome'[d] = "ok" => outcome[d] = "ok" \/ (d = c /\ to = "ok")
  BY <1>1 DEF Sending, OverNow
<1>3. \A d \in Events : 1..d - 1 \subseteq Callbacks
  BY DEF Events, Callbacks
<1>4. InOrder'
  BY <1>2, <1>3 DEF InOrder
<1>5. QED
  BY <1>1, <1>2, <1>4

LEMMA TimesOutKeeps ==
  ASSUME CallInv, NEW c \in Callbacks, TimesOut(c)
  PROVE  CallInv'
<1>1. /\ outcome[c] = "awaiting"
      /\ outcome' = [outcome EXCEPT ![c] = After(c, "Unavailable")]
      /\ UNCHANGED <<tries, wire, timeline, known, effects>>
  BY DEF TimesOut
<1>t. /\ After(c, "Unavailable") \in {"ok", "backoff", "failed"}
      /\ After(c, "Unavailable") # "ok"
      /\ After(c, "Unavailable") = "backoff" => tries[c] < Attempts(c)
  BY AfterRange
<1>2. /\ outcome' \in [Callbacks -> Outcomes]
      /\ \A d \in Callbacks :
              /\ outcome'[d] = "new" <=> tries'[d] = 0
              /\ outcome'[d] = "backoff" => tries'[d] < Attempts(d)
              /\ outcome[d] \in OverNow => outcome'[d] = outcome[d]
              /\ outcome'[d] = "ok" => outcome[d] = "ok"
      /\ InOrder'
  <2> DEFINE to == After(c, "Unavailable")
  <2>1. to \in {"ok", "backoff", "failed"} /\ to # "ok" /\ (to = "backoff" => tries[c] < Attempts(c))
    BY <1>t
  <2>2. outcome' = [outcome EXCEPT ![c] = to] /\ tries' = tries /\ outcome[c] = "awaiting"
    BY <1>1
  <2> HIDE DEF to
  <2>3. QED
    BY <2>1, <2>2, AnswerKeeps DEF CallInv
<1>3. Sending'
  BY <1>1, <1>2 DEF CallInv, Sending, Attempts
<1>4. WireInv'
  BY <1>1 DEF CallInv, WireInv
<1>5. Recorded'
  <2>1. \A i \in DOMAIN timeline : timeline[i] \in Callbacks
    BY TimelineRange DEF CallInv, Sending
  <2>2. QED
    BY <1>1, <1>2, <2>1 DEF CallInv, Recorded, OverNow
<1>6. Done'
  <2>1. \A d \in RemoteCalls : Underway(d)' = Underway(d)
    BY <1>1 DEF Underway
  <2>2. QED
    BY <1>1, <1>2, <2>1 DEF CallInv, Done
<1>7. QED
  BY <1>2, <1>3, <1>4, <1>5, <1>6 DEF CallInv

-----------------------------------------------------------------------------
(* The network and the platform.                                            *)

(* A request less on the wire makes room for one deed.                      *)
LEMMA LessOnTheWire ==
  ASSUME CallInv, NEW r \in wire, wire' = wire \ {r}, tries' = tries
  PROVE  /\ WireInv'
         /\ \A c \in RemoteCalls :
              effects[c] + Cardinality(Underway(c)')
                + (IF r.callback = c THEN 1 ELSE 0) <= tries[c]
<1>1. WireInv'
  BY FS_RemoveElement DEF CallInv, WireInv
<1>2. ASSUME NEW c \in RemoteCalls
      PROVE  effects[c] + Cardinality(Underway(c)') + (IF r.callback = c THEN 1 ELSE 0) <= tries[c]
  <2>1. IsFiniteSet(Underway(c)) /\ Cardinality(Underway(c)) \in Nat
    BY FS_Subset, FS_CardinalityType DEF CallInv, WireInv, Underway
  <2>2. effects[c] \in Nat /\ effects[c] + Cardinality(Underway(c)) <= tries[c]
    BY DEF CallInv, Sending, Done
  <2>3. CASE r.callback = c
    <3>1. r \in Underway(c) /\ Underway(c)' = Underway(c) \ {r}
      BY <2>3 DEF Underway
    <3>2. Cardinality(Underway(c)') = Cardinality(Underway(c)) - 1
      BY <2>1, <3>1, FS_RemoveElement
    <3>3. QED
      BY <2>1, <2>2, <2>3, <3>2
  <2>4. CASE r.callback # c
    <3>1. Underway(c)' = Underway(c)
      BY <2>4 DEF Underway
    <3>2. QED
      BY <2>1, <2>2, <2>4, <3>1
  <2>5. QED
    BY <2>3, <2>4
<1>3. QED
  BY <1>1, <1>2

(* What the platform carries out of a request keeps what it has recorded,   *)
(* and is what an acknowledgement stands for.                               *)
LEMMA CarriedOutKeeps ==
  ASSUME CallInv, NEW r \in wire, CarriedOut(r)
  PROVE  /\ timeline' \in Seq(Events) /\ effects' \in [RemoteCalls -> Nat]
         /\ \A c \in Events : <<c, 0>> \in known' <=> \E i \in DOMAIN timeline' : timeline'[i] = c
         /\ \A i, j \in DOMAIN timeline' : timeline'[i] = timeline'[j] => i = j
         /\ \A i \in DOMAIN timeline' : tries[timeline'[i]] > 0
         /\ \A i, j \in DOMAIN timeline' : i < j /\ timeline'[j] < timeline'[i] =>
              \/ outcome[timeline'[j]] = "failed"
         /\ \A c \in Events : (\E i \in DOMAIN timeline : timeline[i] = c) =>
              \E i \in DOMAIN timeline' : timeline'[i] = c
         /\ \A c \in RemoteCalls : /\ effects'[c] >= effects[c]
                                   /\ effects'[c] <= effects[c] + (IF r.callback = c THEN 1 ELSE 0)
         /\ r.callback \in Events => \E i \in DOMAIN timeline' : timeline'[i] = r.callback
         /\ r.callback \notin Events => effects'[r.callback] > 0
<1> DEFINE e == r.callback
<1>1. e \in Callbacks /\ r.id = <<e, 0>> /\ tries[e] > 0 /\ tries[e] \in Nat
  BY DEF CallInv, WireInv, Sending
<1>2. CASE e \in Events /\ r.id \notin known
  <2>1. /\ timeline' = Append(timeline, e) /\ known' = known \cup {<<e, 0>>} /\ effects' = effects
    BY <1>1, <1>2 DEF CarriedOut
  <2>2. timeline \in Seq(Events) /\ e \in Events
    BY <1>2 DEF CallInv, Sending
  <2>3. /\ timeline' \in Seq(Events) /\ Len(timeline') = Len(timeline) + 1
        /\ DOMAIN timeline' = 1..Len(timeline) + 1 /\ DOMAIN timeline = 1..Len(timeline)
        /\ \A i \in DOMAIN timeline : timeline'[i] = timeline[i]
        /\ timeline'[Len(timeline) + 1] = e
        /\ Len(timeline) \in Nat
    BY <2>1, <2>2
  <2>4. \A i \in DOMAIN timeline : timeline[i] # e
    BY <1>1, <1>2, <2>2 DEF CallInv, Recorded
  <2>5. \A c \in Events : <<c, 0>> \in known' <=> \E i \in DOMAIN timeline' : timeline'[i] = c
    <3>1. \A c \in Events : <<c, 0>> \in known' <=> c = e \/ <<c, 0>> \in known
      BY <2>1
    <3>2. \A c \in Events : (\E i \in DOMAIN timeline' : timeline'[i] = c)
            <=> c = e \/ \E i \in DOMAIN timeline : timeline[i] = c
      BY <2>3
    <3>3. QED
      BY <3>1, <3>2 DEF CallInv, Recorded
  <2>6. \A i, j \in DOMAIN timeline' : timeline'[i] = timeline'[j] => i = j
    BY <2>3, <2>4 DEF CallInv, Recorded
  <2>7. \A i \in DOMAIN timeline' : tries[timeline'[i]] > 0
    BY <1>1, <2>3 DEF CallInv, Recorded
  <2>8. ASSUME NEW i \in DOMAIN timeline', NEW j \in DOMAIN timeline',
               i < j, timeline'[j] < timeline'[i]
        PROVE  outcome[timeline'[j]] = "failed"
    <3>1. CASE j \in DOMAIN timeline
      <4>1. i \in DOMAIN timeline
        BY <2>3, <2>8, <3>1
      <4>2. QED
        BY <2>3, <2>8, <3>1, <4>1 DEF CallInv, Recorded
    <3>2. CASE j \notin DOMAIN timeline
      <4>1. j = Len(timeline) + 1 /\ timeline'[j] = e /\ i \in DOMAIN timeline
        BY <2>3, <2>8, <3>2
      <4> DEFINE d == timeline[i]
      <4>2. d \in Events /\ tries[d] > 0 /\ e < d
        BY <2>2, <2>3, <2>8, <4>1 DEF CallInv, Recorded
      <4>3. e \in 1..d - 1
        BY <2>2, <4>2 DEF Events
      <4>4. outcome[e] \in OverNow
        BY <4>2, <4>3 DEF CallInv, InOrder
      <4>5. outcome[e] # "ok"
        BY <1>1, <2>2, <2>4 DEF CallInv, Done
      <4>6. QED
        BY <4>1, <4>4, <4>5 DEF OverNow
    <3>3. QED
      BY <3>1, <3>2
  <2>9. \A c \in Events : (\E i \in DOMAIN timeline : timeline[i] = c) =>
              \E i \in DOMAIN timeline' : timeline'[i] = c
    BY <2>3
  <2>10. effects' \in [RemoteCalls -> Nat] /\ \A c \in RemoteCalls : effects[c] \in Nat
    BY <2>1 DEF CallInv, Sending
  <2>11. \E i \in DOMAIN timeline' : timeline'[i] = e
    BY <2>3
  <2>12. QED
    BY <1>2, <2>1, <2>3, <2>5, <2>6, <2>7, <2>8, <2>9, <2>10, <2>11
<1>3. CASE e \in Events /\ r.id \in known
  <2>1. /\ timeline' = timeline /\ known' = known /\ effects' = effects
    BY <1>3 DEF CarriedOut
  <2>2. \E i \in DOMAIN timeline' : timeline'[i] = e
    BY <1>1, <1>3, <2>1 DEF CallInv, Recorded
  <2>3. effects' \in [RemoteCalls -> Nat] /\ timeline \in Seq(Events)
    BY <2>1 DEF CallInv, Sending
  <2>4. \A c \in RemoteCalls : effects'[c] >= effects[c] /\ effects'[c] <= effects[c] + (IF e = c THEN 1 ELSE 0)
    BY <2>1, <2>3
  <2>5. QED
    BY <1>3, <2>1, <2>2, <2>3, <2>4 DEF CallInv, Recorded
<1>4. CASE e \notin Events
  <2>1. /\ effects' = [effects EXCEPT ![e] = @ + 1] /\ timeline' = timeline /\ known' = known
    BY <1>4 DEF CarriedOut
  <2>2. e \in RemoteCalls
    BY <1>1, <1>4 DEF Callbacks
  <2>3. /\ effects' \in [RemoteCalls -> Nat] /\ effects'[e] > 0
        /\ \A c \in RemoteCalls : effects'[c] >= effects[c] /\ effects'[c] <= effects[c] + (IF e = c THEN 1 ELSE 0)
    BY <2>1, <2>2 DEF CallInv, Sending
  <2>4. QED
    BY <1>4, <2>1, <2>3 DEF CallInv, Recorded, Sending
<1>5. QED
  BY <1>2, <1>3, <1>4

LEMMA ArrivesKeeps ==
  ASSUME CallInv, RequestArrives
  PROVE  CallInv'
<1>1. PICK r \in wire, done \in BOOLEAN :
    /\ wire' = wire \ {r}
    /\ IF done THEN CarriedOut(r) ELSE UNCHANGED <<timeline, known, effects>>
    /\ \/ /\ Awaited(r)
          /\ \E kind \in {ErrorKind(r.callback, a) : a \in Responses(done)} :
               outcome' = [outcome EXCEPT ![r.callback] = After(r.callback, kind)]
       \/ UNCHANGED outcome
    /\ UNCHANGED tries
  BY DEF RequestArrives
<1> DEFINE e == r.callback
<1>2. e \in Callbacks
  BY DEF CallInv, WireInv
<1>3. /\ outcome' \in [Callbacks -> Outcomes]
      /\ \A d \in Callbacks :
              /\ outcome'[d] = "new" <=> tries'[d] = 0
              /\ outcome'[d] = "backoff" => tries'[d] < Attempts(d)
              /\ outcome[d] \in OverNow => outcome'[d] = outcome[d]
              /\ outcome'[d] = "ok" => outcome[d] = "ok" \/ (d = e /\ done)
      /\ InOrder'
  <2>1. CASE outcome' = outcome
    BY <1>1, <2>1 DEF CallInv, Sending, InOrder
  <2>2. CASE outcome' # outcome
    <3>1. PICK a \in Responses(done) :
            outcome' = [outcome EXCEPT ![e] = After(e, ErrorKind(e, a))]
      BY <1>1, <2>2
    <3>2. outcome[e] = "awaiting"
      BY <1>1, <2>2 DEF Awaited
    <3> DEFINE to == After(e, ErrorKind(e, a))
    <3>3. /\ to \in {"ok", "backoff", "failed"}
          /\ to = "ok" => done
          /\ to = "backoff" => tries[e] < Attempts(e)
      BY <1>2, AfterRange, SuccessIsDone
    <3>4. outcome' = [outcome EXCEPT ![e] = to] /\ tries' = tries
      BY <1>1, <3>1
    <3> HIDE DEF to, e
    <3>5. QED
      BY <1>2, <3>2, <3>3, <3>4, AnswerKeeps DEF CallInv
  <2>3. QED
    BY <2>1, <2>2
<1>4. /\ WireInv'
      /\ \A c \in RemoteCalls :
              effects[c] + Cardinality(Underway(c)')
                + (IF e = c THEN 1 ELSE 0) <= tries[c]
  BY <1>1, LessOnTheWire
<1>5. \A c \in RemoteCalls : Cardinality(Underway(c)') \in Nat /\ effects[c] \in Nat /\ tries[c] \in Nat
  BY <1>4, FS_Subset, FS_CardinalityType, EventsAreCallbacks DEF WireInv, Underway, CallInv, Sending
<1>6. CASE done
  <2>1. CarriedOut(r)
    BY <1>1, <1>6
  <2>2. /\ timeline' \in Seq(Events) /\ effects' \in [RemoteCalls -> Nat]
        /\ \A c \in Events : <<c, 0>> \in known' <=> \E i \in DOMAIN timeline' : timeline'[i] = c
        /\ \A i, j \in DOMAIN timeline' : timeline'[i] = timeline'[j] => i = j
        /\ \A i \in DOMAIN timeline' : tries[timeline'[i]] > 0
        /\ \A i, j \in DOMAIN timeline' : i < j /\ timeline'[j] < timeline'[i] =>
              outcome[timeline'[j]] = "failed"
    BY <2>1, CarriedOutKeeps
  <2>3. /\ \A c \in Events : (\E i \in DOMAIN timeline : timeline[i] = c) =>
              \E i \in DOMAIN timeline' : timeline'[i] = c
        /\ \A c \in RemoteCalls : /\ effects'[c] >= effects[c]
                                  /\ effects'[c] <= effects[c] + (IF e = c THEN 1 ELSE 0)
        /\ e \in Events => \E i \in DOMAIN timeline' : timeline'[i] = e
        /\ e \notin Events => effects'[e] > 0
    BY <2>1, CarriedOutKeeps
  <2>4. Sending'
    BY <1>1, <1>3, <2>2 DEF CallInv, Sending, Attempts
  <2>5. Recorded'
    <3>1. \A i \in DOMAIN timeline' : timeline'[i] \in Callbacks
      BY <2>2, TimelineRange
    <3>2. QED
      BY <1>1, <1>3, <2>2, <3>1 DEF Recorded, OverNow
  <2>6. Done'
    <3>1. \A c \in RemoteCalls : effects'[c] + Cardinality(Underway(c)') <= tries'[c]
      <4>1. \A c \in RemoteCalls : effects'[c] \in Nat
        BY <2>2
      <4>2. QED
        BY <1>1, <1>4, <1>5, <2>3, <4>1
    <3>2. ASSUME NEW c \in Callbacks, outcome'[c] = "ok"
          PROVE  IF c \in Events THEN \E i \in DOMAIN timeline' : timeline'[i] = c ELSE effects'[c] > 0
      <4>1. CASE c = e
        BY <2>3, <4>1
      <4>2. CASE c # e
        <5>1. IF c \in Events THEN \E i \in DOMAIN timeline : timeline[i] = c ELSE effects[c] > 0
          BY <1>3, <3>2, <4>2 DEF CallInv, Done
        <5>2. c \notin Events => c \in RemoteCalls
          BY DEF Callbacks
        <5>3. c \notin Events => effects'[c] \in Nat /\ effects[c] \in Nat
          BY <1>5, <2>2, <5>2
        <5>4. QED
          BY <2>3, <5>1, <5>2, <5>3
      <4>3. QED
        BY <4>1, <4>2
    <3>3. QED
      BY <3>1, <3>2 DEF Done
  <2>7. QED
    BY <1>3, <1>4, <2>4, <2>5, <2>6 DEF CallInv
<1>7. CASE ~done
  <2>1. UNCHANGED <<timeline, known, effects>>
    BY <1>1, <1>7
  <2>2. Sending'
    BY <1>1, <1>3, <2>1 DEF CallInv, Sending, Attempts
  <2>3. Recorded'
    <3>1. \A i \in DOMAIN timeline : timeline[i] \in Callbacks
      BY TimelineRange DEF CallInv, Sending
    <3>2. QED
      BY <1>1, <1>3, <2>1, <3>1 DEF CallInv, Recorded, OverNow
  <2>4. Done'
    <3>1. \A c \in RemoteCalls : effects'[c] + Cardinality(Underway(c)') <= tries'[c]
      BY <1>1, <1>4, <1>5, <2>1
    <3>2. QED
      BY <1>3, <1>7, <2>1, <3>1 DEF CallInv, Done
  <2>5. QED
    BY <1>3, <1>4, <2>2, <2>3, <2>4 DEF CallInv
<1>8. QED
  BY <1>6, <1>7

LEMMA LostKeeps ==
  ASSUME CallInv, RequestIsLost
  PROVE  CallInv'
<1>1. PICK r \in wire : wire' = wire \ {r}
  BY DEF RequestIsLost
<1>2. UNCHANGED <<outcome, tries, timeline, known, effects>>
  BY DEF RequestIsLost
<1>3. /\ WireInv'
      /\ \A c \in RemoteCalls :
           effects[c] + Cardinality(Underway(c)') + (IF r.callback = c THEN 1 ELSE 0) <= tries[c]
  BY <1>1, <1>2, LessOnTheWire
<1>4. \A c \in RemoteCalls : Cardinality(Underway(c)') \in Nat /\ effects[c] \in Nat /\ tries[c] \in Nat
  BY <1>3, FS_Subset, FS_CardinalityType, EventsAreCallbacks DEF WireInv, Underway, CallInv, Sending
<1>5. Sending' /\ InOrder' /\ Recorded'
  BY <1>2 DEF CallInv, Sending, InOrder, Recorded, Attempts
<1>6. Done'
  BY <1>2, <1>3, <1>4 DEF CallInv, Done
<1>7. QED
  BY <1>3, <1>5, <1>6 DEF CallInv

LEMMA CallStep == CallInv /\ [CallbackNext]_callbackVars => CallInv'
<1> SUFFICES ASSUME CallInv, [CallbackNext]_callbackVars PROVE CallInv'
  OBVIOUS
<1>1. CASE CallbackNext
  BY <1>1, SendKeeps, TimesOutKeeps, ArrivesKeeps, LostKeeps DEF CallbackNext
<1>2. CASE UNCHANGED callbackVars
  BY <1>2 DEF callbackVars, CallInv, Sending, WireInv, InOrder, Recorded, Done, Underway, Attempts
<1>3. QED
  BY <1>1, <1>2

LEMMA CallInv_Holds == CallbackSpec => []CallInv
BY CallInit_Inv, CallStep, PTL DEF CallbackSpec

-----------------------------------------------------------------------------
(* The results.                                                             *)

(* The variables keep their types; no callback is sent more often than its  *)
(* retries allow.                                                           *)
THEOREM CallbacksTypeCorrect == CallbackSpec => []CallbackTypeOK
<1>1. CallInv => CallbackTypeOK
  <2>1. \A c \in Callbacks : Attempts(c) \in Nat
    BY AttemptsType
  <2>2. QED
    BY <2>1 DEF CallInv, Sending, CallbackTypeOK, Outcomes
<1>2. QED
  BY <1>1, CallInv_Holds, PTL

(* No event is recorded twice, what was acknowledged was done, events that  *)
(* were both acknowledged are in the order of their reports, and no call is *)
(* carried out more often than it was sent: for any number of callbacks and *)
(* retries, over a network that loses, delays and repeats.                  *)
THEOREM EventsAreSeenOnce == CallbackSpec => []PlatformSeesEventsOnce
<1>1. CallInv => PlatformSeesEventsOnce
  <2> SUFFICES ASSUME CallInv PROVE PlatformSeesEventsOnce
    OBVIOUS
  <2>1. \A i, j \in DOMAIN timeline :
       outcome[timeline[i]] = "ok" /\ outcome[timeline[j]] = "ok" /\ i < j => timeline[i] < timeline[j]
    <3> SUFFICES ASSUME NEW i \in DOMAIN timeline, NEW j \in DOMAIN timeline,
                        outcome[timeline[j]] = "ok", i < j
                 PROVE  timeline[i] < timeline[j]
      OBVIOUS
    <3>1. timeline[i] \in Nat /\ timeline[j] \in Nat /\ i \in Nat /\ j \in Nat
      BY DEF CallInv, Sending, Events
    <3>2. ~(timeline[j] < timeline[i]) /\ timeline[i] # timeline[j]
      BY <3>1 DEF CallInv, Recorded
    <3>3. QED
      BY <3>1, <3>2
  <2>2. \A c \in RemoteCalls : effects[c] <= tries[c]
    <3> SUFFICES ASSUME NEW c \in RemoteCalls PROVE effects[c] <= tries[c]
      OBVIOUS
    <3>1. Cardinality(Underway(c)) \in Nat
      BY FS_Subset, FS_CardinalityType DEF CallInv, WireInv, Underway
    <3>2. effects[c] \in Nat /\ tries[c] \in Nat
      BY EventsAreCallbacks DEF CallInv, Sending
    <3>3. QED
      BY <3>1, <3>2 DEF CallInv, Done
  <2>3. QED
    BY <2>1, <2>2 DEF CallInv, Recorded, Done, PlatformSeesEventsOnce
<1>2. QED
  BY <1>1, CallInv_Holds, PTL

HIDE CallbackAssumption

-----------------------------------------------------------------------------
(* The composition.                                                         *)

(* A behaviour of the composition is one of each component: one of them     *)
(* takes its steps and the others stutter.                                  *)
THEOREM ServicesImplement ==
  ServicesSpec => /\ LlmSpec /\ ToolSpec /\ PackSpec /\ ResumeSpec
                  /\ Spec /\ OneShotSpec /\ CallbackSpec
<1>1. ServicesInit => /\ LlmInit /\ ToolInit /\ PackInit /\ ResumeInit
                      /\ Init /\ OneShotInit /\ CallbackInit
  BY DEF ServicesInit
<1>2. [ServicesNext]_serviceVars =>
        /\ [LlmNext]_llmVars /\ [ToolNext]_toolVars /\ [PackNext]_packVars /\ [ResumeNext]_resumeVars
        /\ [Next]_vars /\ [OneShotNext]_oneShotVars /\ [CallbackNext]_callbackVars
  <2> SUFFICES ASSUME [ServicesNext]_serviceVars
               PROVE  /\ LlmNext \/ UNCHANGED llmVars
                      /\ ToolNext \/ UNCHANGED toolVars
                      /\ PackNext \/ UNCHANGED packVars
                      /\ ResumeNext \/ UNCHANGED resumeVars
                      /\ Next \/ UNCHANGED vars
                      /\ OneShotNext \/ UNCHANGED oneShotVars
                      /\ CallbackNext \/ UNCHANGED callbackVars
    OBVIOUS
  <2>1. CASE ServicesNext
    BY <2>1 DEF ServicesNext
  <2>2. CASE UNCHANGED serviceVars
    BY <2>2 DEF serviceVars
  <2>3. QED
    BY <2>1, <2>2
<1>3. QED
  BY <1>1, <1>2, PTL DEF ServicesSpec, LlmSpec, ToolSpec, PackSpec, ResumeSpec, Spec, OneShotSpec,
                         CallbackSpec

(* The variables of all components keep their types.                        *)
THEOREM ServicesTypeCorrect == ServicesSpec => []ServicesTypeOK
<1>1. LlmTypeOK /\ ToolTypeOK /\ PackTypeOK /\ ResumeTypeOK /\ TypeOK /\ OneShotTypeOK /\ CallbackTypeOK
        => ServicesTypeOK
  BY DEF ServicesTypeOK
<1>2. QED
  BY <1>1, ServicesImplement, LlmTypeCorrect, ToolsTypeCorrect, PackTypeCorrect, ResumeTypeCorrect,
     TasksTypeCorrect, OneShotTypeCorrect, CallbacksTypeCorrect, PTL
=============================================================================
