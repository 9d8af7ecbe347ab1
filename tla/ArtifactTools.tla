---------------------------- MODULE ArtifactTools -----------------------------
(***************************************************************************)
(* The tools an agent's model calls for evidence                           *)
(* (platform_langchain_tools.py): fetch_artifact, whose ArtifactReader     *)
(* (artifact_text.py) has a cache, a budget and a memory of what it has    *)
(* read, and web_research, which has a cache and a budget.  A model calls  *)
(* several tools at once; a call runs without a break up to the request    *)
(* to the platform (platform_namespace.py) and again from its answer on.   *)
(*                                                                         *)
(* A text is what is told of it: the platform's text, its refusal, or the  *)
(* reader's advice that the text is already there.                         *)
(***************************************************************************)
EXTENDS Integers, Sequences, FiniteSetsExt, Selection

CONSTANTS
  ToolCalls,    \* the calls that can be under way at once
  Readable,     \* artifacts
  Queries,      \* of web_research
  ReadBudget,   \* max_uncached_reads, and web_research_budget
  CacheEntries, \* max_entries of every cache
  MaxToolCalls  \* bound: calls that are not answered from a cache

\* the reader, the tools and the caches take at least one for each
ASSUME ToolAssumption == ReadBudget \in Nat \ {0} /\ CacheEntries \in Nat \ {0}

VARIABLES
  legacy,    \* a platform without read_text; it never changes
  cache,     \* [reader, namespace, web]: least recently used first
  remaining, \* [fetch, web]
  readState, \* what _record_successful_read has noted
  pending,   \* the calls that wait for the platform
  degraded,  \* the flags the tracker was told of
  asked,     \* history: how many requests of each tool the platform was sent
  answers,   \* history: what it answered
  told       \* history: what the last call to return was told

toolVars == <<legacy, cache, remaining, readState, pending, degraded, asked, answers, told>>

\* what artifact_read_cache_key makes of a read; chunks are read from two offsets in two sizes
Key(artifact, mode, at, size) == [tool |-> "fetch", artifact |-> artifact, mode |-> mode, at |-> at, size |-> size]
FetchKeys ==
  {Key(a, "summary", 0, 2) : a \in Readable}
    \cup {Key(a, "chunks", 0, size) : a \in Readable, size \in {1, 2}}
    \cup {Key(a, "chunks", 1, 2) : a \in Readable}
    \cup {Key(a, "search", 0, 2) : a \in Readable}
WebKeys  == {[tool |-> "web", query |-> q] : q \in Queries}
ToolKeys == FetchKeys \cup WebKeys

Idle  == [tool |-> "none"]
Texts == {"text", "unavailable"}
Entry(key, text) == [key |-> key, text |-> text]

ToolInit ==
  /\ legacy \in BOOLEAN
  /\ cache = [reader |-> <<>>, namespace |-> <<>>, web |-> <<>>]
  /\ remaining = [fetch |-> ReadBudget, web |-> ReadBudget]
  /\ readState = {}
  /\ pending = [c \in ToolCalls |-> Idle]
  /\ degraded = {} /\ asked = [fetch |-> 0, web |-> 0] /\ answers = {}
  /\ told = Entry(Idle, "nothing")

-----------------------------------------------------------------------------
(* ArtifactReadCache and TextResultCache.                                   *)

Without(lru, key) == Chosen(lru, {n \in DOMAIN lru : lru[n].key # key})
Holds(lru, key)   == \E n \in DOMAIN lru : lru[n].key = key
TextOf(lru, key)  == lru[CHOOSE n \in DOMAIN lru : lru[n].key = key].text

\* [mutant] nothing is ever dropped
KeptIn_All(lru, key, text) == Append(Without(lru, key), Entry(key, text))

\* set: the entry becomes the most recent one, and the oldest ones go
KeptIn(lru, key, text) ==
  LET all == Append(Without(lru, key), Entry(key, text)) IN
  SubSeq(all, Len(all) - Min({Len(all), CacheEntries}) + 1, Len(all))

\* get moves an entry that it finds to the recent end
Used(lru, key) == KeptIn(lru, key, TextOf(lru, key))

-----------------------------------------------------------------------------
(* fetch_artifact.                                                          *)

Note(key) == [artifact |-> key.artifact, mode |-> key.mode, at |-> key.at]

\* _semantic_duplicate_message: chunks from the start after the summary, or the same
\* chunks or search again; the size does not count
IsDuplicate(key) ==
  \/ /\ key.mode = "chunks" /\ key.at = 0
     /\ [artifact |-> key.artifact, mode |-> "summary", at |-> 0] \in readState
  \/ key.mode \in {"chunks", "search"} /\ Note(key) \in readState

Tell(key, text) == told' = Entry(key, text)

\* a call that the reader's cache, its memory or its budget answers
FetchCached(key) ==
  /\ Holds(cache.reader, key)
  /\ cache' = [cache EXCEPT !.reader = Used(@, key)]
  /\ Tell(key, TextOf(cache.reader, key))
  /\ UNCHANGED <<remaining, readState, pending, asked, answers>>

FetchDuplicate(key) ==
  /\ ~Holds(cache.reader, key) /\ IsDuplicate(key)
  /\ cache' = [cache EXCEPT !.reader = KeptIn(@, key, "already_provided")]
  /\ Tell(key, "already_provided")
  /\ UNCHANGED <<remaining, readState, pending, asked, answers>>

Exhausted(key, budget) ==
  /\ budget <= 0
  /\ Tell(key, "exhausted")
  /\ UNCHANGED <<cache, remaining, readState, pending, asked, answers>>

\* [mutant] the read is noted when it begins
StartFetch_Noted(c, key) ==
  /\ remaining' = [remaining EXCEPT !.fetch = @ - 1]
  /\ readState' = readState \cup {Note(key)}
  /\ pending' = [pending EXCEPT ![c] = key]
  /\ asked' = [asked EXCEPT ![key.tool] = @ + 1]
  /\ UNCHANGED <<cache, answers, told>>

\* the budget is charged, and the platform asked
StartFetch(c, key) ==
  /\ remaining' = [remaining EXCEPT !.fetch = @ - 1]
  /\ pending' = [pending EXCEPT ![c] = key]
  /\ asked' = [asked EXCEPT ![key.tool] = @ + 1]
  /\ UNCHANGED <<cache, readState, answers, told>>

\* read_text of the namespace has the text: the call goes on without a break
FetchFromNamespace(key) ==
  /\ remaining' = [remaining EXCEPT !.fetch = @ - 1]
  /\ cache' = [cache EXCEPT !.namespace = Used(@, key),
                            !.reader = KeptIn(@, key, TextOf(cache.namespace, key))]
  /\ readState' = readState \cup {Note(key)}
  /\ Tell(key, TextOf(cache.namespace, key))
  /\ UNCHANGED <<pending, asked, answers>>

CallFetch(c, key) ==
  /\ pending[c] = Idle /\ asked.fetch + asked.web < MaxToolCalls
  /\ \/ FetchCached(key)
     \/ FetchDuplicate(key)
     \/ /\ ~Holds(cache.reader, key) /\ ~IsDuplicate(key)
        /\ \/ Exhausted(key, remaining.fetch)
           \/ remaining.fetch > 0 /\ ~legacy /\ Holds(cache.namespace, key) /\ FetchFromNamespace(key)
           \/ remaining.fetch > 0 /\ (legacy \/ ~Holds(cache.namespace, key)) /\ StartFetch(c, key)
  /\ UNCHANGED <<legacy, degraded>>

\* the answer, also the one that the artifact is unavailable, is cached and noted; only
\* a legacy platform's has the reader tell of it
FetchReturns(c, key) ==
  /\ pending[c] = key
  /\ \E text \in Texts :
       /\ cache' = [cache EXCEPT !.reader = KeptIn(@, key, text),
                                 !.namespace = IF legacy THEN @ ELSE KeptIn(@, key, text)]
       /\ answers' = answers \cup {Entry(key, text)}
       /\ Tell(key, text)
       /\ degraded' = IF legacy /\ text = "unavailable" THEN degraded \cup {"artifact_read"} ELSE degraded
  /\ readState' = readState \cup {Note(key)}
  /\ pending' = [pending EXCEPT ![c] = Idle]
  /\ UNCHANGED <<legacy, remaining, asked>>

-----------------------------------------------------------------------------
(* web_research.                                                            *)

CallWeb(c, key) ==
  /\ pending[c] = Idle /\ asked.fetch + asked.web < MaxToolCalls
  /\ \/ /\ Holds(cache.web, key)
        /\ cache' = [cache EXCEPT !.web = Used(@, key)]
        /\ Tell(key, TextOf(cache.web, key))
        /\ UNCHANGED <<remaining, readState, pending, asked, answers, degraded>>
     \/ /\ ~Holds(cache.web, key) /\ Exhausted(key, remaining.web)
        /\ degraded' = degraded \cup {"web_research"}
     \/ /\ ~Holds(cache.web, key) /\ remaining.web > 0
        /\ remaining' = [remaining EXCEPT !.web = @ - 1]
        /\ pending' = [pending EXCEPT ![c] = key]
        /\ asked' = [asked EXCEPT ![key.tool] = @ + 1]
        /\ UNCHANGED <<cache, readState, answers, told, degraded>>
  /\ UNCHANGED legacy

WebReturns(c, key) ==
  /\ pending[c] = key
  /\ \E text \in Texts :
       /\ cache' = [cache EXCEPT !.web = KeptIn(@, key, text)]
       /\ answers' = answers \cup {Entry(key, text)}
       /\ Tell(key, text)
       /\ degraded' = IF text = "unavailable" THEN degraded \cup {"web_research"} ELSE degraded
  /\ pending' = [pending EXCEPT ![c] = Idle]
  /\ UNCHANGED <<legacy, remaining, readState, asked>>

\* the call is cancelled while it waits
ToolCallCancelled(c) ==
  /\ pending[c] # Idle
  /\ pending' = [pending EXCEPT ![c] = Idle]
  /\ UNCHANGED <<legacy, cache, remaining, readState, degraded, asked, answers, told>>

ToolNext ==
  \E c \in ToolCalls :
    \/ \E key \in FetchKeys : CallFetch(c, key) \/ FetchReturns(c, key)
    \/ \E key \in WebKeys : CallWeb(c, key) \/ WebReturns(c, key)
    \/ ToolCallCancelled(c)

ToolSpec == ToolInit /\ [][ToolNext]_toolVars

-----------------------------------------------------------------------------
ToolTypeOK ==
  /\ pending \in [ToolCalls -> ToolKeys \cup {Idle}]
  /\ remaining \in [{"fetch", "web"} -> 0 .. ReadBudget]
  /\ \A lru \in {cache.reader, cache.namespace, cache.web} : Len(lru) <= CacheEntries
  /\ readState \subseteq {Note(key) : key \in FetchKeys}
  /\ degraded \subseteq {"artifact_read", "web_research"}

(* However the calls of a model overlap: neither tool asks the platform     *)
(* more often than its budget allows; what a call returns is what the       *)
(* platform answered to that very request; and a call is only told that the *)
(* text is already there, or that the budget is spent, if an answer for it  *)
(* has come, or as many requests as the budget allows were charged.         *)
ToolsTellTheTruth ==
  /\ \A tool \in {"fetch", "web"} : asked[tool] <= ReadBudget - remaining[tool]
  /\ CASE told.text \in Texts -> told \in answers
       [] told.text = "already_provided" ->
            \E a \in answers :
              /\ a.key \in FetchKeys /\ a.key.artifact = told.key.artifact
              /\ \/ a.key.mode = told.key.mode /\ a.key.at = told.key.at
                 \/ a.key.mode = "summary" /\ told.key.mode = "chunks" /\ told.key.at = 0
       [] told.text = "exhausted" -> remaining[told.key.tool] = 0
       [] OTHER -> told.key = Idle
=============================================================================
