# novie-sdk in TLA+

A verification development of the novie agent SDKs: the Python runtime
(`python/novie-agent-sdk`) and the Rust one (`rust/novie-agent-sdk`).  An agent
built with either is an HTTP server that a platform calls: one-shot (`/invoke`,
`/stream`) or in tasks mode (`/tasks`), with human questions in between, and
that keeps itself listed in the platform's registry.  What can go wrong is in
the interleavings: retries of one idempotency key on several pods, clients that
leave, leases, cancellations that race results, questions that race timeouts,
old processes that deregister after their replacement has registered, documents
that are written over several runs, each of which may end anywhere, streams that
break off, and calls that are retried although they were carried out.

`PROJECT.json` holds the machine-readable side: components, runs, mutants, the
line of source every definition stands for, findings, hazards and theorems.

## 1. The system

Paths are relative to `src/`; PY is `python/novie-agent-sdk/src/novie_agent_sdk/`,
RS is `rust/novie-agent-sdk/src/`.

| component | state | operations | what is hard | what makes it correct |
|---|---|---|---|---|
| One-shot invocation stores and endpoints (PY `runtime.py` 620-1591, 2620-3100, `redis_invocation_store.py`, `timeout_policy.py`) | a record per (tenant, mode, key) in a dict, in SQLite or, for a limited time, in Redis; the fail-open flag of a pod; per stream two clocks | `start_or_get`, `complete`, `fail`, `touch`, lookups; the two endpoints with their `finally` clauses, the stream loop with keepalive and lease renewal | retries on other pods, leases, crashes, disconnects, Redis outages | one handler per key at a time; records reach a terminal state; a key is never stuck; everyone is told the same result while its record lasts |
| Task store and endpoints (PY `runtime.py` 1594-2247, 3105-3309, `worker_facade.py`) | task records in insertion order, key index, event logs, cancel events | POST /tasks, `_run_task`, `set_status`, cancel, eviction | cancel against result, eviction of running tasks, restarts | one run per key; a settled task stays settled; every run settles |
| Mid-run asks (PY `runtime.py` 388-508, 1856-1919, 2093-2192, 3190-3222, `platform_namespace.py` 2100-2154) | ask count, guard flag, resolutions per gate | `ask`, `wait_for_ask_resolution`, `resolve_ask` | answer against timeout against cancel; several asks at a time | budget; no lost answer; the guard is up while a human is asked |
| Rust task stores and endpoints (RS `a2a_runtime.rs` 76-92, 229-637, 805-819, 1694-1835) | task records, key index, cancelled flags | create, update, result, error, cancel | read-unlock-write of the SQLite store, panics | as in Python |
| Registration (PY `runtime.py` 2259-2483, 2587-2595; RS `a2a_runtime.rs` 994-1277, 1988-2065) | where each process is in its life; the registry (external) | register, heartbeat, re-register, deregister | rolling updates, late requests, a registry that forgets | a replacement is not deregistered; a serving agent stays listed |
| Rust one-shot stores and endpoints (RS `a2a_runtime.rs` 858-988, 1439-1452, 1604-1692) | status and response per key | start, complete | SQL errors, failing handlers | one execution per key |
| Planned-part execution, recovery, budgets (PY `document_part_execution.py`, `document_authoring_recovery.py`, `document_section_parts.py`, `document_authoring_budget.py`) | the plan and its revision, accepted parts, coverage cursor, budgets; outside: the checkpoint, the parts stored | generate, accept, persist, checkpoint, repartition, coalesce, resume | a rejected part has the rest split or merged, several times; failure between persist and checkpoint; a run resumes against the original plan | the parts cover the section, each piece once; the cursor is the accepted prefix; what is resumed was stored |
| Sectioned authoring (PY `sectioned_authoring.py`, `document_section_parts.py`, `document_authoring_plan.py`) | drafts, degraded sections, call and information budgets; outside: the checkpoint, the artifacts | outline, draft, rewrite, persist, review, record, checkpoint, assemble, resume | a run ends at any await, and a run with another execution control resumes it | what a checkpoint names exists; every section once, in order; gaps are reported; sound work is kept; budgets suffice |
| Document assembly (PY `sectioned_authoring.py` 3062-3311, 3762-4213, 4425-4475, `document_part_assembly.py`, `document_completeness.py` 322-344) | the accepted sections, the document so far, the review calls left | cut an answer down to its section, close its end, put it under its heading; join, review seams and end, check | answers with other sections, foreign headings, blocks of code and ends that are cut off; optional reviews that run out or change the text | a section under its heading and no other; no full sentence lost; the document is its sections in order |
| Document finalization (PY `sectioned_authoring.py` 530-934, 2406-2553, `document_outline_recovery.py`, `document_finalization.py`, `document_final.py`) | the outline under construction, the author's task, the queue of its events, the checkpoint | ask for the outline, merge, repair; hand on events, cancel at the deadline or when the client leaves; build the manifest | partial answers over three attempts; a deadline or a client against an author that is done | an outline that covers what was asked for; a run ends as its author did and not before |
| Document streaming (PY `document_streaming.py`, `document_agent_template.py`) | a queue between producer and consumer, the active subtasks, the time of the last item | produce, consume, keepalive, idle timeout | a slow reader, a graph that is cancelled or raises, subtasks without ids | the reader gets what the graph yielded and ends as it did; a timeout only for silence |
| Event stream and artifact facade (PY `runtime.py` 2797-3100, `artifact_facade.py`) | the event queue(s), what was emitted, the stored response | hand on events, classify failures, sentinel, store, replay | a failure in the midst of events; a duplicate and a poll that must be told the same | one end, in accordance with the events; replays equal what was sent |
| LLM calls (PY `llm_facade.py`, `llm_contract.py`, `byok_llm.py`, `platform_namespace.py`, `sectioned_authoring.py` 2252-2404) | the text so far, tool-call accumulators, attempts | stream, chat, structured, retry | streams that break off, pieces of several tool calls, error classes | the answer is one whole response; a call that is refused in so many words is made once |
| Artifact tools (PY `platform_langchain_tools.py`, `artifact_text.py`) | caches, read and search budgets, what was read | fetch_artifact, web_research | parallel tool calls across one await | within budget; what a call is told is so |
| Artifact ledger and evidence packs (PY `artifact_ledger.py`) | the artifacts and the workpad (external), the pack under construction | create and record, snapshot, resolve | lost answers, steps that write meanwhile | the pack fits, holds what was recorded or says what it lacks |
| External checkpoints (PY `external_checkpoint.py`, `document_resume.py`, `protocol_services.py`, `platform_services.py`) | the platform's checkpoints of a thread | put, get and match | several steps and workflows in one thread, a service that drops the step, records that do not say whose they are | a run resumes finished work only, and none that says it is another's |
| Rust callbacks (RS `transport.rs`, `agent_status_client.rs`, `platform_services.rs`) | attempts, event ids | push, call | lost answers, late requests | an event is recorded once |
| Other platform calls, integrations, manifests, OpenAPI providers, conformance, novie-prompts | request-scoped | HTTP calls, parsing, validation | | see PROJECT.json |

How they interact.  The endpoints own the stores; a handler reaches the task
store through its context (`set_status`, `ask`, `append_event`) and the platform
through its namespace, on which `ask` sets a flag.  The cancel endpoint talks to
a running handler through an `asyncio.Event` and to everyone else through the
store.  The stores of several pods meet in Redis; the processes of one agent
meet in the registry; the runs that write one document meet in its checkpoint and
in the artifact store, the steps of a workflow in its workpad and the checkpoints of
its thread.  A document agent's graph reaches its client through two queues, that
of `document_streaming.py` and that of the stream endpoint; while a document is
written, a third one stands between the author's task and the agent.  asyncio interleaves coroutines at their awaits only: a
call to a dict never lets anyone else run, a call to SQLite (a thread) or Redis
does.  In Rust the workers of the runtime interleave anywhere outside a lock.

## 2. Modules

| module | models | state and actions |
|---|---|---|
| `OneShotInvocations` | the one-shot layer of the Python runtime | `records` per store and key (with its age: the lease, and in Redis the time to live), `disabled` per pod, `pc` per request; one action per step of the endpoints between two awaits, one more for each way a fault may end it (`...FailOpen`, `Interrupt...`, `AbortLost`) |
| `TaskLifecycle` | Python tasks mode | `status`, `order` (eviction order), `runner` (where `_run_task` is), `cpc` (cancel requests); `Turn` makes the steps of the in-memory store one block |
| `AskContract` | what `ctx.ask` promises | three variables, four actions |
| `MidRunAsk` | `ask`, its waiters, the resolve endpoint | `apc` (the ask), `wpc` (its waiter), `resolutions`, `active` (the guard), `qpc` (answers); refines `AskContract` |
| `RustTasks` | Rust tasks mode | `status`, `flag`, `seen` (what a store call has read before it writes) |
| `Registration` | both registration clients against the registry | `ppc`, `net` (requests on their way, late ones included), `listed` |
| `SectionedAuthoring` | `SectionedLongformAuthor.author`, with the part loop and the budgets as it uses them | `pc` (where `author` is), what the process holds (`drafts`, `degraded`, `budget`, `calls`, `part`) and what outlives it (`saved`, `artifacts`); one action per await; `Crash` at any of them |
| `DocumentAssembly` | the text between the model's answer and the published document: the end of `_draft_section`, `_polish_final` | `given` (the answers), `chapters`, `combined`; one action per section, seam and end; a text is a sequence of marks |
| `PartExecution` | `execute_planned_parts` for a section of several parts | `plan`, `revision`, `accepted`, `cursor`; `persisted` and `checkpoint` outlive a run; an objective is the set of quarters of the section it asks for |
| `DocumentFinalization` | the outline, the host's run of the author, the manifest | `outline`, `attempt`; `author` (its task), `pending` (its events), `host`; `stored` outlives a run |
| `DocumentStream` | `with_keepalive`, `with_subtask_keepalive`, `stream_graph_run`, `SubtaskEventMapper` | `graph` (producer), `queue`, `reader`; time in intervals of the keepalive |
| `EventStream` | `_gen`, the invoke endpoint and the artifact facade's adapter: events instead of leases | `events`, `inner` (the queues), `wire` (what the client was sent), `ending` (the store's write and the last event are two steps), `record`, `second` (a duplicate's answer) |
| `LlmCalls` | one call of a model by each kind of client | `sent` (by the server), `parts`, `chunks` and `acc` (by the client), `heard` (by the agent), `refused` |
| `ArtifactTools` | `ArtifactReader`, the namespace's read cache, `web_research` | `cache`, `remaining`, `readState`, `pending` |
| `EvidencePack` | `ArtifactLedger`, `EvidencePackBuilder` | `artifacts`, `workpad` (of the platform), `writer`, `pack` |
| `ResumeCheckpoints` | put and get of checkpoints over both services | `kept` (by the platform), `runs` and `resumed` per invocation |
| `OncePerKey` | what an idempotency key promises | four variables, four actions |
| `RustOneShot` | the Rust one-shot layer; refines `OncePerKey` | `record` per key, `stage` per request |
| `RustCallbacks` | `CallbackTransport` under pushes and remote calls | `wire` (requests under way, late ones included), `timeline` (of the platform) |
| `Selection` | picking elements of a sequence and adding up its numbers, as recursive functions (see section 4) | no state; used by `LlmCalls`, `EvidencePack`, `EventStream`, `DocumentStream`, `PartExecution` and `DocumentAssembly` |
| `OneShotInvocations_proofs`, `TaskLifecycle_proofs`, `MidRunAsk_proofs`, `Registration_proofs` | theorems about the module of that name, which they extend | the parts of the inductive invariant, lemmas on the operators, one lemma for each part of a step, the theorems last |
| `Selection_proofs` | lemmas on `Selection` | what is chosen, in which order, from a sequence that grows or is put together; sums of parts and halves |
| `SectionedAuthoring_proofs` | `SectionedAuthoring`, then `PartExecution` | an invariant and its theorems for each |
| `DocumentAuthoring_proofs` | `DocumentStream`, `DocumentFinalization`, `EventStream`, `DocumentAssembly`, and the composition `MCDocumentAuthoring` | the same for each, and that the composition implements each of them |
| `AgentServices_proofs` | `ArtifactTools`, `EvidencePack`, `ResumeCheckpoints`, `LlmCalls`, `RustTasks`, `RustOneShot`, `RustCallbacks`, and the composition `MCAgentServices` | the same |
| `MC...` | the deployments TLC checks; `MCDocumentAuthoring` and `MCAgentServices` put components that share no state side by side: a rigid `side` says which one a behaviour is of, and the others keep one initial state, so the state space is the sum of theirs; they extend their components | the values of the constants (`MC...`), which the cfg files name |

Where an agent may be deployed in several ways (dict or SQLite, with or without
eviction, Python, Rust `spawn` or Rust `serve`, which faults occur), the way is a
rigid variable `conf`, chosen in the initial state from the constant
`Deployments` (of the one-shot layer it also says which keys the clients send): a run checks them all, and a theorem holds for all of them.

Conventions.  A definition whose name has a suffix after an underscore and whose
comment starts with `[mutant]` is a plausible bug in the definition of that
name; it is used by no specification, only to see that a property notices it.

What is abstracted everywhere: payloads, events other than those a property
is about, log lines, header verification, tenants (a key stands for the triple
of tenant, mode and idempotency key), and requests without an idempotency key
where they touch no store.  Waits between attempts are steps without a length.

### Assumptions

* One-shot: time is counted in ticks; the clock does not pass a deadline of the
  event loop (`Urgent`): it is late by less than a tick.  Redis runs a script
  atomically and a failed call may have run it (`landed`); it drops a record, whatever
  its status, `Ttl` ticks after the last script that set it (`EX` on every `SET`), which
  the constructor makes two default leases or more.  A dict and SQLite keep their
  records.  The second entry, from the invocation id to the key, is set and expires with
  the record.  A request is routed to any pod.  A pod's own SQLite file is its own.
* Tasks: handlers report only `waiting_for_human` (which stands for
  `waiting_for_input` too) and `running`, and resume before they wait another
  way, which is what `ctx.ask` and the worker facade do.  A cancelled handler may
  unwind, swallow the `CancelledError`, return or raise.
* Rust tasks: a handler may report any status through `set_status`; TLC lets
  it report `waiting_for_human` and `cancelled` (`Reported`).
* Transitions refused and allowed (`ValidTransition`) are those of the
  `novie_protocol` package, which is outside the repository.
* Authoring: prose is its number of information units, whether its Markdown is
  sound and whether the provider cut it off; all sections ask for one length.  A
  rewrite keeps or loses against the draft with its heading counted, as the loop
  counts it; a text that is a heading and nothing else has no units and is rejected.  A
  section is one part and its plan is never revised, because
  `build_authoring_execution_plan` sets `part_total` to 1 and
  `author_planned_section` allows one revision; it gets no recovery round, because
  `_max_section_revision_rounds` is 0.  Evidence is the same in every run, so that a
  part keeps its identity; `persist` finds the parts of earlier runs, which takes a
  workflow or thread id.  A checkpoint is stored whole or not at all, an artifact
  that is stored can be read.  A host resumes with the stored checkpoint and may set
  an execution control.  `PartExecution` has the sections of several parts, several
  revisions and artifacts that are gone; there an objective is a set of quarters of
  the planned parts with the form of its text, which tells objectives apart for up to
  three revisions, and other evidence in a later run is another identity.
* Assembly: a Markdown text is a sequence of marks, which are headings, list lines,
  fences, blank lines and pieces of prose that end with a full stop, with a comma or
  with nothing; pieces that follow each other are on one line, and every mark with words
  counts as one information unit.  Bold markers, inline code, placeholders and headings
  glued to a line are left out.  The seam and tail reviews are on or off, with any
  number of review calls left; a proposed sentence is usable or it is not.
  `finish_current` joins the sections without reviews and checks and is not modelled here.
* Finalization: a section of an outline is its id and the criteria it covers; titles
  that are canonical twice, references that were never recorded, execution controls
  and the quality checks of the host on the finished text are left out.
* Streams: time passes in intervals of the keepalive; the clock does not pass a timer
  that the event loop has not served.  Subtasks overlap as the graph pleases, with ids or
  without.  An event is its number and the part of it that the failure envelope looks at;
  a usage report whose own metadata declares a failure, on which the stream ends as on
  such an event of the handler, is not produced.
* LLM calls: a text is its tokens, an argument its pieces; a server may refuse a
  request, break off between any two events, interleave the pieces of two tool calls,
  mark them by index, by id, by both, or with an id in the first piece alone, and send
  the end of a response without a text.  A failure is its code, which may be missing, and
  what stands beside it: a `retryable` of the envelope or words of the message that the
  marker lists look for.  A model that is asked again answers anew.
* Artifact tools, evidence packs, resume checkpoints: the platform keeps what it was
  sent, answers a read with the current text or a refusal, may fail before or after
  it has acted, and its `latest checkpoint` is the last one written among those that
  fit the query (external).  A checkpoint carries any of the sets of names in `Labels`:
  an agent may leave out the step, the workflow, the capability and the digest of the
  input, as the tests of the document template do.  Services of the older shapes that
  `put_external_agent_checkpoint` falls back to are outside the SDK.
* Rust callbacks: the network loses, repeats by retry, and delays beyond the timeout
  of the sender; the platform dedupes events by `event_id` and nothing else (external).
* Rust one-shot: any statement of SQLite on a key in `failing` may fail; a process may
  die, and its locks with it; all processes of a host share the file.  The contract of
  `OncePerKey` is claimed of the keys of one process whose store survives it and whose
  statements do not fail: two processes with one file, or a dropped SQL error, do start
  a handler twice, and the model has both.
* The registry (`Handle`, `SameInstance`, `Forget`) is what the clients' code and
  comments expect of the platform: the last registration wins, a DELETE is
  honoured only for the instance that is listed, heartbeats of an agent that is
  not listed get 404.

## 3. What is checked

| run | bounds | properties |
|---|---|---|
| `oneshot_safety` | 3 requests, 2 pods: one stream key over Redis with dicts behind it (any two of disconnects, crashes and outages), one stream key or one invoke key over SQLite and over dicts (disconnects, crashes); lease 1, time to live 3, renewal 1, keepalive 1 | `TypeOK`, `StreamExclusion`, `ExclusionInv`, `TierAResolves`, `AnswersAgree`, `CompletedStaysPut` |
| `oneshot_tierb` | 2 requests, 2 pods on Redis, every fault | `TierBFreesKey` (liveness) |
| `oneshot_v_disconnect`, `oneshot_v_invoke` | one pod, 1 and 2 requests | expected violations, see section 5 |
| `tasks` | 2 POSTs, one key or none, one cancel; dict with restarts, dict with capacity 1 and a TTL, SQLite with restarts, SQLite with results that do not serialise | `TypeOK`, `OneRunPerKey`, `WhatWasToldHolds`, `SettledIsFinal`, `TaskSettles` (liveness) |
| `tasks_v_ack` | 1 POST, 1 cancel, SQLite | expected violation |
| `ask` | 3 asks, budget 2, one answer, one cancel; both stores, concurrent and one after the other, eviction or a raising store | `TypeOK`, `AnswersAreTaken`, `GuardMatchesAsk`, `ImplementsContract` (refinement), `AskEnds` (liveness) |
| `ask_v_guard` | 2 concurrent asks | expected violation |
| `registration` | 2 processes with instances of their own, 2 attempts, one loss of the registry; five deployments | `TypeOK`, `NoGhosts`, `DeleteSparesReplacement`, `ServedIsListed` (liveness) |
| `authoring` | see below | `DocumentTypeOK`; of the author `WorkIsStoredOnce`, `PublishedAsReported`, `AloneNeverOverBudget`, `SoundWorkIsKept`; of outline and parts `NothingIsLeftOut` (with the text: `TextIsKept`), `ResumeKeepsTheWork`; of the streams `DeliveryIsFaithful`, `TimeoutIsEarned`, `StreamTellsWhatHappened` |
| `authoring_v_gate` | the same, 3 runs of parts | expected violation |
| `agent_services` | see below | `ServicesTypeOK`, `LlmAnswersAreSound`, `ToolsTellTheTruth`, `PackAccountsForEvidence`, `ResumesOwnWork`, `RunsAndCancelsAgree`, `TaskSettles` (liveness), `ImplementsOnce` (refinement), `PlatformSeesEventsOnce` |

The instance of `authoring`.  Author: 2 sections, 3 runs, one rewrite and one
empty retry per part, compaction budget 1; in the first two runs the host sets any
execution control and the model writes nothing, a text of the length asked for, broken
Markdown, or far too much and is cut off; in the third the control is the checkpoint's and
the model writes what it is asked for.  Parts: three of 5, 3 and 2 units, up to
three revisions, two runs.  Text: two sections, 15 answers that
hold every kind of mark, every way to end and blocks of code left open, a part of up to 4
units, reviews on or off with 0 to 3 calls left.  Outline and host: two sections, two criteria, up to two
proposed sections per answer, two finalizations; streamed with a sink, or not
streamed with a fixed outline, both under a deadline.  Graph: two subtasks, four
items, an idle timeout of two intervals; the narrative reader and the subtask reader,
with and without ids.  Events: three produced, one idle turn; `/stream`, `/invoke` and
an artifact agent.

The instance of `agent_services`.  LLM: three attempts, four events of the server; all
four clients, platform, own provider or none, all four ways to mark a call, refusals with and without a code and a hint.  Tools:
two calls at a time and three in all, one artifact and one query, budget 2, cache 2.
Packs: two steps, three artifacts, three entries, a budget of 5 units, 2 per item, 3
references and 2 entries.  Checkpoints: three invocations (a step, another step of its
workflow, and that step outside a workflow with another input), three writes, each signed or naming no
more than its step, both services.  Rust tasks: 2 POSTs, one
key or none, one cancel; both stores, panics or crashes.  Rust one-shot: three
requests, two keys, two processes; dict and SQLite, with failing statements, several
processes or crashes.  Callbacks: two events and one remote call, one retry each.

Why the bounds are enough.  The one-shot hazards need an owner, a retry that
takes its key over and a third request that is told something (three requests),
on two pods; a lease of one tick lapses if a renewal is missed.
A stream renews at every turn of the loop (`RenewEvery = 1`), and the keepalive
is as long as the lease, the tightest case `LeaseFits` admits; a time to live of three
ticks is the shortest that leaves a tick between a lapsed lease and the expiry of the
record (the code asks for two leases at least), so that a retry may come before, between
and after.  Three requests under all three faults at once are left to the proofs, which
hold for any; two requests under these and more are in `oneshot_tierb`.  Two tasks are a
POST and its duplicate, or a task and the one that evicts it.  Three asks with a
budget of two are one too many; one answer is late, in time or for another gate.
Two processes are the old and the new of a rolling update.
Two sections are one that is accepted and one that is being written, or one that
is being written and one that space is kept for; three runs are a crash, its
resume, and the resume of what a resumed run has left; the last one only has to take
that up, so its host and its model are plain.  Three parts of unequal length are one
that is accepted, one that is rejected and one that is split or merged with it; three
revisions reach quarters, and a part too short to be split again.  Four items are two
subtasks that start and end, or one that starts, reports twice and falls silent; three
events are two and an end, or a failure between two.  Three attempts are one more than the code's default of two, so that a
second failure can be retried too; four events are two tool calls in two pieces each, interleaved.  Two
tool calls under way share a cache entry or a budget of which one is left.  Three
writes of a checkpoint are an own one, a foreign one that hides it, and an own one that
hides that.  Three Rust requests are a start, a duplicate and one on another process.  `CHECK_DEADLOCK FALSE`
is said where every request of the instance may be finished; the clock of the
one-shot runs never stops.

Every bound: the sets of requests, tasks, keys, asks, answers, cancels and
processes (each request is made at most once), `MaxAttempts` (a parameter of the
code), `MaxForgets`, `age <= Lease + 1` (`age <= Ttl` in Redis), `idle <= Keepalive` and
`unrenewed <= RenewEvery + Keepalive` (counters that stop where no comparison of
the code tells higher values apart), `Reported`; `Sections`, `Texts`, `MaxCompressions`,
`MaxEmptyRetries` (parameters of the code), `MaxRuns`, `MaxVaried`; `Answers`, `MaxUnits`; `MaxPlanRevisions`
(a parameter of the code), `MaxRunsOfParts`, `Evidence`; `MaxItems`, `IdleTimeout` (a
parameter); `MaxProduced`, `MaxIdle`; `MinSections`, `MaxSections`, `Criteria`
(parameters), `MaxProposed`, `MaxFinalizations`; `MaxEvents`; `MaxToolCalls`,
`ReadBudget` and `CacheEntries` (parameters); `MaxArtifacts`, `MaxEntries`; `MaxPuts`;
`PushEvents`, and `PushRetries` and `CallRetries` (parameters).

### Fairness

* One-shot: time passes, the event loop runs what is ready, a store that is not
  failing answers.  Nothing is assumed of handlers, clients or retries: a handler
  may run for ever.
* Tasks, asks and Rust tasks: weak fairness of what the event loop or a worker
  has pending; strong fairness of a handler's end (it may go on reporting for a
  while, not for ever) and of a timeout (a poll comes round to it).  No human
  need answer, no cancel need come.
* Registration: a process that serves beats and acts on the answer; the platform
  handles a kind of request it is asked again and again (strong), and late
  requests arrive (weak).
* Authoring and what surrounds a handler: none, and no liveness property: every loop
  of a run, of a client's retries and of a revision is bounded by a counter of its own,
  and nothing obliges a host to resume, a graph to yield or a server to answer.  In
  `agent_services` only the Rust tasks are fair; no step of theirs is enabled in a
  behaviour of another side.

## 4. What is proved

With TLAPS, for every value of the constants that the modules' named assumptions
admit.  Each proof module defines the inductive invariant in named parts, proves that
the initial states have them and that each action keeps them, and derives the
theorems; TLC checked every invariant on the run's instance before.

**One-shot invocations** (`OneShotInvocations_proofs`).

* `TypeCorrect`: inductive as it stands (it carries where a request may be without
  pod, key and home).
* `TierAHolds`: `TierAResolves` holds under every fault; its strengthening is that a
  request that is new has no record anywhere (`IdsAreUsed`).
* `ExclusionInvariant` and `StreamsExclude`: no stream key has two handlers at work in
  one store.  `StreamExclusion` is not inductive: that a retry cannot start a second
  handler depends on the age of the record, which depends on when the loop last renewed
  it.  `ExclusionInv` relates the three: a running loop has not renewed for at most
  `RenewEvery - 1 + idle` ticks, `idle` is at most `Keepalive`, and the record of a
  handler that still works in its own store carries its id and is no older than that.
  From `LeaseFits == RenewEvery - 1 + Keepalive <= Lease` no such record is stale, so
  `start_or_get` leaves it (`OwnedNotStartable`), and two such handlers would both be
  the id of one record.
* `OneAnswerForAKey` and `CompletedStays`: from `ResultsInv`, which adds to it what a
  request has been told.  A request that is open has told its client nothing and is
  routed to the store it began in, or away from Redis; a stream handler whose end has
  yet to reach its primary store owns the record there; a completed record names whose
  result it holds; and every answer that was given is the one in the store.  All of it is said of
  requests that Redis has not forgotten: `outlived` has those whose record expired.  After
  an expiry a late retry runs the handler again, and its answer may differ; the two
  properties say so, and name each way a completed record may go.
* `RenewedRecordsStay`: a record in progress whose handler renews it is not dropped,
  since its age stays within the lease and `Ttl` is two leases; so only a handler whose
  record another request has failed, which `touch` then no longer renews, outlives it.
* Assumed for all of these but `TypeCorrect` and `TierAHolds`: `LeaseFits`, and `NoLoopFaults` (a client that reads, a
  store that does not raise in the renewal).  Both are real conditions of the code and
  without either the properties fail.  The deployment may be any.

**Python tasks** (`TaskLifecycle_proofs`), over any deployment.  `TypeCorrect` is that
the store stays well formed.  `OneRunForAKey`, `ToldTheTruth` and `SettledStaysSettled`
need that the store's order has no task twice and that tasks which were never created
have no record (`Bookkeeping`), that a run which is under way has a record
(`RunsAreStored`) that is not completed or failed (`RunsAreOpen`), what the log of a run
ends with (`LogInv`), and where a cancellation stands in memory, where event and write
are one block (`MemoryInv`).

**Asks** (`MidRunAsk_proofs`).  `TypeCorrect`, `AcceptedAnswersAreTaken`,
`GuardAndRecordAgree`, and `AskImplementsContract`: the refinement of `AskContract`,
step by step, for both stores and under every fault.  The invariant counts the
questions (`Progress`: the ask count is the number of asks that were put), has every
stored resolution be for an ask that was put (`AnswersAreFor`) and ties the guard to
the asks that wait (`GuardInv`).

**The Rust runtime** (`AgentServices_proofs`).
`OneRunAndItsCancels` holds although the SQLite store reads and writes a status under two
locks: the invariant speaks of the key index and of the flag, which are only ever written
under one.  `OneShotImplementsContract` is the refinement of `OncePerKey`; it needs that
one request per process is between the look for a row and its insertion (`LockIsHeld`),
that the row is absent then (`MissingIsAbsent`), and that a request at work has a row in
progress (`WorkIsRecorded`), the latter two for sound keys only.  `EventsAreSeenOnce`
needs that all requests of an event carry one id, that the event before it was answered
before it was first sent, and that the calls carried out and those under way are together
no more than were sent.

**Registration** (`Registration_proofs`).  `TypeCorrect` and `ReplacementIsSpared` from
`DeletesAreFromLeavers`: every DELETE on its way, late ones included, was sent by a
process that is leaving or gone.  Assumed: `DistinctInstances`.  `NoGhostsStay` from
`QuietInv`: where nothing fails a request on its way is one its sender waits for, and who
is listed has not left.

**Authoring** (`SectionedAuthoring_proofs`), for outlines of any length, any texts, limits
and controls and any number of runs.  The invariant has five layers, each proved from
those before it: the types, with every checkpoint a prefix of the outline that names only
what is stored (`Typed`); each part stored once, whatever run stored it
(`PartsStoredOnce`); every gap and every section that did not pass in `degraded_sections`
(`Reported`); what the checkpoint holds that is good is still in memory until the next
checkpoint has it (`KeptInMemory`); and, while no run has been resumed, what is reserved
for the sections to come (`FirstRun`).  From them: `StoredOnce`, `ResultIsReported`,
`WorkIsNeverLost` (an action property) and `AloneWithinBudget`.  The last needs a sum over
the drafts that is defined by recursion; that it is a number is proved by the least
counterexample.

**Planned parts** (the same module), for any maxima, revisions, evidence and runs.
`SectionIsCoveredOnce` is not inductive: it says nothing of what a checkpoint holds, nor
of a plan that is about to be revised.  `PartInv` adds that the cursor and the checkpoint
are those of the accepted parts (`CursorAgrees`, `CheckpointAgrees`), that accepted parts
and the rest of the plan together have disjoint objectives that make up the section and
maxima that add up to the original ones (`PlanAgrees`; the sum has to survive halving,
splitting and merging, which `Selection_proofs` has lemmas for), that a plan which was
not revised is the original one but for its evidence, and that what is accepted or in the
checkpoint was stored (`PartsAreStored`).  From it: `SectionsAreCoveredOnce` and
`WorkIsResumed` (an action property).  Assumed (`PartAssumption`): a section has a part,
and each part a maximum above zero, which is what `build_authoring_execution_plan` makes.

**The reader of a graph** (`DocumentAuthoring_proofs`), for any subtasks, number of items
and timeout.  `StreamInv`: what was delivered, and behind it the queue with the marks of
the end, is what the graph yielded (`QueueIsTheRest`); the graph calls a subtask once and
returns it after that (`GraphIsLegal`); whatever runs is among what the
mapper has for active, and, with ids or as long as no two subtasks overlap, what it has
for active runs (`ActiveIsRunning`; without ids every key was generated, `KeysGenerated`); and the reader's clock is not ahead of the graph's silence while
the queue is empty (`ReaderAgrees`), from which `TimeoutsAreEarned`.

**Finalization** (the same module), for any contract and whatever the model proposes.
`FinalizationInv`: what is merged so far has distinct ids and is not too long; what is
written, now or in the checkpoint, is a whole outline (`OutlineStands`); the mark of the
end is the author's last event, and the host's verdict agrees with where the author is
(`HostFollows`).  From it `OutlinesAreWhole` and `RunsEndWithTheirAuthors`.  Assumed
(`FinalizationAssumption`): the contract asks for at least one section and for no more
than it allows, and the titles of a fixed shape have different ids.  The code takes this
from the skill's contract and does not check it.

**The stream to the client** (the same module), for any number of events and keepalives.
`EventInv`: while the stream is read, what is on the wire, in the queue and in the
facade's queue are together what was produced, in the order of each kind and each entry
once (`FlowsAs`, which counts entries by number and reads the queues one after the other);
behind the mark of the end there are only usage reports, and before it the error of a
handler that raised (`MarksOfTheEnd`); and a completed record is that of a stream that
ended without a failure (`RecordOfTheEnd`).  From it `StreamsTellWhatHappened`.

**The text of a document** (the same module), for any number of sections, any budget of
units and any answers that are sequences of the marks a model can write
(`AssemblyAssumption`).  First what each cut of a text keeps: what a text put together of
two says, has of headings and units, and leaves open of blocks (`TextsJoined`,
`UnclosedJoined`, `CountOf` and `Units` of a text with more behind it); then that the
section asked for is the one isolated and stays below its heading (`IsolatedText`,
`NormalisedBody`), that each of the four ways to close an end loses no full sentence and at
least half the units remain (`ClosedIsCutWell`, `WrittenChapterIsKept`); then that joining
adds one heading and nothing that has words, a bridge or not (`JoinStep`), and that a new
last sentence costs one full stop at most (`TailReplacedIs`, `PolishStep`).
The invariant `TextInv` has what each chapter is of its answer (`IsWritten`); while the document is
joined, how many chapters it has (`IsJoined`) and that the budget pays for the reviews that
are left, without which `Reserve` could go below zero; and afterwards that the document is
all chapters or these with a new end (`IsPolished`).  From it `TextsAreKept`.  The attempt
corrected the property: an earlier form said that closing an end never loses a full
sentence and keeps half of what was asked for unless the mark after a fence is welded to
it.  It is not so when the cut falls inside a block of code, since what is between two
fences counts for nothing and the fence that is put behind it hides more; that case
(the answer `item, fence, full, full, clause`, which broke it) is now in the instance, and
`ChapterIsKept` says where it happens: where the section ends in a fence.

**What runs around a handler** (`AgentServices_proofs`), each for any values of its
constants.

* Calls of a model (`LlmSoundness`): while a response is read, what the client has is the
  tokens of this attempt in order and nothing of an earlier one (`LlmReading`), and the
  accumulator binds every piece to the call it is of, by id, by index or by both
  (`Stitches`, `Binds`), or, if the id is in the first piece alone, for as long as there
  is one call (`Tells`); an answer is the whole of one response; and a refusal that names
  the binding's code, or as a POST its status, with nothing beside it that says it may
  pass (`IsDenial`), makes an error that is not retried.
* Artifact tools (`ToolsSpeakTrue`): every entry of a cache can be told whoever asks for
  it (`CachesTellTheTruth`), every note of a read is of an answer (`NotesAreOfAnswers`),
  and what was asked of the platform is at most what was taken from the budget
  (`Charged`), whatever overlaps.
* Evidence packs (`PacksAreAccounted`): what is left of the budget and what the items hold
  add up to it, items and references are distinct and recorded, and what is owed is an
  item, or a reference yet to be resolved, or something warns (`Accounted`).
* Checkpoints (`ResumesItsOwnWork`, an action property): what a record says of its origin
  is true (`TellingIsTrue`), and what matches contradicts none of it; so a record that
  names step, workflow, capability and input is the invocation's own work.  Of one that
  names less, no more is claimed.

**The compositions.**  `DocumentImplements` and `ServicesImplement` show that a behaviour
of what the runs check is a behaviour of each component; so `DocumentTypeCorrect`,
`DeliveriesAreFaithful`, `NothingIsLeftOutHolds`, `DocumentsKeepTheirWork` and
`ServicesTypeCorrect` follow from the theorems above.

Where a module that is proved about selects from a sequence or adds up one, it uses the
recursive functions of `Selection`.  The operators of the libraries (`SelectSeq`, the folds)
do the same with a test or an operator as a parameter, and the provers cannot look into
them; what `Selection` computes is proved by the least counterexample.

Only model-checked: liveness under fairness (`TierBFreesKey`, `TaskSettles`, `AskEnds`,
`ServedIsListed`), which is out of the prover's reach.

## 5. Where the code and its words part

Each of these is an expected violation, and a finding in PROJECT.json.

* `DisconnectReachesTerminal`: a comment says the `finally` clause resolves the
  record on a client disconnect; it is not entered before the body generator is.
* `InvokeExclusion`: the docs say an invocation's lease is renewed; that of
  `/invoke` is not.
* `AcceptedCancelTakesEffect`: 202 stands for cancelled; the endpoint says so of
  a task that has completed while it was on its way.
* `RefusedWhileAsking`: risky calls are refused while an ask is active; the first
  of two to end lifts the refusal.
* `MaximumIsNoGate`: the maximum of information units is said to be no gate once
  the last rewrite is spent; a resumed run fails on it, for ever, since it counts
  the overlong sections and not the room they had been given.

Met on the way and left as hazards: a failed record answers 409 "retry after it
reaches a terminal state" for ever; a client that does not read stops the
renewals; a short lease is not renewed three times; a process that dies between
the cancel event and the cancel write leaves a running record that nothing
settles; the Rust SQLite store brings a cancelled task back to running and
reports a cancel of an ended one; `Agent::serve` does not act on "missing".  Redis
forgets a completed record after its time to live, and a retry that comes later runs the
handler again and may get another answer; a record that was failed by a late abort while
its second handler works is no longer renewed, expires under it, a third handler starts,
and the end of the one overwrites that of the other.  Of
authoring: a last rewrite that is empty becomes the bare heading, replaces the draft
whatever that was, and the part is rejected; `shorten` is stored with the checkpoint and shortens again at each
resume; a section that a control left out stays in `degraded_sections` when a later
run writes it after all; a review that fails at readmission degrades a draft of an
older release without listing it; calls made since the last checkpoint are
forgotten; an exhausted compaction budget ends the run; a run that resumes after its
plan was revised discards the accepted parts.  Of finalization: an outline completed
without the model may repeat an id, and its manifest is refused for ever; a client that
reads slowly, or a deadline that passes while its last events are handed on, discards a
document that is finished.  Of the services: `ArtifactReader` notes a refusal as a read;
the checkpoint service over the protocol drops the step id that `sdk-api.md` lets a
caller give; `quota_exceeded`, a hard stop by its comment, is retried on the path of
streams; a stream that is refused without a code, a 403 too, becomes
`platform_unavailable` and is retried, and so is a denial whose message holds one of the
marker phrases; of two tool calls whose id is in the first piece alone, a piece alone in
its chunk goes to the first, whichever it is of; a checkpoint that says nothing of its
step, capability and input matches every invocation of its thread; references beyond `max_refs` are dropped without a warning; a remote call that
is retried carries no id by which the platform could tell.  Of graph streams: while two
subtasks without ids are active each result gets a generated key and takes none away, so
that one which has returned stays active and may be named in a timeout.  Of assembly: the
closing of a cut-off end (`_close_truncated_tail`) drops complete list lines and blocks after the last full stop,
though its docstring speaks of an unfinished fragment, and where it ends a clause within a
block of code it puts the full stop after the fence, so that the block stays open, and a
cut within a block hides what is in it from the count that decides whether enough is left; the
replacement of the last sentence drops whatever follows the last full stop, a heading too,
and then the optional review makes the document be refused; two sections that each leave a
block of code open pass the check of the whole together, with a heading inside the block.

## 6. Not modelled, and the plan

Parts that are left, in this order:

1. Of `SectionedAuthoring`: recovery rounds, requested document lengths, deferred
   intermediate artifacts; the reviews of seams and end against the call budget of a run,
   whose text `DocumentAssembly` has.
2. Of the task store: errors of the store other than a result that does not serialise
   (the first write of `_run_task` is outside its `try`), and SQLite tasks whose process
   dies between the cancel event and the cancel write.
3. Of the platform namespace: the remaining calls, each a request with its own
   classification of errors and no state between calls.

Of the proofs nothing is left but what needs fairness (section 4).

Left out for good: prompt text and prose handling, OpenAPI document generation,
request builders of the integrations, manifest parsing, the conformance suite
(its expectations are quoted), examples: they keep no state that interacts.
