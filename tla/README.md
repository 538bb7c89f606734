# Verified models of the adaptive RAG service

TLA+ models of `src/adaptive`, the TLC runs that check them on small instances,
and TLAPS proofs of what matters most for every value of the constants. Every
definition that models code is listed with its source lines in `PROJECT.json`
(`map`); properties, runs, hazards, findings and theorems are listed there too.

- [The system](#the-system)
- [Modules](#modules)
- [Runs, bounds and what they show](#runs-bounds-and-what-they-show)
- [Fairness](#fairness)
- [Proofs](#proofs)
- [Findings](#findings)
- [What was seen](#what-was-seen)
- [What is not modelled](#what-is-not-modelled)
- [Plan](#plan)

## The system

The service ingests documents and answers queries over them. One API process
(`api/main.py`, FastAPI, one event loop) wires everything together.

| Part | State it keeps | Operations | Correct when |
|---|---|---|---|
| Ingestion service (`ingestion/service.py`) | job, source-file, payload and document maps; local variables of `process` across the embed call | `submit`, `process` (parse, normalise, chunk, embed, persist, index), `get_job` | a job ends as `active` or `failed` and means it; rows agree with memory; nothing is left behind |
| Control plane (`db/models.py`, `db/repositories.py`) | documents, document_versions, chunks, ingestion_jobs | create, create version, activate, delete/insert chunks, job rows | a document is at exactly one version, the tables agree, versions are never reused |
| Session (`db/session.py`) | one SQLAlchemy session for the process' life | flush, commit, (nobody rolls back) | partial work is never committed |
| BM25 stage (`retrieval/bm25_stage.py`) | index per tenant, tenant locks | `search`, `invalidate` | an index is not older than the committed chunks; no lock is lost |
| Hybrid retrieval (`retrieval/hybrid.py`, `neondb_dense.py`, `rerank.py`) | none of its own; reads the chunks and the BM25 index | fuse, filter, rerank, keep to the budget | permitted chunks, missed only for a reason of the ranking, current, budget held and used |
| OpenSearch backend (`retrieval/opensearch.py`; not wired by the API) | the index; three in-memory maps of the writer | upsert, delete a version, search | holds the active chunks and nothing else; finds them |
| Query graph (`graph/build.py`, `graph/nodes.py`, `routers/`) | none of its own; budget and cache are shared | `run_query`: cache, route, escalate, direct or multi-hop, guard, store | an answer is what the guardrails allow; a cached answer is still true |
| Agent loop (`graph/agent_subgraph.py`, `agent_policy.py`) | agent state, seen actions, budget, two clocks | `run_agent`: plan, act, observe, check, synthesize | it stops, within its limits, with a reason, and a grounded answer has evidence |
| Guardrails (`guardrails/`) | none | input, tool-result and output checks | see agent loop |
| Semantic cache (`cache/`) | entries with expiry, references, hit count | `lookup`, `put`, `invalidate_document` | no answer outlives the documents it cites or leaves its scope |
| Tools, providers (`tools/`, `providers/`) | `last_usage` of the shared generator | `run`, model calls with fallback | validated before it is run; retries within the time limit |
| Chunking (`ingestion/chunking.py`) | none | sections, windows | cover the text under its headings, terminate |
| Parsing, normalising (`ingestion/`) | none | pure functions | |
| Evaluation, observability, dashboard, configuration | none the others read | | |

**How the parts interact.** An upload is an HTTP request that calls `submit` and
creates a task for `process`; both run on the event loop and share the service's
maps and its one session. The task yields only while the embedding provider is
called. When it ends, its done callback drops the tenant's BM25 index. A client
polls `get_job`. A query runs `run_query`, which asks the cache, the router, then
either one tool or the agent loop; the vector tool goes through the hybrid
retriever to the BM25 stage and to the `chunks` table the ingestion writes. The
HTTP handler calls the same retriever, without the graph.

**What is hard.** Uploads of one tenant interleave at the embed call and decide
on what another one is about to change; they share an open transaction, so a
fault in one undoes rows of the other; a session that failed stays failed; a
restart keeps rows and loses maps; the tables describe one fact three times
(document row, version rows, chunks). The BM25 cache is filled and dropped by
different actors, and a retrieval reads it before the embedding call and the table
after. A cut by rank comes before a filter by access. A tool retries under a limit
that its caller measures too. The agent loop counts steps twice, measures time on two
clocks, and may fail, be denied or time out at every await. The full list, line
by line, is `hazards` in `PROJECT.json`.

## Modules

| Module | Models | Remarks |
|---|---|---|
| `ControlPlane` | tables and repository calls as pure functions on a database | a UNIQUE constraint is a condition on the set of rows |
| `Ingestion` | `IngestionService` + session + API tasks | extends `ControlPlane`; one action per way a segment of `process` can go |
| `VersionHistory` | the abstract promise: a document appears at version 1, moves only to numbers it never had, publications never change | `Ingestion` implements it (`ImplementsVersionHistory`) |
| `MCIngestion` | upload requests for TLC | |
| `IngestionProofs` | proofs about both, and that the refinement holds | |
| `BM25Index` | `BM25Stage` and the API's invalidation callback | one step per locked block |
| `BM25IndexProofs` | proofs | |
| `AgentLoop` | `run_agent`, `Budget`, output and tool-result guardrails as verdicts | one step per await |
| `MCAgentLoop`, `AgentLoopProofs` | instance and proofs | |
| `SemanticCache` | look-up, put and invalidation of `PostgresCacheStore` under the cache service | operators on a set of entries: none of the three gives up the event loop |
| `QueryGraph` | `run_query` with routing, escalation, direct execution, output check | extends `SemanticCache`; one step per await; the agent loop by what it may answer |
| `MCQueryGraph`, `QueryGraphProofs` | instances and proofs | |
| `HybridRetrieval`, `MCHybridRetrieval`, `HybridRetrievalProofs` | one retrieval from request to response: BM25 stage, dense stage, fusion, reranker, budget, both callers, with ingestions meanwhile | one step per await, one per candidate of the budget |
| `Chunking`, `MCChunking`, `ChunkingProofs` | `_sections` and `chunk_document` | one step per line and per window |
| `ToolCalls`, `MCToolCalls`, `ToolCallsProofs` | one call of the web, SQL or parametric tool, with or without the agent loop's `wait_for` | one step per await, ticks of time |
| `SearchIndex`, `MCSearchIndex`, `SearchIndexProofs` | `OpenSearchIndexWriter` under the calls of the ingestion service, and `OpenSearchStage` | one step per call of the writer |

### Ingestion

*State.* `jobs`, `sources`, `payloads`, `memdoc` are the service's maps (`_jobs`,
`_sources`, `_payloads`/`_contexts`, `_memory_documents`); `pc` and `draft` are
the position and the local variables of each task; `db` is the database as the
session sees it, `disk` as committed, `usable` tells whether the session may still
be used; `index` is the external search index. `upload` remembers each request.

*Steps.* `submit` is `Submit` or `SubmitRefused`. `process` is two atomic segments,
because the only real suspension point is the embedding call: the first
(`SourceMissing`, `InputRejected`, `LookupRaises`, `Start`) and the second
(`EmbedRaises`, `PersistNew`, `PersistReplacement`, `PersistSameContent`,
`PersistRaises`). Each way out of `process` contains all that happens there: the
memory copy of the job and the `finally` clause (`Settle`), then the job row and
the commit, or their failure (`Save`). `Retry` and `ResumeLost` are `process`
called again, `Restart` the death of the process.

*Abstractions.* A content hash stands for a text; one chunk row for all chunks of
a text under one document and version, as their ids are computed from exactly
these. Ids drawn by `uuid4` are consecutive numbers: all that is used of them is
that they differ, and in `find_active` that the document created first is the
first one returned (it orders by creation time).

### BM25Index

`committed` counts the writes to a tenant's chunks, and an index is worth the
count it was built from, so that "stale" is a comparison of two numbers.
`notices` are the done callbacks that have not run. The locks are objects:
`entries` may lose one while a thread holds it and get another for the same
tenant. `raced` is a history variable. The stage takes locks as it must for
callers on several threads (its comments say so); the API calls it from one event
loop, where a search is atomic. The model is the more general case.

### AgentLoop

`pc` is the await the loop is at. The planner, the tools, the checker and the
synthesizer are environment: they return anything their type allows, raise or
time out. A call under `wait_for` may outlast its limit by up to `Overrun`: a fetcher
that blocks the event loop, or a cancellation lost in a `wait_for` of the tool's own, is
cut off late, and what it returns is taken. `budget` is the shared `Budget`, already charged by whoever ran
before; `BudgetAge` is how much older the budget's clock is than the loop's. An
observation is reduced to what is decided on: success, text present, citations
present, tenant and ACL cleared. `executions` and `judged` are history variables.

### QueryGraph

Each query is a task; `pc` is the await it is at: the embedding call (after which
the look-up runs at once), the router, the tool or the agent, and, for the vector
tool, the moment between reading and answering. An answer is what became of it
(`grounded`, `partial`, `refused`) and `draws`, the document versions it was made
from; the same goes for a cache entry, next to `refs`, the column
`referenced_document_versions`, which `run_query` leaves empty. A text is its topic,
similarity a relation of topics (`Near`), a policy what it forces and the depth it
escalates to, a scope a tenant with an ACL, a mode a
model profile with a response mode. `Replace` and `Tick` are ingestion and the
clock. `PutForeign` and `Invalidate` are callers of the cache service that use what
it offers and `run_query` does not: references and invalidation. They are what
makes lines 72-74, 108-118 and 120-135 of `cache/postgres.py` matter; without them
every reference would be empty. A step that raises after the answer was made keeps
it in `answer`, so that a lost answer can be told from one never made.

`escalated` in a route is a history field.

`run_query` is the library's query path, used by the tests; the HTTP handler has a
shorter one of its own (see the observations).

### HybridRetrieval

`pc` is the await the retrieval is at; between two, everything is one step, as the
event loop has it: the BM25 stage runs up to the embedding call, and search, fusion,
filter and order follow its answer in one go. `corpus` are the rows of the chunks
table, `cached` the rows the tenant's BM25 index was built from, `pending` the
documents whose done callback has not run. A score is a place in an order
(`relevance`), one for each stage; the fused scores are compared as fractions, made
whole by a common `Unit`: a constant that each `rrf_k` + rank is assumed to divide, as
the product of them all does. The content of a document is one chunk, so a replaced
document that shows in both stages with different versions shows as two rows. `Replace` deletes
the chunks of one version and writes those of another, as `service.py` 320-327 does; the
deleted number need not be that of the chunks in the table (finding 2), and then a
document has several rows from there on. `setup` is the
wiring: one or two providers in a fallback chain, and one of four rerankers.
`lag` is a history variable: documents replaced since the BM25 index was
read, or still waiting for their callback then; so is `read`, the rows the dense stage
searched. The cache in front of the
handler's retrieval is left out: as wired each look-up of it raises and counts as a
miss.

### Chunking

The two loops of `_sections` (a line per step) and of `chunk_document` (a window per
step). A line is a level (any natural number: Markdown has six,
the styles of a Word file nine) and a number of words, a word is its place in its section,
a heading is the number of its line. `SliceAt` does what a Python slice does with a
bound out of range, negative ones included, as `start` goes below zero under an
overlap larger than the window. Page numbers, chunk ids and metadata are left out;
an overlap is not negative, as the validator demands.

### ToolCalls

`setup` is a wiring with a request; `deadline` is the time of the caller's
`wait_for`, `Null` when the tool is awaited as it is (`graph/nodes.py`). Time is in
ticks: `Tick` cannot pass a timer that the event loop would run, and passes the
caller's while a synchronous fetcher holds the loop. The Python 3.11 `wait_for` loses a
cancellation that meets the end of what it waits for (`deaf`): the web tool's next
attempt then runs uncancelled. A statement is reduced to what the validator asks of it and
`with_tenant` makes of it: its form, whether it writes anywhere, its tables (name, the name they
answer to, schema, whether they mean a CTE and stand in the outermost FROM), the names of
its CTEs and of the subqueries in its FROM, whether its WHERE is a disjunction, and
its LIMIT. `ScopedSql` asks for the tenant by name and appends the condition to the WHERE, as the code does:
names may coincide, and the own WHERE stays. The database refuses
a statement whose condition names a table it does not see where the condition stands. The
SQL executor is taken as asynchronous (a synchronous one holds the loop as the fetcher does).

### SearchIndex

`rows` and `memory` are what the ingestion service knows of the active documents, in
the detail that decides what the writer is asked; `index` the entries that exist;
`known` the writer's maps, lost at a restart. Uploads interleave as in `Ingestion`: `drafts`
are in their embed calls, each with the memory record it `seen` before; `job` is the one past it, which nothing but a restart
interrupts. Items of a bulk request fail one by one, and nobody reads the result. The
provider, the database, the writer and the commit may raise; a session that raised commits
nothing before the restart (`Poisoned`). `exposed`, `lost` and `overtaken` are history variables: entries
that a restart or a failure left to the index, or cost it, and documents written by
an upload whose tenant's memory record another one changed during its embed call. The refresh delay of the
search engine is not modelled.

## Runs, bounds and what they show

| Run | Shows | Bounds, and why they are enough |
|---|---|---|
| `ingestion_api` | types; every document has chunks of its content; rows and memory agree while the session works, and the row is never ahead; an active job is published; memory names what is published whenever the session works or commits; temporaries go with the job; refinement of `VersionHistory`; accepted jobs settle | 3 uploads of 1 tenant, 2 contents, 2 access scopes, one request naming a file, any stage and any database call may fail, 1 restart. Two tasks interleave at the embed call while the third has published or will replace: the races found by hand need two tasks and one predecessor |
| `ingestion_retry` | document row = active version, and a committed active job is final, when callers retry | 2 jobs, 2 tenants (one without a tenants row), indexer wired, 2 retries, 1 restart, so a job may be retried before and after it |
| `ingestion_idempotent`, `ingestion_stale_chunks` | findings 1 and 2 | the smallest instance that has the behaviour |
| `bm25_threads` | types; staleness is accounted for; each lock is released by its holder; every search returns | 3 threads: one waits, two build under different locks. 4 locks, as one entry and three threads hold at most four; 2 writes, so an index may be stale by an ingestion before, during and after a build. One tenant: tenants share only the short critical section, which is one step |
| `agent_bounded` | step limits, no action twice, grounded answers, overshoot of tokens and cost, overshoot of time, termination | 3 tools (retrieval, self-charging, forbidden), 2 queries, 2 policy steps below 3 budget steps, every limit 2, usage at most 1, calls that outlast their limit by 1, so limits are reached at every point of the loop; larger limits only repeat iterations |
| `query_cache` | types; answers stay in scope; parametric depth never retrieves, unless a policy escalates to it; a hit repeats a recent answer; an entry with references is served only while they are current; every query ends | 2 queries at once, which is what one filling the cache while the other looks into it takes; 2 scopes of which one may read the only document, 2 similar topics, policies that force a tool, that force parametric depth together with a retrieving tool, and that escalate to parametric depth, 3 tools of which one is not available; 1 replacement, 1 tick with a time to live of 1, 1 entry by others, invalidated at any moment |
| `query_multihop` | finding 3 | the same instance with one kind of request |
| `hybrid_api` | types; a readable chunk is missed only in a crowd; the budget is held and used; what is returned is in the table unless replaced meanwhile; every request ends | 6 documents: two for all, three hidden from one of the callers, one of another tenant; sizes below, at and above the rest of a budget of 4; 4 orders per stage, hidden documents first, last and in between, limits 1 and 2, so that the hidden ones exceed what a stage fetches; 1 document replaced, at any moment, by 2 version numbers in any order, with or without its old content staying; `rrf_k` 60 as by default |
| `chunking_lines` | chunks tile the sections; text is under its headings; the call ends | all texts of up to 4 lines of 6 kinds (blank, short, longer than a window, headings of 3 levels): a heading of each level after each other with a body between; windows of 2 and 4 words, overlaps 0, 1 and an unvalidated default of 3, larger than one window and smaller than the other. `MaxChunks` 20 is more than any text needs and stops only policies that never end |
| `tool_limits` | retries within the time, and cut off only when it is up; only validated statements run, and those that succeed are held to the tenant but in three named cases; every call ends | attempts of 1 to 3 ticks with 0 to 2 retries under deadlines of 1 to 7 ticks or none: before, within, between and after all attempts; statements with a table, a CTE, a subquery, a foreign schema, a table function, nothing, names that coincide, and each kind of WHERE; limits 0 to 3 around `max_rows` 2 and 0 |
| `search_restart` | leftovers only of a restart, a failure or an overtaken upload; otherwise the active chunks are found | 2 tenants, 3 uploads, any of them at once (new, replaced, overtaken, and replaced by what lost its memory), a fault at any call, 1 restart at any point, searches for fewer, as many and more hits than a document has chunks, 2 chunks so that one item can fail and the other not, both kinds of client |

`Usage`, `Overtime`, `Overrun`, `MaxJobs`, `MaxRetries`, `MaxCrashes`, `MaxWrites`, `MaxVersion`,
`MaxTime`, `MaxForeign`, `Changing`, `MaxChunks`, `MaxUploads` and `MaxRestarts` are bounds
of the models, the other constants are parameters of the code. `CHECK_DEADLOCK`
is off where the system stops by itself: uploads are finite, a query ends.

Each property of a passing run has a mutant in `PROJECT.json`: a definition and a
plausible wrong version of it (written next to it, marked `Mutant`) under which
the run finds the property violated.

## Fairness

- `Ingestion`: the event loop runs each ready task, and the embedding provider
  answers or raises (weak fairness on each segment, per job). Nothing is
  assumed of clients, retries, restarts or of which database call fails.
- `AgentLoop`: one task, `WF(Next)`. Each await but the synthesis is under
  `wait_for`, and one that outlasts it ends some time (`Overrun`); the synthesis relies on the provider client's own timeout.
- `BM25Index`: a thread inside the stage goes on, callbacks run, and a lock that
  is free again and again is got by whoever waits (strong fairness: others may
  take it in between; Python's locks promise no order, but a waiter is woken at
  each release). A search need not ever start, nor an ingestion happen.

- `QueryGraph`: per query, the await it is at comes to an end (`WF(Step(q))`):
  providers answer or raise, and the agent loop stops, which `Terminates` checks.
  How often the agent reads, replacements, time and other callers get none.
- `HybridRetrieval`: the retrieval goes on (`WF(Step)`); providers answer or raise,
  their clients have timeouts. Ingestion gets none.
- `Chunking`: `WF(Next)`, one call that nothing interrupts.
- `ToolCalls`: the code goes on and time passes (`WF`); nobody needs to answer, as
  each wait has a timer. Only a synchronous fetcher, which no timer can end, is
  taken to keep the time it is given.
- `SearchIndex`: none, its properties are safety.

## Proofs

TLAPS proves, for all values of the constants that satisfy the named ASSUMEs of
the modules (`ControlPlaneAssumption`, `IngestionAssumption`, `NullIsNoRecord`,
`AgentAssumption`, `BM25Assumption`, `SemanticCacheAssumption`, `QueryGraphAssumption`,
`HybridAssumption`, `SearchIndexAssumption`, `ChunkingAssumption`,
`ToolCallsAssumption`, `NullIsNoStatement`; TLC evaluates them on every run):

**Ingestion** (`IngestionProofs`; the lemmas at its head say what a repository call
of `ControlPlane` preserves).
`TypeCorrect` comes from `Bookkeeping` = `TypeOK` and `RowsInStep`, which is inductive:
type correctness alone is not, since the commit reads a row that only the second
conjunct says exists. `RowsAgree` adds `MemoryAhead`, which holds of a failed session too: `process` writes
memory first, so a row that says active has a memory record that does.
`TemporariesAlways` from `Temporaries`: a retry works from the payload, so a file must not
outlive its payload. `CommittedIsFinal` from `RowsPending`: a row the session has and the
disk has not is of a job never committed, so that another job's commit or rollback
touches no final row.
`MirrorsAlways`, `SearchableAlways` and `Implementation` come from `Durable`: the
tables of `db` and of `disk` agree between steps (so that a rollback, or another
job's commit, can neither lose nor publish anything but job rows), ids are below `nextId`, `disk` is
`Consistent` (keys unique, row = active version) and `Searchable`. Each `Persist`
action is shown to be one of four durable steps (nothing, a document created, a
document replaced, chunks rewritten), and each of these to keep the invariant
and to be a step of `VersionHistory` or a stutter.
`ActiveJobsAlways` and `MemoryAlways` come from `Named` over `Durable`: while the session
works, what a finished job and what memory name is committed. It is kept because every step of
the session publishes more, leaves other tenants' rows alone, and a job that
fails names nothing. A failed write may leave memory wrong; `MemoryAlways` covers that case by
`CommitsUsable`: nothing is committed then, until a restart has emptied it.

**AgentLoop** (`AgentLoopProofs`). `TypeCorrect` and `TimeBound` from `TypeOK` and
`TimeKept` (how late it may be at each await: the check runs on the time the tool
had, hence the factor two; plan, tool and check may each outlast their limit once, hence three
times `Overrun`). `StepBound` from `Counting` (the loop's and the budget's
step counter agree, and differ from the calls made by the one under way).
`ActionsDistinct` from `Remembering`. `SpendingBound` from `Spending`: how far each
resource may be ahead of its limit at each await. `GroundedAlways` from `Evidence`.

**BM25Index** (`BM25IndexProofs`). `TypeCorrect`, `LocksAgree` and `StalenessAccounted`
from one invariant; the strengthening is `LoadedAccountedFor`, the same claim about
an index that is loaded and not stored yet.

**QueryGraph** (`QueryGraphProofs`). `TypeCorrect`, `AnswersInScope`, `HitsRepeatAnswers` and
`ReferencesAreCurrent` from one invariant `Inv`. Its strengthenings: what a query has
drawn and what an entry holds is in scope too (`DrawsInScope`); for each entry of
`run_query` there is an answered query it was made by, which expires no later than
the time to live after that answer (`EntriesAccountedFor`); nothing is known of a
query that is not routed (`Unrouted`). Steps come in two shapes, a query goes on
(`GoesOnInv`) or ends (`EndsInv`), and each action is shown to have one of them.
`ParametricNever` is proved on its own, for every policy; its one exception, a query that a
policy escalated to parametric depth, is there in the code. Scopes are opaque here: that a retrieval finds only what its
scope may read is taken from the retriever.

**HybridRetrieval** (`HybridRetrievalProofs`). First the operators: a finite set put in a
strict total order has every element in its place (`InOrderComplete`), cutting and
appending keep elements, the fusion ranks the candidates and nothing else
(`FusedRanksCandidates`), a reranker only reorders (`OrdersKeep`). `TypeCorrect` from `Typed`, which adds
what no step has reached yet. `BudgetKept` from `Spending`: each candidate below `next` was taken,
or did not fit into what is left, which is less by then. `StoredKept` from `Stored`, the same claim about the
BM25 index, its hits, the ranking and the selection: a row that is gone belongs to a document replaced
while this ran, or whose callback was still to run when the index was read. `MissedAccounted` from
`Crowds`, the claim about the rows `read` at the dense search: a readable row that the two cuts
(`MissedWasCrowded`) left out has enough rows ahead of it, and later steps change neither.

**SearchIndex** (`SearchIndexProofs`). `LeftoversKnown` and `ActiveAlwaysFound` from one
invariant, `IInv`. `Attributed` and `Current` are its heart: each entry that no failure left behind, of a document
no upload was overtaken at, is known to the writer, of an active document, and of the version that
memory names, or else of the version that the upload under way replaces or writes; that makes the
deletion of exactly the replaced version enough (`DeletionExact`). `Present`: no entry of a row is missing
that no failure cost. They need `Numbered` (an id is one tenant's), `Drafted` (a draft has the number after the one
it saw) and `UnderWay` (what the upload past its embed call has done so far). TLC checked the invariant before it was proved.

**Chunking** (`ChunkingProofs`). `TypeCorrect` and `TilesAlways` from `Inv`, for any
texts, windows and overlaps. The strengthening is `Position`, which ties the
place where the next window starts to the last chunk: at the next section's first
word if that chunk closed its section, else `overlap_tokens` before its end and above 0, which
is where `Advances` is needed. That a section is never empty (`TypeOK`) makes each
window non-empty.
`HeadingsAlways` from four more conjuncts: each line read is in one place
(`LinesPlaced`); if no level is skipped, the k-th heading of the path has level k and
the path is what encloses the line (`PathPlaced`); a closed section keeps the path its first
line was read under (`SectionsPlaced`), and its chunks have that path (`SectionsCut`). No induction over
the text is needed: a step adds one line at one end.

**ToolCalls** (`ToolCallsProofs`). `TypeCorrect`, `TimeKept` and `VettedAlways` from one invariant:
`Place` (which tool can be at which await), `Clock` (an attempt began no later than
its predecessors may take, and after a dropped cancellation that is counted from
the deadline), `Told` (what an outcome says of retries and time) and `Vetted` (how far the
statement has come at each await: from validated to read-only to executed). That a statement which
succeeds is held to the tenant, but in the three cases, is a fact about `ScopedSql` (`TenantKept`): if the database
accepts it, the names asked for are those of its outermost FROM.

**Only model-checked:** the liveness properties (`AcceptedJobSettles`, `Terminates`,
`SearchReturns`, `QueryEnds`, `RequestEnds`, `CallEnds`, `ChunkingEnds`), which the prover cannot
treat (fairness, ENABLED). Every other property of a passing run is a theorem.

## Findings

Each is a run that TLC ends with a counterexample, against a sentence of the
repository quoted in `PROJECT.json`.

1. `ReprocessingIsIdempotent`: uploading a published content again fails on the
   primary keys of its own chunk rows, and leaves the session unusable.
2. `ReplacedChunksRemoved`: chunks carry the version number chosen before the
   embed call, deletion goes by the number the row shows; after a race or an
   upload from another access scope, chunks of the old content stay.
3. `AgentAnswersArrive`: line 140 of `graph/build.py` reads `direct_evidence`, which only
   the direct path binds; with a guardrail runner every multi-hop answer that is
   not a refusal is lost to an `UnboundLocalError`.

## What was seen

Observed while modelling, without a run:

- nobody rolls the shared session back after a failure (`service.py` 179 swallows
  the error), so it stays unusable; `Ingestion` models it by `usable`;
- two overlapping uploads of one new content publish it twice, as two active
  documents: whether it exists is looked up before the embedding call (192) and
  not again before the row is created;
- a tool call whose result is denied is not charged (`agent_subgraph.py` 262);
- `run_query` stores every answer without references (`graph/build.py` 164), so a cached
  answer outlives the versions it was made from until it expires;
- the validator of `ChunkPolicy` sees an overlap only if it is given: with the default
  of 50 and at most 50 tokens per window, `chunk_document` never gets to the end of
  a longer section, while its list of chunks grows. The service always chunks with
  512 and 50. `ChunkingEnds` and `WindowsTile` state what holds, with `Advances`;
- a heading of level 3 right under one of level 1 stays on the path of the next
  heading of level 3 (`NoLevelSkipped` in `TextUnderItsHeadings`). For this and for the policies just named the
  properties say what holds otherwise; they catch neither;
- the OpenSearch stage makes every principal of the caller a condition, and the
  retriever every principal of the chunk: together, only a caller with exactly the
  scope of a chunk finds it (hence the callers of `ActiveFound`);
- a version that a restart or a failed deletion leaves in the search index is
  never deleted, and is found like the active one (`exposed` in `LeftoversExposed`); the same goes for the
  entries of an upload whose commit failed. Failed items of a bulk request are reported to nobody;
- access scope is applied after each stage has cut its list, so enough hidden
  chunks leave a reader with fewer hits, or none (`MissedOnlyInACrowd`);
- Python 3.11's `wait_for` drops a cancellation that meets a failing attempt of the
  web tool: its remaining retries then run, and the agent loop waits longer than
  the tool's timeout. A synchronous fetcher is not cut off at all. `RetriesWithinTime`
  names both as its exceptions, and `Overrun` is what they cost the agent loop;
- a table in a subquery passes the validator and is then asked for in the outermost
  WHERE, where it has no name: the database refuses the statement, unless the FROM has
  a table that answers to the same name (`Shadowed`). The condition is joined by AND to a WHERE that gets no
  parentheses, so beside a disjunction it applies to its last part only (`sql_validate.py` 50-53),
  and a table with the name of a CTE gets none (line 32). `tests/tools/test_sql_security.py` 35 has the
  test `test_explicit_cross_tenant_predicate_cannot_escape_server_scope`, of a WHERE that is a comparison; of the
  three cases `OnlyVettedStatementsRun` excludes, no test has any;
- a policy may escalate to parametric depth, and the decision keeps the tool it had: `apply_escalation`
  normalises before it changes the depth (`escalation.py` 20-25; its comment at line 10 speaks of
  "the invariant that parametric depth never retrieves");
- with the indexer wired, of two concurrent first uploads of a tenant the second takes the first one's new record for its
  predecessor: it deletes from the index, by the record's version number, the entries that it has just written itself
  (`service.py` 244-249), and its document is active and not found. Such documents are `overtaken`
  in `LeftoversExposed` and `ActiveFound`;
- after a commit that failed, `get_job` answers `active` from memory until the next restart, of a job
  whose rows are not there (`service.py` 175-179);
- `cache/redis.py` is never reached: the API awaits a synchronous client
  (`api/main.py` 158-172), catches the error and goes without; its searches would
  not get past their parameters;
- a comment of the fallback embedding provider claims a check of the dimension
  that the code lacks; the dense stage refuses the vector instead;
- an invalidation between the load and the store of a BM25 build is lost (only with
  searches on several threads; `raced` in `StaleOnlyByRace`);
- when only the budget's older clock ran out, the agent loop reports `max_cost`
  although no cost limit was reached;
- a cache hit is always called `grounded`, also of a `partial` answer, and answers
  a query whose policy forces another tool; on the direct path a verdict of
  `QUALIFY` leaves the answer as it is;
- the HTTP handler builds its `CacheLookup` without `model_profile` and `response_mode`,
  which the type requires, so every look-up raises and is logged as a miss
  (`api/main.py` 438-444, 456); it stores with empty references as well (515);
- nobody calls `invalidate_document`;
- with four uploads the number of the active version can go down: memory may
  lag behind the rows, and a number lower than the current one is free;
- an indexer that raises leaves the document published and its job failed;
- the job row never gets its `document_id`, and `get_job` shows `received` until the end;
- a refused `submit` leaves its map entries and its temporary file; a failed job
  keeps its payload;
- an upload for a tenant without a row poisons the session for all tenants;
- a restart leaves `received` rows that nobody takes up;
- `_guard_output` turns a refusal of the agent into a `partial` answer;
- a structured model call that falls back to another provider is charged once; the
  parametric tool is charged twice.

## What is not modelled

The reasons are in `components` of `PROJECT.json`: network clients (each call may
fail, which the models allow), format conversions, the dashboard, observability,
evaluation and configuration have no state the others depend on. Repository
operations without a caller in the service (`tombstone`, evaluation runs) are left
out, and so is the Redis store, which as wired is never used. Within the modelled
parts: text heuristics of the guardrails are any verdict;
the agent loop models one query, so a `last_usage` overwritten by a concurrent
one is covered only in that a charge is any usage; the authentication of the API
decides before any state is touched.

## Plan

Done, in this order: `ControlPlane`, `Ingestion`, `VersionHistory` and their proofs;
`AgentLoop` and its proofs; `BM25Index` and its proofs; `SemanticCache`, `QueryGraph` and
their proofs; `HybridRetrieval`; `Chunking` and its proofs; `ToolCalls` and its proofs;
`SearchIndex`; the proofs of `HybridRetrieval` and `SearchIndex`, and those of the
remaining invariants of `Ingestion` and `Chunking`.

Next:

1. `AgentLoop` as the implementation of the agent step of `QueryGraph`: what it answers is
   among what the query graph expects of it.
2. `SemanticCache`: an abstract specification of a cache that forgets what is no longer
   true, and which part of it `run_query` obtains.
