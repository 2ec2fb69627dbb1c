# kenjaku: verification development

TLA+ models of the kenjaku search server (`src/crates/`), TLC configurations
that check them on small instances, and TLAPS proofs that hold for every value
of their constants. Paths below are relative to `src/crates/` unless they start
with another directory of the repository; `service/`, `infra/`, `api/`, `core/`,
`ingest/` and `server/` stand for `kenjaku-<name>/src/`.

Contents: 1 the system, 2 the modules, 3 what is checked, 4 fairness, 5 what is
proved, 6 disagreements with the documents, 7 what is not modelled, 8 plan.

## 1. The system

A search goes through intent and translation, a fan-out of tools (document
retrieval, web search), a language model whose answer may be streamed, and a
completion that logs the conversation and remembers the turn. Around it run
background workers (conversation log, trending counters, suggestion refresh,
history janitor) in every replica, over PostgreSQL, Redis and Qdrant, and
offline programs that crawl, ingest and refresh.

| Component | State | Operations | Talks to | What makes it hard | What makes it correct |
|---|---|---|---|---|---|
| Suggestion refresh (`service/foundation/worker/suggestion.rs`, `infra/postgres/refresh_batches.rs`, `default_suggestions.rs`) | `refresh_batches`, `default_suggestions`, an advisory lock on a pinned connection | `run_once`, `run_locked`, `build_and_swap`, `swap_active_atomic`, `retain_last_n`, `mark_failed`, `run_scheduled`, seed-refresh-now | Qdrant, LLM, PostgreSQL | replicas and CLI runs overlap; lock and statements use different connections; commits whose reply is lost; crashes, panics | one active batch with its rows, replaced only by newer ones, never by none; runs exclude each other and end; the lock is freed |
| Conversation log (`service/session/conversation.rs`, `infra/postgres/conversation.rs`) | bounded channel, the worker's batch, `conversations` | `record`, `run`, `flush`, `batch_create` | every search; PostgreSQL | full channel, failing transactions, retried request ids, shutdown | nothing accepted vanishes silently; order and first answer are kept; the rest is flushed at shutdown |
| Trending (`service/foundation/trending.rs`, `worker/trending.rs`, `infra/redis/client.rs`, `infra/postgres/trending.rs`) | sorted sets with expiry, `popular_queries` | `record_query`, `increment_trending`, `flush_once`, `upsert` | every search; Redis, PostgreSQL | separate commands, several flushing replicas, midnight, expiry, partial cycles | no search counted twice, no window cut short, rows catch up with scores |
| Tool fan-out (`service/harness/fanout.rs`, `core/types/tool.rs`, `service/tools/`) | tiers, outputs per tool | `ToolTunnel::new`, `execute`, `should_fire`, `invoke` | pipeline; providers | dependency graphs, timeouts, partial failure, concurrency in a tier | dependencies first, stable numbering, only a bad request is fatal, always ends |
| Pipeline, event stream, history (`service/search.rs`, `pipelines/single_pass.rs`, `session/history.rs`, `api/handlers/search.rs`) | channel of events, accumulated answer, cancellation token, turns of each session | `search`, `search_stream`, `complete_stream`, `search_streaming`, `append`, `snapshot_for_llm`, janitor | everything above; the client | disconnects at every await, slow readers, broken streams, overlapping searches of a session, eviction | event grammar; done means stored and complete; nothing of a failed search; tenants apart; follow-ups see the answer |
| Locale memory (`service/session/locale_memory.rs`, `infra/redis/locale_memory.rs`, `api/extractors/locale.rs`) | a Redis key with a sliding lifetime per tenant and session | spawned write, lookup chain | pipeline, autocomplete, top searches | unordered fire-and-forget writes | the lookup falls back in order; what is remembered is the language of an answer of that session |
| Streaming parser (`infra/llm/gemini.rs`) | partial JSON, scan position, escape state | `push`, `finalize` | pipeline | texts cut anywhere | the concatenated deltas are the decoded message |
| Model calls and answer (`service/brain/`, `infra/llm/gemini.rs`, `service/tools/`, `pipelines/single_pass.rs`) | the request's usage, intent, documents, hits | merged or paired preamble, retrieval and fusion, web search, generation, assembly | providers, Qdrant | every call may fail or be malformed on its own | each call paid once, agreement wins, sources named once |
| Title resolver (`infra/title_resolver.rs`) | cache in Redis | `resolve` | pages behind the links of a model | parallel misses, stale entries | a title is one its page had less than a day before |
| Users and administration (`infra/postgres/users.rs`, `infra/auth/jwt.rs`, `api/handlers/admin_users.rs`, `auth.rs`, `middleware/`) | `users`, issued tokens, tenants cached at start, rate buckets | login, API and administration requests, create, update, reset, delete | PostgreSQL | two statements per update, concurrent administrators, tokens older than a change | what a disabled user can still do is bounded; one tier per process |
| Server process (`server/main.rs`, `core/config.rs`) | stage, merged configuration, workers, tenant cache | `load_config`, validation, connect, spawn, bind, shutdown | everything | a late stage fails after workers run | it serves with all it needs, or ends |
| Suggestions and autocomplete (`service/foundation/suggestion.rs`, `quality.rs`, `api/handlers/`) | none of its own | blended reads | active batch, `popular_queries` | readers beside a swap and a flush | the crowd's rows are the crowd's, the rest from one batch |
| Feedback (`service/session/feedback.rs`, `infra/postgres/feedback.rs`) | `feedback` | `create` (upsert) | PostgreSQL | concurrent and repeated clicks | the last word counts |
| Ingestion (`ingest/`, `infra/qdrant/client.rs`) | visited set, points in Qdrant | crawl or walk, `chunk`, embed, upsert | web, embedder, Qdrant | depth bound, partial batches, kills | a document reported is stored whole, with its own vectors |
| Web client (`src/geto-web/app.js`) | one stream, session id, transcript | ask, abort, render | event stream | events after an abort | one answer at a time |
| Stateless parts | none | clustering, DTOs, health, request ids, telemetry | | | |

`PROJECT.json` lists all 26 components with their sources and the reason for
each that is not modelled, and 40 hazards with the properties that cover them.

### Interactions

* A search calls the fan-out, the history (`snapshot_for_llm` before the model
  is asked, `append` after), the trending counters (before the first event) and
  the conversation log (`try_send`, never waiting).
* The handler's task and the HTTP response share a channel of 100 events; the
  task notices that the client is gone only when a send fails.
* Replicas share only PostgreSQL, Redis and Qdrant; histories, channels and the
  tenant cache are memory of one process.
* Readers of suggestions join with the batch whose status is `active`, and read
  the rows the trending workers wrote.
* A request passes the tenant check (token, tenant snapshot), then a rate bucket
  or the administrator check, before any handler above sees it.
* The ingestion command changes the collection that the document tool searches
  and that the refresh worker samples (`Ingest` of `RefreshBatches`).

## 2. The modules

Every module takes its sets and bounds as CONSTANTS with a named assumption.
A program counter has a value for every place where another actor may move:
an await, a command or statement of its own, a transaction boundary. What the
code does between two such places is one action.

### RefreshBatches, PublishedPool

`RefreshBatches` is the whole of `run_once` in any number of processes.

| Variable | Code |
|---|---|
| `corpus` | the Qdrant collection, changed by `Ingest` |
| `status`, `print`, `nextId` | `refresh_batches`: status, fingerprint, id sequence (also the order of `started_at`) |
| `filled` | batches with rows in `default_suggestions` |
| `holder`, `depth` | session of the advisory lock and how often it is held |
| `pc`, `forced`, `pin`, `seen`, `finger`, `batch`, `result` | locals of `run_once` and `run_locked` |
| `swapRows` | rows locked by the open transaction of `swap_active_atomic` |

Actions in the order of the code: `TryLock` (pin a connection,
`pg_try_advisory_lock`), `Scroll` and `Count` (the two calls behind the
fingerprint), `Compare` (the skip), `StartBatch`, `Generate`, `InsertBulk`,
`SwapBegin`/`Demote`/`CommitSwap` (the two UPDATEs at READ COMMITTED, with row
locks and the partial unique index), `Retain`, `MarkFailed`, `Unlock`. Each
fault is an action with a name in `Faults`: a size of the collection that cannot be
had (`CountError`: the code then takes the length of the sample, which is capped at
`SampleCap`, or 0), a statement that fails, an INSERT or
a COMMIT whose reply is lost, a failing retention, a pinned connection that is
cut, a failing unlock, a panic, a crash with restart. `ReapConnection` is the
pool closing an idle connection. What k-means and the model answer is a choice
between "rows" and "none".

`PublishedPool` is the abstract specification: one variable, the served batch,
that is replaced at once by a newer one. `RefreshBatches` implements it with
`current <- Current`.

### ConversationFlush

`Record` is `ConversationService::record` (`try_send`); `Recv`, `RecvNone`,
`Drain`, `DrainEnd`, `Flush` and `FlushError` are the loop of
`ConversationFlushWorker::run` with `batch_create` as one transaction,
including `ON CONFLICT (request_id) DO NOTHING` (`Inserted`). `batch` is cleared
whatever the transaction did (`ClearBatch`). `Close` is the end of the last
sender at shutdown, `RuntimeDrop` the runtime that drops the worker when `main`
returns. `accepted` and `refused` record what the channel took and refused.

### TrendingFlush

`RecordQuery`, `Increment`, `SetTtl` and `RecordError` are `record_query` and
`increment_trending` command by command (ZINCRBY, TTL with EXPIRE, first the
daily and then the weekly key); `Scan`, `ReadKey`, `Upsert` and `FlushError` are
`flush_once`: of a key it reads the `TopLimit` entries with the highest scores
(`Tops`, ties in any order) and of those the popular ones; `NextDay` and `Expire` are the clock and Redis. Time is counted in
days. `recorded` and `origin` are history variables. One tenant and one locale:
others have keys and rows of other names. `Fault` counts the commands and
statements that fail.

### ToolTunnel

`Refuse`, `Peel` and `Sorted` are `ToolTunnel::new` (duplicate ids, Kahn's
algorithm, the panic on a cycle); `StartTier`, `Return`, `TimeOut`, `EndTier` and
`Finish` are `execute`. A gate stands for `should_fire`: on, off, or the web
fallback that looks at the number of document chunks accumulated so far.

### SearchSession

One handler per request, streamed or plain: `Ask`, `Preprocess`, `Retrieve`,
`Generate`, `Trending`, then either the event loop (`Start`, `Delta`, `Exhaust`,
`Break`) and `complete_stream`, or the end of `search` (`Record`, `AppendTurn`,
`Reply`), with `Fail`/`SendError`, `TimeOut` (the router's timeout layer, which
bounds a plain search and not the body of a stream) and `DropFuture`. The client
is `Read` and `Leave`; `Evict` is the janitor. `Remembered` are the sessions that have
a history (it can be switched off, and an empty session id has none). Steps that wait for the
model (`Model`) and for Redis (`Redis`) are told apart from the handler's own. An answer is the number of its
deltas. `CanSend` waits for room in the channel and fails at once when the
reader is gone; `Gone` is what the handler learns from that failure.

### StreamParser

`Event`, `DoneEvent`, `DropEvent`, `StreamError` and `EndOfStream` are the event
loop of `generate_stream` with the loop of the handler that reads it. `Push` is
the parser: `ValueStart` finds the value of `message`
(`find_message_value_start`), `Consume` decodes one unit (`consume_message_char`,
with the escape left pending at the end of a slice) and `Turn` is one turn of
the loop of `push`, taken until nothing is left to scan. `Finish` is `finalize`.
A text is a sequence of symbols; the key is two symbols so that a cut may fall
into it. `Received`, `Decoded` and `WellFormed` say without a state machine what JSON
makes of the text, and are what the parser is compared with: `Opens` says at which
quote the value of the first key that has a colon begins (if that value is no string, nothing
is read, as in the code), and a symbol is escaped by an odd number of backslashes before it.
`Symbols` is what texts are made of; `FrameAssumption` says that the quotes around a
message belong to its frame. Two things it shows
to be so, and that are by design or beyond the schema: a streamed `\uXXXX`
stays as it is (the comment above `MergedJsonStreamParser` says so), and only spaces,
tabs and newlines may stand around the colon (a carriage return would leave the
streamed answer empty; `Frames` has none).

### ServerStart, Access

`ServerStart` is `main`: `Boot` merges the four layers of a configuration
(`load_config`), `Advance` passes one stage after the other (`StageOk`: secrets,
stores, services, workers, tenants, key files, router) and `StartFails` ends the
process at any of them; the tenants table is read once, into `cache`.

`Access` EXTENDS it with the requests of clients. A request is a record with
its own program counter: `Login`, `FindByEmail`, `MintToken` are the handler of a
login; `ApiRequest` is `tenant_auth` followed by the governor, and
`AdminRequest`, `CheckAdmin` and one action per operation are the
administration routes, with the two statements of `update_user` apart
(`UpdateRole`, `UpdateEnabled`). `Cut` is a failing statement, a client that
leaves or the timeout layer. `Tick` is a second: a bucket gets a cell back and
no request outlives the timeout. The operator's `SeedTenant` and `ChangePlan` are the
tenant scripts. `offSince` is a history variable. Passwords are "long" or
"short", and of a token only the claims and the seal matter.

### Ingestion

One run of the command from its options: `Start`, `crawl_urls` and `SkipUrl` or the
walk (`discover_files_inner`), `Discovered`, `BeginDocument` (read, `chunk`), `EmbedBatch`, `upsert_points` and
`Finish`, with an action for each call that fails, an upsert whose answer is lost and
`Kill`; the operator may start it again. A text is a number of characters with
their width, the length of a token and the places of sentence ends: enough to
translate `adjust_to_sentence_boundary`, whose 85% is counted in bytes and
whose positions are counted in characters. `Replies` are all orders in which the
service may answer a batch. `EntryFails` is a folder or an entry that cannot be read
and is left out.

### LocaleMemory, Suggestions, Feedback (MCUserSurface)

`LocaleMemory` has the spawned writes as a set of their own (`writes`), so that they
land in any order or not at all; `resolve` is the chain of the extractor.
`Suggestions` EXTENDS it: `Search` counts a question that is no gibberish,
`upsert` copies counts to `popular_queries`, `PublishBatch` is
`PublishedPool`'s step (INSTANCE), and an answer is `RequestSuggestions`,
`ReadCrowd` and `ReadDefaults`, one statement each. `PublishedPool` is what
`RefreshBatches` implements when neither the lock's connection is cut nor a step
after the swap fails (section 5). `Feedback` has clicks in flight, the upsert on
tenant, session and request, and answers that are lost. `MCUserSurface` moves
the crowd, the batches or the clicks of a behaviour: they share no state.

### Answering, TitleResolver (MCAnswering, with StreamParser)

`Answering` is what an answer is made of: `Preprocess` or the pair `Classify`
and `Translate` (`Join`), `Retrieve` with `Reranked` (reciprocal rank fusion, ties in
any order), `WebSearch` or `NoWeb`, then `Generate`, or `OpenStream`, `Stream`,
`StreamEnds` and `CompleteStream`; `UnreadEvent` is an event that does not parse and is
dropped with the usage it carries. `spent` is the `UsageStats` of the request.
Weights and ranks are integers with a common multiple `Unit`, so that the
sums are exact. `TitleResolver` is `resolve` for the links of several searches:
`Hit`, `Miss`, `Fetch`, `Store`, with `Edit` of a page and `TimePasses`;
`ExtractTitle` is the cascade of places a title is taken from. `MCAnswering`
moves one part of a behaviour (the parser, the calls, the rankings or the titles);
`Varied` says what the two parts of `Answering` leave alone.

### Composition

The modules meet at narrow interfaces, which is why they are checked apart: the
fan-out is one step of `SearchSession` (it returns, or fails with a bad request,
which is what `ToolTunnel` establishes); a `Delta`
of `SearchSession` is an event of `StreamParser` that decodes to something; `Record` and `Trending` of
`SearchSession` are the calls into `ConversationFlush` and `TrendingFlush`, which
never make the caller wait or fail; what `Answering` puts together is the answer
`SearchSession` counts by its deltas. `Suggestions` composes with `PublishedPool`
by INSTANCE and `Access` with `ServerStart` by EXTENDS.

## 3. What is checked

All runs are exhaustive over the instance named.

| Run | Instance | Distinct states | Shows |
|---|---|---|---|
| `refresh_faults` | 2 processes on schedule, 1 connection each, 3 batch ids, retention 1, every fault | 2 466 843 | never two active batches, the active batch has its rows, nobody touches a batch being built |
| `refresh_lock` | 2 processes, 1 of them may force, 3 batch ids, retention 1. Either 2 connections, a corpus that stands still and the faults llm, sql, unlock, crash, panic; or 1 connection, a corpus that grows twice, the second time beyond a sample, no forced runs and the faults llm, count, crash and a failing `start_batch` | 115 526 | runs exclude each other, the served batch moves on to newer ones only (`PoolSpec`), runs end and the lock is freed (`RunEnds`), a corpus that stands still has its fingerprint served, again and again if runs that had its size get through, and for good once none misses it (`CatchesUp`) |
| `refresh_outage` (violation) | failing retention | | a failed retention leaves nothing served |
| `conversation_flush` | 4 records, 2 of one request; channel 2, batches of 2; all faults | 37 228 | conservation, order, first answer, flush of all |
| `trending_flush` | 1 search at a time, 2 workers, scores up to 3, 1 place of a key that is read. Either 1 query, 2 days, 1 failure of any kind; or 2 queries, 1 day, 5 searches | 674 985 | rows never exceed their window, no key expires inside it, a score that stands still reaches its row and stays, if its rank is among those that are read |
| `tool_tunnel` | 3 tools, every dependency graph over their ids and an unregistered one; a duplicated id; every gate and outcome | 103 654 | start refused exactly on duplicates and cycles; order; numbering; it ends, and fails for a bad request only (`ExecuteEnds`) |
| `search_session` | 1 stream and 2 plain searches of 2 tenants with one session id and a session without a history, 2 open at a time, channel 1, answers of up to 2 deltas, 2 turns kept and 1 injected, 1 fault | 462 436 | tenants apart, follow-ups see answers, done is stored, nothing of failures, event grammar, only the model and Redis are waited for, and by plain searches for the request timeout at most (`OnlyServicesHold`) |
| `access` | 1 replica, 4 configurations (1 good), 2 tenants of which 1 is added, 2 users, 2 callers, 2 tokens of which 1 is another replica's, 3 seconds, tokens and requests of 1 second | 820 381 | one tier per process; a disabled user runs out; who locks out a tenant locks it out for good |
| `ingestion` | a site of 4 pages at depths 1 and 2, a folder with a link to itself, 7 command lines, 2 runs, 2 faults | 121 721 | bounds of the crawl; reports are true and vectors belong to their texts; a large enough overlap loses nothing |
| `ingestion_gap` (violation) | the default ratio of overlap and size | | text is lost between two chunks |
| `user_surface` | 2 tenants with one session id, 4 questions, 2 batches, 4 requests, 3 clicks, 2 ticks | 529 144 | remembered languages are those of answers of that session; the crowd is one; one batch per answer; the last word counts |
| `answering` | messages of 2 symbols (5 kinds) and of 3 (quote, backslash, unicode) in three frames, 1 dropped event; every way the calls of a search answer or fail; rankings of up to 3 chunks; 3 searches of 2 links | 856 474 | the cuts do not matter, streamed as plain; usage, ranking, sources, titles |

### Bounds, and why they are enough

* Two processes are enough for every pairwise overlap of refresh runs; three
  batch ids give a batch that is superseded, one that is served and one being
  built at the same time, with retention 1 at its boundary. `MaxDepth` 2 lets a
  session take the lock again after a failed unlock. When the ids are used up
  `start_batch` fails like any statement, so no run is stuck by the bound. `SampleCap` 1
  with corpora of one and two points has a corpus that fits in a sample and one that does not.
  In `refresh_faults` a count that is missed is 0, which makes a scheduled run build an unchanged
  corpus anew, as a forced one does in `refresh_lock`.
* A channel and a batch of two are full, half full and empty within four
  records, and the retried request lands in the same batch, in a later one, or
  behind a failed one.
* Two days with weeks of two days contain a change of the day inside a week; a
  lifetime of one day lets a daily key expire while the weekly one lives.
  `MaxScore` caps searches per window, with a threshold of two: below, at and
  above it. `MaxFaults` 1: each failure ends its search or its cycle, and that
  they are finitely many is what `DailyMirrored` needs (a worker that fails in every
  cycle writes nothing). Five searches of two queries
  that compete for one place let the one fall behind the other above the threshold, or tie with it.
* Three tools have every shape of graph that matters to a peeling algorithm:
  chains, forks, joins, self-dependencies, cycles of two and three.
* With a channel of one event every send may have to wait. Two open requests
  plus one that comes later give an overlap, an answer in between and a
  follow-up. `MaxTurns` 2 and `InjectTurns` 1 make both cut-offs happen.
  `MaxFaults` 1: each fault ends its request, so a second one meets the
  same steps again; an eviction is counted as one.
* A decision of the parser looks at two symbols at most, or at the parity of a
  run of backslashes: with the delimiter behind it a message of three symbols
  holds every pair of escapes followed by a quote or not.
* `Access`: a token that another replica minted under another plan stands for that
  replica, and for an earlier start of this one; two callers give each overlap of a login or
  an administrative request with a change. With tokens and requests of one second, three
  seconds reach beyond the last moment at which a disabled user may do anything.
* `Ingestion`: in the site, a page that is met first at the full depth is linked from a
  shallower one too; batches of two and chunks of three give a first batch stored and a
  last one that fails. The texts have sentence ends before and behind 85% of a chunk,
  multi-byte characters, white space, and a single short chunk. `MaxFrames` stands for
  the stack: a walk that is inside of that many folders overflows it.
* `user_surface`: three searches or requests reach `MinCount` 2 and one below;
  a lifetime of one tick lets a memory expire before the request; two batches
  give a swap between the two statements.
* `answering`: two events of a stream have a usage that is reported again. Two
  chunks of one page, hits of the same page and a link that leads to it give
  each way a source may be named twice. A lifetime of two ticks within two ticks has a hit at
  either end of it, three searches a hit, a miss and a fetch of one link beside each
  other. Behaviours with an edit and those with a Redis fault are apart.

`CHECK_DEADLOCK FALSE` is set where the program really stops or its bound ends
it: a stream or an answer that has ended, a log whose worker has ended, a
fan-out that is done or refused to start, searches that are over, a command
that ran, a clock at its bound. In `trending_flush` the bounds on days and
scores end the searches; the flush workers go on, as `FairSpec` demands.

## 4. Fairness

Fairness is only assumed for steps the runtime or a timer makes.

* Refresh: a run that has started goes on (every call has a timeout or returns
  an error); some replica's schedule fires when the lock is free (the cron loop of
  `run_scheduled` never ends); and strongly, the pool closes a connection past
  its maximal lifetime, at which it looks whenever one is returned. Neither
  ingests nor faults are required, and forced runs never. `CatchesUp` has its own
  antecedents instead of a bound on faults: the corpus stands still, and runs get
  through (skip, or swap and return Ok) again and again, whatever befalls the others. If
  runs that saw the true size do so, its fingerprint is served again and again; if in the end
  no run misses the size, for good.
* Access, ingestion, user surface, answering with parser and titles: nothing;
  their properties are invariants and action properties.
* Conversation log: the worker's task is polled. Nothing makes it be dropped.
* Trending: the ticker fires and the commands of a cycle return.
* Fan-out: timers fire. No tool ever has to return by itself.
* Search: the handler's own steps are polled and timers fire; a client that does
  not leave reads. Nothing makes the model answer, whose HTTP client has no
  timeout, and nothing makes Redis: its connection has no response timeout
  (`infra/redis/client.rs:27`), and the request timeout does not bound a stream. Hence
  `OnlyServicesHold` states that a handler waits for these two and nothing else (the
  client, the channel, the tools), and that the request timeout bounds plain searches.

## 5. What is proved

The proofs assume the named assumptions on the constants (`ConstantsAssumption`,
`FlushAssumption`, `TrendingAssumption`, `TunnelAssumption`, `SearchAssumption`,
`AccessAssumption` with `OpsAssumption`, `LocaleAssumption`, `SuggestionsAssumption`,
`AnswerAssumption`, `TitleAssumption`, `IngestionAssumption`) and nothing else, except where said. TLC
evaluates the assumptions for the instances. They say what kind of thing a constant
is, that timeouts, lifetimes and bounds are numbers, and in `AnswerAssumption` that the
common multiple `Unit` is one: it divides by every rank there is, so that the scores
of the model, which are integers, compare like those of the code.

All safety properties of the passing runs are theorems. Where a run interleaves
several components, or one part of a component at a time, the proof module names the
specification of the whole component (`FeedbackSpec`, `SuggestionsSpec`, `TitleSpec`,
`AnswerSpec`, and `Spec` of `StreamParser`); each behaviour of the run is one of
those, and they have more.

### RefreshBatchesProofs

`TypeOK` is inductive with `RunLocals` (the locals a later step relies on are
set): `TypeCorrect`. The safety of the table needs more than the properties say:

    SafetyInv == TypeInv /\ OwnBatch /\ FutureAbsent /\ BuildingRuns
                 /\ SwapRowsOld /\ ActivePoolComplete /\ AtMostOneActive

Two runs own different batches with ids below the sequence (`OwnBatch`), ids not
handed out have no row (`FutureAbsent`, hence an INSERT disturbs nobody), a batch
being built is running and filled once it is to be swapped (`BuildingRuns`), and
the rows a swap demotes are never another's batch (`SwapRowsOld`). None of it mentions
the lock, so `SingleActive`, `ServedPoolComplete` and `NoDisturbance` hold for
every set of faults, a lost lock and a missing count included: what carries them is the unique
index, the foreign key and the fact that a batch id is known to its run only.

`MutualExclusion` assumes that the pinned connection is not cut
(`"conn_loss" \notin Faults`) and uses `LockInv`: who is inside holds the lock on
its own pinned session, with no other run inside.

`AlwaysServed` and `ImplementsPublishedPool` assume `QuietAfterSwap` (neither a
cut connection, nor a lost reply to the COMMIT, nor a failing retention) and
`RetainN >= 1`. `NewestInv` says that a run that builds has the newest batch of all,
which with mutual exclusion makes every promotion a step forward and keeps the
served batch out of `Expired`. The assumption is not an accident of the proof:
without it the run `refresh_outage` is a counterexample.

### ConversationFlushProofs

    LogInv == TypeOK /\ BatchFresh /\ Layout /\ SettledRows /\ StampsGrow /\ FirstRows

`Layout` is the heart: the records that have had their transaction, the batch and
the channel are, in this order, exactly the accepted ones. Everything else is
said of the settled prefix: it is in the table or failed (`SettledRows`), its
stamps grow (`StampsGrow`), and of one request the row is the first that did not fail
(`FirstRows`). From it `LogTypeCorrect`, `NothingLost`, `CreatedInOrder` and
`FirstAnswerStays`, for every capacity, batch size and set of faults.

### TrendingFlushProofs

`BackedInv` (`RowsAreBacked`) adds to the property what a flush worker holds in its
hands: the scores it has read are above the threshold and at most the searches
recorded for the key (`ReadScores`). `recorded` only grows, so that they stay
backed however long the worker takes between its read and its statement.

`WindowInv` (`WindowsAreKeptWhole`) says of every day that may still count (it has not
passed, or a search of it is under way, `Counting`) that the key's score is
the number of its searches, and that a key lives longer than its window. `RecordQuery` reads
the day once, so a search that began before midnight goes on counting in the old window.
A lifetime is set when a key has none, on the first day of its window at the earliest, so
one as long as the window reaches its end: `TrendingAssumption` has the daily
lifetime no shorter than a day and the weekly one no shorter than a week.

### ToolTunnelProofs

    BuildInv == BuildType /\ Layered /\ Counted /\ Decided

`Layered` is the tiers: disjoint, what a tool waits for lies before its tier, and some of
it just before (no tool is later than it has to be). `Counted` is Kahn's algorithm: the degree
of a tool that has no tier is the number of its dependencies that have none. With it
an empty set of free tools while some are left means a cycle, which the proof
gets from the finiteness of the tools (`TiersSortTheTools`: a start is
refused exactly on a duplicated id or a cycle, and otherwise every tool has one tier).
`RunInv` adds the execution: what is at work is of one tier with all that is on in it, and what
is accumulated is of earlier tiers and has all that is on in those
(`ToolsWaitForDependencies`, `NumbersFollowTheTiers`).

### SearchSessionProofs

`SessionTypeCorrect`: channels, prompts and histories within their bounds.
`TenantsApart`: `SessionsApart` is inductive relative to the types, since
`Latest` only selects and `AppendTurn` writes under the key of the request.
`StreamIsWellFormed` (the event grammar) uses `FlowInv`, which counts the events
in terms of where the handler is: none before the first, one more than the
deltas during the stream, an end only when the handler has ended. Reading does
not change the concatenation of what was read and what is in the channel, and a
client that leaves cuts it to a prefix.

`KeptInv` ties what is stored to where the handler is: an answer is kept from the
moment `complete_stream` (or the end of `search`) records it, what is kept is the whole
answer, its turn is appended after that and says the same, an error event excludes both, and a
stream whose client left before it was opened has stored nothing
(`NothingIsStoredOfFailures`, `WhatIsReadIsStored`). A client that leaves later is another
matter: during the deltas nothing is stored either once a send has failed, while the
answer of one that leaves during the completion is stored, in the model as in the code.

`FollowInv` is about searches of one session that overlap. `seen` is what the
client had been told was done when it asked. No history has a turn behind one whose
client had seen it (`Ordered`), what was seen is over and kept (`SeenDone`), and a kept turn is
in the history unless the session was evicted since or is full of turns that came
later (`TurnKept`). Dropping the oldest turn of a full history keeps the last one because
every remaining turn was appended after it. The last part is what makes
`FollowUpsSeeAnswers` inductive: the property itself speaks only of the moment at which the prompt is made.

### AccessProofs

`TypesHold` for any number of replicas, tenants, users, callers and tokens.

    AccessIInv == TypeOK /\ OffTimes /\ TokensRunOut /\ \A c \in Callers : GoodRequest(c)

A chain of deadlines: a login that has read the row of an enabled user ends within
the request timeout (`Timely`, `BeforeOff`), hence no token of a disabled user expires later
than the timeout plus a lifetime after that moment (`TokensRunOut`), hence no request with
such a token begins later than the leeway beyond (`DisabledAccessEnds`). A request has
the tier of the snapshot of the replica it is at, and a snapshot does not change while
its process is up (`OfSnapshot`, `TierIsOfTheReplica`).
`LockedOutForGood` is an action property: a row is only written by a request whose
token names the row's tenant and which has passed `CheckAdmin` (`WritesOwn`), so in a tenant
without an enabled administrator, and without a request past the check, none appears.

### UserSurfaceProofs: suggestions and clicks

`ClicksInv /\ RowsInv` for `TheLastWordCounts`: a row shows a stored click of its own
key, and that click was not answered before any other stored click of the key
was made. `SuggestionsInv == MemoryInv /\ CrowdInv /\ RequestsInv` for the others: a key of the
memory has a language that a search of its own tenant and session was answered in (`MemoryIsOfTheSession`; English too, when the translation failed); neither a
score nor a row counts a question more often than it was asked (`CrowdInv`, hence
`CrowdIsAsked`); a request between its two statements carries rows that were
asked often enough, and the batch that is current is among those that were active
since it began (`OneBatchIsServed`). In `SuggestionsSpec` counting, flushing,
publishing and answering interleave freely, which the run does not afford.

### UserSurfaceProofs: answers and titles

`EveryCallIsAccounted`: `UsageInv` says that the accounts are balanced (`Balanced`) over the calls
that are settled at each stage (`Settled`): each that cost something has one entry,
with its cost, and the total is the sum. While a stream runs, what the
handler has accumulated is what the stream last reported, and it is charged once at the end. The
list has as many entries as there are such calls because the purposes of its entries
differ (`OneEntryEach`).

`AgreedChunksFirst`: the documents are what reranking may make of the two rankings
(`DocumentsInv`). A chunk with ranks no worse in both and better in one has a
greater sum of reciprocals (`Exact`, `Points`, `AgreedScore`: divisions by a rank are exact), every
order by score has it first, and a cut of a sequence keeps what stands before what it
keeps (`Cut`).

`SourcesAreListed`: `Distinct` lists each page once and all of them (`DistinctLists`). It is
recursive; that its recursion defines a function and what the function returns are
proved from the well-foundedness of `<` (`ReachesAll`: a set of lengths that contains 0
and goes on from each to the next contains all), without a theorem that takes an
operator. The rest is that documents and hits are chunks and the grounding consists of links.

`TitlesAreStillTrue`: every entry of the cache stood on its page, or follows from the link, at the
moment it was fetched, and lives one lifetime from then (`EntryOf`); `Hit` does not
renew it.

### UserSurfaceProofs: the streamed text

The run has texts of a few symbols; `CutsAreHarmless` and `StreamsLikePlain` are for any
texts, of any length, in any slices. `StreamInv`, which TLC checked on the texts of the run
first, says that between two events the parser is where a reader of the whole buffer would be
(`Follows`) and has nothing left to scan (`Waits`):

    Follows(b, m, a) ==
      Seeks:   nothing is written and nothing taken for the message yet, or
      Inside:  what is scanned behind the opening quote has no unescaped quote, and a
               is its decoding; a backslash is pending exactly if the next symbol is
               escaped (Whole), or the escape of a u was just passed on and the u
               comes next (Half), or
      After:   an unescaped quote closed the message, and a is its decoding

Nothing in it depends on how the buffer came in, which is what makes the cuts harmless; that
the parser waits is needed because `Half` looks one symbol ahead and `Seeks` must
see the quote once it is there. It rests on what the operators of the parser
compute: `StartIs` (the search through `ValueKeys` and `SkipSpace` finds the quote of `Opens` if
there is one, and nothing else: the space behind a key ends before the next key, `KeysApart`),
`OpensKept` (what comes later does not move it), `EscapedNext` (a symbol is escaped
exactly if the one before is a backslash that is not: the run of backslashes is unique,
`OneRun`, and its parity decides), and `DecodedMore` (decoding one symbol
more appends its piece: `FlattenSeq` is recursive, and `FlattenIs` says what it
returns, from `Recursion`). A turn of the loop keeps `Follows` and scans more or clears
what is pending (`TurnFollows`, `ConsumeFollows`, `Left`), so the turns `Scanned` counts are enough
(`ScannedFollows`), and the next slice leaves `Follows` true (`GrowFollows`). A reader has
the message of a well-formed text between the quotes of its frame (`FrameReceived`), hence the
second property. Assumed: texts are sequences of symbols, and the frames as
`FrameAssumption` says; TLC checks both on the texts of the run.

### IngestionProofs

Four invariants, each TLC-checked on the instance of the run before it was proved.
`IngestTypes` says what may be found and on the stack. Of the crawl,

    CrawlInv (while opts.command = "url") ==
      no page twice in found; found within visited; visited within the depth;
      a page on the stack is within as many links of the entry as its depth says;
      without a fault: the entry, and each page it links to once the entry was taken
      up, is found or on the stack at a depth that is not passed over

gives `CrawlStaysInBounds`. `Within` and `Only` are recursive functions. That a recursion over numbers
has a value (`Recursion`), and only one (`SameWay`), is proved once from `ReachesAll`, and what
`Within(entry, n + 1)` and `Only(s, S)` are follows from it.

`ReportInv` has the documents (`DocsTyped`), the store (`StorePoints`: every point is the
chunk of its document at its index, with that chunk's own vector, and all of a reported
document are there), the batch that is under way (`BatchInv`: chunks up to `at` are stored,
what is pending is the next batch) and the totals (`Totals`). `EmbeddedInOrder` is why the
order of the service's entries does not matter: indices that rise from place to
place and have no room to spare are the places themselves (`NoRoom`). From it `ReportIsTrue`.

`ChunksCoverText` rests on `ChunksCut` (a document has the chunks its text is cut into)
and on a lemma about the loop, without induction over the text: every position has
a multiple of the step at or before it (`Multiples`), from which a slice begins unless an
earlier one already reaches the end (`LoopReaches`). A slice without a cut reaches
the next beginning because a step is at most a slice; one with a cut does because
`Safe` bounds what a cut may take by the overlap (`TokensCover`). The proof found an error in
`Safe`, which had the overlap as it is given: with a size of one token and tokens of
seven bytes an overlap of five changes nothing, since the step is at least one, and a cut may
still take a byte. The overlap in effect is less than the size, and `Safe` says so now.

### Model-checked only

Liveness (`RunEnds`, `CatchesUp`, `RecordsEnd`, `DailyMirrored`, `ExecuteEnds`,
`OnlyServicesHold`): fairness and ENABLED are outside the prover. Every invariant
and every action property of a passing run is a theorem. A text whose
characters are wider than a byte, or whose tokens end inside a character, loses text by the
code's own doing (section 6) and is outside `Safe`, and so outside the theorem.

## 6. Disagreements with the documents

Two are runs that must end in a counterexample; the quotations are in
`PROJECT.json`.

1. `refresh_outage`: when `retain_last_n` fails after the swap has committed, the
   error path marks the batch that is now active as failed, and nothing is
   served until the next successful run.
2. `ingestion_gap`: with an overlap below 15% of the chunk size, the default
   included, a chunk that is cut at a sentence end loses text that the next one
   does not start early enough for.

The models show or contain the following as the code has it:

* A process killed in the middle of a refresh leaves its row `running` for ever
  (`service/foundation/worker/suggestion.rs:173`); the design document
  (`docs/default-suggestions-locale.md:588`) expects `failed`.
* When `collection_info` fails, the fingerprint gets the capped length of the sample
  (`worker/suggestion.rs:152-156`): an unchanged corpus beyond the cap is built anew, and once
  more when the size is back. `docs/default-suggestions-locale.md:262` has unchanged corpora
  skipped. `CatchesUp` is stated accordingly.
* A weekly trending key is not parsed (`worker/trending.rs:61-62`): its rows are filed under
  the day of the flush, one per day.
* A client that leaves before the stream is opened cancels nothing
  (`pipelines/single_pass.rs:688`); `docs/architecture/layered-refactor.md:32,48`
  says that a disconnect cancels all tool calls in flight.
* The administration routes are outside the rate limit (`api/router.rs:86-90`);
  `require_admin.rs:17-18` speaks of them as behind it.
* `title_resolver.rs:34-38` gives failed resolutions a short lifetime; the code
  stores slugs and hosts as fallback titles for the full 24 hours. A blank
  `og:title` ends the cascade.
* `ServerStart` passes the schedule without looking at it; `num_seconds`
  truncates, so that a refresh may start a second early and again at its time
  (`suggestion.rs:280`).
* Malformed JSON of a translation counts as detected English
  (`gemini.rs:934-939` calls it a fallback); a merged call whose HTTP request fails is an
  error although its doc says it falls back; a finishing event
  without content is dropped.
* `retriever.rs` ignores the `collection` it is given; a plain answer of the merged mode has no
  sources, a streamed one lists its chunks; the suggestions made of web hits
  carry the label of the vector store.
* The command ignores `--collection`; a batch size of zero panics and a link
  to a parent folder recurses until the stack is full; a token cut inside a multi-byte
  character drops its chunk; text indexes are created with the collection
  only.
* The quality filter looks at the raw question and not at the normalized one
  that is stored; `top_searches` and autocomplete do not filter rows by date, and the
  prefix is not escaped for ILIKE.

## 7. What is not modelled

* Text: prompts and the wording of questions, answers and pages. A text is the
  number of its deltas, a class or a choice, except in `StreamParser` and in the
  cuts of `Ingestion`.
* Numeric code: embeddings, k-means (its outcome is a choice), floating-point
  rounding of the fusion, the hash of a rollout (a choice of the gate).
* Libraries and services: the arithmetic of the rate limiter beyond its cells,
  JWT signatures, Argon2, Qdrant's search, except for the outcomes the code reacts to.
* Cron arithmetic: a refresh may start whenever the lock is free, which includes
  an early second firing.
* The web client (`src/geto-web/app.js`): the state of a page, over the event
  grammar that `SearchSession` establishes.
* A valid JSON object without a message counts as not well formed in `StreamParser`; a
  plain answer reads an empty message from it (the default of serde), as a streamed one does.
* In `TitleResolver` no time passes while a lookup is under way: an entry is stored at
  the moment its page was fetched, which the code does seconds later.
* `Access` gives a bucket a cell back each second (`per_second(n)` of the library is one cell in
  n seconds, so `n` is 1 there); no property depends on the rate.
* Sources that the model finds by itself (grounding links) are modelled because the code
  handles them; today no request asks for them (`infra/llm/gemini.rs:378`).
* Code that is built and not called: `AutocompleteService`, `get_top_searches` of the
  trending service, the Claude client in a search.
* Telemetry, scripts, lint rules, packaging: no behaviour of the system.

## 8. Plan

Order: what loses or corrupts data first (refresh, log, counters), then what a
user sees (fan-out, search), then who may do what and the rest of the surface;
all of these are in place, and every safety property the runs check is proved.

Open questions to model: failed batches count against retention and push
superseded ones out; a client-chosen request id is unique over all tenants; the
conversation log and the history may order overlapping searches of a session
differently.
