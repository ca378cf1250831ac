# RushDB: a verification project

RushDB is a NestJS service that stores JSON records in Neo4j, one graph per
project, next to a SQL database (SQLite or Postgres) with its own state:
workspaces, tokens, embedding policies, relationship patterns, connectors. This
directory holds TLA+ models of the parts of `platform/core` whose correctness
depends on the order of events, the TLC runs that check them, and TLAPS proofs
about them. Paths below are relative to `platform/core/src` unless they start
with `packages/` or `platform/`.

## 1. Inventory

The program is one Node.js process per instance (several instances may run side
by side): handlers interleave at every `await`, background work runs from
NestJS schedulers, and three kinds of state outlive a step: the graph (Neo4j
transactions), SQL rows (autocommitted statement by statement), and in-memory
maps of one process.

| Component | State it keeps | Operations | Hard behaviour |
|---|---|---|---|
| User-defined transactions, `core/transactions`, `common/global-exception.filter.ts`, `database/session-and-transaction-attach-middleware.service.ts` | map id -> {driver transaction, session, status, TTL timer} | create, attach, commit, rollback, expire, roll back on a failing request | concurrent finalizers; a TTL timer racing a commit; the database aborting behind the service's back; a client that disconnects; a restart |
| Request lifecycle and side effects, `database/interceptors`, `database/release-request-transaction.ts`, `common/interceptors/run-side-effect.interceptor.ts` | per request: internal and external transaction, `cleaned` flag, post-commit hooks | commit/rollback at the end, release early, drain hooks, recount, recompute, queue analysis | `close` event racing the handler; a commit that fails after the answer was computed |
| Schema cache, `core/ai/ai.service.ts` (getSchema) | cached schema on the project row, in-flight and queued promise per project | serve fresh, serve stale and refresh, force | single flight with one queued follow-up; read-your-writes for `force`; failures |
| Embedding backfill, `core/ai/embedding-backfill.scheduler.ts`, `embedding-index.repository.ts`, `embedding-model-migration.service.ts` | index rows (status, model), vectors on relations, failure counters | scheduled backfill, mark pending on write, migration to a new model, delete | a write that marks the index pending before its data is visible; status written from a stale count; several instances |
| Vector index DDL, `core/ai/embedding-index-ddl.service.ts` | ensured/online caches, in-flight DDL promises, the index of the graph | ensure, probe, drop | drop racing an ensure in flight; counting the policies left and dropping awaits later; caches of other processes |
| Relationship patterns, `core/relationship-patterns` | pattern rows, analysis queue row, running guards | analyse, approve, apply, ignore, delete, prune | approve while applying; enqueue while analysing; prune against approve; SQL marks before the graph commits |
| Connector leases, `dashboard/connector` | connector rows, lease rows, offsets, encrypted secrets | claim, heartbeat, commit offset, release, pause, delete | expiry and check-then-upsert between workers |
| Workspaces and members, `dashboard/workspace`, `dashboard/user`, `dashboard/project`, `dashboard/token` | member roles, invitations, projects, tokens | invite, accept, change role, leave, revoke, delete | check-then-act on the last owner |
| MCP OAuth, `dashboard/mcp-oauth` | authorization requests, codes, consents, access and refresh tokens | authorize, exchange, refresh, revoke, cleanup | single use of codes and refresh tokens under concurrency, revocation racing rotation |
| Per-project database connections, `database/neogma-dynamic` | connection cache with inactivity timers | get or create, expire | two creators; a timer closing another creator's entry |
| Records, import and export, `core/entity`, `core/relationships`, `core/property` | graph | Cypher statements in the request's transaction; the import, which walks a document and writes it in chunks | drafts merged into records or each other before they are linked; an import sent again |
| Search compiler, `core/search` | none | query object to Cypher text | pure string compilation |
| Billing and usage, `core/billing-*`, `core/ku-events`, `dashboard/billing` | counters, external billing service | limits, usage events | check-then-act on plan limits |
| Dashboard UI, SDK, MCP server, agent-memory contract, `platform/dashboard`, `packages/*` | browser or client state | HTTP clients and views | none of the server's state |

How they interact: a request enters through `database/` (session and
transaction attached, cleaned up when the answer is given or the client leaves),
runs its Cypher in `core/entity`, and leaves behind post-commit work: counts,
schema, patterns, analysis. The schema cache is refreshed by that work and by
readers; the analysis of patterns reads the schema. A write also marks embedding
indexes pending, which a scheduler works off. Everything behind the answer is
fire-and-forget: nobody waits for it, a rejection is logged, and what another
step then finds in a map, a SQL row or the graph is all that is left of it.

What makes each component correct:

- *User-defined transactions*: one finalizer at a time; an accepted rollback is
  final; a request that failed half way keeps the transaction from being
  committed; an answered transaction is gone from the map; the deferred side
  effects of a commit are run; every request ends.
- *Request lifecycle*: nothing is left open; only what succeeded is committed;
  hooks run once the commit has been tried; every request settles.
- *Schema cache*: a forced call reads every write committed before it; one run
  per process; nobody waits for a promise that never settles; the stored row
  does not fall back behind what a caller was given.
- *Embedding back-fill*: a vector embeds the value its record has and is of the
  model of its index; what exists is embedded in the end; ready means embedded.
- *Vector index DDL*: a name in the ensured cache exists; a dropped index can be
  created again; an index that another policy uses is not dropped; a CREATE that
  failed is tried again.
- *Relationship patterns*: one loop per project and process; only what a user
  approved reaches the graph; what is shown as applied is connected; what is
  approved is applied in the end; a join is suggested once and not after a
  decision about it; a write is followed by an analysis.
- *Connector leases*: no item is lost between two workers; a paused connector is
  left alone; a running one is worked on again and again, unless leases of other
  connectors keep the claim away from it.
- *Import*: every property ends up in the record of its object; the relationships
  are the nesting of the document; a repeated merge creates nothing.
- *Workspaces and members*: a workspace keeps an owner; an invitation is
  accepted once.
- *MCP OAuth*: a code and a refresh token are used once; nothing issued outlives
  the revocation of its consent.
- *Per-project connections*: one open driver per project; a timer closes its own.

## 2. Plan

In order of weight; the set of runs is small, so a module has one run unless its
questions need different instances, and a disagreement that a run has shown is
kept as text in section 7.

| # | Modules | Abstract specification | Theorems | State |
|---|---|---|---|---|
| 1 | UserTransactions | | type, exclusion, finality, freed entries, owed side effects, failure blocks commit | done |
| 2 | SchemaCache | SchemaReads: getSchema without cache, runs and queue | type, read your writes, single flight, refinement, the cached row with one process | done |
| 3 | EmbeddingBackfill | | type, vectors of current values, one model with one process | done; external indexes and inline vectors left |
| 4 | RelationshipPatterns | | type, exclusion of the loops, suggestions stay out | done for applying |
| 5 | RelationshipAnalysis | | type, no join twice, decisions kept (in RelationshipPatternsProofs) | done for joins |
| 6 | ConnectorLease | | type (with the connector of a worker past its claim), no item lost | done |
| 7 | RequestLifecycle | | type, nothing left open, failed requests write nothing, effects come after the commit was tried | done; the connection cache left |
| 8 | VectorIndexDdl | | type, the index of a sharing policy is kept | done |
| 9 | RecordImport | the nesting of the document (`Recorded`, `NestedIn`) | type, no value lost, links follow the nesting, a retry creates nothing | done |
| 10 | Workspaces, MCP OAuth, connection cache | | | not modelled, see section 8 |

## 3. Modules and how they correspond to the code

Conventions. A step is what the event loop runs between two awaits: the code
before an `await` is one action, its continuation another, and what resolves the
promise (the database, the provider, a timer) decides which. `PROJECT.json`
gives the lines of every definition. A few operators are near-copies of a
definition with one plausible mistake in it, marked `Mutant`; they are not part
of any specification. Data is reduced to what the properties tell apart: a
schema is the number of writes seen per label, a value is the name of its
writer, a vector is the value and the model it was made of, an edge is the pair
of a pattern and a write.

**UserTransactions** (`core/transactions`, the attaching middleware, the
exception filter, the clean-up and side-effect interceptors as far as they
touch a user's transaction). `transactions`, `status`, `timer` are the map of
`TransactionService`; `driver` is the state of the driver's transaction object
and `db` the fate in the database, which differ while a message is under way and
after an abort behind the service's back. `Arrive` is a request reaching its route;
`CommitTransaction` / `CommitReturns` / `Clean` / `CleanReturns` / `CleanThrows`
are the pieces of `commitTransaction` and `clean` between their awaits, likewise
for rollback. `ExceptionFilter` is the rollback of a failing write, `RunHooks`
the side effects that a commit owes, `RecountFails` the recount that rejects and
is only logged, `Disconnect` the `close` event, `Crash` a restart. The driver
object leaves its active state before the first await of commit and rollback;
nothing else excludes two finalizers.

**SchemaReads, SchemaCache** (`getSchema` in `core/ai/ai.service.ts`). `cache`
and `fresh` are the cached schema and its age on the project row, `inFlight`
and `queued` the two maps of each process. A run reads label after label
(`ReadLabel`), stores its result best effort (`Persist`) and removes its entry
when it settles (`Settle`); `FollowUp` is the continuation of the queued
promise, a step later. `Call` and `LookupFails` are the start of a call,
`ServeCached` and `Recalculate` the three ways on. SchemaReads states the promise
to a caller without any of that; `ImplementsReads` maps the program counter of a
call to idle, pending, answered or failed.

**EmbeddingBackfill** (`embedding-backfill.scheduler.ts`,
`embedding-model-migration.service.ts`, `embedding-index.repository.ts`, the
embedding part of `entity.service.ts` and `ai.service.ts`). One managed index.
`status` and `modelKey` are its row; `value`, `relation`, `vector` the graph; a
record that is edited gets a new VALUE relation, so a vector written to the old
one goes nowhere (`Still`). A writer executes its statement, marks the index
pending without waiting, and commits later (`Execute`, `MarkPending`, `Commit`);
imports mark nothing. A process runs `RunBackfill`, `BackfillIndex`,
`FetchBatch`, `WriteVectors`, `CheckRemaining`, `Finish`, with deadline, billing
pause and failures; `Restart` gives it a model and starts `MigrateStrip` and
`MigrateRekey`; `DeleteIndex` and `CleanUpDeletedIndex` are `deleteIndex`.

**RelationshipPatterns** (`relationship-patterns.service.ts`, applying). Rows
(`status`, `applied`, `failed`), the set `runningApply`, and the two loops: the
drain an approval starts, with a transaction per pattern (`Query`, `Statement`,
`Mark`, `Commit`, `Recompute`), and the side effects of a write, with one
transaction for all patterns (`Effects`, `Find`, `Statement`, `Mark`, `Commit`).
Both use the same actions with the actor as parameter. `Looping` is a loop from
its entry into `runningApply` to its exit; the `Commit` of a write comes after
that, as the side-effect runner commits what the loop has merged. `Approve`,
`Ignore`, `Delete`, `DeleteRelationships` are what users do meanwhile.

**RelationshipAnalysis** (`relationship-patterns.service.ts`, the analysis, with
its scheduler). `queue`, `due` and `cooling` are the queue row: its status, and
whether time has passed `notBefore` and the debounce. `rows` are pattern rows, by
join and direction, which users decide about at any moment (`Decide`). A write
enqueues when its side effects run (`WriteCommits`, `RequestStep`), a refresh
starts a run at once (`ForceAnalysis`), the sweep finds the row due (`Sweep`,
`StartDue`). The run goes through its awaits by `run`: schema, rows, signature,
prune, language model, store, finish or catch (`RunStep`); `seen` and `known` are
what it read at their time. `Restart` loses the run and leaves the row.

**ConnectorLease** (`dashboard/connector`). Rows of connectors, leases and
offsets; `live` says whether a lease's time is still to come. The handlers are
sequences of SQL statements, and each statement is a step: a claim deletes
expired leases one by one, reads the leases, reads a running connector, upserts
its lease and reads the offset (`Claim`, `HandlerStep`); a heartbeat reads the
status, then the lease, then renews; a commit checks the lease and then writes
the offset. Users pause in two statements (`PauseLease`, `PauseStatus`), resume
and delete, in any status the row is in; a worker may report any status
(`ReportStatus`). A worker copies items in order and may vanish at any time.
Connectors outside `Managed` are resumed and nothing else, and their source is
empty: they are there to hold the leases that a claim meets.

**VectorIndexDdl** (`embedding-index-ddl.service.ts`, with its callers in
`ai.service.ts` and the back-fill scheduler). One slot, shared by several
policies. `index` is the graph's index; `ensured`, `online`, `attempt` are the
caches and the in-flight CREATE of each process. `Ensure` is
`ensureVectorIndexExists` up to its await, `CreateRuns` / `CreateReturns` /
`CreateFails` the statement and its answer, `Populated` the graph filling the
index. `SearchStarts` to `VectorQuery` are a semantic search, `Tick`,
`BackfillEnsures`, `BackfillEnds` the scheduler, `DeletePolicy`,
`CountPolicies`, `Forget`, `DropRuns` the deletion. `Restart` empties a process.

**RequestLifecycle** (`database/interceptors`, `release-request-transaction.ts`,
the attaching middlewares, the exception filter). `tx` and `session` are the
request's transactions on the shared and on the project's own database as the
databases see them (`aborted` by a rollback, `refused` by a commit that failed),
`attached` whether the request still knows them. `Attach`,
`Refuse`, `Enter`, `Write`, `Release`, `Return`, `Throw`, `Catch` are the way of a
request through middleware, guard, interceptor and handler; `Close` is the
`close` event of its connection; `Finalize`, `CleanUpInternal`,
`CleanUpExternal`, `Cleaned` are `doCleanup`, entered once by whoever is first
(`by`); `Filter` is the exception filter; `Recount` the hook that
`run-side-effect.interceptor.ts` pushes. `TimeOut` is the time budget of a
transaction in the database.

**RecordImport** (`core/entity/import-export`, the upsert and link statements of
`entity-query.service.ts`). A document is a sequence of nodes with their parents,
so the walk is over data and not over text. `Start` is the controller's check and
`importRecords` up to the walk; `Visit` turns the next node of the queue into a
draft and a relation, and puts what it holds (`Held`) into the queue, as `parse`
does. `Send` takes the next chunk of the drafts (`Chunk`), or of an open chunk the
rows of one label, and the statement is written row by row by `Create` or `Merge`;
`idmap` is `draftToPersistedId`; `home` remembers to which records a draft was
written; `Link` then makes the remapped relations, a chunk at a time. An
import may fail at any statement, which rolls back, and the client may send the
request again (`Fail`, `SendAgain`). Which records a row of an UNWIND sees of those that
earlier rows of the same statement wrote is left to the planner: both are allowed.

Simplifications a reader should know:

- the reads for one label and the statements of one pattern are one step each;
- `elementId` of a relation is never reused;
- a provider that answers with nulls is a batch of which only part is written;
- the row update in the catch block of the back-fill is taken to succeed;
- a scheduler run works on the one index; records are not deleted;
- restarts are not steps of SchemaCache (its maps vanish with their callers) and
  of RelationshipPatterns (rows stay as they are until the next approval);
- the language model and the probes of a run of the analysis are one step, which
  returns any set of candidates the schema admits;
- a vector query, a back-fill's embedding and a worker's copying of one item are
  one step each; leases of deleted connectors go with them;
- every status of a connector in which it neither runs nor is paused is "error";
- a request has one kind of write and one hook, the recount;
- of a document's values only their identity counts: type suggestion, conversion
  and upper-casing of labels are left out, scalars in a mixed list count as empty
  records, a list holds no list, and one import runs at a time;
- a pattern has at most one approval on its way to the drain, and a deleted
  pattern never comes back: one suggested again has a new id.

## 4. Runs

| Run | Instance | What it shows |
|---|---|---|
| ut_requests | 1 transaction, 3 requests of any kind, 1 disconnect, 1 failing close or recount, 1 restart, aborts and the timer unbounded | SingleFinalizer, RollbackHonoured, AnsweredMeansFreed, CommittedEffectsOwed, FailureBlocksCommit, EveryRequestEnds, EffectsRun |
| sc_safety | 1 process, 3 calls, 2 labels, 1 write each, 1 failure | ForceReadsOwnWrites, OneRunAtATime, CacheCoversForce, CacheNeverRegresses |
| sc_contract | 2 processes, 2 calls, 1 label, 1 failure, 1 failing row update | ImplementsReads, EveryCallEnds |
| eb_safety | 1 process, 2 models, 2 records, 2 writers (create, edit, import), 3 faults, 2 restarts, deletion | VectorsMatchValues, VectorsMatchModel, TypeOK |
| eb_liveness | 2 processes, 2 existing records, batches of 1, 1 edit, 1 fault, 1 restart, deletion | ExistingValuesEmbedded, PendingIsWorkedOff |
| rp_applying | 2 patterns, 1 write, 1 fault | OneLoop, OnlyApprovedReachTheGraph, AppliedMeansConnected, DrainPicksUp |
| ra_runs | 1 join in 2 directions, 1 write, 1 refresh, 1 rejection, 1 restart | NoDuplicateJoin, DecisionsKept, AnalysisFollows |
| cl_leases | 2 connectors (one of them only resumed, with an empty source), 2 workers, 1 item, 1 pause at a time, 1 worker that vanishes | NoGap, PauseStops, Served |
| vi_slots | 2 processes (one searches, one schedules), 2 policies of a slot, 1 fault or restart | SharedIndexKept, CachesAreTrue, CreationRetried |
| rl_requests | 2 requests, with or without a database of the project's own, 1 fault | NothingLeftOpen, FailedWritesNothing, EffectsFollowCommit, RecountsSeeAll, EveryRequestSettles |
| rl_budget | 1 request, no fault but the time budget, violation | AnsweredMeansCommitted fails: a failing commit is answered as success |
| ri_imports | all documents of up to 3 nodes and 6 larger ones, 2 keys, 2 values, chunks of 2, 2 requests of any merge option, 3 imports | NoValueLost, LinksFollowNesting, RetryCreatesNothing, TypeOK |

Why these bounds. Three requests on one transaction are a write that fails and
two finalizers, or a write between them: transactions share nothing but the map,
so a second one adds no behaviour. Three calls are one that runs, one that
queues and one that joins or queues behind; two labels are the least that make a
run read at two moments; a second write of a label is the first one again, seen
or not. Two records with batches of one make the offset of the back-fill pass
over a relation; three faults reach the limit at which an index is parked; two
restarts go to another model and back. Two patterns give a round a next element
and a set to approve at once. A join in two directions is two candidates for one
row; a write and a refresh are a run and what is enqueued behind it. Two workers
are a holder and its successor, of which one has copied the item and the other
starts over; the second connector is a lease that a claim for the first one
meets, without items or users of its own. Two
policies are one that goes and one that shares its slot. Two requests overlap
their recounts. Three nodes are a root, a child and a sibling or grandchild; the
larger documents have more drafts than a chunk, several records in a list, and
two that merge into one; the third import is the second one sent again. Symmetry
is used in safety runs only, for sets whose members start out alike.

Type invariants and the facts of SchemaCache about who waits for whom
(NoLostCaller) are proved for all constants (section 6). TLC agreed with them
when they were stated; the runs keep TypeOK where it says more than types
(EmbeddingBackfill: a failure counter below its limit; RecordImport: no two
records share an id, no statement outgrows its chunk).

`CHECK_DEADLOCK FALSE` wherever requests, calls, writes, runs and imports are
finite in number: once they are over the program rests. The connectors' run has
no end and checks it.

## 5. Fairness

Weak fairness of what the runtime does by itself: continuations run, the
databases and the provider answer or reject, timers fire, the scheduler's cron
job ticks, an open request is committed or aborted. Nothing is assumed of users:
no request, call, approval, pause or deletion has to happen, and no fault has to. A
fault does not need fairness either; it is an alternative to the step that is
fair. Weak fairness is enough because a step that is due stays due until it or
its failure happens. The one strong fairness is that of a worker's heartbeat in
ConnectorLease: it has a clock of its own, while in the model a worker makes one
request at a time, so the heartbeat is disabled again and again by commits that
would not stop the clock. A worker that has vanished comes back, as a daemon does,
and polls again. In RequestLifecycle and VectorIndexDdl fairness is in FairSpec,
and the theorems are about Spec.

## 6. Proofs

All for arbitrary constants under the assumptions of the modules (the stand-in
values differ from real ones, bounds are naturals). No theorem uses fairness.

- **UserTransactionsProofs.** Inductive invariant `IndInv`: type, `EntryInv`
  (which status, driver state and fate go together), `RequestInv` (what a
  request at a given place knows of its transaction), `FailureInv` (a request
  that failed leaves its transaction out of the map or its driver object closed,
  unless its timer fired) and the
  properties themselves. The heart is that whoever sends a finalizing message
  has just taken the driver object out of its active state, so a second one
  finds it closed. From it: TypeCorrect, OneFinalizer, RollbackIsFinal,
  AnsweredEntriesAreFreed, EffectsStayOwed, FailedIsNotCommitted.
- **SchemaCacheProofs.** `RunInv` (the entry in flight is the run under way),
  `QueueInv` (who waits in the queue is behind a run, or its follow-up is due),
  `GraphInv` (nothing read, stored or returned is ahead of the graph),
  `ForceInv` (a run a forced caller waits for has read no label before the
  call's writes were in it). From it: TypeCorrect,
  ForcedCallsReadTheirWrites, SingleFlightHolds, NobodyIsLeftBehind and
  Refinement (every step is one of SchemaReads or leaves graph and calls alone),
  for any number of processes. With one process, `CacheInv` and `StoredInv`
  add that runs do not overlap, so each reads at least what the cached row
  holds: OneProcessNeverRegresses and, with working SQL writes,
  OneProcessCacheIsFresh.
- **EmbeddingBackfillProofs.** `RelationInv` (without append upserts a relation
  is named after the value it carries, in the graph and in every batch read)
  gives VectorsAreCurrent. `ModelInv` (with one process: a run under way has the
  model of the row, and between strip and re-key there are no vectors) gives
  OneProcessOneModel. TypeCorrect has the failure counter below its limit.
- **RelationshipPatternsProofs.** `Alone` splits OneLoop, which is about the
  loops and not about the transaction of a write that outlives its loop, into
  facts about one actor at a time; `HeldInv` says that what a loop holds or has
  staged was approved at some time. `Reached` says, while nothing is rejected, where the edge
  between an applied pattern and a write is, or which loop is still to make it; a
  write that comes in the middle of an application finds runningApply set
  (`Missed`). TypeCorrect, LoopsExclude, SuggestionsStayOut, AppliedConnects.
  The module extends RelationshipAnalysis as well, the other half of the same
  service, whose variables are its own: its specification is `AnalysisSpec`. The
  invariant relates what the run read to what is there now: a row it knows as
  decided is still as it was, a row that appeared since came from the run itself,
  and what it has still to store has no row of its join. AnalysisTypeCorrect,
  NoJoinTwice, DecisionsStay.
- **ConnectorLeaseProofs.** A worker's position is never ahead of what has been
  copied, wherever it started, so no offset it stores is. TypeCorrect, which
  includes that a worker past its claim has a connector, and NoItemLost.
- **RequestLifecycleProofs.** The invariant says, for each place of a request and
  each place of its clean-up, which transactions may be open and who is
  responsible for closing them; commits happen only where the handler has
  returned. `CountInv` adds that a committed write which no recount has seen yet
  has a hook that is still to run, while no fault has happened. TypeCorrect,
  AllIsClosed, OnlySuccessCommits, EffectsComeLast, NoWriteUncounted.
- **VectorIndexDdlProofs.** A policy that shared a slot has been created
  (`SharersWereLive`), so where the count finds none alive it is deleted, and
  stays so (`CountedMeansDeleted`). The clean-up of a deleted policy never starts
  again, and until its DROP the index of an executed CREATE exists and what a probe
  saw ONLINE is (`CacheInv`). TypeCorrect, IndexOfSharersKept, CachesStayTrue.
- **RecordImportProofs.** For every set of documents, chunk size and number of
  imports. What a walk computes would be an induction over the document; it is an
  invariant of the walk here, and where the end of the walk is used
  (`WalkEnds`), the argument takes the least node that was not visited: what is
  around it comes before it, so was visited, so put it into the queue. Ranks in
  place of recursion (`OrderEnumerates`) show that `InOrder` lists a set, each
  member once. The inductive invariant `IInv` has these parts, each with the lemma
  that a step keeps it:
  - `SequencesInv`, `WalkInv`: every entry and draft is the one the document
    determines for its node; queue and visited nodes are closed under what a visit
    adds; no node is in both.
  - `DraftsInv`: once the walk is over, each recorded node is in exactly one place,
    in a chunk to come, the open chunk, the statement under way or `home`.
    Without it a second row of the same node could move a home that links rely on.
  - `RecordsInv`, `HomeInv`: ids are unique, and a record with an id of this import
    is where its draft was written; a home is a set of records that exist, and the
    id map points into it, or is silent only for a draft that was created or has no
    property to answer with. That makes `Persisted` the right record
    (`PersistedIsHome`).
  - `LinksInv`: every nested pair is linked or still to be linked, and each link of
    the import is of a nested pair.
  - `ValuesInv`, `MatchableInv`: what was written to a record stays, and a
    record of the snapshot a statement began with is still there, with its label and
    the properties that rows are matched by: what a row matches there it matches
    now, whichever of the two the planner looks at.
  - `StoredInv`, `RetryInv`: after a merge that is done, and all through the
    walk of its repetition, each draft with its keys has a record that matches it; so
    the repetition creates none that has them.

  From it: Inductive, TypeCorrect, ValuesStay, LinksFollow, RetryCreates.

Model-checked only: everything temporal under fairness (EveryRequestEnds,
EffectsRun, EveryCallEnds, ExistingValuesEmbedded, PendingIsWorkedOff,
DrainPicksUp, AnalysisFollows, PauseStops, Served, CreationRetried,
EveryRequestSettles), which the prover does not reach. Every other property of a
passing run is stated by a theorem. CacheNeverRegresses, CacheCoversForce and
VectorsMatchModel are not true of several processes (section 7), and their
theorems assume one.

## 7. Known disagreements

Shown by a run: rl_budget, with the quoted lines in `PROJECT.json`. A commit of
the request's own transaction that fails is logged and the handler's value
answered (`database/interceptors/request-cleanup.interceptor.ts:81` for the
project's own database, which the run's trace uses, and line 51, its twin, for the
shared one), although `release-request-transaction.ts:14` says that the request
then ends with 408. The hooks of such a request are drained as well (line 114),
although the comments at lines 21-22 and 111-112 speak of committed writes:
EffectsFollowCommit says that the commits have been tried, and names the refused.

Found by TLC on a variant of a run, or met while modelling, and kept as text:

- A commit of a user's transaction that the database refuses is logged and
  answered as committed (`core/transactions/transaction.service.ts:75`), and an
  expired transaction is neither rolled back nor removed from the map (113).
- After the TTL has set `expired`, the rollback of a failing request is skipped
  (`core/transactions/transaction.service.ts:84`) and a commit still publishes
  the rest, against "all operations are executed atomically"
  (`packages/javascript-sdk/src/sdk/transaction.ts:6`). FailureBlocksCommit
  names the case.
- A client that disconnects during its commit drops the side effects of the
  committed writes (`database/interceptors/request-cleanup.interceptor.ts:128`),
  and a recount that rejects is logged and not repeated
  (`common/interceptors/run-side-effect.interceptor.ts:135`, 164), although the
  comment at line 95 says that deferred side effects run on the commit.
  CommittedEffectsOwed and EffectsRun name both.
- Two processes overwrite each other's schema on the shared row, possibly with
  the older one (`core/ai/ai.service.ts:286`). The comment at line 194 says
  that a forced call joins a run in flight; lines 268-275 and the code say and do
  the contrary.
- Imports never mark an index pending
  (`core/entity/import-export/import.service.ts:510`), and an append upsert keeps
  the relation with its old vector (`core/entity/entity-query.service.ts:921`);
  the theorem about current vectors excludes append.
- A back-fill run under way writes vectors after the clean-up of a deleted
  index (`core/ai/ai.service.ts:956`), and a clean-up lost in a restart is not
  resumed.
- `embedding-index.repository.ts:110` describes a conditional update where the
  statement is unconditional.
- Two applies may work on the graph of a project at a time, although the comment at
  `relationship-patterns.service.ts:198` says that only one does, to avoid
  concurrent MERGEs: the loop of a write leaves `runningApply` (305) before the
  interceptor commits what it has merged
  (`common/interceptors/run-side-effect.interceptor.ts:155`), and the drain or
  the loop of another write may begin in between. What is exclusive are the loops,
  and OneLoop says no more; its first part fails if `Looping` counts a write at
  `commit`.
- `lastAppliedAt` is written before the graph commits
  (`relationship-patterns.service.ts:1252`); after a refused commit the pattern
  is shown as applied, not retried, and without the error that the comment at
  line 224 speaks of. AppliedMeansConnected excludes faults for that reason.
- A write whose side effects find a loop under way applies nothing (line 293);
  a pattern ignored after a loop read it is still applied (297); deleting a
  pattern with its relationships races an application of it (278); approved and
  unapplied patterns are not resumed after a restart (214). An approval that
  arrives after the drain's last look is not applied by it (205), although the
  comment at line 200 says that the loop picks it up.
- The analysis deletes a suggestion that was approved after it read the rows
  (459), although the comment at line 438 says approved rows are kept. A write
  enqueued during a run sets the row to pending and the end of the run sets it to
  idle (415): the write waits for the next one, against line 135. A row left
  running by a restart, or a rejected update at line 332, ends the analyses of
  the project; AnalysisFollows names both.
- A managed embedding index turns ready before the write that marked it pending
  is visible (`core/entity/entity.service.ts:79`), and the value stays without
  vector; `packages/mcp-server/tools.ts:1278` says that RushDB keeps new values
  embedded on write. During a rolling deploy a run of one process
  writes vectors of its model into an index another process has re-keyed
  (`core/ai/embedding-backfill.scheduler.ts:70`,
  `embedding-model-migration.service.ts:27`); VectorsMatchModel fails with two
  processes.
- The answer of a CREATE adds the name to the cache of ensured indexes after a DROP
  has cleared it (`core/ai/embedding-index-ddl.service.ts:67`), and the caches of
  other processes are never cleared: the back-fill, which lines 24-25 call the
  durable retry, then creates nothing. CachesAreTrue ends with the first DROP. A
  policy created between the count and the DROP loses its index
  (`core/ai/ai.service.ts:1001`).
- The claim of a connector reads one running connector and then drops it if it is
  leased (`dashboard/connector/model/connector.repository.ts:150`): with two
  connectors the second may never be served, although `README.md:317` of the
  repository says workers poll for runnable connectors. Served names the case, and
  fails in cl_leases without its exemption. The status report of a worker undoes a
  pause that came after it was read (`dashboard/connector/connector.service.ts:270`).
- An import that merges by all properties drops the relationships of a record
  without properties and updates every record of its label; with `rewrite` it
  removes the values of all of them (`core/entity/entity-query.service.ts:234`,
  253, 885), against "Nested objects and arrays of objects become linked records"
  (`README.md:116`). A label "false" passes the controller and counts as none in
  the walk (`core/entity/import-export/import.service.ts:204`), so the root's own
  properties are lost. A repeated import creates its relationships again
  (`entity-query.service.ts:447`).

## 8. Not modelled

- Of modelled components: creating an embedding index twice, external indexes and
  inline vectors (EmbeddingBackfill); creating or editing a pattern by hand
  (RelationshipPatterns); shape patterns, the prompt and the reading of the
  model's answer (RelationshipAnalysis); secrets, events and validation of
  connectors, such as the lost update of two who store secrets
  (`connector.service.ts:343`); inline vectors and concurrent imports
  (RecordImport), two of which create a record they both merge twice, as no
  constraint backs OPTIONAL MATCH and CREATE (`entity-query.service.ts:239`), and
  keys of a document that name an id (`import.service.ts:94`).
- Workspaces and members, MCP OAuth, and the cache of per-project connections:
  checks followed by single autocommitted statements, or a map with timers. What
  they promise does not hold of concurrent requests, and a model would restate
  these races and little that holds beside them:
  - the owners of a workspace are counted before a role is changed, so two owners
    who demote each other leave none (`dashboard/workspace/workspace.service.ts:224`,
    against line 220), and leaving does not count at all (432);
  - accepting an invitation overwrites the role a member was given since
    (`dashboard/user/user.service.ts:151`), a login through SSO the one set between
    its two statements (`workspace.service.ts:242`, against
    `dashboard/auth/providers/sso/sso.service.ts:526`);
  - revoking the last membership of a user deletes the user and every workspace the
    user owns, statement by statement (`workspace.service.ts:419`);
  - a refresh token is deleted before its successor is stored
    (`dashboard/mcp-oauth/mcp-oauth.service.ts:404`), and clients without consent by
    a list read before (`model/oauth.repository.ts:227`);
  - two requests may each make a connection for a project, one of which nobody
    closes, and the timer closes a driver that is in use
    (`database/neogma-dynamic/neogma-dynamic.service.ts:42`, 50).
- The search compiler is a pure translation into Cypher text; records,
  relationships and properties outside of imports are single statements, ordered
  by the database; billing is an external service.
- The clients: dashboard, SDKs, MCP server, command line and deployment files.
  They make up most of the repository's lines and keep none of the server's state.

## 9. Running

`tlc -workers 2 -config SchemaCache_safety.cfg MCSchemaCache.tla` and likewise
for every run in `PROJECT.json` (each ends within three minutes);
`tlapm SchemaCacheProofs.tla` and likewise for the other proof modules
(RecordImportProofs takes a few minutes).
