# Kybershield in TLA+

Specifications, model-checking runs and machine-checked proofs of Kybershield: an
ingestion service (TypeScript), an analyser (Python) and an insights service
(Python) that share nothing but one PostgreSQL database.

    agents -> POST /v1/events[/batch] -> ingestion -> events, agents
                                                        |  NOTIFY events_ingested
                       poller, API, CLI -> analyser <---+
                                             |
                                             +-> alerts, analysis_cursor
    dashboards <- GET /v1/alerts, /v1/agents/... <- insights <-+

Paths below are relative to the repository. `PROJECT.json` lists the components, the
runs, the mutants, the lines each definition models, the hazards and the theorems.

## Inventory

| component | state it keeps | operations | what is hard | what makes it correct |
|---|---|---|---|---|
| Schema (`db/migrations`) | `agents`, `events` (`ingest_seq` BIGSERIAL, `event_id` primary key), `alerts` (unique `event_id, rule`), `analysis_cursor` | inserts with ON CONFLICT, row and key locks, the notify trigger | numbers are drawn at the insert and visible at the commit; gaps | idempotency, one row per key |
| Ingestion storage (`eventRepository.ts`, `pool.ts`) | the pool; one transaction per request | `insertIfAbsent`, `insertBatchIfAbsent`, `withTransaction` | concurrent retries, crossed locks, a failure at each statement, a lost COMMIT reply, the death of the process with transactions open | created once, acknowledged means stored, agent timestamps never rewind |
| Ingestion routes (`routes/events.ts`, `app.ts`) | none | the two POST routes, error mapping | batches that mix valid, repeated and unusable entries | the answer tells what happened to each entry |
| API keys (`env.ts`, `apiKeyStore.ts`, `plugins/auth.ts`, `pycommon/auth.py`) | the configured keys, constant | parse the keys, read the bearer token, resolve it | reused secrets, padded headers, the order of the refusals | every stored event names the client that sent it |
| Envelope schema (`schemas/event.ts`) | the payload schemas, constant | `parseEnvelope` | texts the schemas let through and Postgres does not take; a type that names an inherited property | an entry is accepted, rejected by itself, or fails the request |
| Ingestion server (`server.ts`, `app.ts`), configuration, docs | whether it is closing, or its pool ending | start, shut down on a signal, die and be restarted | a shutdown while requests are under way | only a failure drops an accepted request |
| Analyser engine (`engine.py`, `repository.py`) | the cursor, in the database | `run_once`, `run_until_caught_up`, `backfill` | several passes at once, a stale cursor, failures between statements, OFFSET paging | no event is skipped, no alert is lost or counted twice |
| Poller and listener (`poller.py`, `notifications.py`) | `PollerState`, an asyncio event, a LISTEN session, a worker thread | `start`, `_loop`, `_wait_for_work`, `_run`, `stop` | lost wake-ups, a half-open connection, failing passes, shutdown during a pass, transactions that dead processes leave behind | every event is examined, `stop()` returns |
| Analyser API and CLI (`api.py`, `cli.py`) | the lifespan: pool, listener, poller | open and close them in order; start a pass, a drain or a backfill beside the poller | they are the second runner, with a batch size and a build of their own | those of the engine; no loop without its pool, no `poller_running` without a loop |
| Rules (`rules/`) | none | pure predicates on an event | text compared piece by piece: suffixes, case | an allowlist entry covers a host and its subdomains, nothing else |
| Insights (`repository.py`, `windows.py`, `api.py`, `app.py`) | none | the alerts feed, the timeline, the summary | statements on different snapshots, paging while rows arrive, sliding windows, failed requests sent again | a walk skips nothing, totals cover their pages |
| pycommon | the pool | `connection`, `transaction`, severities, errors | - | transaction boundaries |

Interaction is by shared tables only. Ingestion writes `events` and `agents` and raises a
notification at its commit; the analyser reads `events` behind a cursor and writes
`alerts`; insights reads everything. So the modules compose along the tables: `Feed` is
the `events` table as ingestion changes it and the analyser sees it, and it is both what
`Analysis` is built on and what `Ingestion` is shown to implement. `AlertLog` is what `Analysis` in turn is
shown to implement for whoever reads its tables: alerts are only added, only of committed
events, and never without the rest of their report. `Insights` takes from it that rows are only added and that an alert
has its event; its alerts of one transaction may appear one by one, which is weaker.

## Modules

| module | models | lines up with |
|---|---|---|
| `Feed` | the `events` table as the analyser sees it: agent row locks, sequence values drawn, skipped, committed, lost | `001_init.sql`, the statements of `eventRepository.ts` |
| `ApiKeys` | keys and bearer tokens of the three services | `env.ts`, `apiKeyStore.ts`, `pycommon/auth.py` |
| `Envelope` | what `parseEnvelope` makes of one entry, and what Postgres makes of it afterwards | `schemas/event.ts` |
| `Ingestion` (extends `ApiKeys`, `Envelope`) | both POST routes, statement by statement; crash, shutdown, restart | `routes/events.ts`, `eventRepository.ts`, `pool.ts`, `app.ts`, `server.ts`, `plugins/auth.ts` |
| `EventLog` | abstract specification: an idempotent log | the contract in `ports.ts` and `routes/events.ts` |
| `IngestionRefinement` | the refinement mappings Ingestion -> EventLog and Ingestion -> Feed | - |
| `Analysis` (extends `Feed`) | the engine, run by any number of runners | `engine.py`, `repository.py` of the analyser |
| `AlertLog` | abstract specification: a log to which whole reports are added, with the cursor | the contract `AnalysisRepository` of `repository.py`, `001_init.sql` |
| `Detection` | the default rules and the lists they are configured with | `rules/`, `config.py` |
| `Poller` | the analyser process: lifespan, loop, worker thread, listener, `stop()`, crash and restart | `poller.py`, `notifications.py`, `api.py` |
| `Insights` (extends `ApiKeys`) | the three queries, paging and time ranges | `repository.py`, `windows.py`, `models.py`, `api.py` of insights |
| `MCIngestion`, `MCAnalysis`, `MCInsights` | instances for TLC | - |
| `DetectedAnalysis` (extends `Analysis`, `Detection`) | the analyser whose `Finds` is what `Detection` reports of its events, and what must then be stored | `engine.py` with `default_rules()` |
| `MCDetection` | `DetectedAnalysis` on four events | - |
| `OrderLemmas` | least and greatest numbers; rows in an order, cut into pages by LIMIT and OFFSET; sums over finite sets | - |
| `AnalysisProofs`, `BackfillProofs`, `DetectionProofs` | theorems about the analyser and its rules | - |
| `IngestionProofs`, `IngestionRefinementProofs` | theorems about ingestion | - |
| `PollerProofs`, `InsightsProofs` | theorems about the analyser process and the queries | - |

**Ingestion.** One action per statement and, because Postgres executes the rows of a
multi-row statement in order and each may wait for a lock, one per row: `Receive` is the
handler up to the repository call, `Connect` takes a client of the pool, `UpsertAgent`
one row of the agent upsert (after `collapseAgents`), `DrawSeq` and `InsertEvent` one row
of the event insert, `Commit` the COMMIT and the reply. `touched`, `rows` and `drawn` are
what the open transaction has written; being uncommitted, it locks what it names. `Abort` is
any statement failing, `ConnectFails` a pool that gives no client, `DeadlockVictim` the
database ending one transaction of a wait cycle, `CommitReplyLost` a COMMIT executed but
not heard of. `Refusal` is what answers
before any of that, in the order of the code: an oversized or garbled body, one of another media type
or empty (which the error handler does not know and answers 500), no known key, an
unusable envelope, an entry that makes `parseEnvelope` throw. Every event carries the client its
key names, and `EventLog` says which that must be. A single event is a batch of one with another
reply.

The end of the process is one operator, `ProcessEnds`, whether it dies (`Crash`) or exits (`Exit`): what was
queued or in a transaction is `orphaned` until Postgres finds out (`OrphanEnds`), a COMMIT that was under way
may still take effect, and the clients are `Disconnected`. What keeps an exit from doing that to anyone is the
order of `shutdown()`: `Shutdown` is the signal, after which new requests are answered 503; `AppClosed`
is `await app.close()`, which returns when the server is `Drained`; then `pool.end()` hands out no
client, waits for those in use, and `Exit` follows. `OnlyFailuresDrop` is about that order: without
the `await` (`DrainedUnawaited`) a request waiting for a client of the pool is dropped. A
request whose client has given up counts as under way here; `app.close()` need not wait for its
handler, and nobody would hear the answer.

**Envelope.** An entry is a record; a field left out is missing from it, and a value is the class
the schemas tell apart. `ParseEnvelope` is `ok`, `rejected` or `throws` (a type such as
`constructor`, which the lookup of the payload schema finds on the prototype). `Storable` says
whether Postgres takes the texts: a U+0000 passes zod and fails the statement
(`StatementRefused`). It looks at the type, the tags and the payload; the ids of the models hold none.

**Analysis.** `pc[p]` is the next statement of runner p: `GetCursor` and `FetchBatch` are
reads of their own, `InsertAlert` inserts one draft (waiting while another transaction
holds the same unique key), `UpsertCursor` takes the row lock of the cursor, `CommitBatch` and
`CommitPage` end the transactions of `process_batch_atomically` and
`insert_alerts_ignore_dupes`. A poller asks for one pass at a time, the API and the
CLI for one or for a drain of `MaxBatches` (`PassesAsked`), with the batch size `Limit[p]` of
their own. What the rules report is the constant `Finds`; `Raises[p]` are the rules that raise in
the build runner p runs, which `_analyse_batch` catches and which then yield no draft (`Drafts`).
That function is pure and part of `FetchBatch`. `Fail` is a failing statement or a crash of the
process at any point. A backfill owes what the rules of its own build find (`audited`).
`overtaken`, `reported`, `owed` and `audited` are history variables that no action reads.

**Detection.** Text is a sequence of fragments, cut wherever a rule may look; a host, an
allowlist entry, a path and a command are such sequences. Each rule is a predicate on an
event, `Detects` the set of rules that report it. The lists of the environment are split at
commas and stripped of blanks (`SplitCsv`). `Analysis` knows only the function `Finds`,
so its theorems hold whatever the rules; `DetectedAnalysis` puts the two together, and
`MCDetection` gives it events and lists. That the lists come out as their author meant is assumed
nowhere: `SettingsAreRead` states it for the lists of the instance and TLC evaluates it.

**Poller.** An action is what a coroutine does between two awaits; the thread, the
database and the LISTEN session move at any time in between. `life` is the progress of the
lifespan: `Start` (pool open, poller and listener started), then after `Stop` the loop, the listener
and the pool go in this order and `Exit` joins the thread of an abandoned pass. `Crash` ends the
process anywhere, `Restart` begins the next one with nothing but the database. A transaction of a
dead process may still commit (`left`, `LeftBehind`) and move the cursor back, so `examined`, the
furthest the cursor has been, is kept beside it. Here events commit in the order of their
numbers, so the tables are counters; `Analysis` has the general case.

**Insights.** One action per statement of a request, each on its own snapshot; `created` is
the start of the writing transaction, as `now()` gives it. Writers and clock move between
any two statements. Readers change nothing, so one reader stands for all. `AskAlerts`,
`AskTimeline` and `AskSummary` are the three handlers up to their first statement: the key, the
parameters, then the range, which also fails for a window too long to subtract (answered 500, not
400): `Refusal` has the statuses in that order. `StatementFails` is a lost connection or a failing
statement, answered 500. `AskMore` is the client that follows `has_more` or repeats a failed request.

## Runs

| run | shows | instance |
|---|---|---|
| `ingestion_collisions` | idempotency, atomicity, commit order per agent, agent timestamps, no request dropped by a shutdown, `ImplementsFeed` | 3 requests, pool of 2, 2 agents, 2 events, 2 times, 2 failures or crashes, signals; bodies chosen to collide |
| `ingestion_mixed` | `ImplementsLog` and an answer for every accepted request, with repeats, entries of every payload type, unusable and unstorable ones, refused bodies and keys, two clients, lost COMMIT replies | 2 requests, 1 failure or crash, signals |
| `ingestion_odd_type` | violation: one entry costs the batch its answer | 1 request |
| `ingestion_lost_commit` | violation: a 503 whose events are stored | lost replies allowed |
| `analysis_two_agents` | what can be lost when commits overtake each other, alerts counted once, no wait cycle, backfill coverage with another build, stale passes, reports that readers see whole (`AlertLog`) | 2 live runners (one also backfills), 2 writers, 2 agents, 3 events, 2 rules, batches of 2, drains of 2, 1 failure; a rule raises in the poller's build |
| `analysis_liveness` | with one agent no event is skipped and every event gets its alerts; what the allowlist rule reports, against domain names compared label by label | 2 live runners with batches of 1 and 2, 1 failure, the 3 default rules on 4 events, one of which makes a rule raise; 780 entries of at most 4 fragments |
| `analysis_skips` | violation: a late commit is skipped | 2 agents |
| `analysis_cursor_retreats` | violation: the watermark moves back | 2 live runners |
| `poller` | a process that says it polls has a loop, no lost wake-up, every event examined, the shutdown ends | 3 events, batches of 2, 3 failures in a row, 2 remembered, 2 crashes |
| `insights` | walks, totals, summaries, termination | 3 alerts, 2 events, 2 agents, 3 clock values, 1 failed statement, 14 queries |
| `insights_two_snapshots` | violation: page and total disagree | the same |
| `insights_until_alone` | violation: `until` without `since` is ignored | one query |

Every property of a passing run has a mutant in the module it speaks of, a definition marked
"Mutant of ..." which `PROJECT.json` pairs with the property it breaks.

**Why the bounds are enough.** Three requests on a pool of two give the conflict, the
bystander and the wait for a client; two agents and two events are what two batches need
to lock crosswise. The wait for a client is in the safety run only: the two requests of `ingestion_mixed`,
where every request must be answered, have a client each. A second failure lets a crash follow a crash, or a failure the restart. Three
events with batches of two give a full batch, a short one and a
sequence value in flight below one that is read; two runners give every race on the cursor
and on alert keys. Two crashes of the analyser leave two transactions behind, which may commit in
either order, beside the pass of a third process. `MaxSeq`, `MaxFaults`, `MaxCrashes`, `MaxEvents`
and `MaxNow` cap what would grow forever. A failure may strike at any statement, so the first
one covers each place it can strike; the theorems hold for any number. Writers and agents are
interchangeable in `Analysis`, requests in `Ingestion`: `Symmetry` is used where no liveness
property is. Deadlock is checked in every run; `AllAnswered` is ingestion with nothing left to do.

**Fairness.** *Ingestion*: weak fairness of each request's steps: the pool hands out its
clients, Postgres executes a statement whose locks are free, its deadlock detector
runs and it finds the connections of a dead process broken. Nothing makes a client send, a signal
come or `Exit` happen. *Analysis*: the poller keeps starting passes (its interval
fallback), and statements are executed. *Poller*: a process that starts gets its connections, the
event loop resumes coroutines that are ready and fires its timers; a pass that does not fail ends
while the service runs, and may hang once `stop()` has abandoned it. A process that is down need
not be restarted (`restart: unless-stopped` does so after a crash, nobody after a stop), and the
property says so. Notifications, reconnects and the LISTEN session get no fairness
at all. *Insights*: statements are executed, and the client follows `has_more` and sends a failed
request again.

## What the violations say

* `analysis_skips` (code bug, `engine.py:133`). `ingest_seq` is drawn at the INSERT and the
  row is visible at the COMMIT. Two agents' transactions may commit against the order of
  their numbers; a pass that reads the higher one first moves the cursor past the lower
  one. `LostOnlyIfOvertaken` is the exact extent of it, `NoSkip` holds for one agent because
  the agent upsert's row lock orders the commits (`AgentEventsCommitInOrder`), and a backfill
  repairs it (`BackfillCovers`).
* `analysis_cursor_retreats`: the upsert stores the watermark of whichever pass commits last.
  Harmless for alerts (`EachAlertReportedOnce`), at odds with "the highest `ingest_seq` the
  analyser has processed". `OnlyStalePassesRewind` says how far it can go.
* `ingestion_lost_commit`: "nothing is persisted" does not hold for a COMMIT whose reply is
  lost; the retry is answered `duplicate`, and `ImplementsLog` still holds.
* `ingestion_odd_type` (code bug, `schemas/event.ts:121`). The payload schemas are an object
  literal, so a `type` such as `constructor` is looked up on its prototype: a function is found,
  it has no `safeParse`, and the exception answers 500 to a batch whose other entries are valid.
* `insights_two_snapshots`: the transaction is READ COMMITTED, not repeatable read.
* `insights_until_alone`: `until` counts only together with `since`.

## Proofs

TLAPS checks the theorems for every value of the constants that satisfies the assumptions of
the module they are about; TLC evaluates these assumptions in every run. They are `MaxSeqAssumption`,
`AnalysisAssumption` (batches are not empty, the poller is one of the live runners),
`RulesAssumption` (rules are a fixed function of the event, and of the build where they raise),
`IngestionAssumption` (finitely many requests, keys that `parseApiKeys` takes, bodies whose entries are a
sequence, one entry in a single event, limits that are not zero), `PollerAssumption` and
`InsightsAssumption`. Every invariant below that is stronger than the property it serves has been an
invariant of a TLC run before it was proved. All properties of the passing runs are theorems except those listed at
the end of this section.

**The analyser** (`AnalysisProofs`, `BackfillProofs`)

* `AnalysisTypeOK`: `TypeOK`, with Feed's `DrawnOnce` (a number is drawn by one transaction
  and lies below the next one) as its strengthening.
* `OnlyOvertakenEventsAreLost`: `LostOnlyIfOvertaken` alone is not inductive, since a pass
  carries a cursor it read long ago and a batch it has not stored. `CursorInv` adds that
  every value a runner may still write is *settled*: `Settled(n)` says that the events up to n
  have their alerts or were overtaken, and that the numbers up to n still in flight are overtaken;
  `Gapless(p)` says that the batch of p has no gap above the cursor p started from, and that each of
  its findings is stored, inserted by p or still to insert. The ingestion step is where numbering
  matters: a fresh number is above every settled value.
* `OneAgentNoSkip`: with one agent `InOrder` (proved from `LocksExclude`) makes
  every visible number lower than every number in flight, so nothing is ever overtaken
  (`NoneOvertaken`), and the previous theorem leaves nothing to lose.
* `StalePassesRewind` and `OneRunnerCursorNeverRetreats`: `PassesGoForward` (a batch lies beyond
  the cursor its pass started from) and, for one live runner, `CursorIsCurrent`.
* `AlertsAreReportedOnce`: `Counted` adds that uncommitted alerts are in no table and belong to
  one transaction, so a commit adds as many rows as it reports.
* `NoDeadlockBetweenRunners`: `NoWaitCycle` speaks of every set of runners, so it is proved from a
  property of each of them, `LocksInOrder`: the keys a runner holds come before the keys it still
  wants, and one that holds the cursor wants none. In a set of runners the one that holds the greatest key,
  or the cursor, waits for none of the others.
* `AnalysisImplementsAlertLog`: a report takes effect at the COMMIT of its transaction. `Undivided(p)` says that
  what p has inserted or still has to insert is of its batch and found by its own build, and that whatever
  else its build finds there is in the table already, where it stays. Builds that disagree about an event, replies that
  are lost and batches that overlap make no difference. A cursor
  written in a transaction of its own (`FailCursorFirst`) would break it.
* `BackfillIsComplete`: pages are cut by OFFSET from a result that grows under them.
  `BackfillInv` says of each backfill that what it owes and has not examined is not before its next page,
  and that a page which leaves something owed behind it is full, so that another one follows. It is
  kept because rows are only inserted, so the place of a row never moves towards the start
  (`PlaceNeverShrinks` in `OrderLemmas`), and because a page of a full result leaves the rows behind its
  last place (`CutSplits`).

**The rules** (`DetectionProofs`)

* `EntriesCoverSubdomains`: `is_allowed` compares the ends of two texts, `Covers` the last labels of two
  domain names, each cut at its dots. The cuts of a text are numbered in ascending order (`NthCuts`). If a
  host ends with a dot and an entry, the last cuts of the host are those of the entry, moved by the
  difference of their lengths (`TailIsAligned`), so the labels agree. Conversely equal labels have equal lengths, which
  aligns the cuts from the end (`LastPartsAreAligned`, at the least cut that would not fit), and a
  fragment of the entry is inside a label or one of its dots. Nothing is assumed of hosts or entries: empty labels and
  empty entries are covered.
* `RequestsAreReported`: from the previous theorem, `OneAgentNoSkip` (an event behind the cursor has the
  alerts it is due) and the invariant `OnlyFindings` (what is stored, inserted or still to insert is
  what a rule found). It assumes one agent, as `OneAgentNoSkip` does, and of the rules only that
  `Finds` is what `Detects` computes from the events; an event on which the first rule raises in some
  build is not spoken of.

**Ingestion** (`IngestionProofs`, `IngestionRefinementProofs`)

All of its theorems rest on one invariant, `IngestionInv`. A transaction is several
statements long and others run between them, so the invariant is mostly about what an open transaction has
written: the agents it has upserted enclose the times of its events and the committed times of the agent
(`AgentsUpserted`, `LocksHeld`); an event it has passed over is stored or among its rows (`EventsInserted`);
its rows are new to the table, numbered after every committed event of their agent and
carry the client of the request (`RowsFresh`); and no two requests have written the same agent or event
(`Exclusive`). It covers transactions of dead processes as well: one whose COMMIT may still take effect
satisfies the same as before. `RepliesTrue` adds that what has been reported is stored, and created only once.

* `IngestionCreatedOnce`, `IngestionAckedIsStored`, `IngestionAgentCoversEvents`,
  `IngestionFirstSubmissionWins`, `IngestionAgentEventsCommitInOrder`:
  from `IngestionInv`, whatever requests race, fail, are retried or are cut off.
* `IngestionOnlyFailuresDrop`: `Exit` would orphan whatever is under way, so the invariant needs
  `EndingIsDrained`: from the return of `app.close()` to the exit nothing is queued or in a transaction
  (`DrainedStays`: nothing arrives, and the pool that ends admits nothing).
* `IngestionFailurePersistsNothing` assumes that no reply to a COMMIT is lost; without that
  `ingestion_lost_commit` shows it false.
* `IngestionImplementsFeed`: each action is a step of Feed by one request, or leaves what the analyser sees
  as it is. Together with the theorems on `Analysis`, which `EXTENDS` Feed, it says
  that the analyser's guarantees rest on nothing ingestion does not provide.
* `IngestionImplementsLog`: a request takes effect at its COMMIT. The proof relates what the statements
  have inserted to the entries that are new to the log, and the statuses of the reply to whether each entry
  is the first of its id. It assumes that no entry makes `parseEnvelope` throw, since
  `EventLog` has an answer for each entry and `ingestion_odd_type` shows the code has not.

**The analyser process** (`PollerProofs`)

* `PollerTypeOK`, `PollerLoopLives`: `InOrderDown` says which of loop, thread and listener may be alive at
  each stage of the lifespan.
* `PollerNeverSleepsThroughWork`: the property is about a loop that waits, but a wake-up can be lost
  long before. `NothingUnheard` follows it from the read of a batch: a pass that found less than a batch has
  left nothing behind, or a wake-up is on its way (`Alerted`), and stays so until the loop waits.

**Insights** (`InsightsProofs`)

* `WalksSeeAll`: `WalkInv` is the counterpart of `BackfillInv` for a feed that is ordered newest first
  and whose relative window moves. `OwedIsFound` says that a row owed and still in the range is in the
  result of every later page, and `LeftIsAhead` that one not yet seen is not before the offset.
* `TotalsCoverPages`: `PageCounted`, for the count runs on a later snapshot than the page.
* `QuietWalksRepeatNothing`: `QuietSoFar` says that, as long as nothing has been written, what the walk has
  returned is exactly what lies before the offset.
* `SummariesNeverShort`: the total is counted by one statement and the rules by a later one. `SummaryInv`
  says that what was counted is still found when the rules are read (rows are only inserted, and the range is
  resolved once); a list of rules that is not cut off holds all of them (`UncutRules`: otherwise a
  rule left out would have as many rules ahead of it as the limit allows), and the frequencies of all rules add up to
  the number of alerts (`FrequenciesAdd`).

`OrderLemmas` is the theory those walks share: the place of a row in an order is the number of
rows ahead of it, places are distinct and without gaps, and a page is the rows whose places lie in an
interval. Induction on the rows is not available to the provers; the lemmas use instead that the
strict subsets of a finite set are well-founded, through facts about least elements and cardinalities.
Sums are treated alike: `SumOfParts` is proved by taking a smallest set for which a sum would not be
the one it should be, and `DetectionProofs` numbers the cuts of a text as rows in an order.

**Model-checked only.** Liveness (`EventuallyExamined` of `Analysis` and of `Poller`, `StopReturns`,
`EveryRequestAnswered`, `EveryWalkEnds`) is out of the prover's reach. The three refinements are proved
for the specifications without fairness, which is all `EventLog`, `Feed` and `AlertLog` have.
What `DownloadAndExecute` and `SecretFileAccess` find is modelled and their alerts are checked to arrive, but no
property speaks of their patterns: the patterns are their own definition. The properties of the runs that expect
a violation are false.

## Not modelled

URL parsing (a rule sees the host), the texts of alerts and of validation issues, hashing of keys and
constant-time comparison, the environment apart from the keys, the rules' lists and the
limits that are constants here, time zones and the spelling of durations, OpenAPI documents, logging,
health endpoints apart from `poller_running`, `list-rules`, `show-cursor` and the mapping of rows to
dataclasses: pure or static. Durations are not modelled: how long a backoff or an interval lasts is a
number no property depends on, only that it ends. Postgres itself (locks, the deadlock detector,
READ COMMITTED, what it does with the statements of a client that has died) is modelled from how the
code relies on it and marked external, and so is the restart by the container runtime. A connection
that a live process loses ends its transaction together with the 503; only for a dead process does Postgres find
out later. An analyser without a poller (`poller_enabled=False`) has only the runs of `Analysis`. Dashboards that
poll the alerts with a `since` of their own may miss an alert whose transaction began before and
committed after their last read; the code promises them nothing of the kind, and a walk, which
is what it does promise, is in `Insights`.

## Plan

1. Done: the modules above; theorems for every safety property of the passing runs; the three
   refinements.
2. To prove: what an upgrade of the code would want to rely on next to the properties checked. Transactions
   of ingestion that touch one agent each, with event ids of its own, never wait in a cycle; the database
   that `Poller` counts in as an abstraction of `Analysis` for one agent.
3. More pure parts as functions against reference definitions: the poller's backoff,
   `parse_window` with its numeric limits.
