------------------------------ MODULE Analysis ------------------------------
(***************************************************************************)
(* The analyser over the events table (Feed): the engine's run_once,       *)
(* run_until_caught_up and backfill, run at the same time by the poller's  *)
(* worker thread, by API requests and by the CLI, against one Postgres     *)
(* database at READ COMMITTED.                                             *)
(*                                                                         *)
(* One action per statement sent to the database.  The rows a transaction  *)
(* has written but not committed (fresh) lock their unique keys: another   *)
(* transaction that inserts the same (event, rule) waits for its outcome.  *)
(* An event is its ingest_seq; what the rules say of it is Finds, unless   *)
(* the build that the runner is of has a rule that raises on it.           *)
(***************************************************************************)
EXTENDS Feed

CONSTANTS
    Runners,      \* threads and processes that run the engine
    Poller,       \* the runner that never stops polling
    RuleCount,    \* rules, numbered in the order of default_rules()
    Finds,        \* Finds[s]: the rules that produce a draft for event s
    Raises,       \* Raises[p][s]: the rules that raise instead, in p's build
    OccurredAt,   \* OccurredAt[s]: the event's own timestamp
    Limit,        \* Limit[p]: batch_size, or --batch-size of the CLI
    MaxBatches,   \* max_batches of run_until_caught_up
    LiveRunners,  \* the runners that call run_once or run_until_caught_up
    Backfillers,  \* the runners that call backfill
    MaxFaults     \* bound: failed statements, crashes and lost COMMIT replies

Rules == 1 .. RuleCount
Keys == Seqs \X Rules

(* --since of a backfill: 0 stands for "all history".                      *)
Bounds == {0} \cup {OccurredAt[s] : s \in Seqs}

ASSUME RulesAssumption ==
    /\ Finds \in [Seqs -> SUBSET Rules]
    /\ Raises \in [Runners -> [Seqs -> SUBSET Rules]]

ASSUME AnalysisAssumption ==
    /\ RuleCount \in Nat
    /\ OccurredAt \in [Seqs -> Nat \ {0}]
    /\ Limit \in [Runners -> Nat \ {0}]
    /\ MaxBatches \in Nat \ {0}
    /\ LiveRunners \subseteq Runners
    /\ Backfillers \subseteq Runners
    /\ Poller \in LiveRunners
    /\ MaxFaults \in Nat

VARIABLES
    cursor,     \* analysis_cursor.last_ingest_seq
    alerts,     \* committed rows of alerts, by (event_id, rule)
    pc,         \* pc[p]: the next statement of runner p
    passes,     \* passes[p]: run_once calls the job may still make
    cur,        \* cur[p]: the cursor run_once read
    batch,      \* batch[p]: events fetched
    todo,       \* todo[p]: drafts not inserted yet
    fresh,      \* fresh[p]: alerts inserted by the open transaction
    since,      \* since[p]: lower bound of a backfill
    offset,     \* offset[p]: OFFSET of the backfill's next page
    faults,     \* failures so far
    overtaken,  \* history: values in flight when a batch beyond them was read
    reported,   \* history: alerts_written summed over the reports returned
    owed,       \* history: owed[p]: rows the running backfill was asked for
    audited     \* history: findings owed by the backfills that completed

runVars == <<passes, cur, batch, todo, fresh, since, offset>>
historyVars == <<overtaken, reported, owed, audited>>
vars == <<feedVars, cursor, alerts, pc, runVars, faults, historyVars>>

-----------------------------------------------------------------------------
(* What the statements compute.                                            *)

(* ORDER BY ingest_seq LIMIT n OFFSET k                                    *)
Page(S, k, n) ==
    {s \in S : LET before == Cardinality({t \in S : t < s})
               IN  k <= before /\ before < k + n}

Before(j, k) == j[1] < k[1] \/ (j[1] = k[1] /\ j[2] < k[2])

(* analyse_event: a rule that raises is skipped, the others still run.     *)
Drafts(p, s) == Finds[s] \ Raises[p][s]

KeysOf(p, S) == {k \in S \X Rules : k[2] \in Drafts(p, k[1])}

Matching(b) == {s \in visible : OccurredAt[s] >= b}

(* Mutant of NextDraft: a backfill that inserts its findings latest first. *)
NextDraftLatestFirst(p, k) ==
    /\ k \in todo[p]
    /\ \A j \in todo[p] : \/ j = k
                          \/ pc[p] = "insert" /\ Before(k, j)
                          \/ pc[p] = "insertPage" /\ Before(j, k)

(* Rows are inserted in the order of the drafts: by event, then by rule.   *)
NextDraft(p, k) == k \in todo[p] /\ \A j \in todo[p] : j = k \/ Before(k, j)

(* The cursor row is locked by the upsert until the transaction ends.      *)
HoldsCursor(p) == pc[p] = "commit"

KeyFree(p, k) == \A q \in Runners \ {p} : k \notin fresh[q]

-----------------------------------------------------------------------------
AnalysisInit ==
    /\ FeedInit
    /\ cursor = 0
    /\ alerts = {}
    /\ pc = [p \in Runners |-> "idle"]
    /\ passes = [p \in Runners |-> 0]
    /\ cur = [p \in Runners |-> 0]
    /\ batch = [p \in Runners |-> {}]
    /\ todo = [p \in Runners |-> {}]
    /\ fresh = [p \in Runners |-> {}]
    /\ since = [p \in Runners |-> 0]
    /\ offset = [p \in Runners |-> 0]
    /\ faults = 0
    /\ overtaken = {}
    /\ reported = 0
    /\ owed = [p \in Runners |-> {}]
    /\ audited = {}

(* What a runner forgets when its job ends or fails.                       *)
Forget(p) ==
    /\ passes' = [passes EXCEPT ![p] = 0]
    /\ cur' = [cur EXCEPT ![p] = 0]
    /\ batch' = [batch EXCEPT ![p] = {}]
    /\ todo' = [todo EXCEPT ![p] = {}]
    /\ fresh' = [fresh EXCEPT ![p] = {}]
    /\ since' = [since EXCEPT ![p] = 0]
    /\ offset' = [offset EXCEPT ![p] = 0]
    /\ owed' = [owed EXCEPT ![p] = {}]

(* The poller calls run_once; POST /v1/analyze/run and the CLI call it, or *)
(* run_until_caught_up if they are asked to drain.                         *)
PassesAsked(p) == IF p = Poller THEN {1} ELSE {1, MaxBatches}

StartLive(p) ==
    /\ p \in LiveRunners
    /\ pc[p] = "idle"
    /\ \E n \in PassesAsked(p) : passes' = [passes EXCEPT ![p] = n]
    /\ pc' = [pc EXCEPT ![p] = "cursor"]
    /\ UNCHANGED <<feedVars, cursor, alerts, cur, batch, todo, fresh, since,
                   offset, faults, historyVars>>

(* get_cursor: a read of its own, outside the transaction that will write. *)
GetCursor(p) ==
    /\ pc[p] = "cursor"
    /\ cur' = [cur EXCEPT ![p] = cursor]
    /\ pc' = [pc EXCEPT ![p] = "fetch"]
    /\ UNCHANGED <<feedVars, cursor, alerts, passes, batch, todo, fresh, since,
                   offset, faults, historyVars>>

Unread(p) == {s \in visible : s > cur[p]}

(* fetch_batch_after finds nothing new: an empty report.                   *)
FetchNothing(p) ==
    /\ pc[p] = "fetch"
    /\ Unread(p) = {}
    /\ pc' = [pc EXCEPT ![p] = "idle"]
    /\ Forget(p)
    /\ UNCHANGED <<feedVars, cursor, alerts, faults, overtaken, reported, audited>>

(* Mutant of FetchBatch: a rule that raises ends the pass.                 *)
FetchBatchUnisolated(p) ==
    /\ pc[p] = "fetch"
    /\ Unread(p) # {}
    /\ LET b == Page(Unread(p), 0, Limit[p])
           raising == \E s \in b : Raises[p][s] # {}
       IN  /\ pc' = [pc EXCEPT ![p] = IF raising THEN "idle" ELSE "insert"]
           /\ passes' = [passes EXCEPT ![p] = IF raising THEN 0 ELSE @]
           /\ cur' = [cur EXCEPT ![p] = IF raising THEN 0 ELSE @]
           /\ batch' = [batch EXCEPT ![p] = IF raising THEN {} ELSE b]
           /\ todo' = [todo EXCEPT ![p] = IF raising THEN {} ELSE KeysOf(p, b)]
    /\ UNCHANGED <<feedVars, cursor, alerts, fresh, since, offset, faults, historyVars>>

(* fetch_batch_after and _analyse_batch; the rules are pure.               *)
FetchBatch(p) ==
    /\ pc[p] = "fetch"
    /\ Unread(p) # {}
    /\ LET b == Page(Unread(p), 0, Limit[p])
       IN  /\ batch' = [batch EXCEPT ![p] = b]
           /\ todo' = [todo EXCEPT ![p] = KeysOf(p, b)]
           /\ overtaken' = overtaken \cup {s \in InFlight : \E t \in b : s < t}
    /\ pc' = [pc EXCEPT ![p] = "insert"]
    /\ UNCHANGED <<feedVars, cursor, alerts, passes, cur, fresh, since, offset,
                   faults, reported, owed, audited>>

(* INSERT ... ON CONFLICT DO NOTHING of the next draft.                    *)
InsertAlert(p) ==
    /\ pc[p] \in {"insert", "insertPage"}
    /\ \E k \in todo[p] :
         /\ NextDraft(p, k)
         /\ KeyFree(p, k)
         /\ todo' = [todo EXCEPT ![p] = @ \ {k}]
         /\ fresh' = [fresh EXCEPT ![p] = @ \cup ({k} \ alerts)]
    /\ UNCHANGED <<feedVars, cursor, alerts, pc, passes, cur, batch, since,
                   offset, faults, historyVars>>

(* UPSERT_CURSOR_SQL: waits for the row lock, then holds it.               *)
UpsertCursor(p) ==
    /\ pc[p] = "insert"
    /\ todo[p] = {}
    /\ \A q \in Runners \ {p} : ~HoldsCursor(q)
    /\ pc' = [pc EXCEPT ![p] = "commit"]
    /\ UNCHANGED <<feedVars, cursor, alerts, runVars, faults, historyVars>>

(* Mutant of Watermark: the latest event there is, not the last one read.  *)
WatermarkLatest(p, n) == n \in visible /\ \A s \in visible : s <= n

(* events[-1].ingest_seq                                                   *)
Watermark(p, n) == n \in batch[p] /\ \A s \in batch[p] : s <= n

(* What the commit of process_batch_atomically does to the tables.         *)
Publish(p) ==
    /\ alerts' = alerts \cup fresh[p]
    /\ \E n \in Seqs : Watermark(p, n) /\ cursor' = n

(* Mutant of Written: every draft counted, the conflicting ones too.       *)
WrittenDrafts(p) == Cardinality(KeysOf(p, batch[p]))

(* alerts_written: the rows RETURNING gave back.                           *)
Written(p) == Cardinality(fresh[p])

(* Mutant of HasMore: max_batches forgotten.                               *)
HasMoreUnbounded(p) == Cardinality(batch[p]) = Limit[p]

(* run_until_caught_up goes on while batches come back full.               *)
HasMore(p) == Cardinality(batch[p]) = Limit[p] /\ passes[p] > 1

CommitBatch(p) ==
    /\ pc[p] = "commit"
    /\ Publish(p)
    /\ reported' = reported + Written(p)
    /\ \/ /\ HasMore(p)
          /\ pc' = [pc EXCEPT ![p] = "cursor"]
          /\ passes' = [passes EXCEPT ![p] = @ - 1]
          /\ batch' = [batch EXCEPT ![p] = {}]
          /\ fresh' = [fresh EXCEPT ![p] = {}]
          /\ UNCHANGED <<cur, todo, since, offset, owed>>
       \/ /\ ~HasMore(p)
          /\ pc' = [pc EXCEPT ![p] = "idle"]
          /\ Forget(p)
    /\ UNCHANGED <<feedVars, faults, overtaken, audited>>

-----------------------------------------------------------------------------
(* backfill: pages through history, one transaction per page, and leaves   *)
(* the cursor alone.                                                       *)

StartBackfill(p) ==
    /\ p \in Backfillers
    /\ pc[p] = "idle"
    /\ \E b \in Bounds :
         /\ since' = [since EXCEPT ![p] = b]
         /\ owed' = [owed EXCEPT ![p] = Matching(b)]
    /\ pc' = [pc EXCEPT ![p] = "page"]
    /\ UNCHANGED <<feedVars, cursor, alerts, passes, cur, batch, todo, fresh,
                   offset, faults, overtaken, reported, audited>>

(* The next page, counted anew among the matching rows committed by now.   *)
BackfillPage(p) == Page(Matching(since[p]), offset[p], Limit[p])

FetchPage(p) ==
    /\ pc[p] = "page"
    /\ BackfillPage(p) # {}
    /\ batch' = [batch EXCEPT ![p] = BackfillPage(p)]
    /\ todo' = [todo EXCEPT ![p] = KeysOf(p, BackfillPage(p))]
    /\ pc' = [pc EXCEPT ![p] = "insertPage"]
    /\ UNCHANGED <<feedVars, cursor, alerts, passes, cur, fresh, since, offset,
                   faults, historyVars>>

FetchNoPage(p) ==
    /\ pc[p] = "page"
    /\ BackfillPage(p) = {}
    /\ audited' = audited \cup KeysOf(p, owed[p])
    /\ pc' = [pc EXCEPT ![p] = "idle"]
    /\ Forget(p)
    /\ UNCHANGED <<feedVars, cursor, alerts, faults, overtaken, reported>>

(* Mutant of LastPage: a full page is taken for the last one.              *)
LastPageFull(p) == Cardinality(batch[p]) <= Limit[p]

(* A short page is the last one.                                           *)
LastPage(p) == Cardinality(batch[p]) < Limit[p]

(* Mutant of CommitPage: the page is stored with process_batch_atomically. *)
CommitPageAndCursor(p) ==
    /\ pc[p] = "insertPage"
    /\ todo[p] = {}
    /\ Publish(p)
    /\ reported' = reported + Written(p)
    /\ audited' = audited \cup KeysOf(p, owed[p])
    /\ pc' = [pc EXCEPT ![p] = "idle"]
    /\ Forget(p)
    /\ UNCHANGED <<feedVars, faults, overtaken>>

CommitPage(p) ==
    /\ pc[p] = "insertPage"
    /\ todo[p] = {}
    /\ alerts' = alerts \cup fresh[p]
    /\ reported' = reported + Written(p)
    /\ \/ /\ LastPage(p)
          /\ audited' = audited \cup KeysOf(p, owed[p])
          /\ pc' = [pc EXCEPT ![p] = "idle"]
          /\ Forget(p)
       \/ /\ ~LastPage(p)
          /\ offset' = [offset EXCEPT ![p] = @ + Cardinality(batch[p])]
          /\ pc' = [pc EXCEPT ![p] = "page"]
          /\ batch' = [batch EXCEPT ![p] = {}]
          /\ fresh' = [fresh EXCEPT ![p] = {}]
          /\ UNCHANGED <<passes, cur, todo, since, owed, audited>>
    /\ UNCHANGED <<feedVars, cursor, faults, overtaken>>

-----------------------------------------------------------------------------
(* Mutant of Fail: the cursor is written in a transaction of its own,      *)
(* before the alerts.                                                      *)
FailCursorFirst(p) ==
    /\ pc[p] # "idle"
    /\ faults < MaxFaults
    /\ faults' = faults + 1
    /\ pc' = [pc EXCEPT ![p] = "idle"]
    /\ IF pc[p] = "insert" THEN \E n \in Seqs : Watermark(p, n) /\ cursor' = n
                           ELSE UNCHANGED cursor
    /\ Forget(p)
    /\ UNCHANGED <<feedVars, alerts, overtaken, reported, audited>>

(* Any statement may fail, and the process may die: the transaction rolls  *)
(* back and the job ends without a report.                                 *)
Fail(p) ==
    /\ pc[p] # "idle"
    /\ faults < MaxFaults
    /\ faults' = faults + 1
    /\ pc' = [pc EXCEPT ![p] = "idle"]
    /\ Forget(p)
    /\ UNCHANGED <<feedVars, cursor, alerts, overtaken, reported, audited>>

(* The server commits and the connection is lost before the reply: the     *)
(* job fails although its writes are there.                                *)
CommitReplyLost(p) ==
    /\ faults < MaxFaults
    /\ faults' = faults + 1
    /\ \/ pc[p] = "commit" /\ Publish(p)
       \/ /\ pc[p] = "insertPage" /\ todo[p] = {}
          /\ alerts' = alerts \cup fresh[p]
          /\ UNCHANGED cursor
    /\ pc' = [pc EXCEPT ![p] = "idle"]
    /\ Forget(p)
    /\ UNCHANGED <<feedVars, overtaken, reported, audited>>

Ingest ==
    /\ FeedNext
    /\ UNCHANGED <<cursor, alerts, pc, runVars, faults, historyVars>>

(* The steps of a job once it has started.                                 *)
Step(p) ==
    \/ GetCursor(p)
    \/ FetchNothing(p)
    \/ FetchBatch(p)
    \/ InsertAlert(p)
    \/ UpsertCursor(p)
    \/ CommitBatch(p)
    \/ FetchPage(p)
    \/ FetchNoPage(p)
    \/ CommitPage(p)

AnalysisNext ==
    \/ Ingest
    \/ \E p \in Runners :
         \/ StartLive(p)
         \/ StartBackfill(p)
         \/ Step(p)
         \/ Fail(p)
         \/ CommitReplyLost(p)

AnalysisSpec == AnalysisInit /\ [][AnalysisNext]_vars

(* The poller keeps starting passes (interval fallback) and the database   *)
(* executes the statements it is sent.                                     *)
FairSpec ==
    /\ AnalysisSpec
    /\ WF_vars(StartLive(Poller))
    /\ \A p \in Runners : WF_vars(Step(p))

-----------------------------------------------------------------------------
(* Properties.                                                             *)

(* Every variable keeps its type, and a live job never starts a pass       *)
(* beyond its max_batches.                                                 *)
TypeOK ==
    /\ FeedTypeOK
    /\ cursor \in 0 .. MaxSeq
    /\ alerts \subseteq Keys
    /\ pc \in [Runners -> {"idle", "cursor", "fetch", "insert", "commit",
                           "page", "insertPage"}]
    /\ passes \in [Runners -> 0 .. MaxBatches]
    /\ \A p \in Runners : passes[p] = 0 <=> pc[p] \in {"idle", "page", "insertPage"}
    /\ cur \in [Runners -> 0 .. MaxSeq]
    /\ batch \in [Runners -> SUBSET Seqs]
    /\ todo \in [Runners -> SUBSET Keys]
    /\ fresh \in [Runners -> SUBSET Keys]
    /\ since \in [Runners -> Bounds]
    /\ offset \in [Runners -> Nat]
    /\ faults \in 0 .. MaxFaults
    /\ overtaken \subseteq Seqs
    /\ reported \in Nat
    /\ owed \in [Runners -> SUBSET Seqs]
    /\ audited \subseteq Keys

(* The rules that find something in s and raise on it in no build.         *)
Due(s) == {r \in Finds[s] : \A p \in Runners : r \notin Raises[p][s]}

Alerted(s) == {s} \X Due(s) \subseteq alerts

(* "A restart does not skip": every committed event the cursor has passed  *)
(* has all its alerts.  Holds when commits follow the order of ingest_seq, *)
(* as they do for one agent; false otherwise.                              *)
NoSkip == \A s \in visible : s <= cursor => Alerted(s)

(* Whatever the order of commits, failures and concurrent passes: the only *)
(* events the cursor passes without their alerts are the ones that were    *)
(* still uncommitted when a batch beyond them was read.                    *)
LostOnlyIfOvertaken ==
    \A s \in visible : s <= cursor => Alerted(s) \/ s \in overtaken

(* Concurrent passes, replays and backfills together report each alert row *)
(* as written once, and miss one only when a failure ate the report.       *)
EachAlertReportedOnce ==
    /\ reported <= Cardinality(alerts)
    /\ faults = 0 => reported = Cardinality(alerts)

Waits(p, q) ==
    \/ \E k \in todo[p] : NextDraft(p, k) /\ k \in fresh[q]
    \/ pc[p] = "insert" /\ todo[p] = {} /\ HoldsCursor(q)

(* Analysis transactions never wait for each other in a circle: they take  *)
(* their locks in the order of ingest_seq and rule, and the cursor last.   *)
NoWaitCycle ==
    \A Q \in (SUBSET Runners) \ {{}} :
        \E p \in Q : \A q \in Q \ {p} : ~Waits(p, q)

(* A backfill that completes has examined, with the rules of its own       *)
(* build, every matching event that was committed when it started: those   *)
(* a live pass lost and those on which a rule of the live build raised,    *)
(* although ingestion kept committing events before and after its OFFSET.  *)
BackfillCovers == audited \subseteq alerts

(* The cursor moves back only when a pass commits that started from a      *)
(* cursor other passes have moved on since, never behind that start, and   *)
(* never because of a backfill.                                            *)
OnlyStalePassesRewind ==
    [][cursor' < cursor =>
          \E p \in LiveRunners : /\ pc[p] = "commit" /\ pc'[p] # "commit"
                                 /\ cur[p] < cursor' /\ cur[p] < cursor]_vars

(* With one live runner the cursor only grows, whatever the backfills do.  *)
CursorNeverRetreats == [][cursor' >= cursor]_vars

Log == INSTANCE AlertLog WITH
    Events  <- Seqs,
    Builds  <- Runners,
    Found   <- [p \in Runners |-> [s \in Seqs |-> Drafts(p, s)]],
    present <- visible

(* "Write alerts and advance the cursor in one transaction": to a reader   *)
(* each batch and each page of a backfill is reported at once, whatever    *)
(* other runners insert at the same time, and the cursor never moves by    *)
(* itself.                                                                 *)
ImplementsAlertLog == Log!LogSpec

(* Every committed event gets the alerts of the rules that do not raise on *)
(* it in the end, and so do the events after it (one agent).               *)
EventuallyExamined == \A s \in Seqs : (s \in visible) ~> Alerted(s)
=============================================================================
