------------------------------- MODULE Insights -------------------------------
(***************************************************************************)
(* The insights service: one reader of the alerts, the timeline and the    *)
(* summary beside the analyser and ingestion, which keep committing rows.  *)
(*                                                                         *)
(* A request is a transaction at READ COMMITTED: each of its statements    *)
(* sees what is committed when it runs.  Paged answers are walked, page    *)
(* after page, until has_more says that nothing is left; a request that is *)
(* answered 500 is sent again.  Readers change nothing, so one of them     *)
(* stands for all.  Rows are numbered in the order of their ids, alerts    *)
(* first: 'alert' < 'event'.                                               *)
(***************************************************************************)
EXTENDS Integers, FiniteSets, FiniteSetsExt, Functions, ApiKeys

CONSTANTS
    AlertIds,
    EventIds,
    Agents,
    EventOf,            \* EventOf[r]: event of an alert
    AgentOf,            \* AgentOf[r]: agent of an alert or an event
    SeverityOf,         \* SeverityOf[r]: severity of an alert
    RuleOf,             \* RuleOf[r]: rule of an alert, numbered by name
    OccurredAt,         \* OccurredAt[e]: occurred_at of an event
    Queries,            \* queries of the reader
    KeyEntries,         \* OPERATOR_API_KEYS
    MaxWindow,          \* the longest window a timedelta reaches back over
    DefaultSpan,        \* DEFAULT_WINDOW_HOURS
    DefaultPageSize,    \* DEFAULT_PAGE_SIZE
    MaxPageSize,        \* MAX_PAGE_SIZE
    TopRulesLimit,      \* TOP_RULES_LIMIT
    MaxNow,             \* bound: the last clock value
    MaxFaults           \* bound: failed statements

Rows == AlertIds \cup EventIds

(* "Declaration order is the ordering", in Postgres as in Python.          *)
Severity == <<"low", "medium", "high", "critical">>
Unset == "unset"

rank(severity) == CHOOSE i \in DOMAIN Severity : Severity[i] = severity

max_of(severities) ==
    IF severities = {} THEN Unset
    ELSE CHOOSE s \in severities : \A t \in severities : rank(t) <= rank(s)

(* A parameter that is not given is 0 or Unset; a window or a limit that   *)
(* does not parse or is out of its range is negative.                      *)
Query ==
    [kind : {"alerts", "timeline", "summary"}, agent : Agents \cup {0},
     rule : Nat, severity_min : Range(Severity) \cup {Unset}, since : Nat, until : Nat, window : Int,
     limit : Int, header : Seq(STRING)]

ASSUME InsightsAssumption ==
    /\ AlertIds \subseteq Nat /\ IsFiniteSet(AlertIds)
    /\ EventIds \subseteq Nat /\ IsFiniteSet(EventIds)
    /\ \A r \in AlertIds, e \in EventIds : r < e
    /\ 0 \notin Agents
    /\ EventOf \in [AlertIds -> EventIds]
    /\ AgentOf \in [Rows -> Agents]
    /\ \A r \in AlertIds : AgentOf[r] = AgentOf[EventOf[r]]
    /\ SeverityOf \in [AlertIds -> Range(Severity)]
    /\ RuleOf \in [AlertIds -> Nat \ {0}]
    /\ OccurredAt \in [EventIds -> Nat \ {0}]
    /\ Queries \subseteq Query
    /\ \A q \in Queries : q.kind # "alerts" => q.agent # 0
    /\ ~Malformed(KeyEntries)
    /\ \A n \in {MaxWindow, DefaultSpan, DefaultPageSize, MaxPageSize, TopRulesLimit} : n \in Nat \ {0}
    /\ MaxNow \in Nat \ {0}
    /\ MaxFaults \in Nat

VARIABLES
    now,        \* the clock of the services and the database
    created,    \* created[r]: created_at of an alert, 0 before its transaction
    stored,     \* committed rows of alerts and events
    pc,         \* the reader's next statement
    status,     \* status of the last answer, 0 while there is none
    query,      \* what it asks for
    range,      \* <<start, end>> of the current request
    offset,     \* OFFSET of the current request, then of the next one
    page,       \* items of the last page
    total,      \* total of the last page
    summary,    \* figures of the last summary
    faults,     \* statements that failed so far
    seen,       \* history: rows this walk has returned
    delivered,  \* history: how many items this walk has returned
    owed,       \* history: rows that matched when the walk began
    still       \* history: nothing was committed since, and no time passed

tables == <<now, created, stored>>
walk == <<seen, delivered, owed, still>>
vars == <<tables, pc, status, query, range, offset, page, total, summary, faults, walk>>

-----------------------------------------------------------------------------
(* What the statements compute.                                            *)

(* A window too long for a timedelta, or to be subtracted from now, raises *)
(* OverflowError, if the bounds given do not make it idle.                 *)
Overflows(q) == q.since = 0 /\ q.window > MaxWindow

(* resolve_window: <<>> stands for ValueError.                             *)
ResolveWindow(q, t) ==
    CASE q.since # 0 /\ q.until # 0 -> IF q.since > q.until THEN <<>> ELSE <<q.since, q.until>>
      [] q.since # 0 /\ q.until = 0 -> IF q.since > t THEN <<>> ELSE <<q.since, t>>
      [] q.since = 0 /\ q.window # 0 -> IF q.window < 0 THEN <<>> ELSE <<t - q.window, t>>
      [] OTHER -> <<t - DefaultSpan, t>>

PageSize(q) ==
    LET asked == IF q.limit = 0 THEN DefaultPageSize ELSE q.limit
    IN  IF asked < MaxPageSize THEN asked ELSE MaxPageSize

At(r) == IF r \in AlertIds THEN created[r] ELSE OccurredAt[r]

InRange(r, w) == w[1] <= At(r) /\ At(r) <= w[2]

(* The WHERE clauses.                                                      *)
Matching(q, w) ==
    {r \in stored :
       /\ InRange(r, w)
       /\ q.agent \in {0, AgentOf[r]}
       /\ q.kind # "timeline" => r \in AlertIds
       /\ q.kind = "alerts" => /\ q.rule \in {0, RuleOf[r]}
                               /\ \/ q.severity_min = Unset
                                  \/ rank(SeverityOf[r]) >= rank(q.severity_min)}

(* ORDER BY ts DESC, id                                                    *)
Newer(r, s) == At(r) > At(s) \/ (At(r) = At(s) /\ r < s)

(* Mutant of IsPage: ORDER BY ts DESC, in any order at the same time.      *)
IsPageUntied(P, S, k, n) ==
    LET surely(r) == Cardinality({t \in S : At(t) > At(r)})
        maybe(r) == Cardinality({t \in S : At(t) >= At(r)}) - 1
    IN  /\ P \subseteq S
        /\ Cardinality(P) = Cardinality({r \in S :
              Cardinality({t \in S : Newer(t, r)}) \in k .. k + n - 1})
        /\ \A r \in P : surely(r) < k + n /\ maybe(r) >= k
        /\ \A r \in S : surely(r) >= k /\ maybe(r) < k + n => r \in P

(* Mutant of IsPage: oldest first.                                         *)
IsPageOldestFirst(P, S, k, n) ==
    P = {r \in S : Cardinality({t \in S : Newer(r, t)}) \in k .. k + n - 1}

(* P are the rows of S that LIMIT n OFFSET k keeps.                        *)
IsPage(P, S, k, n) ==
    P = {r \in S : Cardinality({t \in S : Newer(t, r)}) \in k .. k + n - 1}

(* Mutant of HasMore: equality for the end of the result.                  *)
HasMoreUnequal(k, n) == k # n

(* Page.has_more                                                           *)
HasMore(k, n) == k < n

Frequency(S) ==
    {[rule |-> i, count |-> Cardinality({r \in S : RuleOf[r] = i})] :
        i \in {RuleOf[r] : r \in S}}

(* Mutant of TopRules: one rule short.                                     *)
TopRulesBelow(S, n) ==
    {f \in Frequency(S) :
       Cardinality({g \in Frequency(S) : \/ g.count > f.count
                                         \/ g.count = f.count /\ g.rule < f.rule}) < n - 1}

(* ORDER BY count DESC, rule LIMIT n                                       *)
TopRules(S, n) ==
    {f \in Frequency(S) :
       Cardinality({g \in Frequency(S) : \/ g.count > f.count
                                         \/ g.count = f.count /\ g.rule < f.rule}) < n}

NoSummary == [total |-> 0, max |-> Unset, counts |-> <<>>, events |-> 0, top |-> {}]
NoQuery == [kind |-> "none"]

-----------------------------------------------------------------------------
Init ==
    /\ now = 1
    /\ created = [r \in AlertIds |-> 0]
    /\ stored = {}
    /\ pc = "idle" /\ status = 0 /\ query = NoQuery /\ range = <<>> /\ offset = 0
    /\ page = {} /\ total = 0 /\ summary = NoSummary /\ faults = 0
    /\ seen = {} /\ delivered = 0 /\ owed = {} /\ still = TRUE

-----------------------------------------------------------------------------
(* The writers.                                                            *)

Disturb ==
    /\ still' = FALSE
    /\ UNCHANGED <<pc, status, query, range, offset, page, total, summary, faults,
                   seen, delivered, owed>>

Tick ==
    /\ now < MaxNow
    /\ now' = now + 1
    /\ UNCHANGED <<created, stored>>
    /\ Disturb

(* Mutant of BeginAlert: alerts.event_id references nothing.               *)
BeginAlertUnreferenced(r) ==
    /\ created[r] = 0
    /\ created' = [created EXCEPT ![r] = now]
    /\ UNCHANGED <<now, stored>>
    /\ Disturb

(* created_at is now() of the analysis transaction: its start.  Rows of    *)
(* one transaction that commit one by one show a reader all that rows      *)
(* committing together can, and more.                                      *)
BeginAlert(r) ==
    /\ created[r] = 0 /\ EventOf[r] \in stored
    /\ created' = [created EXCEPT ![r] = now]
    /\ UNCHANGED <<now, stored>>
    /\ Disturb

CommitAlert(r) ==
    /\ created[r] # 0 /\ r \notin stored
    /\ stored' = stored \cup {r}
    /\ UNCHANGED <<now, created>>
    /\ Disturb

(* An event may carry any time, earlier or later than now.                 *)
CommitEvent(e) ==
    /\ e \notin stored
    /\ stored' = stored \cup {e}
    /\ UNCHANGED <<now, created>>
    /\ Disturb

-----------------------------------------------------------------------------
(* The reader.                                                             *)

(* require_api_key                                                         *)
Authorized(q) == Caller(KeyEntries, q.header) # NoClient

(* The status of a request that no statement is executed for: 401 without  *)
(* a known key, 400 for a parameter that is refused or without a usable    *)
(* range, 500 for whatever else is raised.  0: none of them.               *)
Refusal(q) ==
    IF ~Authorized(q) THEN 401
    ELSE IF q.limit < 0 THEN 400
    ELSE IF Overflows(q) THEN 500
    ELSE IF ResolveWindow(q, now) = <<>> THEN 400
    ELSE 0

FirstStatement(q) == IF q.kind = "summary" THEN "aggregate" ELSE "page"

(* A request is read and refused, or its first statement comes next.       *)
Begin(q) ==
    /\ pc \in {"idle", "done"}
    /\ query' = q
    /\ status' = Refusal(q)
    /\ \/ status' # 0 /\ pc' = "done" /\ range' = <<>> /\ owed' = {}
       \/ /\ status' = 0
          /\ pc' = FirstStatement(q)
          /\ range' = ResolveWindow(q, now)
          /\ owed' = Matching(q, range')
    /\ offset' = 0 /\ page' = {} /\ total' = 0 /\ summary' = NoSummary
    /\ seen' = {} /\ delivered' = 0 /\ still' = TRUE
    /\ UNCHANGED <<tables, faults>>

(* GET /v1/alerts, the first request of a walk.                            *)
AskAlerts == \E q \in Queries : q.kind = "alerts" /\ Begin(q)

(* GET /v1/agents/{agent_id}/timeline, the first request of a walk.        *)
AskTimeline == \E q \in Queries : q.kind = "timeline" /\ Begin(q)

(* GET /v1/agents/{agent_id}/summary                                       *)
AskSummary == \E q \in Queries : q.kind = "summary" /\ Begin(q)

(* The next request of a walk, or a failed one again: the same parameters, *)
(* resolved anew.                                                          *)
AskMore ==
    /\ pc = "more"
    /\ range' = ResolveWindow(query, now)
    /\ pc' = FirstStatement(query)
    /\ status' = 0
    /\ UNCHANGED <<tables, query, offset, page, total, summary, faults, walk>>

(* LIST_ALERTS_SQL, AGENT_TIMELINE_SQL                                     *)
ReadPage ==
    /\ pc = "page"
    /\ \E P \in SUBSET Matching(query, range) :
         /\ IsPage(P, Matching(query, range), offset, PageSize(query))
         /\ page' = P
    /\ pc' = "count"
    /\ UNCHANGED <<tables, status, query, range, offset, total, summary, faults, walk>>

(* Mutant of CountOf: the alerts of a timeline are forgotten.              *)
CountOfEvents ==
    Cardinality({r \in Matching(query, range) : query.kind = "timeline" => r \in EventIds})

(* COUNT_ALERTS_SQL, COUNT_AGENT_TIMELINE_SQL                              *)
CountOf == Cardinality(Matching(query, range))

(* The second statement and the answer; the client goes on from where the  *)
(* page ended.                                                             *)
ReadCount ==
    /\ pc = "count"
    /\ status' = 200
    /\ total' = CountOf
    /\ offset' = offset + Cardinality(page)
    /\ seen' = seen \cup page
    /\ delivered' = delivered + Cardinality(page)
    /\ pc' = IF HasMore(offset', total') THEN "more" ELSE "done"
    /\ UNCHANGED <<tables, query, range, page, summary, faults, owed, still>>

(* AGENT_SUMMARY_SQL                                                       *)
ReadAggregate ==
    /\ pc = "aggregate"
    /\ LET S == Matching(query, range)
       IN  summary' = [summary EXCEPT
                         !.total = Cardinality(S),
                         !.max = max_of({SeverityOf[r] : r \in S}),
                         !.counts = [s \in {SeverityOf[r] : r \in S} |->
                                       Cardinality({r \in S : SeverityOf[r] = s})]]
    /\ pc' = "events"
    /\ UNCHANGED <<tables, status, query, range, offset, page, total, faults, walk>>

(* COUNT_EVENTS_SQL                                                        *)
ReadEvents ==
    /\ pc = "events"
    /\ summary' = [summary EXCEPT !.events =
         Cardinality({e \in stored \cap EventIds : InRange(e, range) /\ AgentOf[e] = query.agent})]
    /\ pc' = "rules"
    /\ UNCHANGED <<tables, status, query, range, offset, page, total, faults, walk>>

(* TOP_RULES_SQL                                                           *)
ReadRules ==
    /\ pc = "rules"
    /\ summary' = [summary EXCEPT !.top = TopRules(Matching(query, range), TopRulesLimit)]
    /\ pc' = "done"
    /\ status' = 200
    /\ UNCHANGED <<tables, query, range, offset, page, total, faults, walk>>

(* No connection, or a statement that fails: the transaction rolls back,   *)
(* the request is answered 500, and what it had read is gone.              *)
StatementFails ==
    /\ pc \in {"page", "count", "aggregate", "events", "rules"}
    /\ faults < MaxFaults
    /\ faults' = faults + 1
    /\ status' = 500
    /\ pc' = "more"
    /\ page' = {} /\ summary' = NoSummary
    /\ UNCHANGED <<tables, query, range, offset, total, walk>>

Read == ReadPage \/ ReadCount \/ ReadAggregate \/ ReadEvents \/ ReadRules \/ AskMore

Next ==
    \/ Tick
    \/ \E r \in AlertIds : BeginAlert(r) \/ CommitAlert(r)
    \/ \E e \in EventIds : CommitEvent(e)
    \/ AskAlerts
    \/ AskTimeline
    \/ AskSummary
    \/ Read
    \/ StatementFails

Spec == Init /\ [][Next]_vars

(* Postgres executes the statements, and the client asks for what has_more *)
(* promises it, and again after a 500.                                     *)
FairSpec == Spec /\ WF_vars(Read)

-----------------------------------------------------------------------------
(* Properties.                                                             *)

Paged == query # NoQuery /\ query.kind # "summary" /\ range # <<>>

(* Every variable keeps its type; what is read is committed, and what is   *)
(* committed has its time of creation.                                     *)
TypeOK ==
    /\ now \in 1 .. MaxNow
    /\ created \in [AlertIds -> 0 .. now]
    /\ stored \subseteq Rows
    /\ \A r \in stored \cap AlertIds : created[r] # 0 /\ EventOf[r] \in stored
    /\ pc \in {"idle", "page", "count", "more", "aggregate", "events", "rules", "done"}
    /\ query \in Queries \cup {NoQuery}
    /\ range \in {<<>>} \cup (Int \X Int)
    /\ pc \notin {"idle", "done"} => range # <<>>
    /\ offset \in Nat /\ total \in Nat /\ delivered \in Nat
    /\ status \in {0, 200, 400, 401, 500} /\ faults \in 0 .. MaxFaults
    /\ status = 200 => range # <<>>
    /\ page \subseteq stored /\ seen \subseteq stored /\ owed \subseteq stored
    /\ summary.total \in Nat /\ summary.max \in Range(Severity) \cup {Unset}
    /\ DOMAIN summary.counts \subseteq Range(Severity) /\ summary.events \in Nat
    /\ summary.top \subseteq [rule : Nat, count : Nat]
    /\ still \in BOOLEAN

(* A walk that ends has returned every row that matched when it began and  *)
(* still does, although rows were committed above and below its offset,    *)
(* the count ran on another snapshot than the page, a relative window      *)
(* moved under it, and requests failed and were sent again.                *)
WalkSeesAll ==
    Paged /\ pc = "done" => \A r \in owed : InRange(r, range) => r \in seen

(* The total may be ahead of the page it comes with, never behind it.      *)
TotalCoversPage ==
    Paged /\ status = 200 /\ page # {} => offset <= total

(* "No id appears in two pages": without writers a walk returns every row  *)
(* exactly once, the ones with equal timestamps included.                  *)
QuietWalkRepeatsNothing ==
    Paged /\ pc = "done" /\ still => seen = owed /\ delivered = Cardinality(owed)

(* Top rules that are not cut off account for every alert of the total,    *)
(* although they are read later.                                           *)
SummaryNeverShort ==
    query # NoQuery /\ query.kind = "summary" /\ pc = "done" /\ range # <<>>
      /\ Cardinality(summary.top) < TopRulesLimit
    => MapThenSumSet(LAMBDA f : f.count, summary.top) >= summary.total

(* Every walk comes to its end once the writers pause.                     *)
EveryWalkEnds == (pc # "idle") ~> (pc = "done")

(* "The page and the total cannot disagree about how many rows exist": the *)
(* page is as long as the total and the offset make it.                    *)
PageAgreesWithTotal ==
    Paged /\ status = 200 =>
      LET before == offset - Cardinality(page)
      IN  Cardinality(page) = IF total <= before THEN 0
                              ELSE IF total - before < PageSize(query) THEN total - before
                              ELSE PageSize(query)

(* "Every endpoint accepts since and until": no row later than the until   *)
(* that was given.                                                         *)
UntilRespected ==
    Paged /\ query.until # 0 => \A r \in seen : At(r) <= query.until
=============================================================================
