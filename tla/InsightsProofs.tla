--------------------------- MODULE InsightsProofs ---------------------------
(***************************************************************************)
(* What the reader of the insights service may rely on, whatever is        *)
(* committed between the pages it asks for and between the statements of   *)
(* one page.                                                               *)
(***************************************************************************)
EXTENDS Insights, OrderLemmas

(* ORDER BY ts DESC, id                                                    *)
Order == {j \in Rows \X Rows : Newer(j[1], j[2])}

(* What the statements of the current request find.                        *)
Found == Matching(query, range)

(* A request that statements are executed for has parameters that are      *)
(* accepted and a range that a later resolution only moves forward.        *)
Accepted ==
    pc \notin {"idle", "done"} =>
        /\ query \in Queries /\ query.limit >= 0
        /\ range \in Int \X Int /\ ResolveWindow(query, now) \in Int \X Int
        /\ range[1] <= ResolveWindow(query, now)[1]
        /\ range[2] <= ResolveWindow(query, now)[2]
        /\ pc \in {"page", "count"} => query.kind # "summary" /\ status # 200
        /\ pc \in {"aggregate", "events", "rules"} => query.kind = "summary"

SummaryShape ==
    summary = [total |-> summary.total, max |-> summary.max, counts |-> summary.counts,
               events |-> summary.events, top |-> summary.top]

(* An alert is inserted for an event its analysis could read.              *)
AlertsFollowEvents == \A r \in AlertIds : created[r] # 0 => EventOf[r] \in stored

Types == TypeOK /\ Accepted /\ SummaryShape /\ AlertsFollowEvents

Walking == pc \in {"page", "count", "more"} /\ query.kind # "summary"

(* The count will find the rows before the page and those of the page.     *)
PageCounted ==
    pc = "count" /\ page # {} => offset + Cardinality(page) <= Cardinality(Found)

(* What was owed is found again, unless the window has left it behind.     *)
OwedIsFound ==
    Walking => \A s \in owed : At(s) <= range[2] /\ (range[1] <= At(s) => s \in Found)

(* What has not been returned is not before the next page; if the current  *)
(* page leaves some of it, it is a full one.                               *)
LeftIsAhead ==
    Walking => \A s \in owed : InRange(s, range) =>
        \/ s \in seen
        \/ /\ offset <= Place(Order, Found, s)
           /\ pc = "count" => \/ s \in page
                              \/ /\ Cardinality(page) = PageSize(query)
                                 /\ offset + PageSize(query) <= Place(Order, Found, s)

(* Without writers a walk has returned the rows before its offset, once.   *)
QuietSoFar ==
    Walking /\ still =>
        /\ range = ResolveWindow(query, now) /\ owed = Found
        /\ seen = {r \in Found : Place(Order, Found, r) < offset}
        /\ delivered = Cardinality(seen)
        /\ pc = "count" => page = Cut(Order, Found, offset, PageSize(query))

WalkInv ==
    /\ Types
    /\ PageCounted /\ TotalCoversPage
    /\ OwedIsFound /\ LeftIsAhead /\ WalkSeesAll
    /\ QuietSoFar /\ QuietWalkRepeatsNothing

-----------------------------------------------------------------------------
(* Facts about the operators.                                              *)

(* Of some severities one is the highest.                                  *)
LEMMA HighestSeverity ==
    ASSUME NEW S \in SUBSET Range(Severity)
    PROVE  max_of(S) \in Range(Severity) \cup {Unset}
<1>1. CASE S = {}
  BY <1>1 DEF max_of
<1>2. CASE S # {}
  <2>1. \A s \in Range(Severity) : rank(s) \in 1 .. 4
    <3>1. DOMAIN Severity = 1 .. 4
      BY DEF Severity
    <3>2. \A s \in Range(Severity) : \E i \in DOMAIN Severity : Severity[i] = s
      BY DEF Range
    <3>. QED BY <3>1, <3>2 DEF rank
  <2>. DEFINE T == {rank(s) : s \in S}
  <2>2. T \in SUBSET Nat /\ T # {} /\ \A n \in T : n <= 4
    BY <1>2, <2>1
  <2>3. PICK n \in T : \A m \in T : m <= n
    <3>. HIDE DEF T
    <3>. QED BY <2>2, GreatestNumber
  <2>4. \E s \in S : \A t \in S : rank(t) <= rank(s)
    BY <2>3
  <2>. QED BY <1>2, <2>4 DEF max_of
<1>. QED BY <1>1, <1>2

(* A range that can be resolved can be resolved later, and moves forward.  *)
LEMMA WindowMovesForward ==
    ASSUME NEW q \in Query, NEW t \in Nat, NEW u \in Nat, t <= u,
           ResolveWindow(q, t) # <<>>
    PROVE  /\ ResolveWindow(q, t) \in Int \X Int /\ ResolveWindow(q, u) \in Int \X Int
           /\ ResolveWindow(q, t)[1] <= ResolveWindow(q, u)[1]
           /\ ResolveWindow(q, t)[2] <= ResolveWindow(q, u)[2]
<1>1. q.since \in Nat /\ q.until \in Nat /\ q.window \in Int /\ DefaultSpan \in Nat
  BY InsightsAssumption DEF Query
<1>2. CASE q.since # 0 /\ q.until # 0
  BY <1>1, <1>2 DEF ResolveWindow
<1>3. CASE q.since # 0 /\ q.until = 0
  BY <1>1, <1>3 DEF ResolveWindow
<1>4. CASE q.since = 0 /\ q.window # 0
  BY <1>1, <1>4 DEF ResolveWindow
<1>5. CASE q.since = 0 /\ q.window = 0
  BY <1>1, <1>5 DEF ResolveWindow
<1>. QED BY <1>2, <1>3, <1>4, <1>5

(* A page holds at least one row.                                          *)
LEMMA PageSizeType ==
    ASSUME NEW q \in Query, q.limit >= 0
    PROVE  PageSize(q) \in Nat \ {0}
<1>1. q.limit \in Int /\ DefaultPageSize \in Nat \ {0} /\ MaxPageSize \in Nat \ {0}
  BY InsightsAssumption DEF Query
<1>. QED BY <1>1 DEF PageSize

(* Rows are finitely many.                                                 *)
LEMMA RowSets ==
    ASSUME NEW S \in SUBSET Rows
    PROVE  IsFiniteSet(S) /\ Cardinality(S) \in Nat
<1>1. IsFiniteSet(Rows)
  BY InsightsAssumption, FS_Union DEF Rows
<1>. QED BY <1>1, FS_Subset, FS_CardinalityType

(* What is found is committed.                                             *)
LEMMA FoundIsStored ==
    ASSUME TypeOK, NEW q, NEW w
    PROVE  /\ Matching(q, w) \subseteq stored /\ Matching(q, w) \in SUBSET Rows
           /\ IsFiniteSet(Matching(q, w)) /\ Cardinality(Matching(q, w)) \in Nat
<1>1. Matching(q, w) \subseteq stored /\ Matching(q, w) \in SUBSET Rows
  BY DEF Matching, TypeOK
<1>. QED BY <1>1, RowSets

(* Times and ids order the rows.                                           *)
LEMMA RowsAreOrdered ==
    ASSUME TypeOK, NEW S \in SUBSET Rows
    PROVE  Orders(Order, S)
<1>1. IsFiniteSet(S)
  BY RowSets
<1>2. \A r \in S : r \in Nat /\ At(r) \in Nat
  <2>1. \A r \in AlertIds : r \in Nat /\ created[r] \in Nat
    BY InsightsAssumption DEF TypeOK
  <2>2. \A r \in EventIds : r \in Nat /\ OccurredAt[r] \in Nat
    BY InsightsAssumption
  <2>. QED BY <2>1, <2>2 DEF At, Rows
<1>3. \A r, s \in S : <<r, s>> \in Order <=> (At(r) > At(s) \/ (At(r) = At(s) /\ r < s))
  BY DEF Order, Newer
<1>. HIDE DEF Order, At
<1>4. \A r \in S : <<r, r>> \notin Order
  BY <1>2, <1>3
<1>5. ASSUME NEW r \in S, NEW s \in S PROVE r = s \/ <<r, s>> \in Order \/ <<s, r>> \in Order
  <2>1. r \in Nat /\ s \in Nat /\ At(r) \in Nat /\ At(s) \in Nat
    BY <1>2
  <2>2. r = s \/ r < s \/ s < r
    BY <2>1
  <2>3. At(r) > At(s) \/ At(s) > At(r) \/ At(r) = At(s)
    BY <2>1
  <2>. QED BY <1>3, <2>2, <2>3
<1>6. \A r, s, t \in S : <<r, s>> \in Order /\ <<s, t>> \in Order => <<r, t>> \in Order
  BY <1>2, <1>3
<1>. QED BY <1>1, <1>4, <1>5, <1>6 DEF Orders

(* IsPage is LIMIT and OFFSET in that order.                               *)
LEMMA PageIsCut ==
    ASSUME TypeOK, NEW S \in SUBSET Rows, NEW k \in Nat, NEW n \in Nat, NEW P, IsPage(P, S, k, n)
    PROVE  P = Cut(Order, S, k, n)
<1>1. \A r \in S : {t \in S : Newer(t, r)} = Ahead(Order, S, r)
  BY DEF Ahead, Order
<1>2. \A r \in S : Place(Order, S, r) \in Nat
  BY RowsAreOrdered, PlaceType DEF Orders
<1>3. P = {r \in S : Place(Order, S, r) \in k .. k + n - 1}
  BY <1>1 DEF IsPage, Place
<1>. QED BY <1>2, <1>3 DEF Cut

-----------------------------------------------------------------------------
(* Types.                                                                  *)

(* The empty figures of a request that has read nothing.                   *)
LEMMA NoSummaryType ==
    /\ NoSummary.total \in Nat /\ NoSummary.max \in Range(Severity) \cup {Unset}
    /\ DOMAIN NoSummary.counts \subseteq Range(Severity) /\ NoSummary.events \in Nat
    /\ NoSummary.top \subseteq [rule : Nat, count : Nat]
    /\ NoSummary = [total |-> NoSummary.total, max |-> NoSummary.max,
                    counts |-> NoSummary.counts, events |-> NoSummary.events,
                    top |-> NoSummary.top]
<1>1. DOMAIN <<>> = {}
  OBVIOUS
<1>. QED BY <1>1 DEF NoSummary

(* The tables start empty, and nobody has asked anything.                  *)
LEMMA TypesInit == Init => Types
<1>. SUFFICES ASSUME Init PROVE Types
  OBVIOUS
<1>1. Accepted
  BY DEF Init, Accepted
<1>2. SummaryShape
  BY NoSummaryType DEF Init, SummaryShape
<1>3. TypeOK
  BY NoSummaryType, InsightsAssumption DEF Init, TypeOK
<1>4. AlertsFollowEvents
  BY DEF Init, AlertsFollowEvents
<1>. QED BY <1>1, <1>2, <1>3, <1>4 DEF Types

(* What a writer does: rows are added, and none changes its time.          *)
LEMMA WritersAdd ==
    ASSUME Types,
           \/ Tick
           \/ \E r \in AlertIds : BeginAlert(r) \/ CommitAlert(r)
           \/ \E e \in EventIds : CommitEvent(e)
    PROVE  /\ Types'
           /\ stored \subseteq stored' /\ \A r \in stored : At(r)' = At(r)
           /\ still' = FALSE
           /\ UNCHANGED <<pc, status, query, range, offset, page, total, summary, faults,
                          seen, delivered, owed>>
<1>. USE InsightsAssumption
<1>1. /\ still' = FALSE
      /\ UNCHANGED <<pc, status, query, range, offset, page, total, summary, faults,
                     seen, delivered, owed>>
  BY DEF Tick, BeginAlert, CommitAlert, CommitEvent, Disturb
<1>2. stored \subseteq stored' /\ now' \in 1 .. MaxNow /\ now <= now'
  BY DEF Tick, BeginAlert, CommitAlert, CommitEvent, Types, TypeOK
<1>3. /\ created' \in [AlertIds -> 0 .. now'] /\ stored' \subseteq Rows
      /\ \A r \in AlertIds : created[r] # 0 => created'[r] = created[r]
      /\ AlertsFollowEvents'
      /\ \A r \in stored' \cap AlertIds : created'[r] # 0 /\ EventOf[r] \in stored'
  <2>1. CASE Tick
    BY <2>1 DEF Tick, Types, TypeOK, AlertsFollowEvents
  <2>2. ASSUME NEW r \in AlertIds, BeginAlert(r) PROVE <1>3!:
    BY <2>2 DEF BeginAlert, Types, TypeOK, AlertsFollowEvents
  <2>3. ASSUME NEW r \in AlertIds, CommitAlert(r) PROVE <1>3!:
    BY <2>3 DEF CommitAlert, Types, TypeOK, AlertsFollowEvents, Rows
  <2>4. ASSUME NEW e \in EventIds, CommitEvent(e) PROVE <1>3!:
    <3>1. e \notin AlertIds
      <4>1. e \in Nat /\ \A r \in AlertIds : r < e
        BY <2>4
      <4>. QED BY <4>1
    <3>. QED BY <2>4, <3>1 DEF CommitEvent, Types, TypeOK, AlertsFollowEvents, Rows
  <2>. QED BY <2>1, <2>2, <2>3, <2>4
<1>4. \A r \in stored : At(r)' = At(r)
  <2>0. \A r \in stored \cap AlertIds : created[r] # 0
    BY DEF Types, TypeOK
  <2>1. \A r \in stored \cap AlertIds : created'[r] = created[r]
    BY <1>3, <2>0
  <2>. QED BY <2>1 DEF At
<1>5. TypeOK'
  <2>1. page' \subseteq stored' /\ seen' \subseteq stored' /\ owed' \subseteq stored'
    BY <1>1, <1>2 DEF Types, TypeOK
  <2>2. \A r \in stored' \cap AlertIds : created'[r] # 0 /\ EventOf[r] \in stored'
    BY <1>3
  <2>3. /\ pc' \in {"idle", "page", "count", "more", "aggregate", "events", "rules", "done"}
        /\ query' \in Queries \cup {NoQuery}
        /\ range' \in {<<>>} \cup (Int \X Int)
        /\ pc' \notin {"idle", "done"} => range' # <<>>
        /\ offset' \in Nat /\ total' \in Nat /\ delivered' \in Nat
        /\ status' \in {0, 200, 400, 401, 500} /\ faults' \in 0 .. MaxFaults
        /\ status' = 200 => range' # <<>>
    BY <1>1 DEF Types, TypeOK
  <2>4. /\ summary'.total \in Nat /\ summary'.max \in Range(Severity) \cup {Unset}
        /\ DOMAIN summary'.counts \subseteq Range(Severity) /\ summary'.events \in Nat
        /\ summary'.top \subseteq [rule : Nat, count : Nat]
    BY <1>1, Zenon DEF Types, TypeOK
  <2>5. now' \in 1 .. MaxNow /\ created' \in [AlertIds -> 0 .. now'] /\ stored' \subseteq Rows
    BY <1>2, <1>3
  <2>6. still' \in BOOLEAN
    BY <1>1
  <2>. QED BY <2>1, <2>2, <2>3, <2>4, <2>5, <2>6, Zenon DEF TypeOK
<1>6. Accepted'
  <2>. SUFFICES ASSUME pc \notin {"idle", "done"}
                PROVE  /\ ResolveWindow(query, now') \in Int \X Int
                       /\ range[1] <= ResolveWindow(query, now')[1]
                       /\ range[2] <= ResolveWindow(query, now')[2]
    BY <1>1 DEF Types, Accepted
  <2>1. /\ query \in Query /\ now \in Nat /\ now' \in Nat /\ ResolveWindow(query, now) # <<>>
        /\ range \in Int \X Int /\ ResolveWindow(query, now) \in Int \X Int
    BY <1>2 DEF Types, Accepted, TypeOK
  <2>2. /\ ResolveWindow(query, now') \in Int \X Int
        /\ ResolveWindow(query, now)[1] <= ResolveWindow(query, now')[1]
        /\ ResolveWindow(query, now)[2] <= ResolveWindow(query, now')[2]
    BY <1>2, <2>1, WindowMovesForward
  <2>. QED BY <2>1, <2>2 DEF Types, Accepted
<1>7. SummaryShape'
  BY <1>1 DEF Types, SummaryShape
<1>. QED BY <1>1, <1>2, <1>3, <1>4, <1>5, <1>6, <1>7 DEF Types

(* The request in hand is one of the queries, with a range and a limit.    *)
LEMMA InHand ==
    ASSUME Types, pc \notin {"idle", "done"}
    PROVE  /\ query \in Query /\ query \in Queries
           /\ PageSize(query) \in Nat \ {0}
           /\ range \in Int \X Int /\ range # <<>>
           /\ ResolveWindow(query, now) \in Int \X Int
           /\ ResolveWindow(query, now) # <<>>
<1>1. query \in Queries /\ query \in Query /\ query.limit >= 0
  BY InsightsAssumption DEF Types, Accepted
<1>2. range \in Int \X Int /\ ResolveWindow(query, now) \in Int \X Int
  BY DEF Types, Accepted
<1>3. range # <<>> /\ ResolveWindow(query, now) # <<>>
  BY <1>2
<1>. QED BY <1>1, <1>2, <1>3, PageSizeType

(* A request that is accepted has a range at once, which is still that of  *)
(* its first statement.                                                    *)
LEMMA BeginTypes ==
    ASSUME Types, NEW q \in Queries, Begin(q)
    PROVE  Types' /\ (pc' # "done" => /\ range' = ResolveWindow(q, now)
                                      /\ range' \in Int \X Int
                                      /\ pc' = FirstStatement(q))
<1>1. /\ status' = Refusal(q) /\ query' = q /\ offset' = 0 /\ page' = {} /\ total' = 0
      /\ summary' = NoSummary /\ seen' = {} /\ delivered' = 0 /\ still' = TRUE
      /\ UNCHANGED <<now, created, stored, faults>>
  BY DEF Begin, tables
<1>2. q \in Query /\ q.limit \in Int /\ now \in Nat
  <2>1. q \in Query
    BY InsightsAssumption
  <2>2. q.limit \in Int
    BY <2>1 DEF Query
  <2>3. now \in Nat
    BY DEF Types, TypeOK
  <2>. QED BY <2>1, <2>2, <2>3
<1>3. Refusal(q) \in {0, 400, 401, 500}
  BY DEF Refusal
<1>4. CASE status' # 0
  <2>1. pc' = "done" /\ range' = <<>> /\ owed' = {}
    BY <1>4 DEF Begin
  <2>2. TypeOK'
    BY <1>1, <1>2, <1>3, <2>1, NoSummaryType DEF Types, TypeOK
  <2>3. Accepted' /\ SummaryShape' /\ AlertsFollowEvents'
    BY <1>1, <2>1, NoSummaryType DEF Accepted, SummaryShape, AlertsFollowEvents, Types
  <2>. QED BY <2>1, <2>2, <2>3 DEF Types
<1>5. CASE status' = 0
  <2>1. pc' = FirstStatement(q) /\ range' = ResolveWindow(q, now) /\ owed' = Matching(q, range')
    BY <1>5 DEF Begin
  <2>2. q.limit >= 0 /\ ResolveWindow(q, now) # <<>>
    BY <1>1, <1>2, <1>5 DEF Refusal
  <2>3. ResolveWindow(q, now) \in Int \X Int
    BY <1>2, <2>2, WindowMovesForward
  <2>4. owed' \subseteq stored
    BY <2>1, FoundIsStored DEF Types
  <2>5. ResolveWindow(q, now)[1] \in Int /\ ResolveWindow(q, now)[2] \in Int
    BY <2>3
  <2>6. TypeOK'
    BY <1>1, <1>2, <1>3, <1>5, <2>1, <2>2, <2>3, <2>4, NoSummaryType
    DEF Types, TypeOK, FirstStatement
  <2>7. Accepted'
    BY <1>1, <1>5, <2>1, <2>2, <2>3, <2>5 DEF Accepted, FirstStatement
  <2>8. SummaryShape' /\ AlertsFollowEvents'
    BY <1>1, NoSummaryType DEF SummaryShape, AlertsFollowEvents, Types
  <2>. QED BY <2>1, <2>3, <2>6, <2>7, <2>8 DEF Types
<1>. QED BY <1>4, <1>5

(* The same parameters resolve again, to a range that is no earlier.       *)
LEMMA AskMoreTypes ==
    ASSUME Types, AskMore
    PROVE  /\ Types' /\ range'[1] >= range[1] /\ range'[2] >= range[2]
           /\ range' \in Int \X Int
<1>1. /\ pc = "more" /\ range' = ResolveWindow(query, now) /\ pc' = FirstStatement(query)
      /\ status' = 0
      /\ UNCHANGED <<now, created, stored, query, offset, page, total, summary, faults,
                     seen, delivered, owed, still>>
  BY DEF AskMore, tables, walk
<1>2. /\ range' \in Int \X Int /\ range' # <<>> /\ range \in Int \X Int
  BY <1>1, InHand
<1>3. range'[1] \in Int /\ range'[2] \in Int
  BY <1>2
<1>4. range'[1] >= range[1] /\ range'[2] >= range[2]
  BY <1>1 DEF Types, Accepted
<1>5. TypeOK'
  BY <1>1, <1>2 DEF Types, TypeOK, FirstStatement
<1>6. Accepted'
  BY <1>1, <1>2, <1>3 DEF Types, Accepted, FirstStatement
<1>7. SummaryShape' /\ AlertsFollowEvents'
  BY <1>1 DEF SummaryShape, AlertsFollowEvents, Types
<1>. QED BY <1>2, <1>4, <1>5, <1>6, <1>7 DEF Types

(* The statements of a page.                                               *)
LEMMA PageTypes ==
    ASSUME Types, ReadPage \/ ReadCount
    PROVE  Types'
<1>1. UNCHANGED <<now, created, stored, query, range, summary, faults, owed, still>>
  BY DEF ReadPage, ReadCount, tables, walk
<1>2. SummaryShape' /\ AlertsFollowEvents'
  BY <1>1 DEF SummaryShape, AlertsFollowEvents, Types
<1>3. pc \notin {"idle", "done"} /\ query.kind # "summary" /\ range # <<>>
  BY InHand DEF ReadPage, ReadCount, Types, Accepted
<1>4. CASE ReadPage
  <2>1. /\ page' \subseteq stored /\ pc' = "count"
        /\ UNCHANGED <<status, offset, total, seen, delivered>>
    BY <1>4, FoundIsStored DEF ReadPage, walk, Types
  <2>2. TypeOK'
    BY <1>1, <2>1, <1>3 DEF Types, TypeOK
  <2>3. Accepted'
    BY <1>1, <1>3, <1>4, <2>1 DEF ReadPage, Types, Accepted
  <2>. QED BY <1>2, <2>2, <2>3 DEF Types
<1>5. CASE ReadCount
  <2>1. /\ Cardinality(page) \in Nat /\ CountOf \in Nat
    <3>1. page \in SUBSET Rows
      BY DEF Types, TypeOK
    <3>. QED BY <3>1, RowSets, FoundIsStored DEF CountOf, Types
  <2>2. /\ status' = 200 /\ total' = CountOf /\ offset' = offset + Cardinality(page)
        /\ seen' = seen \cup page /\ delivered' = delivered + Cardinality(page)
        /\ pc' \in {"more", "done"} /\ page' = page
    BY <1>5 DEF ReadCount
  <2>3. TypeOK'
    <3>1. /\ offset' \in Nat /\ total' \in Nat /\ delivered' \in Nat
          /\ page' \subseteq stored' /\ seen' \subseteq stored' /\ owed' \subseteq stored'
      BY <1>1, <2>1, <2>2 DEF Types, TypeOK
    <3>. QED BY <1>1, <1>3, <2>2, <3>1 DEF Types, TypeOK
  <2>4. Accepted'
    BY <1>1, <1>3, <2>2 DEF Types, Accepted
  <2>. QED BY <1>2, <2>3, <2>4 DEF Types
<1>. QED BY <1>4, <1>5

(* The statements of a summary.                                            *)
LEMMA SummaryTypes ==
    ASSUME Types, ReadAggregate \/ ReadEvents \/ ReadRules
    PROVE  Types'
<1>1. UNCHANGED <<now, created, stored, query, range, offset, page, total, faults,
                  seen, delivered, owed, still>>
  BY DEF ReadAggregate, ReadEvents, ReadRules, tables, walk
<1>2. /\ pc \notin {"idle", "done"} /\ query.kind = "summary" /\ range # <<>>
      /\ pc' \in {"events", "rules", "done"} /\ status' \in {status, 200}
  BY InHand DEF ReadAggregate, ReadEvents, ReadRules, Types, Accepted
<1>. DEFINE S == Matching(query, range)
<1>3. S \subseteq AlertIds /\ IsFiniteSet(S)
  <2>1. \A r \in S : query.kind # "timeline" => r \in AlertIds
    BY DEF Matching
  <2>2. IsFiniteSet(S)
    BY FoundIsStored DEF Types
  <2>. HIDE DEF S
  <2>. QED BY <1>2, <2>1, <2>2
<1>4. \A T \in SUBSET S : Cardinality(T) \in Nat
  <2>. HIDE DEF S
  <2>. QED BY <1>3, FS_Subset, FS_CardinalityType
<1>5. /\ summary'.total \in Nat /\ summary'.max \in Range(Severity) \cup {Unset}
      /\ DOMAIN summary'.counts \subseteq Range(Severity) /\ summary'.events \in Nat
      /\ summary'.top \subseteq [rule : Nat, count : Nat]
      /\ SummaryShape'
  <2>0. /\ summary.total \in Nat /\ summary.max \in Range(Severity) \cup {Unset}
        /\ DOMAIN summary.counts \subseteq Range(Severity) /\ summary.events \in Nat
        /\ summary.top \subseteq [rule : Nat, count : Nat]
    BY DEF Types, TypeOK
  <2>1. CASE ReadAggregate
    <3>. DEFINE c == [s \in {SeverityOf[r] : r \in S} |->
                        Cardinality({r \in S : SeverityOf[r] = s})]
                m == max_of({SeverityOf[r] : r \in S})
                n == Cardinality(S)
    <3>1. {SeverityOf[r] : r \in S} \in SUBSET Range(Severity)
      BY <1>3, InsightsAssumption
    <3>2. n \in Nat /\ m \in Range(Severity) \cup {Unset} /\ DOMAIN c \subseteq Range(Severity)
      BY <1>4, <3>1, HighestSeverity
    <3>3. summary' = [summary EXCEPT !.total = n, !.max = m, !.counts = c]
      BY <2>1 DEF ReadAggregate
    <3>. HIDE DEF c, m, n, S
    <3>4. summary' = [total |-> n, max |-> m, counts |-> c, events |-> summary.events,
                      top |-> summary.top]
      BY <3>3 DEF Types, SummaryShape
    <3>. QED BY <2>0, <3>2, <3>4 DEF SummaryShape
  <2>2. CASE ReadEvents
    <3>. DEFINE n == Cardinality({e \in stored \cap EventIds :
                                    InRange(e, range) /\ AgentOf[e] = query.agent})
    <3>1. n \in Nat
      <4>1. {e \in stored \cap EventIds : InRange(e, range) /\ AgentOf[e] = query.agent}
              \in SUBSET EventIds
        OBVIOUS
      <4>. QED BY <4>1, InsightsAssumption, FS_Subset, FS_CardinalityType
    <3>2. summary' = [summary EXCEPT !.events = n]
      BY <2>2 DEF ReadEvents
    <3>. HIDE DEF n
    <3>3. summary' = [total |-> summary.total, max |-> summary.max, counts |-> summary.counts,
                      events |-> n, top |-> summary.top]
      BY <3>2 DEF Types, SummaryShape
    <3>. QED BY <2>0, <3>1, <3>3 DEF SummaryShape
  <2>3. CASE ReadRules
    <3>. DEFINE t == TopRules(S, TopRulesLimit)
    <3>1. t \subseteq [rule : Nat, count : Nat]
      <4>1. \A r \in S : RuleOf[r] \in Nat
        BY <1>3, InsightsAssumption
      <4>2. Frequency(S) \subseteq [rule : Nat, count : Nat]
        <5>. HIDE DEF S
        <5>1. \A i : Cardinality({r \in S : RuleOf[r] = i}) \in Nat
          BY <1>4
        <5>2. ASSUME NEW r \in S
              PROVE  [rule |-> RuleOf[r], count |-> Cardinality({x \in S : RuleOf[x] = RuleOf[r]})]
                        \in [rule : Nat, count : Nat]
          BY <4>1, <5>1
        <5>3. ASSUME NEW f \in Frequency(S)
              PROVE  \E r \in S : f = [rule |-> RuleOf[r],
                                      count |-> Cardinality({x \in S : RuleOf[x] = RuleOf[r]})]
          BY <5>3, Zenon DEF Frequency
        <5>. QED BY <5>2, <5>3
      <4>. QED BY <4>2 DEF TopRules
    <3>2. summary' = [summary EXCEPT !.top = t]
      BY <2>3 DEF ReadRules
    <3>. HIDE DEF t
    <3>3. summary' = [total |-> summary.total, max |-> summary.max, counts |-> summary.counts,
                      events |-> summary.events, top |-> t]
      BY <3>2 DEF Types, SummaryShape
    <3>. QED BY <2>0, <3>1, <3>3 DEF SummaryShape
  <2>. QED BY <2>1, <2>2, <2>3
<1>6. TypeOK'
  <2>1. status' \in {0, 200, 400, 401, 500}
    BY <1>2 DEF Types, TypeOK
  <2>. QED BY <1>1, <1>2, <1>5, <2>1 DEF Types, TypeOK
<1>7. Accepted'
  <2>1. pc' \in {"events", "rules"} \/ pc' = "done"
    BY <1>2
  <2>. QED BY <1>1, <1>2, <2>1 DEF Types, Accepted
<1>8. AlertsFollowEvents'
  BY <1>1 DEF AlertsFollowEvents, Types
<1>. QED BY <1>5, <1>6, <1>7, <1>8 DEF Types

(* A request that fails is about to be sent again.                         *)
LEMMA FailTypes ==
    ASSUME Types, StatementFails
    PROVE  Types'
<1>1. /\ pc \notin {"idle", "done"} /\ pc' = "more" /\ status' = 500
      /\ page' = {} /\ summary' = NoSummary /\ faults' \in 0 .. MaxFaults
      /\ UNCHANGED <<now, created, stored, query, range, offset, total,
                     seen, delivered, owed, still>>
  BY InsightsAssumption DEF StatementFails, tables, walk, Types, TypeOK
<1>2. range # <<>>
  BY <1>1, InHand
<1>3. TypeOK'
  BY <1>1, <1>2, NoSummaryType DEF Types, TypeOK
<1>4. Accepted'
  BY <1>1 DEF Types, Accepted
<1>5. SummaryShape' /\ AlertsFollowEvents'
  BY <1>1, NoSummaryType DEF SummaryShape, AlertsFollowEvents, Types
<1>. QED BY <1>3, <1>4, <1>5 DEF Types

(* Every step keeps the types.                                             *)
LEMMA TypesStep == Types /\ [Next]_vars => Types'
<1>1. ASSUME Types, UNCHANGED vars PROVE Types'
  <2>1. TypeOK'
    BY <1>1 DEF Types, TypeOK, vars, tables, walk
  <2>2. Accepted'
    BY <1>1 DEF Types, Accepted, vars, tables, walk
  <2>3. SummaryShape' /\ AlertsFollowEvents'
    BY <1>1 DEF Types, SummaryShape, AlertsFollowEvents, vars, tables, walk
  <2>. QED BY <2>1, <2>2, <2>3 DEF Types
<1>. QED
  BY <1>1, WritersAdd, BeginTypes, AskMoreTypes, PageTypes, SummaryTypes, FailTypes
  DEF Next, Read, AskAlerts, AskTimeline, AskSummary

(* Type correctness of the reader and the tables, for any queries, rows,   *)
(* limits and window lengths.                                              *)
THEOREM InsightsTypeOK == Spec => []TypeOK
<1>1. Types => TypeOK
  BY DEF Types
<1>. QED BY <1>1, TypesInit, TypesStep, PTL DEF Spec

-----------------------------------------------------------------------------
(* Places.                                                                 *)

(* The part of the WHERE clauses that no clock and no writer can change.   *)
Fits(q, r) ==
    /\ q.agent \in {0, AgentOf[r]}
    /\ q.kind # "timeline" => r \in AlertIds
    /\ q.kind = "alerts" => /\ q.rule \in {0, RuleOf[r]}
                            /\ \/ q.severity_min = Unset
                               \/ rank(SeverityOf[r]) >= rank(q.severity_min)

(* A row is found when it is stored, fits and lies in the range.           *)
LEMMA FoundMeans == Found = {r \in stored : InRange(r, range) /\ Fits(query, r)}
BY DEF Found, Matching, Fits

(* A place among the rows found is a number.                               *)
LEMMA FoundPlaces ==
    ASSUME Types
    PROVE  /\ Orders(Order, Found) /\ Found \in SUBSET stored /\ IsFiniteSet(Found)
           /\ Cardinality(Found) \in Nat
           /\ \A s : Place(Order, Found, s) \in Nat
<1>1. /\ Found \in SUBSET stored /\ Found \in SUBSET Rows /\ IsFiniteSet(Found)
      /\ Cardinality(Found) \in Nat
  BY FoundIsStored DEF Found, Types
<1>2. Orders(Order, Found)
  BY <1>1, RowsAreOrdered DEF Types
<1>. QED BY <1>1, <1>2, PlaceType

(* Times are numbers.                                                      *)
LEMMA TimesAreNumbers ==
    ASSUME Types, NEW r \in Rows
    PROVE  At(r) \in Nat
<1>1. \A s \in AlertIds : created[s] \in Nat
  BY DEF Types, TypeOK
<1>2. \A s \in EventIds : OccurredAt[s] \in Nat
  BY InsightsAssumption
<1>. QED BY <1>1, <1>2 DEF At, Rows

(* Rows are only added and a range only moves forward: what stays within   *)
(* the range is found again, behind everything that was before it.         *)
LEMMA FoundAgain ==
    ASSUME Types, Types', stored \subseteq stored', \A r \in stored : At(r)' = At(r),
           query' = query, range \in Int \X Int, range' \in Int \X Int,
           range[1] <= range'[1], range[2] <= range'[2],
           NEW s \in stored, range'[1] <= At(s)
    PROVE  /\ s \in Found => s \in Found'
           /\ Place(Order, Found, s) <= Place(Order, Found, s)'
<1>1. \A r \in stored : r \in Rows /\ At(r) \in Nat /\ r \in stored' /\ At(r)' = At(r)
  <2>1. stored \subseteq Rows
    BY DEF Types, TypeOK
  <2>. QED BY <2>1, TimesAreNumbers
<1>2. range[1] \in Int /\ range[2] \in Int /\ range'[1] \in Int /\ range'[2] \in Int
  OBVIOUS
<1>3. Found' = {r \in stored' : InRange(r, range)' /\ Fits(query, r)}
  BY DEF Found, Matching, Fits
<1>4. \A r \in stored : /\ InRange(r, range) <=> range[1] <= At(r) /\ At(r) <= range[2]
                        /\ InRange(r, range)' <=> range'[1] <= At(r) /\ At(r) <= range'[2]
  BY <1>1 DEF InRange
<1>5. \A r \in Found : range'[1] <= At(r) => r \in Found'
  BY <1>1, <1>2, <1>3, <1>4, FoundMeans
<1>6. ASSUME NEW t \in Ahead(Order, Found, s) PROVE t \in Ahead(Order, Found, s)'
  <2>1. t \in Found /\ Newer(t, s) /\ t \in stored
    BY <1>6, FoundPlaces DEF Ahead, Order
  <2>2. At(t) >= At(s) /\ range'[1] <= At(t)
    BY <1>1, <1>2, <2>1 DEF Newer
  <2>3. t \in Found'
    BY <1>5, <2>1, <2>2
  <2>4. Newer(t, s)'
    BY <1>1, <2>1 DEF Newer
  <2>5. <<t, s>> \in Order'
    BY <1>1, <2>1, <2>4 DEF Order
  <2>. QED BY <2>3, <2>5 DEF Ahead
<1>7. Ahead(Order, Found, s) \subseteq Ahead(Order', Found', s)
  BY <1>6 DEF Ahead
<1>8. IsFiniteSet(Found')
  <2>1. Found' \in SUBSET Rows
    BY <1>3 DEF Types, TypeOK
  <2>. QED BY <2>1, RowSets
<1>9. Place(Order, Found, s) <= Place(Order', Found', s)
  BY <1>7, <1>8, PlaceNeverShrinks
<1>. QED BY <1>5, <1>9 DEF Place, Ahead

(* Writers only add to what is found.                                      *)
LEMMA WritersAddToFound ==
    ASSUME Types, pc \notin {"idle", "done"},
           \/ Tick
           \/ \E r \in AlertIds : BeginAlert(r) \/ CommitAlert(r)
           \/ \E e \in EventIds : CommitEvent(e)
    PROVE  /\ Found \in SUBSET Found'
           /\ Cardinality(Found) <= Cardinality(Found')
           /\ Cardinality(Found) \in Nat /\ Cardinality(Found') \in Nat
<1>1. /\ Types' /\ stored \subseteq stored' /\ \A r \in stored : At(r)' = At(r)
      /\ UNCHANGED <<query, range>>
  BY WritersAdd
<1>2. range \in Int \X Int /\ range' \in Int \X Int /\ range[1] <= range'[1] /\ range[2] <= range'[2]
  BY <1>1, InHand
<1>3. \A r \in Found : range[1] <= At(r) /\ r \in stored
  BY FoundMeans DEF InRange
<1>4. Found \in SUBSET Found'
  BY <1>1, <1>2, <1>3, FoundAgain
<1>5. IsFiniteSet(Found') /\ Cardinality(Found') \in Nat
  <2>1. Found' \in SUBSET Rows
    BY <1>1 DEF Found, Matching, Types, TypeOK
  <2>. QED BY <2>1, RowSets
<1>. QED BY <1>4, <1>5, FS_Subset, FoundPlaces

(* While nothing is committed and the range stays, so do the places.       *)
LEMMA FoundStays ==
    ASSUME UNCHANGED <<created, stored, query, range>>
    PROVE  /\ Found' = Found /\ Order' = Order
           /\ \A r : At(r)' = At(r) /\ InRange(r, range)' = InRange(r, range)
           /\ \A r : Place(Order, Found, r)' = Place(Order, Found, r)
<1>1. \A r : At(r)' = At(r)
  BY DEF At
<1>2. Order' = Order
  BY <1>1 DEF Order, Newer
<1>3. \A r : InRange(r, range)' = InRange(r, range)
  BY <1>1 DEF InRange
<1>4. Found' = Found
  BY <1>3 DEF Found, Matching
<1>. QED BY <1>1, <1>2, <1>3, <1>4 DEF Place, Ahead

-----------------------------------------------------------------------------
(* The walk.                                                               *)

(* Nothing is owed before something is asked for.                          *)
LEMMA WalkInit == Init => WalkInv
<1>. SUFFICES ASSUME Init PROVE WalkInv
  OBVIOUS
<1>1. pc = "idle" /\ query = NoQuery /\ page = {} /\ status = 0
  BY DEF Init
<1>2. PageCounted /\ TotalCoversPage /\ OwedIsFound /\ LeftIsAhead /\ WalkSeesAll
  BY <1>1 DEF PageCounted, TotalCoversPage, OwedIsFound, LeftIsAhead, WalkSeesAll, Walking
<1>3. QuietSoFar /\ QuietWalkRepeatsNothing
  BY <1>1 DEF QuietSoFar, QuietWalkRepeatsNothing, Walking
<1>. QED BY <1>2, <1>3, TypesInit DEF WalkInv

(* Writers push rows back, and lengthen what is counted.                   *)
LEMMA WalkWriters ==
    ASSUME WalkInv,
           \/ Tick
           \/ \E r \in AlertIds : BeginAlert(r) \/ CommitAlert(r)
           \/ \E e \in EventIds : CommitEvent(e)
    PROVE  WalkInv'
<1>1. /\ Types /\ Types' /\ stored \subseteq stored' /\ \A r \in stored : At(r)' = At(r)
      /\ still' = FALSE
      /\ UNCHANGED <<pc, status, query, range, offset, page, total, seen, owed>>
  BY WritersAdd DEF WalkInv
<1>2. owed \subseteq stored
  BY DEF WalkInv, Types, TypeOK
<1>3. \A s \in owed : At(s)' = At(s) /\ (InRange(s, range)' <=> InRange(s, range))
  BY <1>1, <1>2 DEF InRange
<1>4. ASSUME pc \notin {"idle", "done"}
      PROVE  \A s \in stored : range[1] <= At(s) =>
                /\ s \in Found => s \in Found'
                /\ Place(Order, Found, s) <= Place(Order, Found, s)'
  <2>1. /\ range \in Int \X Int /\ range' \in Int \X Int
        /\ range[1] <= range'[1] /\ range[2] <= range'[2]
    BY <1>1, <1>4, InHand
  <2>. QED BY <1>1, <2>1, FoundAgain
<1>5. PageCounted'
  <2>. SUFFICES ASSUME pc = "count", page # {}
                PROVE  offset + Cardinality(page) <= Cardinality(Found')
    BY <1>1 DEF PageCounted
  <2>1. /\ Cardinality(Found) <= Cardinality(Found')
        /\ Cardinality(Found) \in Nat /\ Cardinality(Found') \in Nat
    BY <1>1, WritersAddToFound
  <2>2. offset + Cardinality(page) <= Cardinality(Found)
    BY DEF WalkInv, PageCounted
  <2>3. offset \in Nat /\ Cardinality(page) \in Nat
    <3>1. page \in SUBSET Rows /\ offset \in Nat
      BY <1>1 DEF Types, TypeOK
    <3>. QED BY <3>1, RowSets
  <2>. QED BY <2>1, <2>2, <2>3
<1>6. OwedIsFound'
  BY <1>1, <1>2, <1>3, <1>4 DEF WalkInv, OwedIsFound, Walking
<1>7. LeftIsAhead'
  <2>. SUFFICES ASSUME Walking, NEW s \in owed, InRange(s, range), s \notin seen
                PROVE  /\ offset <= Place(Order, Found, s)'
                       /\ pc = "count" => \/ s \in page
                                          \/ /\ Cardinality(page) = PageSize(query)
                                             /\ offset + PageSize(query) <= Place(Order, Found, s)'
    BY <1>1, <1>3 DEF LeftIsAhead, Walking
  <2>0. pc \notin {"idle", "done"}
    BY DEF Walking
  <2>1. Place(Order, Found, s) <= Place(Order, Found, s)' /\ Place(Order, Found, s) \in Nat
    BY <1>1, <1>2, <1>4, <2>0, FoundPlaces DEF InRange
  <2>2. Place(Order, Found, s)' \in Nat
    <3>1. IsFiniteSet(Found')
      <4>1. Found' \in SUBSET Rows
        BY <1>1 DEF Found, Matching, Types, TypeOK
      <4>. QED BY <4>1, RowSets
    <3>2. Place(Order', Found', s) \in Nat
      BY <3>1, PlaceType
    <3>. QED BY <3>2 DEF Place, Ahead
  <2>3. offset \in Nat /\ PageSize(query) \in Nat
    BY <1>1, <2>0, InHand DEF Types, TypeOK
  <2>4. /\ offset <= Place(Order, Found, s)
        /\ pc = "count" => \/ s \in page
                           \/ /\ Cardinality(page) = PageSize(query)
                              /\ offset + PageSize(query) <= Place(Order, Found, s)
    BY DEF WalkInv, LeftIsAhead
  <2>. QED BY <2>1, <2>2, <2>3, <2>4
<1>8. TotalCoversPage' /\ WalkSeesAll'
  BY <1>1, <1>3 DEF WalkInv, TotalCoversPage, WalkSeesAll, Paged
<1>9. QuietSoFar' /\ QuietWalkRepeatsNothing'
  BY <1>1 DEF QuietSoFar, QuietWalkRepeatsNothing
<1>. QED BY <1>1, <1>5, <1>6, <1>7, <1>8, <1>9 DEF WalkInv

(* A walk begins with all that it owes ahead of it.                        *)
LEMMA WalkBegins ==
    ASSUME WalkInv, NEW q \in Queries, Begin(q)
    PROVE  WalkInv'
<1>1. Types /\ Types'
  BY BeginTypes DEF WalkInv
<1>2. /\ status' = Refusal(q) /\ query' = q /\ offset' = 0 /\ page' = {}
      /\ seen' = {} /\ delivered' = 0 /\ still' = TRUE
      /\ UNCHANGED <<now, created, stored>>
  BY DEF Begin, tables
<1>3. CASE status' # 0
  <2>1. pc' = "done" /\ range' = <<>>
    BY <1>3 DEF Begin
  <2>2. ~Paged' /\ ~Walking'
    BY <2>1 DEF Paged, Walking
  <2>. QED BY <1>1, <1>2, <2>1, <2>2
       DEF WalkInv, PageCounted, TotalCoversPage, OwedIsFound, LeftIsAhead, WalkSeesAll,
           QuietSoFar, QuietWalkRepeatsNothing
<1>4. CASE status' = 0
  <2>1. /\ pc' = FirstStatement(q) /\ range' = ResolveWindow(q, now)
        /\ owed' = Matching(q, range')
    BY <1>4 DEF Begin
  <2>2. pc' \in {"page", "aggregate"}
    BY <2>1 DEF FirstStatement
  <2>3. owed' = Found'
    BY <1>2, <2>1 DEF Found, Matching, InRange, At
  <2>4. range' = ResolveWindow(query, now)'
    BY <1>2, <2>1 DEF ResolveWindow
  <2>5. \A s \in Found' : (At(s) <= range[2])'
    BY DEF Found, Matching, InRange
  <2>6. \A s : Place(Order, Found, s)' \in Nat
    <3>1. IsFiniteSet(Found')
      <4>1. Found' \in SUBSET Rows
        BY <1>1 DEF Found, Matching, Types, TypeOK
      <4>. QED BY <4>1, RowSets
    <3>2. \A s : Place(Order', Found', s) \in Nat
      BY <3>1, PlaceType
    <3>. QED BY <3>2 DEF Place, Ahead
  <2>7. PageCounted' /\ TotalCoversPage' /\ WalkSeesAll' /\ QuietWalkRepeatsNothing'
    BY <1>2, <2>2, <1>4 DEF PageCounted, TotalCoversPage, WalkSeesAll, QuietWalkRepeatsNothing
  <2>8. OwedIsFound'
    BY <2>3, <2>5 DEF OwedIsFound
  <2>9. LeftIsAhead'
    <3>1. \A s : offset' <= Place(Order, Found, s)'
      BY <1>2, <2>6
    <3>. QED BY <2>2, <3>1 DEF LeftIsAhead
  <2>10. QuietSoFar'
    <3>1. {r \in Found' : Place(Order, Found, r)' < offset'} = {}
      BY <1>2, <2>6
    <3>2. Cardinality({}) = 0
      BY FS_EmptySet
    <3>. QED BY <1>2, <2>2, <2>3, <2>4, <3>1, <3>2 DEF QuietSoFar
  <2>. QED BY <1>1, <2>7, <2>8, <2>9, <2>10 DEF WalkInv
<1>. QED BY <1>3, <1>4

(* The next request of a walk: its range only moves forward, and without   *)
(* writers it is the same.                                                 *)
LEMMA WalkGoesOn ==
    ASSUME WalkInv, AskMore
    PROVE  WalkInv'
<1>1. /\ Types /\ Types' /\ range \in Int \X Int /\ range' \in Int \X Int
      /\ range'[1] >= range[1] /\ range'[2] >= range[2]
  BY AskMoreTypes, InHand DEF WalkInv, AskMore
<1>2. /\ pc = "more" /\ range' = ResolveWindow(query, now) /\ pc' = FirstStatement(query)
      /\ status' = 0
      /\ UNCHANGED <<now, created, stored, query, offset, page, seen, delivered, owed, still>>
  BY DEF AskMore, tables, walk
<1>3. pc' \in {"page", "aggregate"}
  BY <1>2 DEF FirstStatement
<1>4. Walking' => Walking
  BY <1>2, <1>3 DEF Walking
<1>5. \A s \in stored : At(s)' = At(s)
  BY <1>2 DEF At
<1>6. /\ \A s \in owed : s \in stored /\ At(s) \in Nat
      /\ range[1] \in Int /\ range[2] \in Int /\ range'[1] \in Int /\ range'[2] \in Int
  <2>1. owed \subseteq stored /\ stored \subseteq Rows
    BY <1>1 DEF Types, TypeOK
  <2>. QED BY <1>1, <2>1, TimesAreNumbers
<1>7. ASSUME NEW s \in stored, range'[1] <= At(s)
      PROVE  (s \in Found => s \in Found') /\ Place(Order, Found, s) <= Place(Order, Found, s)'
  BY <1>1, <1>2, <1>5, <1>7, FoundAgain
<1>8. PageCounted' /\ TotalCoversPage' /\ WalkSeesAll' /\ QuietWalkRepeatsNothing'
  BY <1>2, <1>3 DEF PageCounted, TotalCoversPage, WalkSeesAll, QuietWalkRepeatsNothing
<1>9. ASSUME Walking', NEW s \in owed
      PROVE  /\ At(s)' <= range'[2] /\ (range'[1] <= At(s)' => s \in Found')
             /\ InRange(s, range)' =>
                   s \in seen \/ offset <= Place(Order, Found, s)'
  <2>1. At(s) <= range[2] /\ (range[1] <= At(s) => s \in Found)
    BY <1>4, <1>9 DEF WalkInv, OwedIsFound
  <2>2. At(s)' = At(s) /\ At(s) <= range'[2] /\ (range'[1] <= At(s) => range[1] <= At(s))
    BY <1>1, <1>5, <1>6, <2>1
  <2>3. InRange(s, range)' => range'[1] <= At(s) /\ InRange(s, range)
    BY <2>1, <2>2 DEF InRange
  <2>4. InRange(s, range) => s \in seen \/ offset <= Place(Order, Found, s)
    BY <1>4, <1>9 DEF WalkInv, LeftIsAhead
  <2>5. /\ offset \in Nat /\ Place(Order, Found, s) \in Nat
        /\ Place(Order, Found, s)' \in Nat
    <3>1. Found' \in SUBSET Rows
      BY <1>1 DEF Found, Matching, Types, TypeOK
    <3>2. Place(Order', Found', s) \in Nat
      BY <3>1, RowSets, PlaceType
    <3>3. Place(Order, Found, s)' \in Nat
      BY <3>2 DEF Place, Ahead
    <3>4. offset \in Nat /\ Place(Order, Found, s) \in Nat
      BY <1>1, FoundPlaces DEF Types, TypeOK
    <3>. QED BY <3>3, <3>4
  <2>. QED BY <1>6, <1>7, <2>1, <2>2, <2>3, <2>4, <2>5
<1>10. OwedIsFound' /\ LeftIsAhead'
  BY <1>2, <1>3, <1>9 DEF OwedIsFound, LeftIsAhead
<1>11. QuietSoFar'
  <2>. SUFFICES ASSUME Walking', still
                PROVE  /\ range' = ResolveWindow(query, now)' /\ owed = Found'
                       /\ seen = {r \in Found' : Place(Order, Found, r)' < offset}
                       /\ delivered = Cardinality(seen)
    BY <1>2, <1>3 DEF QuietSoFar
  <2>1. /\ range = ResolveWindow(query, now) /\ owed = Found
        /\ seen = {r \in Found : Place(Order, Found, r) < offset}
        /\ delivered = Cardinality(seen)
    BY <1>4 DEF WalkInv, QuietSoFar
  <2>2. UNCHANGED <<created, stored, query, range>>
    BY <1>2, <2>1
  <2>3. Found' = Found /\ \A r : Place(Order, Found, r)' = Place(Order, Found, r)
    BY <2>2, FoundStays
  <2>4. ResolveWindow(query, now)' = ResolveWindow(query, now)
    BY <1>2 DEF ResolveWindow
  <2>. QED BY <2>1, <2>2, <2>3, <2>4
<1>. QED BY <1>1, <1>8, <1>10, <1>11 DEF WalkInv

(* A page begins with the first row not returned yet.                      *)
LEMMA WalkReadsPage ==
    ASSUME WalkInv, ReadPage
    PROVE  WalkInv'
<1>. DEFINE n == PageSize(query)
            F == Found
<1>1. Types /\ Types'
  BY PageTypes DEF WalkInv
<1>2. /\ pc = "page" /\ pc' = "count"
      /\ UNCHANGED <<now, created, stored, query, range, offset, status, total,
                     seen, delivered, owed, still>>
  BY DEF ReadPage, tables, walk
<1>3. query.kind # "summary" /\ status # 200 /\ n \in Nat /\ offset \in Nat
  BY <1>1, <1>2, InHand DEF Types, Accepted, TypeOK
<1>4. page' = Cut(Order, F, offset, n)
  <2>1. IsPage(page', F, offset, n)
    BY DEF ReadPage, Found
  <2>2. F \in SUBSET Rows
    BY <1>1, FoundIsStored DEF Found, Types
  <2>. HIDE DEF n, F
  <2>. QED BY <1>1, <1>3, <2>1, <2>2, PageIsCut DEF Types
<1>5. /\ Found' = F /\ Order' = Order
      /\ \A r : At(r)' = At(r) /\ InRange(r, range)' = InRange(r, range)
      /\ \A r : Place(Order, Found, r)' = Place(Order, F, r)
  BY <1>2, FoundStays
<1>6. Orders(Order, F)
  BY <1>1, FoundPlaces
<1>7. PageCounted'
  <2>1. page' # {} => offset + Cardinality(page') <= Cardinality(F)
    <3>. HIDE DEF n, F
    <3>. QED BY <1>3, <1>4, <1>6, PageFits
  <2>. QED BY <1>2, <1>5, <2>1 DEF PageCounted
<1>8. TotalCoversPage' /\ WalkSeesAll' /\ QuietWalkRepeatsNothing'
  BY <1>2, <1>3 DEF TotalCoversPage, WalkSeesAll, QuietWalkRepeatsNothing
<1>9. Walking
  BY <1>2, <1>3 DEF Walking
<1>10. OwedIsFound'
  BY <1>2, <1>5, <1>9 DEF WalkInv, OwedIsFound
<1>11. LeftIsAhead'
  <2>1. ASSUME NEW s \in owed, InRange(s, range), s \notin seen
        PROVE  /\ offset <= Place(Order, F, s)
               /\ \/ s \in page'
                  \/ Cardinality(page') = n /\ offset + n <= Place(Order, F, s)
    <3>1. s \in F
      BY <1>9, <2>1 DEF WalkInv, OwedIsFound, InRange
    <3>2. offset <= Place(Order, F, s)
      BY <1>9, <2>1 DEF WalkInv, LeftIsAhead
    <3>. HIDE DEF n, F
    <3>. QED BY <1>3, <1>4, <1>6, <3>1, <3>2, RowAfterThePage
  <2>2. PageSize(query)' = n
    BY <1>2 DEF PageSize
  <2>. QED BY <1>2, <1>5, <2>1, <2>2 DEF LeftIsAhead
<1>12. QuietSoFar'
  <2>1. still => /\ range = ResolveWindow(query, now) /\ owed = F
                 /\ seen = {r \in F : Place(Order, F, r) < offset}
                 /\ delivered = Cardinality(seen)
    BY <1>9 DEF WalkInv, QuietSoFar
  <2>2. ResolveWindow(query, now)' = ResolveWindow(query, now) /\ PageSize(query)' = n
    BY <1>2 DEF ResolveWindow, PageSize
  <2>3. Cut(Order, Found, offset, PageSize(query))' = Cut(Order, F, offset, n)
    BY <1>2, <1>5, <2>2 DEF Cut
  <2>. QED BY <1>2, <1>4, <1>5, <2>1, <2>2, <2>3 DEF QuietSoFar
<1>. QED BY <1>1, <1>7, <1>8, <1>10, <1>11, <1>12 DEF WalkInv

(* The answer: the rows of the page are returned, and has_more tells the   *)
(* truth about those that were owed.                                       *)
LEMMA WalkReadsCount ==
    ASSUME WalkInv, ReadCount
    PROVE  WalkInv'
<1>. DEFINE n == PageSize(query)
            F == Found
            c == Cardinality(page)
<1>1. Types /\ Types'
  BY PageTypes DEF WalkInv
<1>2. /\ pc = "count" /\ status' = 200 /\ total' = Cardinality(F)
      /\ offset' = offset + c /\ seen' = seen \cup page /\ delivered' = delivered + c
      /\ pc' = IF HasMore(offset', total') THEN "more" ELSE "done"
      /\ UNCHANGED <<now, created, stored, query, range, page, owed, still>>
  BY DEF ReadCount, CountOf, Found, tables
<1>3. /\ query.kind # "summary" /\ n \in Nat /\ offset \in Nat /\ delivered \in Nat
      /\ seen \subseteq stored /\ owed \subseteq stored
  BY <1>1, <1>2, InHand DEF Types, Accepted, TypeOK
<1>4. c \in Nat
  BY <1>1, RowSets DEF Types, TypeOK
<1>5. /\ Found' = F /\ Order' = Order
      /\ \A r : At(r)' = At(r) /\ InRange(r, range)' = InRange(r, range)
      /\ \A r : Place(Order, Found, r)' = Place(Order, F, r)
  BY <1>2, FoundStays
<1>6. /\ Orders(Order, F) /\ Cardinality(F) \in Nat /\ \A s : Place(Order, F, s) \in Nat
  BY <1>1, FoundPlaces
<1>7. Walking
  BY <1>2, <1>3 DEF Walking
<1>8. PageCounted' /\ OwedIsFound'
  <2>1. PageCounted'
    BY <1>2 DEF PageCounted
  <2>2. OwedIsFound'
    BY <1>2, <1>5, <1>7 DEF WalkInv, OwedIsFound
  <2>. QED BY <2>1, <2>2
<1>9. TotalCoversPage'
  BY <1>2 DEF WalkInv, PageCounted, TotalCoversPage
<1>10. ASSUME NEW s \in owed, InRange(s, range), s \notin seen'
       PROVE  s \in F /\ offset' <= Place(Order, F, s)
  <2>1. s \in F
    BY <1>7, <1>10 DEF WalkInv, OwedIsFound, InRange
  <2>2. c = n /\ offset + n <= Place(Order, F, s)
    BY <1>2, <1>7, <1>10 DEF WalkInv, LeftIsAhead
  <2>. QED BY <1>2, <2>1, <2>2
<1>11. LeftIsAhead'
  BY <1>2, <1>5, <1>10 DEF LeftIsAhead
<1>12. pc' = "done" => Cardinality(F) <= offset'
  BY <1>2, <1>3, <1>4, <1>6 DEF HasMore
<1>13. WalkSeesAll'
  <2>. SUFFICES ASSUME pc' = "done", NEW s \in owed, InRange(s, range)
                PROVE  s \in seen'
    BY <1>2, <1>5 DEF WalkSeesAll
  <2>. SUFFICES ASSUME s \notin seen' PROVE FALSE
    OBVIOUS
  <2>1. s \in F /\ offset' <= Place(Order, F, s)
    BY <1>10
  <2>2. Place(Order, F, s) < Cardinality(F)
    BY <1>6, <2>1, PlaceIsBelowCount
  <2>. QED BY <1>2, <1>3, <1>4, <1>6, <1>12, <2>1, <2>2
<1>14. still => /\ range = ResolveWindow(query, now) /\ owed = F
                /\ seen' = {r \in F : Place(Order, F, r) < offset'}
                /\ delivered' = Cardinality(seen')
  <2>. SUFFICES ASSUME still
                PROVE  /\ range = ResolveWindow(query, now) /\ owed = F
                       /\ seen' = {r \in F : Place(Order, F, r) < offset'}
                       /\ delivered' = Cardinality(seen')
    OBVIOUS
  <2>1. /\ range = ResolveWindow(query, now) /\ owed = F
        /\ seen = {r \in F : Place(Order, F, r) < offset}
        /\ delivered = Cardinality(seen)
        /\ page = Cut(Order, F, offset, n)
    BY <1>2, <1>7 DEF WalkInv, QuietSoFar
  <2>2. /\ seen \cup page = {r \in F : Place(Order, F, r) < offset + c}
        /\ Cardinality(seen \cup page) = Cardinality(seen) + c
    <3>. HIDE DEF n, F
    <3>. QED BY <1>3, <1>6, <2>1, PagesAdd
  <2>. QED BY <1>2, <2>1, <2>2
<1>15. QuietSoFar'
  <2>1. ResolveWindow(query, now)' = ResolveWindow(query, now)
    BY <1>2 DEF ResolveWindow
  <2>2. pc' # "count"
    BY <1>2
  <2>. QED BY <1>2, <1>5, <1>14, <2>1, <2>2 DEF QuietSoFar
<1>16. QuietWalkRepeatsNothing'
  <2>. SUFFICES ASSUME pc' = "done", still
                PROVE  seen' = owed /\ delivered' = Cardinality(owed)
    BY <1>2 DEF QuietWalkRepeatsNothing
  <2>1. \A r \in F : Place(Order, F, r) < Cardinality(F)
    BY <1>6, PlaceIsBelowCount
  <2>2. offset' \in Nat
    BY <1>2, <1>3, <1>4
  <2>3. \A r \in F : Place(Order, F, r) < offset'
    <3>. HIDE DEF F
    <3>. QED BY <1>6, <1>12, <2>1, <2>2
  <2>4. seen' = F
    BY <1>14, <2>3
  <2>. QED BY <1>14, <2>4
<1>. QED BY <1>1, <1>8, <1>9, <1>11, <1>13, <1>15, <1>16 DEF WalkInv

(* What a failed request had read is not counted as returned.              *)
LEMMA WalkFails ==
    ASSUME WalkInv, StatementFails
    PROVE  WalkInv'
<1>1. Types'
  BY FailTypes DEF WalkInv
<1>2. /\ pc \in {"page", "count", "aggregate", "events", "rules"} /\ pc' = "more"
      /\ status' = 500 /\ page' = {}
      /\ UNCHANGED <<now, created, stored, query, range, offset, seen, delivered, owed, still>>
  BY DEF StatementFails, tables, walk
<1>3. Walking' => Walking
  BY <1>2 DEF Walking, WalkInv, Types, Accepted
<1>4. /\ Found' = Found
      /\ \A r : At(r)' = At(r) /\ InRange(r, range)' = InRange(r, range)
      /\ \A r : Place(Order, Found, r)' = Place(Order, Found, r)
  BY <1>2, FoundStays
<1>5. PageCounted' /\ TotalCoversPage' /\ WalkSeesAll' /\ QuietWalkRepeatsNothing'
  BY <1>2 DEF PageCounted, TotalCoversPage, WalkSeesAll, QuietWalkRepeatsNothing
<1>6. OwedIsFound'
  BY <1>2, <1>3, <1>4 DEF WalkInv, OwedIsFound
<1>7. LeftIsAhead'
  BY <1>2, <1>3, <1>4 DEF WalkInv, LeftIsAhead
<1>8. QuietSoFar'
  <2>1. ResolveWindow(query, now)' = ResolveWindow(query, now)
    BY <1>2 DEF ResolveWindow
  <2>. QED BY <1>2, <1>3, <1>4, <2>1 DEF WalkInv, QuietSoFar
<1>. QED BY <1>1, <1>5, <1>6, <1>7, <1>8 DEF WalkInv

(* A summary is no walk.                                                   *)
LEMMA SummaryWalksNowhere ==
    ASSUME WalkInv, ReadAggregate \/ ReadEvents \/ ReadRules
    PROVE  WalkInv'
<1>1. Types'
  BY SummaryTypes DEF WalkInv
<1>2. query.kind = "summary" /\ query' = query /\ pc' \in {"events", "rules", "done"}
  BY DEF ReadAggregate, ReadEvents, ReadRules, WalkInv, Types, Accepted
<1>3. ~Walking' /\ ~Paged'
  BY <1>2 DEF Walking, Paged
<1>. QED BY <1>1, <1>2, <1>3
     DEF WalkInv, PageCounted, TotalCoversPage, OwedIsFound, LeftIsAhead, WalkSeesAll,
         QuietSoFar, QuietWalkRepeatsNothing

(* Every step keeps the invariant of the walk.                             *)
LEMMA WalkStep == WalkInv /\ [Next]_vars => WalkInv'
<1>1. ASSUME WalkInv, UNCHANGED vars PROVE WalkInv'
  <2>1. /\ UNCHANGED <<now, created, stored, pc, status, query, range, offset, page, total,
                       seen, delivered, owed, still>>
    BY <1>1 DEF vars, tables, walk
  <2>2. /\ Found' = Found /\ Order' = Order
        /\ \A r : At(r)' = At(r) /\ InRange(r, range)' = InRange(r, range)
        /\ \A r : Place(Order, Found, r)' = Place(Order, Found, r)
    BY <2>1, FoundStays
  <2>3. Types'
    BY <1>1, TypesStep DEF WalkInv
  <2>4. PageCounted' /\ TotalCoversPage' /\ OwedIsFound'
    BY <1>1, <2>1, <2>2 DEF WalkInv, PageCounted, TotalCoversPage, OwedIsFound, Walking, Paged
  <2>5. PageSize(query)' = PageSize(query) /\ ResolveWindow(query, now)' = ResolveWindow(query, now)
    BY <2>1 DEF PageSize, ResolveWindow
  <2>6. LeftIsAhead' /\ WalkSeesAll'
    BY <1>1, <2>1, <2>2, <2>5 DEF WalkInv, LeftIsAhead, WalkSeesAll, Walking, Paged
  <2>7. QuietSoFar' /\ QuietWalkRepeatsNothing'
    <3>1. Cut(Order, Found, offset, PageSize(query))' = Cut(Order, Found, offset, PageSize(query))
      BY <2>1, <2>2, <2>5 DEF Cut
    <3>. QED BY <1>1, <2>1, <2>2, <2>5, <3>1
         DEF WalkInv, QuietSoFar, QuietWalkRepeatsNothing, Walking, Paged
  <2>. QED BY <2>3, <2>4, <2>6, <2>7 DEF WalkInv
<1>. QED
  BY <1>1, WalkWriters, WalkBegins, WalkGoesOn, WalkReadsPage, WalkReadsCount, WalkFails,
     SummaryWalksNowhere
  DEF Next, Read, AskAlerts, AskTimeline, AskSummary

(* A walk that ends has returned every row that matched when it began and  *)
(* still lies in the range, for any queries, page sizes and rows, and      *)
(* whatever writers commit and which statements fail on the way.           *)
THEOREM WalksSeeAll == Spec => []WalkSeesAll
<1>1. WalkInv => WalkSeesAll
  BY DEF WalkInv
<1>. QED BY <1>1, WalkInit, WalkStep, PTL DEF Spec

(* The total is never behind the page it comes with.                       *)
THEOREM TotalsCoverPages == Spec => []TotalCoversPage
<1>1. WalkInv => TotalCoversPage
  BY DEF WalkInv
<1>. QED BY <1>1, WalkInit, WalkStep, PTL DEF Spec

(* Without writers a walk returns every row once.                          *)
THEOREM QuietWalksRepeatNothing == Spec => []QuietWalkRepeatsNothing
<1>1. WalkInv => QuietWalkRepeatsNothing
  BY DEF WalkInv
<1>. QED BY <1>1, WalkInit, WalkStep, PTL DEF Spec

-----------------------------------------------------------------------------
(* The summary.                                                            *)

(* ORDER BY count DESC, rule                                               *)
Frequent(S) ==
    {j \in Frequency(S) \X Frequency(S) :
       \/ j[1].count > j[2].count
       \/ j[1].count = j[2].count /\ j[1].rule < j[2].rule}

(* What the aggregate has counted is still found when the rules are read.  *)
SummaryCounted == pc \in {"events", "rules"} => summary.total <= Cardinality(Found)

SumOfCounts(T) == MapThenSumSet(LAMBDA f : f.count, T)

SummaryAccounts ==
    query # NoQuery /\ query.kind = "summary" /\ pc = "done" /\ range # <<>>
      /\ Cardinality(summary.top) < TopRulesLimit
    => SumOfCounts(summary.top) >= summary.total

SummaryInv == Types /\ SummaryCounted /\ SummaryAccounts

(* The sum of the counts of a finite set of records is such a sum.         *)
LEMMA CountsAdd ==
    ASSUME NEW S, IsFiniteSet(S)
    PROVE  \E g, h :
             /\ \A T \in (SUBSET S) \ {{}} : h[T] \in T
             /\ Sums(g, S, h, [x \in S |-> x.count])
             /\ MapThenSumSet(LAMBDA f : f.count, S) = g[S]
<1>. DEFINE h == [T \in SUBSET S |-> CHOOSE x \in T : TRUE]
            c == [x \in S |-> x.count]
            G == CHOOSE g : g = [T \in SUBSET S |->
                   IF T = {} THEN 0
                   ELSE LET x == CHOOSE x \in T : TRUE IN x.count + g[T \ {x}]]
<1>1. \A T \in (SUBSET S) \ {{}} : h[T] \in T
  OBVIOUS
<1>2. PICK f : Sums(f, S, h, c)
  <2>. HIDE DEF h, c, G
  <2>. QED BY <1>1, SumIsDefined
<1>3. f = [T \in SUBSET S |->
             IF T = {} THEN 0
             ELSE LET x == CHOOSE x \in T : TRUE IN x.count + f[T \ {x}]]
  BY <1>1, <1>2 DEF Sums
<1>4. G = [T \in SUBSET S |->
             IF T = {} THEN 0
             ELSE LET x == CHOOSE x \in T : TRUE IN x.count + G[T \ {x}]]
  BY <1>3
<1>5. MapThenSumSet(LAMBDA x : x.count, S) = G[S]
  BY DEF MapThenSumSet, MapThenFoldSet
<1>. HIDE DEF G
<1>6. Sums(G, S, h, c)
  BY <1>1, <1>4 DEF Sums
<1>. HIDE DEF h
<1>. QED BY <1>1, <1>5, <1>6

(* A rule has one frequency.                                               *)
LEMMA FrequencyType ==
    ASSUME NEW S \in SUBSET AlertIds
    PROVE  /\ IsFiniteSet(S) /\ IsFiniteSet(Frequency(S))
           /\ \A f \in Frequency(S) :
                /\ f.rule \in Nat /\ f.count \in Nat
                /\ f.count = Cardinality({r \in S : RuleOf[r] = f.rule})
           /\ \A f, g \in Frequency(S) : f.rule = g.rule => f = g
           /\ \A r \in S : \E f \in Frequency(S) : f.rule = RuleOf[r]
<1>1. IsFiniteSet(S) /\ \A r \in S : RuleOf[r] \in Nat
  BY InsightsAssumption, FS_Subset
<1>2. ASSUME NEW i PROVE Cardinality({r \in S : RuleOf[r] = i}) \in Nat
  <2>1. {r \in S : RuleOf[r] = i} \in SUBSET S
    OBVIOUS
  <2>. QED BY <1>1, <2>1, FS_Subset, FS_CardinalityType
<1>. DEFINE F == [r \in S |-> [rule |-> RuleOf[r],
                               count |-> Cardinality({s \in S : RuleOf[s] = RuleOf[r]})]]
<1>3. Frequency(S) = {F[r] : r \in S}
  BY DEF Frequency
<1>4. IsFiniteSet(Frequency(S))
  <2>1. F \in Surjection(S, Frequency(S))
    <3>1. DOMAIN F = S /\ \A r \in S : F[r] \in Frequency(S)
      BY <1>3
    <3>2. F \in [S -> Frequency(S)]
      BY <1>3
    <3>3. \A f \in Frequency(S) : \E r \in S : F[r] = f
      BY <1>3, Zenon
    <3>. HIDE DEF F
    <3>. QED BY <3>2, <3>3 DEF Surjection
  <2>. HIDE DEF F
  <2>. QED BY <1>1, <2>1, FS_Surjection
<1>5. \A f \in Frequency(S) : \E r \in S : f = F[r]
  BY <1>3, Zenon
<1>6. ASSUME NEW f \in Frequency(S)
      PROVE  /\ f.rule \in Nat /\ f.count \in Nat
             /\ f.count = Cardinality({r \in S : RuleOf[r] = f.rule})
  <2>1. PICK r \in S : f = F[r]
    BY <1>5
  <2>. QED BY <1>1, <1>2, <2>1
<1>7. ASSUME NEW f \in Frequency(S), NEW g \in Frequency(S), f.rule = g.rule PROVE f = g
  <2>1. PICK r \in S : f = F[r]
    BY <1>5
  <2>2. PICK s \in S : g = F[s]
    BY <1>5
  <2>. QED BY <1>7, <2>1, <2>2
<1>8. ASSUME NEW r \in S PROVE \E f \in Frequency(S) : f.rule = RuleOf[r]
  <2>1. F[r] \in Frequency(S) /\ F[r].rule = RuleOf[r]
    BY <1>3
  <2>. QED BY <2>1
<1>. HIDE DEF F
<1>. QED BY <1>1, <1>4, <1>6, <1>7, <1>8

(* Their sum is the number of alerts.                                      *)
LEMMA FrequenciesAdd ==
    ASSUME NEW S \in SUBSET AlertIds
    PROVE  SumOfCounts(Frequency(S)) = Cardinality(S)
<1>. DEFINE F == Frequency(S)
            p == [f \in F |-> {r \in S : RuleOf[r] = f.rule}]
            c == [f \in F |-> f.count]
<1>1. /\ IsFiniteSet(S) /\ IsFiniteSet(F)
      /\ \A f \in F : f.count = Cardinality(p[f]) /\ p[f] \in SUBSET S
      /\ \A f, g \in F : f # g => p[f] \cap p[g] = {}
      /\ \A r \in S : \E f \in F : r \in p[f]
  BY FrequencyType
<1>2. PICK g, h :
         /\ \A T \in (SUBSET F) \ {{}} : h[T] \in T
         /\ Sums(g, F, h, c)
         /\ MapThenSumSet(LAMBDA f : f.count, F) = g[F]
  <2>. HIDE DEF F
  <2>. QED BY <1>1, CountsAdd
<1>3. /\ Splits(p, F, S) /\ Sums(g, F, h, c)
      /\ \A T \in (SUBSET F) \ {{}} : h[T] \in T
      /\ \A f \in F : c[f] = Cardinality(p[f])
  BY <1>1, <1>2 DEF Splits
<1>. HIDE DEF F, p, c
<1>4. g[F] = Cardinality(S)
  BY <1>1, <1>3, SumOfParts
<1>. QED BY <1>2, <1>4 DEF F, SumOfCounts

(* A list of top rules that is not cut off holds all of them.              *)
LEMMA UncutRules ==
    ASSUME NEW S \in SUBSET AlertIds, NEW n \in Nat, Cardinality(TopRules(S, n)) < n
    PROVE  TopRules(S, n) = Frequency(S)
<1>. DEFINE F == Frequency(S)
            O == Frequent(S)
<1>1. /\ IsFiniteSet(F) /\ \A f \in F : f.rule \in Nat /\ f.count \in Nat
      /\ \A f, g \in F : f.rule = g.rule => f = g
  BY FrequencyType
<1>2. \A f, g \in F : <<f, g>> \in O <=> \/ f.count > g.count
                                         \/ f.count = g.count /\ f.rule < g.rule
  BY DEF Frequent
<1>3. \A f \in F : Ahead(O, F, f) = {g \in F : \/ g.count > f.count
                                               \/ g.count = f.count /\ g.rule < f.rule}
  BY <1>2 DEF Ahead
<1>4. TopRules(S, n) = {f \in F : Place(O, F, f) < n}
  BY <1>3 DEF TopRules, Place
<1>. HIDE DEF F, O
<1>5. Orders(O, F)
  <2>1. \A f \in F : <<f, f>> \notin O
    BY <1>1, <1>2
  <2>2. ASSUME NEW f \in F, NEW g \in F PROVE f = g \/ <<f, g>> \in O \/ <<g, f>> \in O
    BY <1>1, <1>2
  <2>3. ASSUME NEW f \in F, NEW g \in F, NEW k \in F, <<f, g>> \in O, <<g, k>> \in O
        PROVE  <<f, k>> \in O
    BY <1>1, <1>2, <2>3
  <2>. QED BY <1>1, <2>1, <2>2, <2>3 DEF Orders
<1>6. \A f \in F : Place(O, F, f) \in Nat
  BY <1>1, PlaceType
<1>7. ASSUME NEW f \in F, f \notin TopRules(S, n) PROVE FALSE
  <2>1. n <= Place(O, F, f)
    BY <1>4, <1>6, <1>7
  <2>2. Cardinality(TopRules(S, n)) = n
    BY <1>4, <1>5, <2>1, FirstRows
  <2>. QED BY <2>2
<1>. QED BY <1>4, <1>7 DEF F

(* What is found by a summary are alerts.                                  *)
LEMMA SummaryFindsAlerts ==
    ASSUME query.kind = "summary"
    PROVE  Found \in SUBSET AlertIds
BY DEF Found, Matching

(* The rules are read of all alerts that were counted, and maybe more.     *)
LEMMA SummaryReads ==
    ASSUME SummaryInv, ReadAggregate \/ ReadEvents \/ ReadRules
    PROVE  SummaryInv'
<1>1. /\ Types /\ Types' /\ UNCHANGED <<created, stored, query, range>>
      /\ query.kind = "summary" /\ pc \notin {"idle", "done"}
  BY SummaryTypes
  DEF SummaryInv, ReadAggregate, ReadEvents, ReadRules, tables, Types, Accepted
<1>2. Found' = Found /\ Found \in SUBSET AlertIds
  BY <1>1, FoundStays, SummaryFindsAlerts
<1>3. CASE ReadAggregate
  <2>1. summary'.total = Cardinality(Found) /\ pc' = "events"
    BY <1>3 DEF ReadAggregate, Found, SummaryInv, Types, SummaryShape
  <2>2. Cardinality(Found) \in Nat
    BY <1>1, FoundPlaces
  <2>. QED BY <1>1, <1>2, <2>1, <2>2 DEF SummaryInv, SummaryCounted, SummaryAccounts
<1>4. CASE ReadEvents
  <2>1. summary'.total = summary.total /\ pc = "events" /\ pc' = "rules"
    BY <1>4 DEF ReadEvents, SummaryInv, Types, SummaryShape
  <2>. QED BY <1>1, <1>2, <2>1 DEF SummaryInv, SummaryCounted, SummaryAccounts
<1>5. CASE ReadRules
  <2>1. /\ summary'.total = summary.total /\ pc = "rules" /\ pc' = "done"
        /\ summary'.top = TopRules(Found, TopRulesLimit)
    BY <1>5 DEF ReadRules, Found, SummaryInv, Types, SummaryShape
  <2>2. SummaryCounted'
    BY <2>1 DEF SummaryCounted
  <2>3. ASSUME Cardinality(summary'.top) < TopRulesLimit
        PROVE  SumOfCounts(summary'.top) >= summary'.total
    <3>1. TopRulesLimit \in Nat
      BY InsightsAssumption
    <3>2. summary'.top = Frequency(Found)
      BY <1>2, <2>1, <2>3, <3>1, UncutRules
    <3>3. SumOfCounts(Frequency(Found)) = Cardinality(Found)
      BY <1>2, FrequenciesAdd
    <3>4. summary.total <= Cardinality(Found) /\ summary.total \in Nat /\ Cardinality(Found) \in Nat
      BY <1>1, <2>1, FoundPlaces DEF SummaryInv, SummaryCounted, Types, TypeOK
    <3>. QED BY <2>1, <3>2, <3>3, <3>4
  <2>. QED BY <1>1, <2>2, <2>3 DEF SummaryInv, SummaryAccounts
<1>. QED BY <1>3, <1>4, <1>5

(* Every step keeps the invariant of the summary.                          *)
LEMMA SummaryStep == SummaryInv /\ [Next]_vars => SummaryInv'
<1>. SUFFICES ASSUME SummaryInv, [Next]_vars PROVE SummaryInv'
  OBVIOUS
<1>0. Types /\ Types'
  BY TypesStep DEF SummaryInv
<1>1. CASE \/ Tick
           \/ \E r \in AlertIds : BeginAlert(r) \/ CommitAlert(r)
           \/ \E e \in EventIds : CommitEvent(e)
  <2>1. UNCHANGED <<pc, query, range, summary>>
    BY <1>0, <1>1, WritersAdd
  <2>2. pc \in {"events", "rules"} => /\ Cardinality(Found) <= Cardinality(Found')
                                      /\ Cardinality(Found) \in Nat /\ Cardinality(Found') \in Nat
    BY <1>0, <1>1, WritersAddToFound
  <2>3. summary.total \in Nat
    BY <1>0 DEF Types, TypeOK
  <2>. QED BY <1>0, <2>1, <2>2, <2>3 DEF SummaryInv, SummaryCounted, SummaryAccounts
<1>2. ASSUME NEW q \in Queries, Begin(q) PROVE SummaryInv'
  <2>1. \/ pc' = "done" /\ range' = <<>>
        \/ pc' \in {"page", "aggregate"}
    BY <1>2 DEF Begin, FirstStatement
  <2>. QED BY <1>0, <2>1 DEF SummaryInv, SummaryCounted, SummaryAccounts
<1>3. CASE AskMore \/ ReadPage \/ ReadCount \/ StatementFails
  <2>1. /\ pc' \notin {"events", "rules"}
        /\ pc' = "done" => query'.kind # "summary"
    BY <1>0, <1>3 DEF AskMore, ReadPage, ReadCount, StatementFails, FirstStatement, Types, Accepted
  <2>. QED BY <1>0, <2>1 DEF SummaryInv, SummaryCounted, SummaryAccounts
<1>4. CASE ReadAggregate \/ ReadEvents \/ ReadRules
  BY <1>4, SummaryReads
<1>5. CASE UNCHANGED vars
  <2>1. UNCHANGED <<created, stored, pc, query, range, summary>>
    BY <1>5 DEF vars, tables
  <2>. QED BY <1>0, <2>1, FoundStays DEF SummaryInv, SummaryCounted, SummaryAccounts
<1>. QED BY <1>1, <1>2, <1>3, <1>4, <1>5 DEF Next, Read, AskAlerts, AskTimeline, AskSummary

(* Top rules that are not cut off account for every alert of the total,    *)
(* for any alerts, rules and limit, and whatever is committed between the  *)
(* three statements of the summary.                                        *)
THEOREM SummariesNeverShort == Spec => []SummaryNeverShort
<1>1. Init => SummaryInv
  BY TypesInit DEF Init, SummaryInv, SummaryCounted, SummaryAccounts
<1>2. SummaryInv => SummaryNeverShort
  BY DEF SummaryInv, SummaryAccounts, SumOfCounts, SummaryNeverShort
<1>. QED BY <1>1, <1>2, SummaryStep, PTL DEF Spec
=============================================================================
