---------------------- MODULE IngestionRefinementProofs ---------------------
(***************************************************************************)
(* Ingestion implements the feed of events that the analyser assumes, step *)
(* by step: an upsert locks an agent, nextval() draws a number, an insert  *)
(* that meets a conflict leaves a gap, a commit makes rows visible.        *)
(***************************************************************************)
EXTENDS IngestionRefinement, IngestionProofs

Locks == [r \in Requests |-> HeldBy(r)]
Numbers == [r \in Requests |-> InUse(r)]

(* A transaction that holds no agent has drawn no number.                  *)
LEMMA NothingHeld ==
    ASSUME IngestionInv, NEW r \in Requests, HeldBy(r) = {}
    PROVE  rows[r] = {} /\ InUse(r) = {}
<1>1. drawn[r] = 0
  BY DEF IngestionInv, RequestInv, LocksHeld
<1>2. ASSUME NEW e \in rows[r] PROVE FALSE
  <2>1. e.agent \in Agents /\ touched[r][e.agent] # NoRow
    BY DEF IngestionInv, TypeOK, EventRow, RequestInv, RowsFresh, Within
  <2>. QED BY <2>1 DEF HeldBy
<1>. QED BY <1>1, <1>2 DEF InUse

(* The end of a transaction lets go of its agents and its numbers, those   *)
(* of the others stay as they are.                                         *)
LEMMA EndLetsGo ==
    ASSUME IngestionInv, NEW r \in Requests, NEW answer \in Reply, End(r, answer), body' = body
    PROVE  /\ Locks' = [Locks EXCEPT ![r] = {}]
           /\ Numbers' = [Numbers EXCEPT ![r] = {}]
<1>1. /\ rows'[r] = {} /\ drawn'[r] = 0 /\ touched'[r] = [a \in Agents |-> NoRow]
      /\ \A q \in Requests \ {r} : Same(q)
  BY EndTypes DEF IngestionInv
<1>2. HeldBy(r)' = {} /\ InUse(r)' = {}
  BY <1>1 DEF HeldBy, InUse
<1>3. ASSUME NEW q \in Requests \ {r}
      PROVE  HeldBy(q)' = HeldBy(q) /\ InUse(q)' = InUse(q)
  BY <1>1 DEF Same, HeldBy, InUse
<1>. QED BY <1>2, <1>3 DEF Locks, Numbers

(* ROLLBACK: the numbers drawn become gaps.                                *)
LEMMA RollbackMaps ==
    ASSUME IngestionInv, NEW r \in Requests, NEW answer \in Reply, End(r, answer),
           UNCHANGED <<events, agents, nextSeq, body>>
    PROVE  AnalyserView!AbortRows(r) \/ UNCHANGED AnalyserView!feedVars
<1>1. Locks' = [Locks EXCEPT ![r] = {}] /\ Numbers' = [Numbers EXCEPT ![r] = {}]
  BY EndLetsGo
<1>2. CASE HeldBy(r) = {}
  <2>1. Locks[r] = {} /\ Numbers[r] = {}
    BY <1>2, NothingHeld DEF Locks, Numbers
  <2>2. Locks' = Locks /\ Numbers' = Numbers
    BY <1>1, <2>1 DEF Locks, Numbers
  <2>. QED BY <2>2 DEF AnalyserView!feedVars, Locks, Numbers
<1>3. CASE HeldBy(r) # {}
  <2>1. AnalyserView!AbortRows(r)
    BY <1>1, <1>3 DEF AnalyserView!AbortRows, Locks, Numbers
  <2>. QED BY <2>1
<1>. QED BY <1>2, <1>3

(* COMMIT: the rows inserted become visible, all at once.                  *)
LEMMA CommitMaps ==
    ASSUME IngestionInv, NEW r \in Requests, NEW answer \in Reply, End(r, answer), Publish(r),
           pc[r] \in {"commit", "committing"}, UNCHANGED <<nextSeq, body>>
    PROVE  AnalyserView!CommitRows(r) \/ UNCHANGED AnalyserView!feedVars
<1>. DEFINE Visible == {e.seq : e \in events}
<1>1. Locks' = [Locks EXCEPT ![r] = {}] /\ Numbers' = [Numbers EXCEPT ![r] = {}]
  BY EndLetsGo
<1>2. InUse(r) = {e.seq : e \in rows[r]}
  <2>1. drawn[r] = 0
    BY DEF IngestionInv, RequestInv, LocksHeld
  <2>. QED BY <2>1 DEF InUse
<1>3. Visible' = Visible \cup InUse(r)
  BY <1>2 DEF Publish
<1>4. CASE HeldBy(r) = {}
  <2>1. Locks[r] = {} /\ Numbers[r] = {} /\ InUse(r) = {}
    BY <1>4, NothingHeld DEF Locks, Numbers
  <2>2. Locks' = Locks /\ Numbers' = Numbers /\ Visible' = Visible
    BY <1>1, <1>3, <2>1 DEF Locks, Numbers
  <2>. QED BY <2>2 DEF AnalyserView!feedVars, Locks, Numbers
<1>5. CASE HeldBy(r) # {}
  <2>1. AnalyserView!CommitRows(r)
    BY <1>1, <1>3, <1>5 DEF AnalyserView!CommitRows, Locks, Numbers
  <2>. QED BY <2>1
<1>. QED BY <1>4, <1>5

(* A step that writes no lock, number or row does not show.                *)
LEMMA StutterMaps ==
    ASSUME UNCHANGED <<events, nextSeq, touched, drawn, rows>>
    PROVE  UNCHANGED AnalyserView!feedVars
BY DEF AnalyserView!feedVars, HeldBy, InUse

(* The upsert of an agent locks its row.                                   *)
LEMMA UpsertMaps ==
    ASSUME IngestionInv, IngestionInv', NEW r \in Requests, UpsertAgent(r)
    PROVE  \E a \in Agents : AnalyserView!Lock(r, a)
<1>1. PICK i \in upserts[r] : \E lo, hi \in TimesOf(body[r], body[r].items[i].agent) :
        /\ \A q \in Requests \ {r} : touched[q][body[r].items[i].agent] = NoRow
        /\ touched' = [touched EXCEPT ![r][body[r].items[i].agent] =
                          Upsert(agents[body[r].items[i].agent], lo, hi)]
        /\ upserts' = [upserts EXCEPT ![r] = @ \ {i}]
        /\ pc' = [pc EXCEPT ![r] = IF upserts[r] = {i} THEN "draw" ELSE "upsert"]
  BY DEF UpsertAgent
<1>. DEFINE a == body[r].items[i].agent
<1>2. /\ pc[r] = "upsert" /\ pc'[r] \in {"draw", "upsert"} /\ i \notin upserts'[r]
      /\ UNCHANGED <<events, nextSeq, body, drawn, rows>>
  BY <1>1 DEF UpsertAgent, IngestionInv, TypeOK
<1>3. /\ body[r] \in Bodies /\ i \in FirstOfAgent(body[r])
      /\ touched[r][a] = NoRow /\ rows[r] = {} /\ drawn[r] = 0
  BY <1>2 DEF IngestionInv, RequestInv, BodyAccepted, AgentsUpserted, EventsInserted,
              InTransaction, Statements
<1>4. a \in Agents /\ body[r].items[i].at \in TimesOf(body[r], a)
  BY <1>3, FirstOccurrences, ParsedEntry DEF TimesOf
<1>5. touched'[r][a] # NoRow
  BY <1>2, <1>3, <1>4 DEF IngestionInv, RequestInv, AgentsUpserted, InTransaction, Statements,
                          Within
<1>6. \A q \in Requests, c \in Agents :
        touched'[q][c] = IF q = r /\ c = a THEN touched'[r][a] ELSE touched[q][c]
  BY <1>1, <1>4 DEF IngestionInv, TypeOK
<1>7. Locks' = [Locks EXCEPT ![r] = @ \cup {a}]
  <2>1. HeldBy(r)' = HeldBy(r) \cup {a}
    BY <1>4, <1>5, <1>6 DEF HeldBy
  <2>2. \A q \in Requests \ {r} : HeldBy(q)' = HeldBy(q)
    BY <1>6 DEF HeldBy
  <2>. QED BY <2>1, <2>2 DEF Locks
<1>8. \A q \in Requests : a \notin Locks[q]
  BY <1>1, <1>3 DEF Locks, HeldBy
<1>9. Numbers' = Numbers /\ Numbers[r] = {}
  BY <1>2, <1>3 DEF Numbers, InUse
<1>10. AnalyserView!Lock(r, a)
  BY <1>2, <1>7, <1>8, <1>9 DEF AnalyserView!Lock, Locks, Numbers
<1>. QED BY <1>4, <1>10

(* nextval(): a transaction that has locked an agent draws a number.       *)
LEMMA DrawMaps ==
    ASSUME IngestionInv, IngestionInv', NEW r \in Requests, DrawSeq(r)
    PROVE  AnalyserView!Draw(r)
<1>1. /\ nextSeq \in Seqs /\ nextSeq' = nextSeq + 1 /\ nextSeq # 0 /\ drawn[r] = 0
      /\ drawn' = [drawn EXCEPT ![r] = nextSeq]
      /\ UNCHANGED <<events, touched, rows>>
  BY IngestionAssumption DEF DrawSeq, Seqs, IngestionInv, RequestInv, EventsInserted,
                             InTransaction, Statements
<1>2. drawn'[r] = nextSeq /\ \A q \in Requests \ {r} : drawn'[q] = drawn[q]
  BY <1>1 DEF IngestionInv, TypeOK
<1>3. Numbers' = [Numbers EXCEPT ![r] = @ \cup {nextSeq}]
  <2>1. InUse(r)' = InUse(r) \cup {nextSeq}
    BY <1>1, <1>2 DEF InUse
  <2>2. \A q \in Requests \ {r} : InUse(q)' = InUse(q)
    BY <1>1, <1>2 DEF InUse
  <2>. QED BY <2>1, <2>2 DEF Numbers
<1>4. Locks' = Locks
  BY <1>1 DEF Locks, HeldBy
<1>5. Locks[r] # {}
  <2>1. HeldBy(r)' # {}
    BY <1>1, <1>2 DEF IngestionInv, RequestInv, LocksHeld
  <2>. QED BY <2>1, <1>1 DEF Locks, HeldBy
<1>6. nextSeq \in AnalyserView!Seqs
  BY <1>1 DEF Seqs, AnalyserView!Seqs
<1>. QED BY <1>1, <1>3, <1>4, <1>5, <1>6 DEF AnalyserView!Draw, Locks, Numbers

(* The insert: the number becomes the event's, or a gap.                   *)
LEMMA InsertMaps ==
    ASSUME IngestionInv, NEW r \in Requests, InsertEvent(r)
    PROVE  AnalyserView!Skip(r) \/ UNCHANGED AnalyserView!feedVars
<1>1. PICK i \in inserts[r] :
        rows' = [rows EXCEPT ![r] =
                   IF Stored(body[r].items[i].id) THEN @
                   ELSE @ \cup {[id |-> body[r].items[i].id, agent |-> body[r].items[i].agent,
                                 at |-> body[r].items[i].at,
                                 client |-> Client(body[r]), seq |-> drawn[r]]}]
  BY DEF InsertEvent
<1>2. /\ drawn' = [drawn EXCEPT ![r] = 0] /\ drawn[r] # 0
      /\ UNCHANGED <<events, nextSeq, touched>>
  BY DEF InsertEvent, IngestionInv, RequestInv, EventsInserted, InTransaction, Statements
<1>3. /\ drawn'[r] = 0
      /\ \A q \in Requests \ {r} : rows'[q] = rows[q] /\ drawn'[q] = drawn[q]
  BY <1>1, <1>2 DEF IngestionInv, TypeOK
<1>4. \A q \in Requests \ {r} : InUse(q)' = InUse(q)
  BY <1>3 DEF InUse
<1>5. Locks' = Locks
  BY <1>2 DEF Locks, HeldBy
<1>6. \A e \in rows[r] : e.seq # 0 /\ e.seq # drawn[r]
  BY IngestionAssumption DEF IngestionInv, TypeOK, EventRow, Seqs, RequestInv, RowsFresh
<1>7. CASE Stored(body[r].items[i].id)
  <2>1. rows'[r] = rows[r]
    BY <1>1, <1>7 DEF IngestionInv, TypeOK
  <2>2. InUse(r)' = InUse(r) \ {drawn[r]} /\ drawn[r] \in InUse(r)
    BY <2>1, <1>2, <1>3, <1>6 DEF InUse
  <2>3. Numbers' = [Numbers EXCEPT ![r] = @ \ {drawn[r]}] /\ drawn[r] \in Numbers[r]
    BY <2>2, <1>4 DEF Numbers
  <2>4. AnalyserView!Skip(r)
    BY <2>3, <1>2, <1>5 DEF AnalyserView!Skip, Locks, Numbers
  <2>. QED BY <2>4
<1>8. CASE ~Stored(body[r].items[i].id)
  <2>. DEFINE e == body[r].items[i]
              row == [id |-> e.id, agent |-> e.agent, at |-> e.at, client |-> Client(body[r]),
                      seq |-> drawn[r]]
  <2>1. row.seq = drawn[r] /\ rows'[r] = rows[r] \cup {row}
    BY <1>1, <1>8 DEF IngestionInv, TypeOK
  <2>. HIDE DEF row
  <2>2. InUse(r)' = InUse(r)
    BY <2>1, <1>2, <1>3 DEF InUse
  <2>3. Numbers' = Numbers
    BY <2>2, <1>4 DEF Numbers
  <2>. QED BY <2>3, <1>2, <1>5 DEF AnalyserView!feedVars, Locks, Numbers
<1>. QED BY <1>7, <1>8

-----------------------------------------------------------------------------
(* Whatever the requests, the failures and their order, the events table   *)
(* changes as the analyser assumes.                                        *)
THEOREM IngestionImplementsFeed == Spec => ImplementsFeed
<1>1. Init => AnalyserView!FeedInit
  BY DEF Init, AnalyserView!FeedInit, HeldBy, InUse
<1>2. IngestionInv /\ IngestionInv' /\ [Next]_vars => [AnalyserView!FeedNext]_AnalyserView!feedVars
  <2>. SUFFICES ASSUME IngestionInv, IngestionInv', [Next]_vars
                PROVE  \/ \E w \in Requests : AnalyserView!FeedStep(w)
                       \/ UNCHANGED AnalyserView!feedVars
    BY DEF AnalyserView!FeedNext
  <2>1. ASSUME NEW r \in Requests,
               UpsertAgent(r) \/ DrawSeq(r) \/ InsertEvent(r)
        PROVE  AnalyserView!FeedStep(r) \/ UNCHANGED AnalyserView!feedVars
    BY <2>1, UpsertMaps, DrawMaps, InsertMaps DEF AnalyserView!FeedStep
  <2>2. ASSUME NEW r \in Requests,
               ConnectFails(r) \/ Abort(r) \/ StatementRefused(r) \/ DeadlockVictim(r)
        PROVE  AnalyserView!FeedStep(r) \/ UNCHANGED AnalyserView!feedVars
    <3>1. End(r, Unavailable) /\ UNCHANGED <<events, agents, nextSeq, body>>
      BY <2>2 DEF ConnectFails, Abort, StatementRefused, DeadlockVictim, Rollback
    <3>. QED BY <3>1, FailureReplies, RollbackMaps DEF AnalyserView!FeedStep
  <2>3. ASSUME NEW r \in Requests, Commit(r) \/ CommitReplyLost(r)
        PROVE  AnalyserView!FeedStep(r) \/ UNCHANGED AnalyserView!feedVars
    <3>1. /\ pc[r] = "commit" /\ Publish(r) /\ UNCHANGED <<nextSeq, body>>
          /\ End(r, Answer(r)) \/ End(r, Unavailable)
      BY <2>3 DEF Commit, CommitReplyLost
    <3>2. Answer(r) \in Reply /\ Unavailable \in Reply
      BY <3>1, AnswerOfRequest, FailureReplies DEF IngestionInv, RequestInv, BodyAccepted, Statements
    <3>. QED BY <3>1, <3>2, CommitMaps DEF AnalyserView!FeedStep
  <2>4. ASSUME NEW r \in Requests, OrphanEnds(r)
        PROVE  AnalyserView!FeedStep(r) \/ UNCHANGED AnalyserView!feedVars
    <3>1. End(r, Disconnected) /\ Disconnected \in Reply /\ UNCHANGED <<nextSeq, body>>
      BY <2>4, FailureReplies DEF OrphanEnds
    <3>2. CASE pc[r] = "committing" /\ Publish(r)
      BY <3>1, <3>2, CommitMaps DEF AnalyserView!FeedStep
    <3>3. CASE UNCHANGED <<events, agents>>
      BY <3>1, <3>3, RollbackMaps DEF AnalyserView!FeedStep
    <3>. QED BY <2>4, <3>2, <3>3 DEF OrphanEnds
  <2>5. ASSUME NEW r \in Requests, Receive(r) \/ Connect(r)
        PROVE  UNCHANGED AnalyserView!feedVars
    BY <2>5, StutterMaps DEF Receive, Connect, txVars
  <2>6. CASE Crash \/ Shutdown \/ AppClosed \/ Exit \/ UNCHANGED vars
    BY <2>6, StutterMaps DEF Crash, Shutdown, AppClosed, Exit, ProcessEnds, vars, txVars
  <2>. QED BY <2>1, <2>2, <2>3, <2>4, <2>5, <2>6 DEF Next, Step, AllAnswered
<1>. QED BY <1>1, <1>2, IngestionInvariant, PTL DEF Spec, ImplementsFeed, AnalyserView!FeedSpec

-----------------------------------------------------------------------------
(* What the clients see: the abstract log's view of a body.                *)

(* The entries that count are those that parse.                            *)
LEMMA EntriesMap ==
    ASSUME NEW b \in Bodies, ~Throws(b)
    PROVE  Log!Entries(b) = Valid(b) /\ DOMAIN b.items \ Valid(b) = Rejected(b)
<1>1. \A i \in DOMAIN b.items : ParseEnvelope(b.items[i]) \in {"ok", "rejected"}
  BY DEF Throws, ParseEnvelope
<1>2. \A i \in DOMAIN b.items : b.items[i] \in Refused <=> ParseEnvelope(b.items[i]) = "rejected"
  BY DEF Refused
<1>3. Log!Entries(b) = Valid(b)
  BY <1>1, <1>2 DEF Log!Entries, Valid
<1>4. DOMAIN b.items \ Valid(b) = Rejected(b)
  BY <1>1 DEF Valid, Rejected
<1>. QED BY <1>3, <1>4

(* The sender is the one client whose secret the header presents.          *)
LEMMA SendersMap ==
    ASSUME NEW b
    PROVE  Log!Senders(b) = IF Client(b) = NoClient THEN {} ELSE {Client(b)}
<1>. DEFINE w == Words(b.header)
            s == BearerToken(b.header)
            Names == {KeyEntries[i][1] : i \in DOMAIN KeyEntries}
<1>1. /\ \A i \in DOMAIN KeyEntries : KeyEntries[i][2] # "" /\ KeyEntries[i][1] # NoClient
      /\ \A i, j \in DOMAIN KeyEntries : KeyEntries[i][2] = KeyEntries[j][2] => i = j
  <2>1. DOMAIN KeyEntries \subseteq Nat
    BY IngestionAssumption
  <2>2. \A i \in DOMAIN KeyEntries : \A j \in 1 .. i - 1 : KeyEntries[j][2] # KeyEntries[i][2]
    BY IngestionAssumption DEF Malformed
  <2>3. \A i \in DOMAIN KeyEntries : KeyEntries[i][2] # "" /\ KeyEntries[i][1] # NoClient
    BY IngestionAssumption DEF Malformed
  <2>4. \A i \in DOMAIN KeyEntries : i >= 1
    BY IngestionAssumption
  <2>5. ASSUME NEW i \in DOMAIN KeyEntries, NEW j \in DOMAIN KeyEntries, j < i
        PROVE  KeyEntries[i][2] # KeyEntries[j][2]
    <3>1. j \in 1 .. i - 1
      BY <2>1, <2>4, <2>5
    <3>. QED BY <2>2, <3>1
  <2>6. \A i, j \in DOMAIN KeyEntries : i # j => i < j \/ j < i
    BY <2>1
  <2>. QED BY <2>3, <2>5, <2>6
<1>2. \A i \in DOMAIN KeyEntries :
        s = KeyEntries[i][2] <=>
            Len(w) = 2 /\ w[1] \in {"bearer", "Bearer"} /\ w[2] = KeyEntries[i][2]
  BY <1>1 DEF BearerToken, NoToken
<1>3. Client(b) = Resolve(ParseApiKeys(KeyEntries), s)
  BY DEF Client, Caller
<1>4. Log!Senders(b) = {c \in Names : \E i \in DOMAIN KeyEntries : c = KeyEntries[i][1] /\ s = KeyEntries[i][2]}
  <2>. HIDE DEF w, s
  <2>1. Log!Senders(b) =
          {c \in {k[1] : k \in {KeyEntries[i] : i \in DOMAIN KeyEntries}} :
             \E k \in {KeyEntries[i] : i \in DOMAIN KeyEntries} :
                 c = k[1] /\ Len(w) = 2 /\ w[1] \in {"bearer", "Bearer"} /\ w[2] = k[2]}
    BY DEF Log!Senders, w
  <2>. QED BY <1>2, <2>1
<1>. HIDE DEF w, s
<1>5. CASE \E i \in DOMAIN KeyEntries : s = KeyEntries[i][2]
  <2>1. PICK i \in DOMAIN KeyEntries : s = KeyEntries[i][2]
    BY <1>5
  <2>2. \A j \in DOMAIN KeyEntries : s = KeyEntries[j][2] => j = i
    BY <1>1, <2>1
  <2>3. Log!Senders(b) = {KeyEntries[i][1]}
    BY <1>4, <2>1, <2>2
  <2>4. Client(b) = CHOOSE c \in Names : \E j \in DOMAIN KeyEntries :
                        KeyEntries[j][1] = c /\ KeyEntries[j][2] = s
    BY <1>3, <2>1 DEF Resolve, ParseApiKeys
  <2>5. \E c \in Names : \E j \in DOMAIN KeyEntries : KeyEntries[j][1] = c /\ KeyEntries[j][2] = s
    BY <2>1
  <2>6. \E j \in DOMAIN KeyEntries : KeyEntries[j][1] = Client(b) /\ KeyEntries[j][2] = s
    BY <2>4, <2>5
  <2>7. Client(b) = KeyEntries[i][1] /\ Client(b) # NoClient
    BY <1>1, <2>2, <2>6
  <2>. QED BY <2>3, <2>7
<1>6. CASE ~ \E i \in DOMAIN KeyEntries : s = KeyEntries[i][2]
  <2>1. Log!Senders(b) = {}
    BY <1>4, <1>6
  <2>2. Client(b) = NoClient
    BY <1>3, <1>6 DEF Resolve, ParseApiKeys
  <2>. QED BY <2>1, <2>2
<1>. QED BY <1>5, <1>6

(* An entry is fresh if it is the first with its id and the id is new.     *)
LEMMA FreshMap ==
    ASSUME NEW b \in Bodies, ~Throws(b), NEW i \in Valid(b)
    PROVE  Log!Fresh(b, i) <=> i \in FirstOfId(b) /\ ~Stored(b.items[i].id)
<1>1. Log!NotLogged(b.items[i].id) <=> ~Stored(b.items[i].id)
  <2>. DEFINE Entry(e) == [id |-> e.id, agent |-> e.agent, at |-> e.at, client |-> e.client]
  <2>1. \A e : Entry(e).id = e.id
    OBVIOUS
  <2>2. Logged = {Entry(e) : e \in events}
    BY DEF Logged
  <2>. HIDE DEF Entry
  <2>. QED BY <2>1, <2>2 DEF Log!NotLogged, Stored
<1>2. Log!Entries(b) = Valid(b)
  BY EntriesMap
<1>. QED BY <1>1, <1>2 DEF Log!Fresh, FirstOfId

(* What is answered at once.                                               *)
LEMMA AtOnceMap ==
    ASSUME NEW b \in Bodies, ~Throws(b)
    PROVE  /\ Refusal(b) # 0 => Log!AtOnce(b) = Bare(Refusal(b))
           /\ Refusal(b) = 0 /\ Valid(b) # {} => Log!AtOnce(b) = NoReply
           /\ Refusal(b) = 0 /\ Valid(b) = {} =>
                  Log!AtOnce(b) = [code |-> 207, results |-> <<>>, rejected |-> Rejected(b)]
<1>1. \A code : Log!Refused(code) = Bare(code)
  BY DEF Log!Refused, Bare
<1>2. Log!Entries(b) = Valid(b) /\ DOMAIN b.items \ Valid(b) = Rejected(b)
  BY EntriesMap
<1>3. Log!Senders(b) = {} <=> Client(b) = NoClient
  BY SendersMap
<1>4. Log!Unusable(b) <=> Unusable(b) \/ (b.kind = "single" /\ Rejected(b) # {})
  <2>1. CASE b.kind = "batch"
    BY <2>1, BodyShape, IngestionAssumption DEF Log!Unusable, Unusable
  <2>2. CASE b.kind = "single"
    <3>1. DOMAIN b.items = {1}
      BY <2>2, BodyShape
    <3>. QED BY <2>2, <3>1, <1>2 DEF Log!Unusable, Unusable, Rejected, Valid
  <2>3. CASE b.kind \notin {"batch", "single"}
    BY <2>3 DEF Log!Unusable, Unusable
  <2>. QED BY <2>1, <2>2, <2>3
<1>5. CASE b.kind \in Unread
  <2>1. Refusal(b) = IF b.kind = "oversized" THEN 413
                     ELSE IF b.kind = "garbled" THEN 400 ELSE 500
    BY <1>5 DEF Refusal, Unread
  <2>. QED BY <1>1, <1>5, <2>1 DEF Log!AtOnce, Unread
<1>6. CASE b.kind \in {"single", "batch"}
  <2>1. Refusal(b) = IF Client(b) = NoClient THEN 401 ELSE IF Log!Unusable(b) THEN 400 ELSE 0
    BY <1>4, <1>6 DEF Refusal, Unread
  <2>2. Log!AtOnce(b) = IF Client(b) = NoClient THEN Bare(401)
                        ELSE IF Log!Unusable(b) THEN Bare(400)
                        ELSE IF Valid(b) = {} THEN Log!Accepted(b) ELSE NoReply
    BY <1>1, <1>2, <1>3, <1>6 DEF Log!AtOnce
  <2>3. ASSUME Valid(b) = {}, ~Log!Unusable(b)
        PROVE  Log!Accepted(b) = [code |-> 207, results |-> <<>>, rejected |-> Rejected(b)]
    <3>1. b.kind = "batch"
      BY <1>2, <1>6, <2>3 DEF Log!Unusable
    <3>2. Log!Statuses(b) = <<>>
      BY <1>2, <2>3 DEF Log!Statuses
    <3>. QED BY <1>2, <3>1, <3>2 DEF Log!Accepted
  <2>. QED BY <2>1, <2>2, <2>3
<1>. QED BY <1>5, <1>6, BodyShape

(* What is committed is what the abstract log is extended by, and the      *)
(* answer says what was new.                                               *)
LEMMA CommitExtends ==
    ASSUME IngestionInv, NEW r \in Requests, pc[r] \in {"commit", "committing"},
           ~Throws(body[r]), Publish(r)
    PROVE  /\ Logged' = Log!Extended(body[r])
           /\ Answer(r) = Log!Accepted(body[r])
<1>. DEFINE b == body[r]
            Entry(i) == [id |-> b.items[i].id, agent |-> b.items[i].agent,
                         at |-> b.items[i].at, client |-> Client(b)]
            Shown(e) == [id |-> e.id, agent |-> e.agent, at |-> e.at, client |-> e.client]
            New == {i \in FirstOfId(b) : ~Stored(b.items[i].id)}
<1>1. b \in Bodies /\ Refusal(b) = 0 /\ Client(b) # NoClient
  <2>1. b \in Bodies /\ Refusal(b) = 0
    BY DEF IngestionInv, RequestInv, BodyAccepted, Statements, Orphaned
  <2>. QED BY <2>1, BodyShape DEF Refusal, Unread
<1>2. \A i \in FirstOfId(b) : Stored(b.items[i].id) \/ b.items[i].id \in Inserted(r)
  BY DEF IngestionInv, RequestInv, EventsInserted, InTransaction, Statements
<1>3. \A e \in rows[r] : ~Stored(e.id) /\ \E i \in FirstOfId(b) : RowOf(e, b, i)
  BY DEF IngestionInv, RequestInv, RowsFresh
<1>4. \A i \in FirstOfId(b) : b.items[i].id \in Inserted(r) <=> ~Stored(b.items[i].id)
  BY <1>2, <1>3 DEF Inserted
<1>5. /\ Log!Entries(b) = Valid(b) /\ DOMAIN b.items \ Valid(b) = Rejected(b)
      /\ Log!Senders(b) = {Client(b)}
  BY <1>1, EntriesMap, SendersMap
<1>6. {Shown(e) : e \in rows[r]} = {Entry(i) : i \in New}
  <2>1. ASSUME NEW e \in rows[r] PROVE \E i \in New : Shown(e) = Entry(i)
    <3>1. PICK i \in FirstOfId(b) : RowOf(e, b, i)
      BY <1>3
    <3>2. i \in New /\ Shown(e) = Entry(i)
      BY <3>1, <1>3 DEF RowOf
    <3>. QED BY <3>2
  <2>2. ASSUME NEW i \in New PROVE \E e \in rows[r] : Shown(e) = Entry(i)
    <3>1. PICK e \in rows[r] : e.id = b.items[i].id
      BY <1>2 DEF Inserted
    <3>2. PICK j \in FirstOfId(b) : RowOf(e, b, j)
      BY <1>3
    <3>3. j = i
      <4>1. \A k, l \in FirstOfId(b) : b.items[k].id = b.items[l].id => k = l
        BY <1>1, FirstOccurrences
      <4>2. b.items[j].id = b.items[i].id
        BY <3>1, <3>2 DEF RowOf
      <4>. QED BY <4>1, <4>2
    <3>4. Shown(e) = Entry(i)
      BY <3>2, <3>3 DEF RowOf
    <3>. QED BY <3>4
  <2>. HIDE DEF Shown, Entry, New
  <2>. QED BY <2>1, <2>2
<1>7. New = {j \in Valid(b) : Log!Fresh(b, j)}
  BY <1>1, FreshMap, FirstOccurrences
<1>8. Log!Extended(b) = Logged \cup {Entry(i) : i \in New}
  <2>1. Log!Extended(b) = Logged \cup
            {[id |-> b.items[i].id, agent |-> b.items[i].agent, at |-> b.items[i].at,
              client |-> c] : i \in New, c \in {Client(b)}}
    BY <1>5, <1>7 DEF Log!Extended
  <2>. QED BY <2>1
<1>9. Logged' = Logged \cup {Shown(e) : e \in rows[r]}
  BY DEF Logged, Publish
<1>10. Results(r) = Log!Statuses(b)
  <2>1. \A i \in Valid(b) : (i \in FirstOfId(b) /\ b.items[i].id \in Inserted(r)) <=> Log!Fresh(b, i)
    BY <1>1, <1>4, FreshMap
  <2>. QED BY <1>5, <2>1 DEF Results, Log!Statuses
<1>11. Answer(r) = Log!Accepted(b)
  BY <1>5, <1>10 DEF Answer, Log!Accepted
<1>. QED BY <1>6, <1>8, <1>9, <1>11

-----------------------------------------------------------------------------
(* The steps, seen by the clients.                                         *)

(* Whoever is past its arrival and not answered is waiting.                *)
LEMMA WaitingMap ==
    ASSUME IngestionInv, NEW r \in Requests,
           pc[r] \in {"queued"} \cup Statements \cup Orphaned
    PROVE  Log!Waiting(r) /\ body[r] \in Bodies
<1>1. body[r] \in Bodies /\ reply[r] = NoReply
  BY DEF IngestionInv, RequestInv, BodyAccepted, RepliesTrue, Statements, Orphaned
<1>2. body[r].kind # "none"
  BY <1>1, BodyShape DEF Unread
<1>. QED BY <1>1, <1>2 DEF Log!Waiting

(* A request arrives, and may have its answer at once.                     *)
LEMMA ReceiveMaps ==
    ASSUME IngestionInv, \A b \in Bodies : ~Throws(b), NEW r \in Requests, Receive(r)
    PROVE  Log!Ask(r)
<1>1. body[r].kind = "none" /\ reply[r] = NoReply /\ pc[r] = "unsent" /\ UNCHANGED events
  BY DEF Receive, IngestionInv, RequestInv, BodyAccepted, RepliesTrue, Nothing
<1>2. PICK b \in Bodies :
        /\ body' = [body EXCEPT ![r] = b]
        /\ \E answer \in {Log!AtOnce(b), Unavailable} : reply' = [reply EXCEPT ![r] = answer]
  <2>1. PICK b \in Bodies :
          /\ body' = [body EXCEPT ![r] = b]
          /\ \/ reply' = [reply EXCEPT ![r] = Unavailable]
             \/ Refusal(b) # 0 /\ reply' = [reply EXCEPT ![r] = Bare(Refusal(b))]
             \/ /\ Refusal(b) = 0 /\ Valid(b) = {}
                /\ reply' = [reply EXCEPT ![r] =
                                [code |-> 207, results |-> <<>>, rejected |-> Rejected(b)]]
             \/ Refusal(b) = 0 /\ Valid(b) # {} /\ reply' = reply
    BY DEF Receive
  <2>2. reply = [reply EXCEPT ![r] = NoReply]
    BY <1>1 DEF IngestionInv, TypeOK
  <2>3. CASE reply' = [reply EXCEPT ![r] = Unavailable]
    BY <2>1, <2>3
  <2>4. CASE Refusal(b) # 0 /\ reply' = [reply EXCEPT ![r] = Bare(Refusal(b))]
    <3>1. Log!AtOnce(b) = Bare(Refusal(b))
      BY <2>4, AtOnceMap
    <3>. QED BY <2>1, <2>4, <3>1
  <2>5. CASE /\ Refusal(b) = 0 /\ Valid(b) = {}
             /\ reply' = [reply EXCEPT ![r] =
                             [code |-> 207, results |-> <<>>, rejected |-> Rejected(b)]]
    <3>1. Log!AtOnce(b) = [code |-> 207, results |-> <<>>, rejected |-> Rejected(b)]
      BY <2>5, AtOnceMap
    <3>. QED BY <2>1, <2>5, <3>1
  <2>6. CASE Refusal(b) = 0 /\ Valid(b) # {} /\ reply' = reply
    <3>1. Log!AtOnce(b) = NoReply
      BY <2>6, AtOnceMap
    <3>. QED BY <2>1, <2>2, <2>6, <3>1
  <2>. QED BY <2>1, <2>3, <2>4, <2>5, <2>6
<1>3. Unavailable = Log!Refused(503)
  BY DEF Unavailable, Bare, Log!Refused
<1>4. Logged' = Logged
  BY <1>1 DEF Logged
<1>. QED BY <1>1, <1>2, <1>3, <1>4 DEF Log!Ask

(* A request that ends without effect is refused.                          *)
LEMMA RefuseMaps ==
    ASSUME IngestionInv, NEW r \in Requests,
           pc[r] \in {"queued"} \cup Statements \cup Orphaned,
           End(r, Unavailable) \/ End(r, Disconnected), UNCHANGED <<events, body>>
    PROVE  Log!Refuse(r)
<1>1. Log!Waiting(r)
  BY WaitingMap
<1>2. Unavailable = Log!Refused(503)
  BY DEF Unavailable, Bare, Log!Refused
<1>3. \E a \in {Unavailable, Disconnected} : reply' = [reply EXCEPT ![r] = a]
  BY DEF End
<1>4. Logged' = Logged
  BY DEF Logged
<1>. QED BY <1>1, <1>2, <1>3, <1>4 DEF Log!Refuse

(* A request that takes effect is recorded, heard of or not.               *)
LEMMA RecordMaps ==
    ASSUME IngestionInv, \A b \in Bodies : ~Throws(b), NEW r \in Requests,
           Commit(r) \/ CommitReplyLost(r) \/ (OrphanEnds(r) /\ pc[r] = "committing" /\ Publish(r))
    PROVE  Log!Record(r) \/ Log!RecordUnheard(r)
<1>1. pc[r] \in {"commit", "committing"} /\ Publish(r) /\ UNCHANGED body
  BY DEF Commit, CommitReplyLost, OrphanEnds
<1>2. Log!Waiting(r) /\ body[r] \in Bodies
  BY <1>1, WaitingMap DEF Statements, Orphaned
<1>3. Logged' = Log!Extended(body[r]) /\ Answer(r) = Log!Accepted(body[r])
  BY <1>1, <1>2, CommitExtends
<1>4. Unavailable = Log!Refused(503)
  BY DEF Unavailable, Bare, Log!Refused
<1>5. CASE Commit(r)
  BY <1>1, <1>2, <1>3, <1>5 DEF Commit, End, Log!Record
<1>6. CASE CommitReplyLost(r)
  <2>1. LosesReplies /\ reply' = [reply EXCEPT ![r] = Log!Refused(503)]
    BY <1>4, <1>6 DEF CommitReplyLost, End
  <2>. QED BY <1>1, <1>2, <1>3, <2>1 DEF Log!RecordUnheard
<1>7. CASE OrphanEnds(r)
  <2>1. reply' = [reply EXCEPT ![r] = Disconnected]
    BY <1>7 DEF OrphanEnds, End
  <2>. QED BY <1>1, <1>2, <1>3, <2>1 DEF Log!RecordUnheard
<1>. QED BY <1>5, <1>6, <1>7

(* As long as no entry makes parseEnvelope throw, a request takes effect   *)
(* at once and is answered as if no other were under way, whatever runs,   *)
(* fails or is sent again beside it.                                       *)
THEOREM IngestionImplementsLog ==
    ASSUME \A b \in Bodies : ~Throws(b)
    PROVE  Spec => ImplementsLog
<1>1. Init => Log!LogInit
  BY DEF Init, Log!LogInit, Logged, Nothing
<1>2. IngestionInv /\ [Next]_vars => [Log!LogNext]_Log!logVars
  <2>. SUFFICES ASSUME IngestionInv, [Next]_vars
                PROVE  (\E w \in Requests : Log!Ask(w) \/ Log!Record(w) \/ Log!Refuse(w)
                                               \/ Log!RecordUnheard(w))
                       \/ UNCHANGED Log!logVars
    BY DEF Log!LogNext
  <2>1. ASSUME NEW r \in Requests, Receive(r)
        PROVE  Log!Ask(r)
    BY <2>1, ReceiveMaps
  <2>2. ASSUME NEW r \in Requests,
               ConnectFails(r) \/ Abort(r) \/ StatementRefused(r) \/ DeadlockVictim(r)
        PROVE  Log!Refuse(r)
    <3>1. /\ End(r, Unavailable) /\ UNCHANGED <<events, body>>
          /\ pc[r] \in {"queued"} \cup Statements
      BY <2>2 DEF ConnectFails, Abort, StatementRefused, DeadlockVictim, Rollback,
                  InTransaction, Statements
    <3>. QED BY <3>1, RefuseMaps
  <2>3. ASSUME NEW r \in Requests, Commit(r) \/ CommitReplyLost(r)
        PROVE  Log!Record(r) \/ Log!RecordUnheard(r)
    BY <2>3, RecordMaps
  <2>4. ASSUME NEW r \in Requests, OrphanEnds(r)
        PROVE  Log!Refuse(r) \/ Log!Record(r) \/ Log!RecordUnheard(r)
    <3>1. CASE pc[r] = "committing" /\ Publish(r)
      BY <2>4, <3>1, RecordMaps
    <3>2. CASE UNCHANGED <<events, agents>>
      BY <2>4, <3>2, RefuseMaps DEF OrphanEnds
    <3>. QED BY <2>4, <3>1, <3>2 DEF OrphanEnds
  <2>5. CASE UNCHANGED <<events, body, reply>>
    BY <2>5 DEF Log!logVars, Logged
  <2>6. ASSUME NEW r \in Requests,
               Connect(r) \/ UpsertAgent(r) \/ DrawSeq(r) \/ InsertEvent(r)
        PROVE  UNCHANGED <<events, body, reply>>
    BY <2>6 DEF Connect, UpsertAgent, DrawSeq, InsertEvent
  <2>7. CASE Crash \/ Shutdown \/ AppClosed \/ Exit \/ UNCHANGED vars
    BY <2>5, <2>7 DEF Crash, Shutdown, AppClosed, Exit, ProcessEnds, vars
  <2>. QED BY <2>1, <2>2, <2>3, <2>4, <2>5, <2>6, <2>7 DEF Next, Step, AllAnswered
<1>. QED BY <1>1, <1>2, IngestionInvariant, PTL DEF Spec, ImplementsLog, Log!LogSpec
=============================================================================
