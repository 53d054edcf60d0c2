--------------------------- MODULE IngestionProofs --------------------------
(***************************************************************************)
(* Idempotency, atomicity and commit order of ingestion, proved for every  *)
(* number of requests, agents, events and failures and every set of bodies *)
(* that satisfies IngestionAssumption.                                     *)
(***************************************************************************)
EXTENDS Ingestion, OrderLemmas

UniqueIds(S) == \A d, e \in S : d.id = e.id => d = e

Within(row, t) == row # NoRow /\ row.first <= t /\ t <= row.last

(* What a request has been accepted for.                                   *)
BodyAccepted(r) ==
    /\ pc[r] = "unsent" => body[r] = Nothing
    /\ pc[r] \in {"queued"} \cup Statements \cup Orphaned =>
           body[r] \in Bodies /\ Refusal(body[r]) = 0 /\ Valid(body[r]) # {}

(* The agents of an open transaction: those upserted cover the times of    *)
(* its events, the others are not touched yet.                             *)
AgentsUpserted(r) ==
    InTransaction(r) =>
      /\ upserts[r] \subseteq FirstOfAgent(body[r])
      /\ pc[r] # "upsert" => upserts[r] = {}
      /\ \A i \in FirstOfAgent(body[r]) :
           LET a == body[r].items[i].agent
           IN  IF i \in upserts[r] THEN touched[r][a] = NoRow
               ELSE \A t \in TimesOf(body[r], a) : Within(touched[r][a], t)

(* The events of an open transaction, or of one whose COMMIT a dead        *)
(* process has sent: those already inserted are stored, by this            *)
(* transaction or before.                                                  *)
EventsInserted(r) ==
    InTransaction(r) \/ pc[r] = "committing" =>
      /\ inserts[r] \subseteq FirstOfId(body[r])
      /\ pc[r] = "upsert" => inserts[r] = FirstOfId(body[r]) /\ rows[r] = {}
      /\ pc[r] \in {"commit", "committing"} => inserts[r] = {}
      /\ drawn[r] # 0 <=> pc[r] = "insert"
      /\ \A i \in FirstOfId(body[r]) \ inserts[r] :
           LET id == body[r].items[i].id IN Stored(id) \/ id \in Inserted(r)

(* e is the row of entry i of b, from the client that sent b.              *)
RowOf(e, b, i) ==
    /\ e.id = b.items[i].id /\ e.agent = b.items[i].agent /\ e.at = b.items[i].at
    /\ e.client = Client(b)

(* What an uncommitted row is: one of the request's events, new to the     *)
(* table, within the times of its agent, and numbered after all the events *)
(* of that agent that are committed.                                       *)
RowsFresh(r) ==
    /\ UniqueIds(rows[r])
    /\ \A e \in rows[r] :
         /\ \E i \in FirstOfId(body[r]) \ inserts[r] : RowOf(e, body[r], i)
         /\ ~Stored(e.id)
         /\ Within(touched[r][e.agent], e.at)
         /\ e.seq < nextSeq /\ e.seq # drawn[r]
         /\ \A d \in events : d.agent = e.agent => d.seq < e.seq

(* What a transaction holds of an agent, and the number it has drawn.      *)
LocksHeld(r) ==
    /\ \A a \in Agents : touched[r][a] # NoRow /\ agents[a] # NoRow =>
           touched[r][a].first <= agents[a].first /\ agents[a].last <= touched[r][a].last
    /\ drawn[r] < nextSeq
    /\ drawn[r] # 0 => \A d \in events : touched[r][d.agent] # NoRow => d.seq < drawn[r]
    /\ drawn[r] # 0 => pc[r] \in {"insert", "orphaned"} /\ HeldBy(r) # {}

(* Agents are locked, and events inserted, by one transaction at a time.   *)
Exclusive ==
    \A q, r \in Requests : q # r =>
        /\ \A a \in Agents : touched[q][a] = NoRow \/ touched[r][a] = NoRow
        /\ Inserted(q) \cap Inserted(r) = {}

TableOK == UniqueIds(events) /\ AgentCoversEvents /\ \A e \in events : e.seq < nextSeq

Said(r, i, id, status) ==
    i \in DOMAIN reply[r].results /\ reply[r].results[i] = [id |-> id, status |-> status]

(* What the replies say is in the table, and a creation is reported once.  *)
RepliesTrue ==
    /\ \A r \in Requests : pc[r] # "answered" => reply[r] = NoReply
    /\ \A r \in Requests : \A i \in DOMAIN reply[r].results : Stored(reply[r].results[i].id)
    /\ \A q, r \in Requests, i, j \in 1 .. MaxBatchSize, id \in EventIds :
          Said(q, i, id, "created") /\ Said(r, j, id, "created") => q = r /\ i = j

(* Every event in the table has been reported created, or the client that  *)
(* sent it has been cut off.                                               *)
Excused(id) ==
    \E r \in Requests :
        \/ \E i \in 1 .. MaxBatchSize : Said(r, i, id, "created")
        \/ /\ reply[r] = Disconnected
           /\ \E i \in FirstOfId(body[r]) : body[r].items[i].id = id

Explained == \A e \in events : Excused(e.id)

RequestInv(r) ==
    /\ BodyAccepted(r)
    /\ AgentsUpserted(r)
    /\ EventsInserted(r)
    /\ RowsFresh(r)
    /\ LocksHeld(r)

IngestionInv ==
    /\ TypeOK
    /\ \A r \in Requests : RequestInv(r)
    /\ Exclusive
    /\ TableOK
    /\ RepliesTrue
    /\ OnlyFailuresDrop
    /\ ~LosesReplies => Explained

-----------------------------------------------------------------------------
(* What a body is made of.                                                 *)

LEMMA BodyShape ==
    ASSUME NEW b \in Bodies
    PROVE  /\ b.kind \in {"single", "batch"} \cup Unread
           /\ Len(b.items) \in Nat /\ DOMAIN b.items = 1 .. Len(b.items)
           /\ b.kind = "single" => Len(b.items) = 1
           /\ b.items = <<>> <=> Len(b.items) = 0
<1>. DEFINE S == {b.items[i] : i \in DOMAIN b.items}
            s == b.items
<1>1. s \in Seq(S)
  BY IngestionAssumption
<1>2. Len(s) \in Nat /\ DOMAIN s = 1 .. Len(s) /\ (s = <<>> <=> Len(s) = 0)
  <2>. HIDE DEF S, s
  <2>. QED BY <1>1
<1>. QED BY <1>2, IngestionAssumption

(* A body that is not refused names a known client and holds at most       *)
(* MaxBatchSize entries.                                                   *)
LEMMA UsableBody ==
    ASSUME NEW b \in Bodies, Refusal(b) = 0
    PROVE  /\ b.kind \in {"single", "batch"}
           /\ Client(b) \in {KeyEntries[i][1] : i \in DOMAIN KeyEntries}
           /\ DOMAIN b.items \subseteq 1 .. MaxBatchSize
           /\ ~Throws(b)
<1>1. b.kind \in {"single", "batch"} /\ Client(b) # NoClient /\ ~Unusable(b) /\ ~Throws(b)
  BY BodyShape DEF Refusal, Unread
<1>2. Client(b) \in {KeyEntries[i][1] : i \in DOMAIN KeyEntries}
  <2>. DEFINE s == BearerToken(b.header)
  <2>. HIDE DEF s
  <2>1. Client(b) = Resolve(ParseApiKeys(KeyEntries), s)
    BY DEF Client, Caller, s
  <2>2. PICK i \in DOMAIN KeyEntries : s = KeyEntries[i][2]
    BY <1>1, <2>1 DEF Resolve, ParseApiKeys
  <2>3. Client(b) = CHOOSE c \in {KeyEntries[j][1] : j \in DOMAIN KeyEntries} :
                        \E j \in DOMAIN KeyEntries :
                            KeyEntries[j][1] = c /\ KeyEntries[j][2] = s
    BY <2>1, <2>2 DEF Resolve, ParseApiKeys
  <2>4. \E c \in {KeyEntries[j][1] : j \in DOMAIN KeyEntries} :
            \E j \in DOMAIN KeyEntries : KeyEntries[j][1] = c /\ KeyEntries[j][2] = s
    BY <2>2
  <2>. QED BY <2>3, <2>4
<1>3. DOMAIN b.items \subseteq 1 .. MaxBatchSize
  BY <1>1, BodyShape, IngestionAssumption DEF Unusable
<1>. QED BY <1>1, <1>2, <1>3

(* An entry that parses has an id, an agent and a time.                    *)
LEMMA ParsedEntry ==
    ASSUME NEW b, NEW i \in Valid(b)
    PROVE  /\ b.items[i].id \in EventIds
           /\ b.items[i].agent \in Agents
           /\ b.items[i].at \in Times
<1>. DEFINE e == b.items[i]
<1>1. Fits(e, EventEnvelopeSchema)
  BY DEF Valid, ParseEnvelope
<1>2. DOMAIN EventEnvelopeSchema = {"id", "agent", "at", "type", "tags"}
  BY DEF EventEnvelopeSchema
<1>3. \A f \in {"id", "agent", "at"} : f \in DOMAIN e /\ e[f] \in EventEnvelopeSchema[f]
  BY <1>1, <1>2 DEF Fits, Optional
<1>. QED BY <1>3 DEF EventEnvelopeSchema

(* The first occurrences of event ids, and of the agents among them.       *)
LEMMA FirstOccurrences ==
    ASSUME NEW b \in Bodies
    PROVE  /\ FirstOfAgent(b) \subseteq FirstOfId(b) /\ FirstOfId(b) \subseteq Valid(b)
           /\ \A i \in Valid(b) : \E j \in FirstOfId(b) : b.items[j].id = b.items[i].id
           /\ \A i, j \in FirstOfId(b) : b.items[i].id = b.items[j].id => i = j
           /\ \A i \in FirstOfId(b) : \E j \in FirstOfAgent(b) :
                  b.items[j].agent = b.items[i].agent
           /\ \A i, j \in FirstOfAgent(b) : b.items[i].agent = b.items[j].agent => i = j
<1>1. Valid(b) \subseteq Nat
  BY BodyShape DEF Valid
<1>2. FirstOfAgent(b) \subseteq FirstOfId(b) /\ FirstOfId(b) \subseteq Valid(b)
  BY DEF FirstOfAgent, FirstOfId
<1>3. ASSUME NEW i \in Valid(b)
      PROVE  \E j \in FirstOfId(b) : b.items[j].id = b.items[i].id
  <2>. DEFINE T == {j \in Valid(b) : b.items[j].id = b.items[i].id}
  <2>1. PICK j \in T : \A k \in T : j <= k
    <3>1. T \in SUBSET Nat /\ T # {}
      BY <1>1
    <3>. QED BY <3>1, LeastNumber
  <2>. QED BY <1>1, <2>1 DEF FirstOfId
<1>4. ASSUME NEW i \in FirstOfId(b)
      PROVE  \E j \in FirstOfAgent(b) : b.items[j].agent = b.items[i].agent
  <2>. DEFINE T == {j \in FirstOfId(b) : b.items[j].agent = b.items[i].agent}
  <2>1. PICK j \in T : \A k \in T : j <= k
    <3>1. T \in SUBSET Nat /\ T # {}
      BY <1>1, <1>2
    <3>. QED BY <3>1, LeastNumber
  <2>. QED BY <1>1, <1>2, <2>1 DEF FirstOfAgent
<1>5. \A i, j \in FirstOfId(b) : b.items[i].id = b.items[j].id => i = j
  BY <1>1 DEF FirstOfId
<1>6. \A i, j \in FirstOfAgent(b) : b.items[i].agent = b.items[j].agent => i = j
  BY <1>1, <1>2 DEF FirstOfAgent
<1>. QED BY <1>2, <1>3, <1>4, <1>5, <1>6

-----------------------------------------------------------------------------
(* What a step does to the requests it is not a step of.                   *)

Same(q) ==
    /\ pc'[q] = pc[q]
    /\ body'[q] = body[q]
    /\ upserts'[q] = upserts[q]
    /\ inserts'[q] = inserts[q]
    /\ touched'[q] = touched[q]
    /\ drawn'[q] = drawn[q]
    /\ rows'[q] = rows[q]

(* A request is not disturbed while the tables stay as they are.           *)
LEMMA Bystander ==
    ASSUME TypeOK, NEW q \in Requests, RequestInv(q), Same(q),
           events' = events, agents' = agents, nextSeq' \in Nat, nextSeq <= nextSeq'
    PROVE  RequestInv(q)'
<1>. USE DEF Same
<1>1. nextSeq \in Nat /\ drawn[q] \in Nat /\ \A e \in rows[q] : e.seq \in Nat
  BY IngestionAssumption DEF TypeOK, EventRow, Seqs
<1>2. BodyAccepted(q)'
  BY DEF RequestInv, BodyAccepted
<1>3. AgentsUpserted(q)'
  BY DEF RequestInv, AgentsUpserted, InTransaction
<1>4. EventsInserted(q)'
  BY DEF RequestInv, EventsInserted, InTransaction, Stored, Inserted
<1>5. RowsFresh(q)'
  BY <1>1 DEF RequestInv, RowsFresh, Stored
<1>6. LocksHeld(q)'
  BY <1>1 DEF RequestInv, LocksHeld, HeldBy
<1>. QED BY <1>2, <1>3, <1>4, <1>5, <1>6 DEF RequestInv

(* Nor by another's commit: that one held other agents and other events.   *)
LEMMA BystanderOfCommit ==
    ASSUME TypeOK, Exclusive, NEW q \in Requests, NEW r \in Requests, q # r,
           RequestInv(q), RequestInv(r), Same(q), Publish(r), nextSeq' = nextSeq
    PROVE  RequestInv(q)'
<1>. USE DEF Same
<1>1. \A e \in rows[q], d \in rows[r] : e.id # d.id
  BY DEF Exclusive, Inserted
<1>2. \A d \in rows[r] : d.agent \in Agents /\ touched[q][d.agent] = NoRow
  BY DEF TypeOK, EventRow, RequestInv, RowsFresh, Within, Exclusive
<1>3. \A e \in rows[q] : touched[q][e.agent] # NoRow
  BY DEF RequestInv, RowsFresh, Within
<1>4. BodyAccepted(q)'
  BY DEF RequestInv, BodyAccepted
<1>5. AgentsUpserted(q)'
  BY DEF RequestInv, AgentsUpserted, InTransaction
<1>6. EventsInserted(q)'
  BY DEF RequestInv, EventsInserted, InTransaction, Stored, Inserted, Publish
<1>7. RowsFresh(q)'
  <2>1. \A e \in rows[q] : ~Stored(e.id)'
    BY <1>1 DEF RequestInv, RowsFresh, Stored, Publish
  <2>2. \A e \in rows[q] : \A d \in events' : d.agent = e.agent => d.seq < e.seq
    BY <1>2, <1>3 DEF RequestInv, RowsFresh, Publish
  <2>. QED BY <2>1, <2>2 DEF RequestInv, RowsFresh
<1>8. LocksHeld(q)'
  <2>1. \A a \in Agents : touched[q][a] # NoRow => agents'[a] = agents[a]
    BY DEF Publish, HeldBy, Exclusive
  <2>2. \A d \in events' : touched[q][d.agent] # NoRow => d \in events
    BY <1>2 DEF Publish
  <2>. QED BY <2>1, <2>2 DEF RequestInv, LocksHeld, HeldBy
<1>. QED BY <1>4, <1>5, <1>6, <1>7, <1>8 DEF RequestInv

(* A request that holds nothing and is in no transaction is not, either.   *)
LEMMA HoldsNothing ==
    ASSUME NEW r \in Requests, ~InTransaction(r)', pc'[r] # "committing",
           BodyAccepted(r)', nextSeq' \in Nat \ {0},
           touched'[r] = [a \in Agents |-> NoRow], drawn'[r] = 0, rows'[r] = {}
    PROVE  RequestInv(r)'
<1>1. AgentsUpserted(r)' /\ EventsInserted(r)'
  BY DEF AgentsUpserted, EventsInserted
<1>2. RowsFresh(r)'
  BY DEF RowsFresh, UniqueIds
<1>3. LocksHeld(r)'
  BY DEF LocksHeld
<1>. QED BY <1>1, <1>2, <1>3 DEF RequestInv

(* The pool is not exceeded by a step that opens no transaction.           *)
LEMMA PoolShrinks ==
    ASSUME TypeOK, \A q \in Requests : InTransaction(q)' => InTransaction(q)
    PROVE  Cardinality({q \in Requests : InTransaction(q)})' <= PoolMax
<1>. DEFINE S == {q \in Requests : InTransaction(q)}
<1>1. S' \subseteq S
  OBVIOUS
<1>2. IsFiniteSet(S)
  BY IngestionAssumption, FS_Subset
<1>3. Cardinality(S') <= Cardinality(S) /\ Cardinality(S) \in Nat /\ Cardinality(S') \in Nat
  <2>. HIDE DEF S
  <2>. QED BY <1>1, <1>2, FS_Subset, FS_CardinalityType
<1>4. Cardinality(S) <= PoolMax
  BY DEF TypeOK
<1>. QED BY <1>3, <1>4, IngestionAssumption

(* The replies stay true when a step sends none with results.              *)
LEMMA SaysNothing ==
    ASSUME RepliesTrue, events \subseteq events',
           \A q \in Requests : reply'[q] = reply[q] \/ DOMAIN reply'[q].results = {},
           \A q \in Requests : pc'[q] # "answered" =>
               pc[q] # "answered" /\ reply'[q] = reply[q]
    PROVE  RepliesTrue'
<1>1. \A q \in Requests : pc'[q] # "answered" => reply'[q] = NoReply
  BY DEF RepliesTrue
<1>2. \A q \in Requests : \A i \in DOMAIN reply'[q].results :
          Stored(reply[q].results[i].id)'
  BY DEF RepliesTrue, Stored
<1>3. \A q \in Requests, i \in 1 .. MaxBatchSize, id \in EventIds :
          Said(q, i, id, "created")' => Said(q, i, id, "created")
  BY DEF Said
<1>4. ASSUME NEW q \in Requests, NEW r \in Requests, NEW i \in 1 .. MaxBatchSize,
             NEW j \in 1 .. MaxBatchSize, NEW id \in EventIds,
             Said(q, i, id, "created")', Said(r, j, id, "created")'
      PROVE  q = r /\ i = j
  <2>1. Said(q, i, id, "created") /\ Said(r, j, id, "created")
    BY <1>3, <1>4
  <2>. QED BY <2>1 DEF RepliesTrue
<1>. QED BY <1>1, <1>2, <1>4 DEF RepliesTrue

(* A reply already sent still explains what it explained.                  *)
LEMMA StaysExplained ==
    ASSUME RepliesTrue, Explained,
           \A q \in Requests : pc[q] = "answered" => reply'[q] = reply[q] /\ body'[q] = body[q],
           \A e \in events' : e \in events \/ Excused(e.id)'
    PROVE  Explained'
<1>1. ASSUME NEW e \in events PROVE Excused(e.id)'
  <2>1. PICK q \in Requests :
            \/ \E i \in 1 .. MaxBatchSize : Said(q, i, e.id, "created")
            \/ /\ reply[q] = Disconnected
               /\ \E i \in FirstOfId(body[q]) : body[q].items[i].id = e.id
    BY <1>1 DEF Explained, Excused
  <2>2. pc[q] = "answered"
    <3>1. NoReply # Disconnected /\ DOMAIN NoReply.results = {}
      BY DEF NoReply, Disconnected, Bare
    <3>. QED BY <2>1, <3>1 DEF RepliesTrue, Said
  <2>3. FirstOfId(body[q])' = FirstOfId(body[q])
    BY <2>2
  <2>. QED BY <2>1, <2>2, <2>3 DEF Excused, Said
<1>. QED BY <1>1 DEF Explained

-----------------------------------------------------------------------------
(* The steps that end a transaction.                                       *)

(* The end of a transaction keeps the types of what it writes.             *)
LEMMA EndTypes ==
    ASSUME TypeOK, NEW r \in Requests, NEW answer \in Reply, End(r, answer)
    PROVE  /\ pc' \in [Requests -> {"unsent", "queued", "answered"} \cup Statements \cup Orphaned]
           /\ upserts' \in [Requests -> SUBSET Nat]
           /\ inserts' \in [Requests -> SUBSET Nat]
           /\ touched' \in [Requests -> [Agents -> AgentRow]]
           /\ drawn' \in [Requests -> Seqs \cup {0}]
           /\ rows' \in [Requests -> SUBSET EventRow]
           /\ reply' \in [Requests -> Reply]
           /\ \A q \in Requests : pc'[q] \in {"unsent", "queued", "answered"} =>
                                      HeldBy(q)' = {} /\ rows'[q] = {}
           /\ pc'[r] = "answered" /\ reply'[r] = answer /\ rows'[r] = {} /\ drawn'[r] = 0
           /\ touched'[r] = [a \in Agents |-> NoRow]
           /\ ~InTransaction(r)'
           /\ \A q \in Requests : InTransaction(q)' => InTransaction(q)
           /\ \A q \in Requests \ {r} : reply'[q] = reply[q]
           /\ body' = body => \A q \in Requests \ {r} : Same(q)
<1>1. pc' \in [Requests -> {"unsent", "queued", "answered"} \cup Statements \cup Orphaned]
  BY DEF End, TypeOK
<1>2. upserts' \in [Requests -> SUBSET Nat] /\ inserts' \in [Requests -> SUBSET Nat]
  BY DEF End, TypeOK
<1>3. touched' \in [Requests -> [Agents -> AgentRow]]
  BY DEF End, TypeOK, AgentRow
<1>4. drawn' \in [Requests -> Seqs \cup {0}] /\ rows' \in [Requests -> SUBSET EventRow]
  BY DEF End, TypeOK
<1>5. reply' \in [Requests -> Reply]
  BY DEF End, TypeOK
<1>6. /\ pc'[r] = "answered" /\ reply'[r] = answer /\ rows'[r] = {} /\ drawn'[r] = 0
      /\ touched'[r] = [a \in Agents |-> NoRow]
  BY DEF End, TypeOK
<1>7. \A q \in Requests \ {r} : /\ reply'[q] = reply[q] /\ pc'[q] = pc[q]
                                 /\ upserts'[q] = upserts[q] /\ inserts'[q] = inserts[q]
                                 /\ touched'[q] = touched[q] /\ drawn'[q] = drawn[q]
                                 /\ rows'[q] = rows[q]
  BY DEF End, TypeOK
<1>8. \A q \in Requests : pc'[q] \in {"unsent", "queued", "answered"} =>
                              HeldBy(q)' = {} /\ rows'[q] = {}
  BY <1>6, <1>7 DEF TypeOK, HeldBy
<1>9. ~InTransaction(r)' /\ \A q \in Requests : InTransaction(q)' => InTransaction(q)
  BY <1>6, <1>7 DEF InTransaction, Statements
<1>. QED BY <1>1, <1>2, <1>3, <1>4, <1>5, <1>6, <1>7, <1>8, <1>9 DEF Same

(* Nobody comes to share an agent or an event with another transaction.    *)
LEMMA ExclusiveStays ==
    ASSUME Exclusive, NEW r \in Requests, touched'[r] = [a \in Agents |-> NoRow],
           rows'[r] = {}, \A q \in Requests \ {r} : Same(q)
    PROVE  Exclusive'
<1>. SUFFICES ASSUME NEW p \in Requests, NEW q \in Requests, p # q
              PROVE  /\ \A a \in Agents : touched'[p][a] = NoRow \/ touched'[q][a] = NoRow
                     /\ Inserted(p)' \cap Inserted(q)' = {}
  BY DEF Exclusive
<1>1. CASE p = r \/ q = r
  BY <1>1 DEF Inserted
<1>2. CASE p # r /\ q # r
  <2>1. touched'[p] = touched[p] /\ touched'[q] = touched[q]
    BY <1>2 DEF Same
  <2>2. Inserted(p)' = Inserted(p) /\ Inserted(q)' = Inserted(q)
    BY <1>2 DEF Same, Inserted
  <2>. QED BY <2>1, <2>2 DEF Exclusive
<1>. QED BY <1>1, <1>2

(* No results are results of any kind.                                     *)
LEMMA NoResults ==
    ASSUME NEW T, NEW D
    PROVE  <<>> \in UNION {[S -> T] : S \in SUBSET D}
<1>1. <<>> \in [{} -> T]
  OBVIOUS
<1>2. {} \in SUBSET D
  OBVIOUS
<1>3. [{} -> T] \in {[S -> T] : S \in SUBSET D}
  BY <1>2
<1>. QED BY <1>1, <1>3

(* A reply without results is well formed whatever its code, and a cut     *)
(* connection cannot be mistaken for another answer.                       *)
LEMMA BareReply ==
    ASSUME NEW code \in Codes, NEW R \in SUBSET Nat
    PROVE  /\ [code |-> code, results |-> <<>>, rejected |-> R] \in Reply
           /\ DOMAIN [code |-> code, results |-> <<>>, rejected |-> R].results = {}
           /\ [code |-> code, results |-> <<>>, rejected |-> R] = Disconnected => code = 1
<1>. DEFINE U == UNION {[S -> Result] : S \in SUBSET (1 .. MaxBatchSize)}
            answer == [code |-> code, results |-> <<>>, rejected |-> R]
<1>1. DOMAIN <<>> = {}
  OBVIOUS
<1>2. <<>> \in U
  BY NoResults
<1>3. Reply = [code : Codes, results : U, rejected : SUBSET Nat]
  BY DEF Reply
<1>4. answer.results = <<>> /\ answer.code = code
  OBVIOUS
<1>5. Disconnected.code = 1
  BY DEF Disconnected, Bare
<1>6. answer \in Reply
  <2>. HIDE DEF U
  <2>. QED BY <1>2, <1>3
<1>. QED BY <1>1, <1>4, <1>5, <1>6

(* The answers of a request that stores nothing are such replies.          *)
LEMMA FailureReplies ==
    /\ \A code \in Codes :
           /\ Bare(code) \in Reply /\ DOMAIN Bare(code).results = {}
           /\ Bare(code) = Disconnected => code = 1
    /\ NoReply \in Reply /\ Unavailable \in Reply /\ Disconnected \in Reply
    /\ DOMAIN NoReply.results = {} /\ DOMAIN Unavailable.results = {}
    /\ DOMAIN Disconnected.results = {}
    /\ Unavailable # Disconnected /\ NoReply # Disconnected
<1>1. ASSUME NEW code \in Codes
      PROVE  /\ Bare(code) \in Reply /\ DOMAIN Bare(code).results = {}
             /\ Bare(code) = Disconnected => code = 1
  <2>1. {} \in SUBSET Nat
    OBVIOUS
  <2>2. \A R \in SUBSET Nat :
          /\ [code |-> code, results |-> <<>>, rejected |-> R] \in Reply
          /\ DOMAIN [code |-> code, results |-> <<>>, rejected |-> R].results = {}
          /\ [code |-> code, results |-> <<>>, rejected |-> R] = Disconnected => code = 1
    BY BareReply, Zenon
  <2>. QED BY <2>1, <2>2, Zenon DEF Bare
<1>2. NoReply = Bare(0) /\ Unavailable = Bare(503) /\ Disconnected = Bare(1)
  BY DEF NoReply, Unavailable, Disconnected
<1>3. 0 \in Codes /\ 503 \in Codes /\ 1 \in Codes
  BY DEF Codes
<1>. QED BY <1>1, <1>2, <1>3

(* A transaction ends without effect: what it wrote is gone.               *)
LEMMA NoEffect ==
    ASSUME IngestionInv, NEW r \in Requests, pc[r] # "answered",
           NEW answer \in {Unavailable, Disconnected}, End(r, answer),
           answer = Disconnected => faults > 0,
           UNCHANGED <<events, agents, nextSeq, body>>,
           faults' \in 0 .. MaxFaults, faults <= faults', server' \in Stages
    PROVE  IngestionInv'
<1>. USE DEF IngestionInv
<1>1. answer \in Reply /\ DOMAIN answer.results = {}
  BY FailureReplies
<1>2. TypeOK'
  <2>1. Cardinality({q \in Requests : InTransaction(q)})' <= PoolMax
    BY <1>1, EndTypes, PoolShrinks
  <2>. QED BY <1>1, <2>1, EndTypes DEF TypeOK
<1>3. ASSUME NEW q \in Requests PROVE RequestInv(q)'
  <2>1. nextSeq' \in Nat \ {0} /\ nextSeq <= nextSeq'
    BY IngestionAssumption DEF TypeOK
  <2>2. CASE q = r
    <3>1. BodyAccepted(r)'
      BY <1>1, EndTypes DEF BodyAccepted, Statements, Orphaned
    <3>. QED BY <1>1, <2>1, <2>2, <3>1, EndTypes, HoldsNothing
  <2>3. CASE q # r
    BY <1>1, <2>1, <2>3, EndTypes, Bystander
  <2>. QED BY <2>2, <2>3
<1>4. Exclusive'
  BY <1>1, EndTypes, ExclusiveStays
<1>5. TableOK'
  BY DEF TableOK, UniqueIds, AgentCoversEvents
<1>6. RepliesTrue'
  BY <1>1, EndTypes, SaysNothing DEF Same
<1>7. OnlyFailuresDrop'
  BY <1>1, EndTypes, FailureReplies DEF OnlyFailuresDrop, Same, TypeOK, Orphaned
<1>8. ~LosesReplies => Explained'
  BY <1>1, EndTypes, StaysExplained
<1>. QED BY <1>2, <1>3, <1>4, <1>5, <1>6, <1>7, <1>8

(* What a commit does to the tables: no event is lost or doubled, agents   *)
(* cover their events, and new events come after those of their agent.     *)
LEMMA PublishedTables ==
    ASSUME TypeOK, TableOK, NEW r \in Requests, RequestInv(r), Publish(r), nextSeq' = nextSeq
    PROVE  /\ events' \subseteq EventRow /\ agents' \in [Agents -> AgentRow]
           /\ TableOK'
           /\ events \subseteq events'
           /\ \A e \in events' \ events, d \in events : d.agent = e.agent => d.seq < e.seq
<1>1. events' \subseteq EventRow /\ events \subseteq events'
  BY DEF Publish, TypeOK
<1>2. agents' \in [Agents -> AgentRow]
  BY DEF Publish, TypeOK
<1>3. UniqueIds(events)'
  BY DEF TableOK, Publish, UniqueIds, RequestInv, RowsFresh, Stored
<1>4. ASSUME NEW e \in events'
      PROVE  agents'[e.agent].first # 0 /\ agents'[e.agent].first <= e.at
                 /\ e.at <= agents'[e.agent].last
  <2>1. e.agent \in Agents /\ e.at \in Nat
    BY <1>1, <1>4, IngestionAssumption DEF EventRow
  <2>. DEFINE old == agents[e.agent]
              new == touched[r][e.agent]
  <2>2. /\ old \in AgentRow /\ new \in AgentRow
        /\ agents'[e.agent] = IF new # NoRow THEN new ELSE old
    BY <2>1 DEF TypeOK, Publish, HeldBy
  <2>3. NoRow.first = 0
    BY DEF NoRow
  <2>4. new # NoRow => new.first \in Nat \ {0} /\ new.last \in Nat
    BY <2>2, IngestionAssumption DEF AgentRow
  <2>5. old # NoRow => old.first \in Nat \ {0} /\ old.last \in Nat
    BY <2>2, IngestionAssumption DEF AgentRow
  <2>6. CASE e \in rows[r]
    <3>1. new # NoRow /\ new.first <= e.at /\ e.at <= new.last
      BY <2>2, <2>6 DEF RequestInv, RowsFresh, Within
    <3>. QED BY <3>1, <2>2, <2>4
  <2>7. CASE e \in events
    <3>1. old.first # 0 /\ old.first <= e.at /\ e.at <= old.last
      BY <2>2, <2>7 DEF TableOK, AgentCoversEvents
    <3>2. new # NoRow => new.first <= old.first /\ old.last <= new.last
      BY <2>1, <2>2, <2>3, <3>1 DEF RequestInv, LocksHeld
    <3>. QED BY <3>1, <3>2, <2>1, <2>2, <2>3, <2>4, <2>5
  <2>. QED BY <1>4, <2>6, <2>7 DEF Publish
<1>5. \A e \in events' : e.seq < nextSeq'
  BY DEF Publish, TableOK, RequestInv, RowsFresh
<1>6. \A e \in events' \ events, d \in events : d.agent = e.agent => d.seq < e.seq
  BY DEF Publish, RequestInv, RowsFresh
<1>. QED BY <1>1, <1>2, <1>3, <1>4, <1>5, <1>6 DEF TableOK, AgentCoversEvents

(* A transaction takes effect; what is left to say is what its answer says *)
LEMMA TakesEffect ==
    ASSUME IngestionInv, NEW r \in Requests, NEW answer \in Reply, End(r, answer), Publish(r),
           UNCHANGED <<nextSeq, body>>, faults' \in 0 .. MaxFaults, server' \in Stages,
           RepliesTrue', OnlyFailuresDrop', ~LosesReplies => Explained'
    PROVE  IngestionInv'
<1>. USE DEF IngestionInv
<1>1. TypeOK'
  <2>1. Cardinality({q \in Requests : InTransaction(q)})' <= PoolMax
    BY EndTypes, PoolShrinks
  <2>. QED BY <2>1, EndTypes, PublishedTables DEF TypeOK
<1>2. ASSUME NEW q \in Requests PROVE RequestInv(q)'
  <2>1. CASE q = r
    <3>1. BodyAccepted(r)'
      BY EndTypes DEF BodyAccepted, Statements, Orphaned
    <3>2. nextSeq' \in Nat \ {0}
      BY IngestionAssumption DEF TypeOK
    <3>. QED BY <2>1, <3>1, <3>2, EndTypes, HoldsNothing
  <2>2. CASE q # r
    BY <2>2, EndTypes, BystanderOfCommit
  <2>. QED BY <2>1, <2>2
<1>3. Exclusive'
  BY EndTypes, ExclusiveStays
<1>4. TableOK'
  BY PublishedTables
<1>. QED BY <1>1, <1>2, <1>3, <1>4

(* The answer of a committed request: one result for each valid entry.     *)
LEMMA AnswerOfRequest ==
    ASSUME NEW r \in Requests, body[r] \in Bodies, Refusal(body[r]) = 0
    PROVE  /\ Answer(r) \in Reply /\ Answer(r).results = Results(r)
           /\ DOMAIN Results(r) = Valid(body[r])
           /\ Answer(r) # Disconnected
           /\ \A i \in Valid(body[r]) :
                  /\ Results(r)[i].id = body[r].items[i].id
                  /\ Results(r)[i].status = "created" <=>
                        i \in FirstOfId(body[r]) /\ body[r].items[i].id \in Inserted(r)
<1>1. Valid(body[r]) \subseteq 1 .. MaxBatchSize
  BY UsableBody DEF Valid
<1>2. Rejected(body[r]) \subseteq Nat
  BY BodyShape DEF Rejected
<1>3. Results(r) \in [Valid(body[r]) -> Result]
  BY ParsedEntry DEF Results, Result
<1>4. Results(r) \in UNION {[S -> Result] : S \in SUBSET (1 .. MaxBatchSize)}
  BY <1>1, <1>3
<1>5. Answer(r) \in Reply
  <2>. DEFINE U == UNION {[S -> Result] : S \in SUBSET (1 .. MaxBatchSize)}
              code == IF body[r].kind = "batch" THEN 207
                      ELSE IF Results(r)[1].status = "created" THEN 201 ELSE 200
  <2>1. Reply = [code : Codes, results : U, rejected : SUBSET Nat]
    BY DEF Reply
  <2>2. Answer(r) = [code |-> code, results |-> Results(r), rejected |-> Rejected(body[r])]
    BY DEF Answer
  <2>3. code \in Codes
    BY DEF Codes
  <2>4. Results(r) \in U
    BY <1>4
  <2>. HIDE DEF U, code
  <2>. QED BY <2>1, <2>2, <2>3, <2>4, <1>2
<1>6. Answer(r).results = Results(r)
  BY DEF Answer
<1>7. Answer(r).code # Disconnected.code
  BY DEF Answer, Disconnected, Bare
<1>8. \A i \in Valid(body[r]) :
          /\ Results(r)[i].id = body[r].items[i].id
          /\ Results(r)[i].status = "created" <=>
                i \in FirstOfId(body[r]) /\ body[r].items[i].id \in Inserted(r)
  BY DEF Results
<1>. QED BY <1>3, <1>5, <1>6, <1>7, <1>8

(* What a committed request says is true, and nobody has said it before.   *)
LEMMA CommitSpeaksTrue ==
    ASSUME IngestionInv, NEW r \in Requests, pc[r] = "commit", Publish(r),
           End(r, Answer(r)), body' = body
    PROVE  RepliesTrue'
<1>. USE DEF IngestionInv
<1>1. body[r] \in Bodies /\ Refusal(body[r]) = 0
  BY DEF RequestInv, BodyAccepted, Statements
<1>2. /\ pc'[r] = "answered" /\ reply'[r] = Answer(r)
      /\ \A q \in Requests \ {r} : reply'[q] = reply[q] /\ pc'[q] = pc[q]
  BY <1>1, AnswerOfRequest, EndTypes DEF Same
<1>3. \A i \in Valid(body[r]) : Stored(body[r].items[i].id)'
  <2>1. \A i \in FirstOfId(body[r]) : LET id == body[r].items[i].id
                                      IN  Stored(id) \/ id \in Inserted(r)
    BY DEF RequestInv, EventsInserted, InTransaction, Statements
  <2>2. \A i \in FirstOfId(body[r]) : Stored(body[r].items[i].id)'
    BY <2>1 DEF Stored, Inserted, Publish
  <2>. QED BY <1>1, <2>2, FirstOccurrences
<1>4. \A q \in Requests : \A i \in DOMAIN reply'[q].results :
          Stored(reply[q].results[i].id)'
  <2>1. \A q \in Requests \ {r} : \A i \in DOMAIN reply'[q].results :
            Stored(reply[q].results[i].id)'
    BY <1>2 DEF RepliesTrue, Stored, Publish
  <2>2. \A i \in DOMAIN reply'[r].results : Stored(reply[r].results[i].id)'
    BY <1>1, <1>2, <1>3, AnswerOfRequest
  <2>. QED BY <2>1, <2>2
<1>5. ASSUME NEW i, NEW id, Said(r, i, id, "created")'
      PROVE  /\ i \in FirstOfId(body[r]) /\ body[r].items[i].id = id
             /\ \A q \in Requests \ {r}, j \in 1 .. MaxBatchSize : ~Said(q, j, id, "created")'
  <2>1. /\ i \in FirstOfId(body[r]) /\ body[r].items[i].id = id /\ id \in Inserted(r)
    BY <1>1, <1>2, <1>5, AnswerOfRequest DEF Said
  <2>2. ~Stored(id)
    BY <2>1 DEF RequestInv, RowsFresh, Inserted
  <2>. QED BY <2>1, <2>2, <1>2 DEF Said, RepliesTrue
<1>6. ASSUME NEW p \in Requests, NEW q \in Requests, NEW i \in 1 .. MaxBatchSize,
             NEW j \in 1 .. MaxBatchSize, NEW id \in EventIds,
             Said(p, i, id, "created")', Said(q, j, id, "created")'
      PROVE  p = q /\ i = j
  <2>1. CASE p = r \/ q = r
    <3>1. p = r /\ q = r
      BY <1>5, <1>6, <2>1
    <3>. QED BY <1>1, <1>5, <1>6, <3>1, FirstOccurrences
  <2>2. CASE p # r /\ q # r
    <3>1. Said(p, i, id, "created") /\ Said(q, j, id, "created")
      BY <1>2, <1>6, <2>2 DEF Said
    <3>. QED BY <3>1 DEF RepliesTrue
  <2>. QED BY <2>1, <2>2
<1>. QED BY <1>2, <1>4, <1>6 DEF RepliesTrue

-----------------------------------------------------------------------------
(* The inductive invariant.                                                *)

(* Whoever is in a transaction, or was in one, has not been answered.      *)
LEMMA AnsweredIsOver ==
    ASSUME NEW r, InTransaction(r) \/ pc[r] \in Orphaned \/ pc[r] \in {"queued", "unsent"}
    PROVE  pc[r] # "answered"
BY DEF InTransaction, Statements, Orphaned

LEMMA InitInv == Init => IngestionInv
<1>. SUFFICES ASSUME Init PROVE IngestionInv
  OBVIOUS
<1>. USE DEF Init
<1>1. TypeOK
  <2>1. \A r \in Requests : ~InTransaction(r)
    BY DEF InTransaction, Statements
  <2>2. Cardinality({r \in Requests : InTransaction(r)}) <= PoolMax
    <3>. DEFINE S == {r \in Requests : InTransaction(r)}
    <3>1. S = {}
      BY <2>1
    <3>2. Cardinality({}) = 0
      BY FS_EmptySet
    <3>3. PoolMax \in Nat
      BY IngestionAssumption
    <3>. HIDE DEF S
    <3>4. Cardinality(S) <= PoolMax
      BY <3>1, <3>2, <3>3
    <3>. QED BY <3>4 DEF S
  <2>3. reply \in [Requests -> Reply]
    <3>1. NoReply \in Reply
      BY FailureReplies
    <3>. QED BY <3>1
  <2>4. touched \in [Requests -> [Agents -> AgentRow]] /\ agents \in [Agents -> AgentRow]
    BY DEF AgentRow
  <2>5. \A r \in Requests : HeldBy(r) = {} /\ rows[r] = {}
    BY DEF HeldBy
  <2>6. /\ pc \in [Requests -> {"unsent", "queued", "answered"} \cup Statements \cup Orphaned]
        /\ events \subseteq EventRow /\ nextSeq \in 1 .. MaxSeq + 1
        /\ body \in [Requests -> Bodies \cup {Nothing}]
        /\ upserts \in [Requests -> SUBSET Nat] /\ inserts \in [Requests -> SUBSET Nat]
        /\ drawn \in [Requests -> Seqs \cup {0}] /\ rows \in [Requests -> SUBSET EventRow]
        /\ faults \in 0 .. MaxFaults
    BY IngestionAssumption
  <2>7. server \in Stages
    BY DEF Stages
  <2>. QED BY <2>2, <2>3, <2>4, <2>5, <2>6, <2>7 DEF TypeOK
<1>2. \A r \in Requests : RequestInv(r)
  BY DEF RequestInv, BodyAccepted, AgentsUpserted, EventsInserted, RowsFresh, LocksHeld,
         InTransaction, Statements, Orphaned, UniqueIds
<1>3. Exclusive
  BY DEF Exclusive, Inserted
<1>4. TableOK /\ Explained
  BY DEF TableOK, UniqueIds, AgentCoversEvents, Explained
<1>5. \A r \in Requests : reply[r] = NoReply /\ pc[r] = "unsent" /\ reply[r].results = <<>>
  BY DEF NoReply, Bare
<1>6. RepliesTrue
  BY <1>5 DEF RepliesTrue, Said
<1>7. OnlyFailuresDrop
  <2>. QED BY <1>5, FailureReplies DEF OnlyFailuresDrop, Orphaned
<1>. QED BY <1>1, <1>2, <1>3, <1>4, <1>6, <1>7 DEF IngestionInv

(* The commits that take effect: acknowledged, unheard of, or a dead       *)
(* process's.                                                              *)
LEMMA CommitStep ==
    ASSUME IngestionInv, NEW r \in Requests, Commit(r), UNCHANGED server
    PROVE  IngestionInv'
<1>. USE DEF IngestionInv
<1>1. body[r] \in Bodies /\ Refusal(body[r]) = 0 /\ pc[r] = "commit"
  BY DEF Commit, RequestInv, BodyAccepted, Statements
<1>2. Answer(r) \in Reply /\ Answer(r) # Disconnected /\ Answer(r).results = Results(r)
  BY <1>1, AnswerOfRequest
<1>3. RepliesTrue'
  BY <1>1, CommitSpeaksTrue DEF Commit
<1>4. OnlyFailuresDrop'
  BY <1>2, EndTypes DEF Commit, OnlyFailuresDrop, Same, Orphaned
<1>5. ASSUME NEW e \in rows[r] PROVE Excused(e.id)'
  <2>1. PICK i \in FirstOfId(body[r]) : body[r].items[i].id = e.id
    BY DEF RequestInv, RowsFresh, RowOf
  <2>2. i \in Valid(body[r]) /\ i \in 1 .. MaxBatchSize
    BY <1>1, FirstOccurrences, UsableBody DEF Valid
  <2>3. Results(r)[i] = [id |-> e.id, status |-> "created"]
    BY <2>1, <2>2 DEF Results, Inserted
  <2>4. i \in DOMAIN Results(r)
    BY <2>2 DEF Results
  <2>5. reply'[r] = Answer(r)
    BY <1>2, EndTypes DEF Commit
  <2>. QED BY <1>2, <2>2, <2>3, <2>4, <2>5 DEF Excused, Said
<1>6. ~LosesReplies => Explained'
  <2>1. \A e \in events' : e \in events \/ Excused(e.id)'
    BY <1>5 DEF Commit, Publish
  <2>2. \A q \in Requests : pc[q] = "answered" => reply'[q] = reply[q] /\ body'[q] = body[q]
    BY <1>1, <1>2, EndTypes DEF Commit
  <2>. QED BY <2>1, <2>2, StaysExplained
<1>. QED BY <1>2, <1>3, <1>4, <1>6, TakesEffect DEF Commit, TypeOK

LEMMA UnheardCommitStep ==
    ASSUME IngestionInv, NEW r \in Requests, CommitReplyLost(r), UNCHANGED server
    PROVE  IngestionInv'
<1>. USE DEF IngestionInv
<1>1. Unavailable \in Reply /\ pc[r] = "commit" /\ LosesReplies
  BY FailureReplies DEF CommitReplyLost
<1>2. events \subseteq events'
  BY DEF CommitReplyLost, Publish
<1>3. RepliesTrue'
  BY <1>1, <1>2, FailureReplies, EndTypes, SaysNothing DEF CommitReplyLost, Same
<1>4. OnlyFailuresDrop'
  BY DEF CommitReplyLost, OnlyFailuresDrop, TypeOK
<1>5. faults' \in 0 .. MaxFaults
  BY IngestionAssumption DEF CommitReplyLost, TypeOK
<1>. QED BY <1>1, <1>3, <1>4, <1>5, TakesEffect DEF CommitReplyLost, TypeOK

LEMMA OrphanStep ==
    ASSUME IngestionInv, NEW r \in Requests, OrphanEnds(r), UNCHANGED server
    PROVE  IngestionInv'
<1>. USE DEF IngestionInv
<1>1. Disconnected \in Reply /\ pc[r] \in Orphaned /\ pc[r] # "answered" /\ faults > 0
  BY FailureReplies, AnsweredIsOver DEF OrphanEnds, OnlyFailuresDrop
<1>2. CASE UNCHANGED <<events, agents>>
  <2>1. /\ UNCHANGED <<events, agents, nextSeq, body>> /\ End(r, Disconnected)
        /\ faults' \in 0 .. MaxFaults /\ faults <= faults' /\ server' \in Stages
    BY <1>2, IngestionAssumption DEF OrphanEnds, TypeOK
  <2>. QED BY <1>1, <2>1, NoEffect
<1>3. CASE Publish(r)
  <2>1. events \subseteq events'
    BY <1>3 DEF Publish
  <2>2. RepliesTrue'
    BY <1>1, <2>1, FailureReplies, EndTypes, SaysNothing DEF OrphanEnds, Same
  <2>3. OnlyFailuresDrop'
    BY <1>1 DEF OrphanEnds, OnlyFailuresDrop
  <2>4. ASSUME NEW e \in rows[r] PROVE Excused(e.id)'
    <3>1. \E i \in FirstOfId(body[r]) : body[r].items[i].id = e.id
      BY DEF RequestInv, RowsFresh, RowOf
    <3>2. reply'[r] = Disconnected
      BY <1>1, EndTypes DEF OrphanEnds
    <3>3. body' = body
      BY DEF OrphanEnds
    <3>. QED BY <3>1, <3>2, <3>3 DEF Excused
  <2>5. ~LosesReplies => Explained'
    <3>1. \A e \in events' : e \in events \/ Excused(e.id)'
      BY <1>3, <2>4 DEF Publish
    <3>2. \A q \in Requests : pc[q] = "answered" => reply'[q] = reply[q] /\ body'[q] = body[q]
      BY <1>1, EndTypes DEF OrphanEnds
    <3>. QED BY <3>1, <3>2, StaysExplained
  <2>. QED BY <1>1, <1>3, <2>2, <2>3, <2>5, TakesEffect DEF OrphanEnds, TypeOK
<1>. QED BY <1>2, <1>3 DEF OrphanEnds

(* The failures before the COMMIT has taken effect.                        *)
LEMMA FailureStep ==
    ASSUME IngestionInv, NEW r \in Requests, UNCHANGED server,
           ConnectFails(r) \/ Abort(r) \/ StatementRefused(r) \/ DeadlockVictim(r)
    PROVE  IngestionInv'
<1>. USE DEF IngestionInv
<1>1. pc[r] # "answered"
  BY AnsweredIsOver DEF ConnectFails, Abort, StatementRefused, DeadlockVictim, InTransaction,
                        Statements
<1>2. End(r, Unavailable) /\ UNCHANGED <<events, agents, nextSeq, body>>
  BY DEF ConnectFails, Abort, StatementRefused, DeadlockVictim, Rollback
<1>3. faults' \in 0 .. MaxFaults /\ faults <= faults'
  BY IngestionAssumption DEF TypeOK, ConnectFails, Abort, StatementRefused, DeadlockVictim
<1>4. server' \in Stages
  BY DEF TypeOK
<1>. QED BY <1>1, <1>2, <1>3, <1>4, FailureReplies, NoEffect

(* A step that writes neither the tables nor a reply leaves the rest of    *)
(* the invariant as it is.                                                 *)
LEMMA QuietStep ==
    ASSUME IngestionInv, UNCHANGED <<events, agents, reply>>, nextSeq' \in Nat, nextSeq <= nextSeq',
           \A q \in Requests : pc'[q] = "answered" <=> pc[q] = "answered",
           \A q \in Requests : pc[q] = "answered" => body'[q] = body[q],
           faults' \in Nat, faults <= faults',
           \A q \in Requests : pc'[q] \in Orphaned => pc[q] \in Orphaned \/ faults' > 0
    PROVE  TableOK' /\ RepliesTrue' /\ OnlyFailuresDrop' /\ (~LosesReplies => Explained')
<1>. USE DEF IngestionInv
<1>1. TableOK'
  <2>1. nextSeq \in Nat /\ \A e \in events : e.seq \in Nat
    BY IngestionAssumption DEF TypeOK, EventRow, Seqs
  <2>2. AgentCoversEvents'
    BY DEF TableOK, AgentCoversEvents
  <2>. QED BY <2>1, <2>2 DEF TableOK, UniqueIds
<1>2. RepliesTrue'
  BY SaysNothing
<1>3. OnlyFailuresDrop'
  BY DEF OnlyFailuresDrop, TypeOK
<1>4. ~LosesReplies => Explained'
  BY StaysExplained
<1>. QED BY <1>1, <1>2, <1>3, <1>4

(* A request arrives.                                                      *)
LEMMA ReceiveStep ==
    ASSUME IngestionInv, NEW r \in Requests, Receive(r), UNCHANGED server
    PROVE  IngestionInv'
<1>. USE DEF IngestionInv
<1>1. /\ pc[r] = "unsent" /\ reply[r] = NoReply /\ drawn[r] = 0 /\ rows[r] = {}
      /\ touched[r] = [a \in Agents |-> NoRow]
  <2>1. pc[r] = "unsent"
    BY DEF Receive
  <2>2. HeldBy(r) = {} /\ rows[r] = {} /\ reply[r] = NoReply
    BY <2>1 DEF TypeOK, RepliesTrue
  <2>3. drawn[r] = 0
    BY <2>1 DEF RequestInv, LocksHeld, Orphaned
  <2>4. touched[r] = [a \in Agents |-> NoRow]
    BY <2>2 DEF TypeOK, HeldBy
  <2>. QED BY <2>1, <2>2, <2>3, <2>4
<1>2. /\ UNCHANGED <<events, agents, nextSeq, upserts, inserts, touched, drawn, rows, faults>>
      /\ \A q \in Requests \ {r} : Same(q) /\ reply'[q] = reply[q]
  BY DEF Receive, txVars, Same, TypeOK
<1>3. PICK b \in Bodies, answer \in Reply :
        /\ body' = [body EXCEPT ![r] = b]
        /\ reply' = [reply EXCEPT ![r] = answer]
        /\ DOMAIN answer.results = {} /\ answer # Disconnected
        /\ \/ pc' = [pc EXCEPT ![r] = "answered"]
           \/ /\ pc' = [pc EXCEPT ![r] = "queued"] /\ answer = NoReply
              /\ Refusal(b) = 0 /\ Valid(b) # {}
  <2>1. PICK b \in Bodies :
          /\ body' = [body EXCEPT ![r] = b]
          /\ \/ /\ \E code \in {503, Refusal(b)} : reply' = [reply EXCEPT ![r] = Bare(code)]
                /\ pc' = [pc EXCEPT ![r] = "answered"]
             \/ /\ reply' = [reply EXCEPT ![r] =
                                [code |-> 207, results |-> <<>>, rejected |-> Rejected(b)]]
                /\ pc' = [pc EXCEPT ![r] = "answered"]
             \/ /\ pc' = [pc EXCEPT ![r] = "queued"] /\ reply' = reply
                /\ Refusal(b) = 0 /\ Valid(b) # {}
    BY DEF Receive, Unavailable
  <2>2. CASE /\ \E code \in {503, Refusal(b)} : reply' = [reply EXCEPT ![r] = Bare(code)]
             /\ pc' = [pc EXCEPT ![r] = "answered"]
    <3>1. PICK code \in {503, Refusal(b)} : reply' = [reply EXCEPT ![r] = Bare(code)]
      BY <2>2
    <3>2. code \in Codes /\ code # 1
      BY DEF Refusal, Codes
    <3>3. /\ Bare(code) \in Reply /\ DOMAIN Bare(code).results = {}
          /\ Bare(code) # Disconnected
      BY <3>2, FailureReplies
    <3>. QED BY <2>1, <2>2, <3>1, <3>3
  <2>3. CASE reply' = [reply EXCEPT ![r] =
                         [code |-> 207, results |-> <<>>, rejected |-> Rejected(b)]]
             /\ pc' = [pc EXCEPT ![r] = "answered"]
    <3>. DEFINE answer == [code |-> 207, results |-> <<>>, rejected |-> Rejected(b)]
    <3>1. Rejected(b) \subseteq Nat
      BY BodyShape DEF Rejected
    <3>2. answer \in Reply /\ DOMAIN answer.results = {} /\ answer # Disconnected
      BY <3>1, BareReply DEF Codes
    <3>. HIDE DEF answer
    <3>3. reply' = [reply EXCEPT ![r] = answer]
      BY <2>3 DEF answer
    <3>. QED BY <2>1, <2>3, <3>2, <3>3
  <2>4. CASE pc' = [pc EXCEPT ![r] = "queued"] /\ reply' = reply
             /\ Refusal(b) = 0 /\ Valid(b) # {}
    <3>1. reply' = [reply EXCEPT ![r] = NoReply]
      BY <1>1, <2>4 DEF TypeOK
    <3>2. /\ body' = [body EXCEPT ![r] = b]
          /\ NoReply \in Reply /\ DOMAIN NoReply.results = {} /\ NoReply # Disconnected
      BY <2>1, FailureReplies
    <3>. QED BY <2>4, <3>1, <3>2
  <2>. QED BY <2>1, <2>2, <2>3, <2>4
<1>4. /\ reply'[r] = answer /\ body'[r] = b
      /\ pc'[r] \in {"answered", "queued"} /\ (pc'[r] = "queued" => answer = NoReply)
      /\ pc' \in [Requests -> {"unsent", "queued", "answered"} \cup Statements \cup Orphaned]
      /\ \A q \in Requests \ {r} : pc'[q] = pc[q]
  BY <1>3 DEF TypeOK
<1>5. \A q \in Requests : InTransaction(q)' <=> InTransaction(q)
  BY <1>1, <1>4 DEF InTransaction, Statements
<1>6. TypeOK'
  <2>1. Cardinality({q \in Requests : InTransaction(q)})' <= PoolMax
    BY <1>5, PoolShrinks
  <2>2. \A q \in Requests : pc'[q] \in {"unsent", "queued", "answered"} =>
                               HeldBy(q)' = {} /\ rows'[q] = {}
    BY <1>1, <1>2, <1>4 DEF TypeOK, HeldBy
  <2>3. body' \in [Requests -> Bodies \cup {Nothing}] /\ reply' \in [Requests -> Reply]
    BY <1>3 DEF TypeOK
  <2>. QED BY <1>2, <1>4, <2>1, <2>2, <2>3 DEF TypeOK
<1>7. ASSUME NEW q \in Requests PROVE RequestInv(q)'
  <2>1. nextSeq' \in Nat \ {0} /\ nextSeq <= nextSeq'
    BY <1>2, IngestionAssumption DEF TypeOK
  <2>2. CASE q = r
    <3>1. BodyAccepted(r)'
      BY <1>3, <1>4 DEF BodyAccepted, Statements, Orphaned, TypeOK
    <3>2. ~InTransaction(r)' /\ pc'[r] # "committing"
      BY <1>4 DEF InTransaction, Statements
    <3>. QED BY <1>1, <1>2, <2>1, <2>2, <3>1, <3>2, HoldsNothing
  <2>3. CASE q # r
    BY <1>2, <2>1, <2>3, Bystander
  <2>. QED BY <2>2, <2>3
<1>8. Exclusive'
  BY <1>1, <1>2, ExclusiveStays
<1>9. TableOK'
  BY <1>2 DEF TableOK, UniqueIds, AgentCoversEvents
<1>10. RepliesTrue'
  BY <1>1, <1>2, <1>3, <1>4, SaysNothing
<1>11. OnlyFailuresDrop'
  BY <1>2, <1>3, <1>4 DEF OnlyFailuresDrop, Orphaned
<1>12. ~LosesReplies => Explained'
  BY <1>1, <1>2, StaysExplained DEF Same
<1>. QED BY <1>6, <1>7, <1>8, <1>9, <1>10, <1>11, <1>12

(* A client of the pool: the transaction is open, and has touched nothing. *)
LEMMA ConnectStep ==
    ASSUME IngestionInv, NEW r \in Requests, Connect(r), UNCHANGED server
    PROVE  IngestionInv'
<1>. USE DEF IngestionInv
<1>1. /\ pc[r] = "queued" /\ pc'[r] = "upsert"
      /\ upserts'[r] = FirstOfAgent(body[r]) /\ inserts'[r] = FirstOfId(body[r])
      /\ \A q \in Requests \ {r} : Same(q)
      /\ UNCHANGED <<events, agents, nextSeq, body, touched, drawn, rows, reply, faults>>
  BY DEF Connect, Same, TypeOK
<1>2. body[r] \in Bodies /\ Refusal(body[r]) = 0 /\ Valid(body[r]) # {}
  BY <1>1 DEF RequestInv, BodyAccepted
<1>3. FirstOfAgent(body[r]) \subseteq Nat /\ FirstOfId(body[r]) \subseteq Nat
  BY <1>2, FirstOccurrences, UsableBody DEF Valid
<1>4. /\ \A a \in Agents : touched[r][a] = NoRow
      /\ rows[r] = {} /\ drawn[r] = 0
  BY <1>1 DEF TypeOK, HeldBy, RequestInv, LocksHeld, Orphaned
<1>5. TypeOK'
  <2>1. Cardinality({q \in Requests : InTransaction(q)})' <= PoolMax
    <3>. DEFINE S == {q \in Requests : InTransaction(q)}
    <3>1. S' = S \cup {r} /\ r \notin S
      BY <1>1 DEF InTransaction, Statements, Same
    <3>2. IsFiniteSet(S)
      BY IngestionAssumption, FS_Subset
    <3>3. Cardinality(S') = Cardinality(S) + 1 /\ Cardinality(S) \in Nat
      <4>. HIDE DEF S
      <4>. QED BY <3>1, <3>2, FS_AddElement, FS_CardinalityType
    <3>4. Cardinality(S) < PoolMax
      BY DEF Connect
    <3>. HIDE DEF S
    <3>5. Cardinality(S') <= PoolMax
      BY <3>3, <3>4, IngestionAssumption
    <3>. QED BY <3>5 DEF S
  <2>2. upserts' \in [Requests -> SUBSET Nat] /\ inserts' \in [Requests -> SUBSET Nat]
    BY <1>3 DEF Connect, TypeOK
  <2>3. pc' \in [Requests -> {"unsent", "queued", "answered"} \cup Statements \cup Orphaned]
    BY DEF Connect, TypeOK, Statements
  <2>4. \A q \in Requests : pc'[q] \in {"unsent", "queued", "answered"} =>
                               HeldBy(q)' = {} /\ rows'[q] = {}
    BY <1>1 DEF TypeOK, HeldBy, Same
  <2>. QED BY <1>1, <2>1, <2>2, <2>3, <2>4 DEF TypeOK
<1>6. RequestInv(r)'
  <2>1. BodyAccepted(r)'
    BY <1>1, <1>2 DEF BodyAccepted
  <2>2. AgentsUpserted(r)'
    BY <1>1, <1>2, <1>4, FirstOccurrences, ParsedEntry DEF AgentsUpserted
  <2>3. EventsInserted(r)'
    BY <1>1, <1>4 DEF EventsInserted
  <2>4. RowsFresh(r)'
    BY <1>1, <1>4 DEF RowsFresh, UniqueIds
  <2>5. LocksHeld(r)'
    BY <1>1, <1>4, IngestionAssumption DEF LocksHeld, TypeOK
  <2>. QED BY <2>1, <2>2, <2>3, <2>4, <2>5 DEF RequestInv
<1>7. nextSeq' \in Nat /\ nextSeq <= nextSeq'
  BY <1>1, IngestionAssumption DEF TypeOK
<1>8. \A q \in Requests : RequestInv(q)'
  BY <1>1, <1>6, <1>7, Bystander
<1>9. Exclusive'
  BY <1>1 DEF Exclusive, Inserted
<1>10. TableOK' /\ RepliesTrue' /\ OnlyFailuresDrop' /\ (~LosesReplies => Explained')
  <2>1. \A q \in Requests : pc'[q] = "answered" <=> pc[q] = "answered"
    BY <1>1 DEF Same
  <2>2. \A q \in Requests : pc'[q] \in Orphaned => pc[q] \in Orphaned
    BY <1>1 DEF Same, Orphaned
  <2>3. faults' \in Nat /\ faults <= faults'
    BY <1>1, IngestionAssumption DEF TypeOK
  <2>. QED BY <1>1, <1>7, <2>1, <2>2, <2>3, QuietStep
<1>. QED BY <1>5, <1>8, <1>9, <1>10

(* The upsert of an agent: its row is locked, and covers the times of the  *)
(* events to come as well as those the row covered when it was locked.     *)
LEMMA UpsertStep ==
    ASSUME IngestionInv, NEW r \in Requests, UpsertAgent(r), UNCHANGED server
    PROVE  IngestionInv'
<1>. USE DEF IngestionInv
<1>1. PICK i \in upserts[r] : \E lo, hi \in TimesOf(body[r], body[r].items[i].agent) :
        /\ \A q \in Requests \ {r} : touched[q][body[r].items[i].agent] = NoRow
        /\ \A t \in TimesOf(body[r], body[r].items[i].agent) : lo <= t /\ t <= hi
        /\ touched' = [touched EXCEPT ![r][body[r].items[i].agent] =
                          Upsert(agents[body[r].items[i].agent], lo, hi)]
        /\ upserts' = [upserts EXCEPT ![r] = @ \ {i}]
        /\ pc' = [pc EXCEPT ![r] = IF upserts[r] = {i} THEN "draw" ELSE "upsert"]
  BY DEF UpsertAgent
<1>. DEFINE a == body[r].items[i].agent
<1>2. PICK lo, hi \in TimesOf(body[r], a) :
        /\ \A q \in Requests \ {r} : touched[q][a] = NoRow
        /\ \A t \in TimesOf(body[r], a) : lo <= t /\ t <= hi
        /\ touched' = [touched EXCEPT ![r][a] = Upsert(agents[a], lo, hi)]
        /\ upserts' = [upserts EXCEPT ![r] = @ \ {i}]
        /\ pc' = [pc EXCEPT ![r] = IF upserts[r] = {i} THEN "draw" ELSE "upsert"]
  BY <1>1
<1>3. /\ pc[r] = "upsert"
      /\ UNCHANGED <<events, agents, nextSeq, body, inserts, drawn, rows, reply, faults>>
  BY DEF UpsertAgent
<1>4. /\ body[r] \in Bodies /\ Refusal(body[r]) = 0 /\ Valid(body[r]) # {}
      /\ i \in FirstOfAgent(body[r]) /\ rows[r] = {} /\ drawn[r] = 0
      /\ inserts[r] = FirstOfId(body[r])
  BY <1>3 DEF RequestInv, BodyAccepted, AgentsUpserted, EventsInserted, InTransaction, Statements
<1>5. a \in Agents /\ TimesOf(body[r], a) \subseteq Times /\ Times \subseteq Nat \ {0}
  BY <1>4, FirstOccurrences, ParsedEntry, IngestionAssumption DEF TimesOf
<1>6. agents[a] \in AgentRow
  BY <1>5 DEF TypeOK
<1>7. /\ Upsert(agents[a], lo, hi) \in AgentRow
      /\ \A t \in TimesOf(body[r], a) : Within(Upsert(agents[a], lo, hi), t)
      /\ agents[a] # NoRow => /\ Upsert(agents[a], lo, hi).first <= agents[a].first
                              /\ agents[a].last <= Upsert(agents[a], lo, hi).last
  <2>1. lo \in Times /\ hi \in Times /\ lo \in Nat \ {0} /\ hi \in Nat \ {0} /\ lo <= hi
    BY <1>2, <1>5
  <2>2. TimesOf(body[r], a) \subseteq Nat
    BY <1>5
  <2>3. NoRow.first = 0 /\ NoRow.last = 0
    BY DEF NoRow
  <2>4. CASE agents[a] = NoRow
    <3>1. Upsert(agents[a], lo, hi) = [first |-> lo, last |-> hi]
      BY <2>4 DEF Upsert
    <3>. QED BY <2>1, <2>3, <2>4, <3>1, <1>2 DEF AgentRow, Within
  <2>5. CASE agents[a] # NoRow
    <3>. DEFINE old == agents[a]
                new == Upsert(agents[a], lo, hi)
    <3>1. old.first \in Times /\ old.last \in Times /\ old.first \in Nat /\ old.last \in Nat
      BY <2>5, <1>5, <1>6 DEF AgentRow
    <3>2. new = [first |-> IF lo < old.first THEN lo ELSE old.first,
                 last  |-> IF hi > old.last THEN hi ELSE old.last]
      BY <2>5 DEF Upsert
    <3>3. new.first \in Times /\ new.first <= lo /\ new.first <= old.first
      <4>1. new.first = IF lo < old.first THEN lo ELSE old.first
        BY <3>2
      <4>. HIDE DEF new, old
      <4>. QED BY <4>1, <3>1, <2>1
    <3>4. new.last \in Times /\ hi <= new.last /\ old.last <= new.last
      <4>1. new.last = IF hi > old.last THEN hi ELSE old.last
        BY <3>2
      <4>. HIDE DEF new, old
      <4>. QED BY <4>1, <3>1, <2>1
    <3>5. new \in AgentRow
      BY <3>2, <3>3, <3>4 DEF AgentRow
    <3>6. new # NoRow
      BY <2>3, <3>3, <1>5
    <3>. HIDE DEF new, old
    <3>7. \A t \in TimesOf(body[r], a) : Within(new, t)
      BY <1>2, <1>5, <2>1, <2>2, <3>3, <3>4, <3>6 DEF Within
    <3>. QED BY <3>3, <3>4, <3>5, <3>7 DEF new, old
  <2>. QED BY <2>4, <2>5
<1>8. TypeOK'
  <2>1. pc' \in [Requests -> {"unsent", "queued", "answered"} \cup Statements \cup Orphaned]
    BY <1>2 DEF TypeOK, Statements
  <2>2. upserts' \in [Requests -> SUBSET Nat]
    BY <1>2 DEF TypeOK
  <2>3. touched' \in [Requests -> [Agents -> AgentRow]]
    BY <1>2, <1>5, <1>7 DEF TypeOK
  <2>4. \A q \in Requests : InTransaction(q)' => InTransaction(q)
    BY <1>2, <1>3 DEF InTransaction, Statements, TypeOK
  <2>5. Cardinality({q \in Requests : InTransaction(q)})' <= PoolMax
    BY <2>4, PoolShrinks
  <2>6. \A q \in Requests : pc'[q] \in {"unsent", "queued", "answered"} =>
                               HeldBy(q)' = {} /\ rows'[q] = {}
    BY <1>2, <1>3 DEF TypeOK, HeldBy
  <2>. QED BY <1>3, <2>1, <2>2, <2>3, <2>5, <2>6 DEF TypeOK
<1>9. \A q \in Requests \ {r} : Same(q)
  BY <1>2, <1>3 DEF Same, TypeOK
<1>10. /\ pc'[r] = IF upserts[r] = {i} THEN "draw" ELSE "upsert"
       /\ upserts'[r] = upserts[r] \ {i}
       /\ touched'[r] = [touched[r] EXCEPT ![a] = Upsert(agents[a], lo, hi)]
  BY <1>2 DEF TypeOK
<1>11. RequestInv(r)'
  <2>1. BodyAccepted(r)'
    BY <1>3, <1>4, <1>10 DEF BodyAccepted
  <2>2. AgentsUpserted(r)'
    <3>1. upserts'[r] \subseteq FirstOfAgent(body[r]) /\ (pc'[r] # "upsert" => upserts'[r] = {})
      BY <1>3, <1>10 DEF RequestInv, AgentsUpserted, InTransaction, Statements
    <3>2. ASSUME NEW j \in FirstOfAgent(body[r])
          PROVE  LET c == body[r].items[j].agent
                 IN  IF j \in upserts'[r] THEN touched'[r][c] = NoRow
                     ELSE \A t \in TimesOf(body[r], c) : Within(touched'[r][c], t)
      <4>1. CASE j = i
        <5>1. touched'[r][a] = Upsert(agents[a], lo, hi)
          BY <1>5, <1>10 DEF TypeOK
        <5>. QED BY <4>1, <5>1, <1>7, <1>10
      <4>2. CASE j # i
        <5>1. body[r].items[j].agent # a
          BY <1>4, <4>2, FirstOccurrences
        <5>2. body[r].items[j].agent \in Agents
          BY <1>4, FirstOccurrences, ParsedEntry
        <5>3. touched'[r][body[r].items[j].agent] = touched[r][body[r].items[j].agent]
          BY <5>1, <5>2, <1>10 DEF TypeOK
        <5>. QED BY <4>2, <5>3, <1>3, <1>10
                 DEF RequestInv, AgentsUpserted, InTransaction, Statements
      <4>. QED BY <4>1, <4>2
    <3>. QED BY <1>3, <3>1, <3>2 DEF AgentsUpserted
  <2>3. EventsInserted(r)'
    BY <1>3, <1>4, <1>10 DEF EventsInserted
  <2>4. RowsFresh(r)'
    BY <1>3, <1>4 DEF RowsFresh, UniqueIds
  <2>5. LocksHeld(r)'
    <3>1. ASSUME NEW c \in Agents, touched'[r][c] # NoRow, agents[c] # NoRow
          PROVE  touched'[r][c].first <= agents[c].first /\ agents[c].last <= touched'[r][c].last
      <4>1. CASE c = a
        BY <4>1, <3>1, <1>5, <1>7, <1>10 DEF TypeOK
      <4>2. CASE c # a
        <5>1. touched'[r][c] = touched[r][c]
          BY <4>2, <1>10 DEF TypeOK
        <5>. QED BY <5>1, <3>1 DEF RequestInv, LocksHeld
      <4>. QED BY <4>1, <4>2
    <3>2. drawn'[r] = 0 /\ 0 < nextSeq'
      BY <1>3, <1>4, IngestionAssumption DEF TypeOK
    <3>. QED BY <1>3, <3>1, <3>2 DEF LocksHeld
  <2>. QED BY <2>1, <2>2, <2>3, <2>4, <2>5 DEF RequestInv
<1>12. nextSeq' \in Nat /\ nextSeq <= nextSeq'
  BY <1>3, IngestionAssumption DEF TypeOK
<1>13. \A q \in Requests : RequestInv(q)'
  BY <1>3, <1>9, <1>11, <1>12, Bystander
<1>14. Exclusive'
  <2>1. \A q \in Requests : Inserted(q)' = Inserted(q)
    BY <1>3 DEF Inserted
  <2>2. ASSUME NEW p \in Requests \ {r}, NEW c \in Agents
        PROVE  touched'[p][c] = NoRow \/ touched'[r][c] = NoRow
    <3>1. CASE c = a
      BY <3>1, <1>2, <1>9 DEF Same
    <3>2. CASE c # a
      BY <3>2, <1>9, <1>10 DEF Same, Exclusive, TypeOK
    <3>. QED BY <3>1, <3>2
  <2>3. ASSUME NEW p \in Requests \ {r}, NEW q \in Requests \ {r}, p # q, NEW c \in Agents
        PROVE  touched'[p][c] = NoRow \/ touched'[q][c] = NoRow
    BY <1>9, <2>3 DEF Same, Exclusive
  <2>. QED BY <2>1, <2>2, <2>3 DEF Exclusive
<1>15. TableOK' /\ RepliesTrue' /\ OnlyFailuresDrop' /\ (~LosesReplies => Explained')
  <2>1. \A q \in Requests : pc'[q] = "answered" <=> pc[q] = "answered"
    BY <1>3, <1>9, <1>10 DEF Same
  <2>2. \A q \in Requests : pc'[q] \in Orphaned => pc[q] \in Orphaned
    BY <1>3, <1>9, <1>10 DEF Same, Orphaned
  <2>3. faults' \in Nat /\ faults <= faults'
    BY <1>3, IngestionAssumption DEF TypeOK
  <2>. QED BY <1>3, <1>12, <2>1, <2>2, <2>3, QuietStep
<1>. QED BY <1>8, <1>13, <1>14, <1>15

(* A number is drawn: higher than those of all committed events, and of    *)
(* the transaction's own.                                                  *)
LEMMA DrawStep ==
    ASSUME IngestionInv, NEW r \in Requests, DrawSeq(r), UNCHANGED server
    PROVE  IngestionInv'
<1>. USE DEF IngestionInv
<1>1. /\ pc[r] = "draw" /\ pc'[r] = "insert" /\ drawn'[r] = nextSeq
      /\ nextSeq \in Seqs /\ nextSeq' = nextSeq + 1
      /\ UNCHANGED <<events, agents, body, upserts, inserts, touched, rows, reply, faults>>
      /\ \A q \in Requests \ {r} : Same(q)
  BY DEF DrawSeq, Same, TypeOK
<1>2. nextSeq \in Nat /\ nextSeq # 0 /\ nextSeq' \in Nat /\ nextSeq <= nextSeq'
  BY <1>1, IngestionAssumption DEF Seqs
<1>3. TypeOK'
  <2>1. pc' \in [Requests -> {"unsent", "queued", "answered"} \cup Statements \cup Orphaned]
    BY DEF DrawSeq, TypeOK, Statements
  <2>2. drawn' \in [Requests -> Seqs \cup {0}] /\ nextSeq' \in 1 .. MaxSeq + 1
    BY IngestionAssumption DEF DrawSeq, TypeOK, Seqs
  <2>3. \A q \in Requests : InTransaction(q)' => InTransaction(q)
    BY <1>1 DEF InTransaction, Statements, Same
  <2>4. Cardinality({q \in Requests : InTransaction(q)})' <= PoolMax
    BY <2>3, PoolShrinks
  <2>5. \A q \in Requests : pc'[q] \in {"unsent", "queued", "answered"} =>
                               HeldBy(q)' = {} /\ rows'[q] = {}
    BY <1>1 DEF TypeOK, HeldBy, Same
  <2>. QED BY <1>1, <2>1, <2>2, <2>4, <2>5 DEF TypeOK
<1>4. RequestInv(r)'
  <2>1. BodyAccepted(r)'
    BY <1>1 DEF RequestInv, BodyAccepted, Statements
  <2>2. AgentsUpserted(r)'
    BY <1>1 DEF RequestInv, AgentsUpserted, InTransaction, Statements
  <2>3. EventsInserted(r)'
    BY <1>1, <1>2 DEF RequestInv, EventsInserted, InTransaction, Statements, Stored, Inserted
  <2>4. RowsFresh(r)'
    <3>1. \A e \in rows[r] : e.seq \in Nat /\ e.seq < nextSeq
      BY IngestionAssumption DEF RequestInv, RowsFresh, TypeOK, EventRow, Seqs
    <3>2. \A e \in rows[r] : e.seq < nextSeq' /\ e.seq # drawn'[r]
      BY <1>1, <1>2, <3>1
    <3>. QED BY <1>1, <3>2 DEF RequestInv, RowsFresh, Stored
  <2>5. LocksHeld(r)'
    <3>1. HeldBy(r)' # {}
      <4>1. PICK i \in FirstOfAgent(body[r]) : body[r].items[i].agent \in Agents
        BY <1>1, FirstOccurrences, ParsedEntry DEF RequestInv, BodyAccepted, Statements
      <4>2. body[r].items[i].at \in TimesOf(body[r], body[r].items[i].agent)
        BY <4>1 DEF FirstOfAgent, TimesOf
      <4>3. touched[r][body[r].items[i].agent] # NoRow
        BY <1>1, <4>2 DEF RequestInv, AgentsUpserted, InTransaction, Statements, Within
      <4>. QED BY <1>1, <4>1, <4>3 DEF HeldBy
    <3>. QED BY <1>1, <1>2, <3>1 DEF RequestInv, LocksHeld, TableOK
  <2>. QED BY <2>1, <2>2, <2>3, <2>4, <2>5 DEF RequestInv
<1>5. \A q \in Requests : RequestInv(q)'
  BY <1>1, <1>2, <1>4, Bystander
<1>6. Exclusive'
  BY <1>1 DEF Exclusive, Inserted
<1>7. TableOK' /\ RepliesTrue' /\ OnlyFailuresDrop' /\ (~LosesReplies => Explained')
  <2>1. \A q \in Requests : pc'[q] = "answered" <=> pc[q] = "answered"
    BY <1>1 DEF Same
  <2>2. \A q \in Requests : pc'[q] \in Orphaned => pc[q] \in Orphaned
    BY <1>1 DEF Same, Orphaned
  <2>3. faults' \in Nat /\ faults <= faults'
    BY <1>1, IngestionAssumption DEF TypeOK
  <2>. QED BY <1>1, <1>2, <2>1, <2>2, <2>3, QuietStep
<1>. QED BY <1>3, <1>5, <1>6, <1>7

(* The row of an event that nobody has stored or is about to store: its    *)
(* agent is locked, and the locked row covers its time.                    *)
LEMMA InsertStep ==
    ASSUME IngestionInv, NEW r \in Requests, InsertEvent(r), UNCHANGED server
    PROVE  IngestionInv'
<1>. USE DEF IngestionInv
<1>1. PICK i \in inserts[r] :
        /\ \A q \in Requests \ {r} : body[r].items[i].id \notin Inserted(q)
        /\ rows' = [rows EXCEPT ![r] =
                       IF Stored(body[r].items[i].id) THEN @
                       ELSE @ \cup {[id |-> body[r].items[i].id, agent |-> body[r].items[i].agent,
                                     at |-> body[r].items[i].at,
                                     client |-> Client(body[r]), seq |-> drawn[r]]}]
        /\ inserts' = [inserts EXCEPT ![r] = @ \ {i}]
        /\ pc' = [pc EXCEPT ![r] = IF inserts[r] = {i} THEN "commit" ELSE "draw"]
  BY DEF InsertEvent
<1>. DEFINE e == body[r].items[i]
            row == [id |-> e.id, agent |-> e.agent, at |-> e.at, client |-> Client(body[r]),
                    seq |-> drawn[r]]
<1>2. /\ pc[r] = "insert"
      /\ UNCHANGED <<events, agents, nextSeq, body, upserts, touched, reply, faults>>
      /\ drawn' = [drawn EXCEPT ![r] = 0]
  BY DEF InsertEvent
<1>3. /\ rows'[r] = IF Stored(e.id) THEN rows[r] ELSE rows[r] \cup {row}
      /\ inserts'[r] = inserts[r] \ {i}
      /\ pc'[r] = IF inserts[r] = {i} THEN "commit" ELSE "draw"
      /\ drawn'[r] = 0
      /\ \A q \in Requests \ {r} : Same(q)
  BY <1>1, <1>2 DEF TypeOK, Same
<1>4. /\ body[r] \in Bodies /\ Refusal(body[r]) = 0
      /\ inserts[r] \subseteq FirstOfId(body[r]) /\ upserts[r] = {} /\ drawn[r] # 0
  BY <1>2 DEF RequestInv, BodyAccepted, EventsInserted, AgentsUpserted, InTransaction, Statements
<1>5. e.id \in EventIds /\ e.agent \in Agents /\ e.at \in Times
  BY <1>4, FirstOccurrences, ParsedEntry
<1>6. Within(touched[r][e.agent], e.at)
  <2>1. PICK j \in FirstOfAgent(body[r]) : body[r].items[j].agent = e.agent
    BY <1>4, FirstOccurrences
  <2>2. e.at \in TimesOf(body[r], e.agent)
    BY <1>4 DEF TimesOf
  <2>. QED BY <1>2, <1>4, <2>1, <2>2 DEF RequestInv, AgentsUpserted, InTransaction, Statements
<1>7. e.id \notin Inserted(r)
  BY <1>4, FirstOccurrences DEF RequestInv, RowsFresh, RowOf, Inserted
<1>8. row \in EventRow
  <2>1. Client(body[r]) \in {KeyEntries[k][1] : k \in DOMAIN KeyEntries}
    BY <1>4, UsableBody
  <2>2. drawn[r] \in Seqs
    BY <1>4 DEF TypeOK
  <2>. QED BY <1>5, <2>1, <2>2 DEF EventRow
<1>9. TypeOK'
  <2>1. pc' \in [Requests -> {"unsent", "queued", "answered"} \cup Statements \cup Orphaned]
    BY <1>1 DEF TypeOK, Statements
  <2>2. inserts' \in [Requests -> SUBSET Nat]
    BY <1>1 DEF TypeOK
  <2>3. rows' \in [Requests -> SUBSET EventRow]
    BY <1>1, <1>8 DEF TypeOK
  <2>4. drawn' \in [Requests -> Seqs \cup {0}]
    BY <1>2 DEF TypeOK
  <2>5. \A q \in Requests : InTransaction(q)' => InTransaction(q)
    BY <1>2, <1>3 DEF InTransaction, Statements, Same
  <2>6. Cardinality({q \in Requests : InTransaction(q)})' <= PoolMax
    BY <2>5, PoolShrinks
  <2>7. \A q \in Requests : pc'[q] \in {"unsent", "queued", "answered"} =>
                               HeldBy(q)' = {} /\ rows'[q] = {}
    BY <1>2, <1>3 DEF TypeOK, HeldBy, Same
  <2>. QED BY <1>2, <2>1, <2>2, <2>3, <2>4, <2>6, <2>7 DEF TypeOK
<1>10. RequestInv(r)'
  <2>1. BodyAccepted(r)'
    BY <1>2, <1>3 DEF RequestInv, BodyAccepted, Statements, Orphaned
  <2>2. AgentsUpserted(r)'
    BY <1>2, <1>3, <1>4 DEF RequestInv, AgentsUpserted, InTransaction, Statements
  <2>3. EventsInserted(r)'
    <3>1. \A j \in FirstOfId(body[r]) \ inserts[r] :
              Stored(body[r].items[j].id) \/ body[r].items[j].id \in Inserted(r)
      BY <1>2 DEF RequestInv, EventsInserted, InTransaction, Statements
    <3>2. \A j \in FirstOfId(body[r]) \ inserts'[r] :
              Stored(body[r].items[j].id) \/ body[r].items[j].id \in Inserted(r)'
      <4>1. Inserted(r) \subseteq Inserted(r)'
        BY <1>3 DEF Inserted
      <4>2. Stored(e.id) \/ e.id \in Inserted(r)'
        <5>1. row.id = e.id /\ (~Stored(e.id) => row \in rows'[r])
          BY <1>3
        <5>. HIDE DEF row, e
        <5>. QED BY <5>1 DEF Inserted
      <4>. QED BY <1>3, <3>1, <4>1, <4>2
    <3>. QED BY <1>2, <1>3, <1>4, <3>2 DEF EventsInserted, Stored
  <2>4. RowsFresh(r)'
    <3>1. \A d \in rows[r] : d.seq # 0
      BY IngestionAssumption DEF TypeOK, EventRow, Seqs
    <3>2. \A d \in rows[r] :
             /\ \E j \in FirstOfId(body[r]) \ inserts'[r] : RowOf(d, body[r], j)
             /\ ~Stored(d.id) /\ Within(touched[r][d.agent], d.at)
             /\ d.seq < nextSeq /\ d.seq # drawn'[r]
             /\ \A c \in events : c.agent = d.agent => c.seq < d.seq
      BY <1>3, <3>1 DEF RequestInv, RowsFresh
    <3>3. /\ \E j \in FirstOfId(body[r]) \ inserts'[r] : RowOf(row, body[r], j)
          /\ Within(touched[r][row.agent], row.at)
          /\ row.seq < nextSeq /\ row.seq # drawn'[r]
      BY <1>3, <1>4, <1>6 DEF RequestInv, LocksHeld, RowOf
    <3>4. \A c \in events : c.agent = row.agent => c.seq < row.seq
      BY <1>4, <1>6 DEF RequestInv, LocksHeld, Within
    <3>5. UniqueIds(rows[r] \cup {row})
      BY <1>7 DEF RequestInv, RowsFresh, UniqueIds, Inserted
    <3>. HIDE DEF row
    <3>6. CASE Stored(e.id)
      BY <3>6, <1>2, <1>3, <3>2 DEF RowsFresh, Stored, RequestInv
    <3>7. CASE ~Stored(e.id)
      <4>1. row.id = e.id
        BY DEF row
      <4>2. \A d \in rows'[r] : ~Stored(d.id)'
        BY <1>2, <1>3, <3>2, <3>7, <4>1 DEF Stored
      <4>. QED BY <1>2, <1>3, <3>2, <3>3, <3>4, <3>5, <3>7, <4>2 DEF RowsFresh
    <3>. QED BY <3>6, <3>7
  <2>5. LocksHeld(r)'
    <3>1. drawn'[r] < nextSeq'
      BY <1>2, <1>3, IngestionAssumption DEF TypeOK
    <3>. QED BY <1>2, <1>3, <3>1 DEF RequestInv, LocksHeld
  <2>. QED BY <2>1, <2>2, <2>3, <2>4, <2>5 DEF RequestInv
<1>11. nextSeq' \in Nat /\ nextSeq <= nextSeq'
  BY <1>2, IngestionAssumption DEF TypeOK
<1>12. \A q \in Requests : RequestInv(q)'
  BY <1>2, <1>3, <1>10, <1>11, Bystander
<1>13. Exclusive'
  <2>1. \A q \in Requests \ {r} : Inserted(q)' = Inserted(q) /\ e.id \notin Inserted(q)
    BY <1>1, <1>3 DEF Inserted, Same
  <2>2. Inserted(r)' \subseteq Inserted(r) \cup {e.id}
    BY <1>3 DEF Inserted
  <2>. QED BY <1>2, <2>1, <2>2 DEF Exclusive
<1>14. TableOK' /\ RepliesTrue' /\ OnlyFailuresDrop' /\ (~LosesReplies => Explained')
  <2>1. \A q \in Requests : pc'[q] = "answered" <=> pc[q] = "answered"
    BY <1>2, <1>3 DEF Same
  <2>2. \A q \in Requests : pc'[q] \in Orphaned => pc[q] \in Orphaned
    BY <1>2, <1>3 DEF Same, Orphaned
  <2>3. faults' \in Nat /\ faults <= faults'
    BY <1>2, IngestionAssumption DEF TypeOK
  <2>. QED BY <1>2, <1>11, <2>1, <2>2, <2>3, QuietStep
<1>. QED BY <1>9, <1>12, <1>13, <1>14

(* The process is gone: what its transactions hold is still held.  Unless  *)
(* it has died, nothing was under way.                                     *)
LEMMA ProcessEndsStep ==
    ASSUME IngestionInv, ProcessEnds, faults' \in 0 .. MaxFaults, faults <= faults',
           faults' > 0 \/ Drained
    PROVE  IngestionInv'
<1>. USE DEF IngestionInv
<1>1. UNCHANGED <<events, agents, nextSeq, body, touched, drawn, rows, reply>>
  BY DEF ProcessEnds
<1>2. \A q \in Requests :
        /\ pc'[q] = IF pc[q] = "commit" THEN "committing"
                    ELSE IF pc[q] = "queued" \/ InTransaction(q) THEN "orphaned" ELSE pc[q]
        /\ upserts'[q] = {} /\ inserts'[q] = {}
  BY DEF ProcessEnds
<1>3. \A q \in Requests : ~InTransaction(q)'
  BY <1>2 DEF InTransaction, Statements
<1>4. \A q \in Requests : pc'[q] \in {"unsent", "queued", "answered"} => pc'[q] = pc[q]
  BY <1>2
<1>5. TypeOK'
  <2>1. pc' \in [Requests -> {"unsent", "queued", "answered"} \cup Statements \cup Orphaned]
    BY DEF ProcessEnds, TypeOK, Orphaned
  <2>2. Cardinality({q \in Requests : InTransaction(q)})' <= PoolMax
    BY <1>3, PoolShrinks
  <2>3. server' \in Stages
    BY DEF ProcessEnds, Stages
  <2>4. upserts' \in [Requests -> SUBSET Nat] /\ inserts' \in [Requests -> SUBSET Nat]
    BY DEF ProcessEnds
  <2>5. \A q \in Requests : pc'[q] \in {"unsent", "queued", "answered"} =>
                               HeldBy(q)' = {} /\ rows'[q] = {}
    BY <1>1, <1>4 DEF TypeOK, HeldBy
  <2>. QED BY <1>1, <2>1, <2>2, <2>3, <2>4, <2>5 DEF TypeOK
<1>6. ASSUME NEW q \in Requests PROVE RequestInv(q)'
  <2>1. BodyAccepted(q)'
    BY <1>1, <1>2 DEF RequestInv, BodyAccepted, InTransaction, Statements, Orphaned
  <2>2. AgentsUpserted(q)'
    BY <1>3 DEF AgentsUpserted
  <2>3. EventsInserted(q)'
    BY <1>1, <1>2, <1>3 DEF RequestInv, EventsInserted, InTransaction, Statements, Stored, Inserted
  <2>4. RowsFresh(q)'
    BY <1>1, <1>2 DEF RequestInv, RowsFresh, Stored
  <2>5. LocksHeld(q)'
    BY <1>1, <1>2 DEF RequestInv, LocksHeld, InTransaction, Statements, Orphaned, HeldBy
  <2>. QED BY <2>1, <2>2, <2>3, <2>4, <2>5 DEF RequestInv
<1>7. Exclusive'
  BY <1>1 DEF Exclusive, Inserted
<1>8. TableOK' /\ RepliesTrue' /\ OnlyFailuresDrop' /\ (~LosesReplies => Explained')
  <2>1. \A q \in Requests : pc'[q] = "answered" <=> pc[q] = "answered"
    BY <1>2 DEF InTransaction, Statements
  <2>2. nextSeq' \in Nat /\ nextSeq <= nextSeq' /\ faults' \in Nat
    BY <1>1, IngestionAssumption DEF TypeOK
  <2>3. \A q \in Requests : pc'[q] \in Orphaned => pc[q] \in Orphaned \/ faults' > 0
    BY <1>2 DEF Drained, InTransaction, Statements, Orphaned
  <2>. QED BY <1>1, <2>1, <2>2, <2>3, QuietStep
<1>. QED BY <1>5, <1>6, <1>7, <1>8

(* The stages of a shutdown, and the steps in which nothing happens.       *)
LEMMA IdleStep ==
    ASSUME IngestionInv, server' \in Stages,
           UNCHANGED <<events, agents, nextSeq, pc, body, txVars, reply, faults>>
    PROVE  IngestionInv'
<1>. USE DEF IngestionInv, txVars
<1>1. TypeOK'
  <2>1. Cardinality({q \in Requests : InTransaction(q)})' <= PoolMax
    BY PoolShrinks DEF InTransaction
  <2>2. \A q \in Requests : pc'[q] \in {"unsent", "queued", "answered"} =>
                               HeldBy(q)' = {} /\ rows'[q] = {}
    BY DEF TypeOK, HeldBy
  <2>. QED BY <2>1, <2>2 DEF TypeOK
<1>2. nextSeq' \in Nat /\ nextSeq <= nextSeq' /\ faults' \in Nat /\ faults <= faults'
  BY IngestionAssumption DEF TypeOK
<1>3. \A q \in Requests : RequestInv(q)'
  BY <1>2, Bystander DEF Same
<1>4. Exclusive'
  BY DEF Exclusive, Inserted
<1>5. TableOK' /\ RepliesTrue' /\ OnlyFailuresDrop' /\ (~LosesReplies => Explained')
  BY <1>2, QuietStep
<1>. QED BY <1>1, <1>3, <1>4, <1>5

(* A pool that is ending belongs to a server with nothing under way.       *)
EndingIsDrained == server = "ending" => Drained

(* Once app.close() has returned, no request arrives or gets a client, so  *)
(* that nothing can be under way when the process exits.                   *)
LEMMA DrainedStays ==
    ASSUME TypeOK, EndingIsDrained, [Next]_vars
    PROVE  EndingIsDrained'
<1>. SUFFICES ASSUME server' = "ending", NEW q \in Requests
              PROVE  pc'[q] # "queued" /\ ~InTransaction(q)'
  BY DEF EndingIsDrained, Drained
<1>1. CASE server = "ending"
  <2>1. pc[q] # "queued" /\ ~InTransaction(q)
    BY <1>1 DEF EndingIsDrained, Drained
  <2>2. ASSUME NEW r \in Requests, OrphanEnds(r)
        PROVE  pc'[q] \in {pc[q], "answered"}
    BY <2>2 DEF OrphanEnds, End, TypeOK
  <2>3. ASSUME NEW r \in Requests,
               Connect(r) \/ UpsertAgent(r) \/ DrawSeq(r) \/ InsertEvent(r) \/ StatementRefused(r)
               \/ Commit(r) \/ DeadlockVictim(r) \/ Receive(r) \/ ConnectFails(r)
               \/ CommitReplyLost(r) \/ Abort(r)
        PROVE  FALSE
    <3>1. pc[r] # "queued" /\ ~InTransaction(r)
      BY <1>1 DEF EndingIsDrained, Drained
    <3>. QED BY <1>1, <2>3, <3>1
             DEF Connect, UpsertAgent, DrawSeq, InsertEvent, StatementRefused, Commit,
                 DeadlockVictim, Receive, ConnectFails, CommitReplyLost, Abort,
                 InTransaction, Statements
  <2>4. CASE Crash \/ Exit
    BY <2>4 DEF Crash, Exit, ProcessEnds
  <2>5. CASE Shutdown \/ AppClosed \/ UNCHANGED vars
    BY <2>1, <2>5 DEF Shutdown, AppClosed, vars, InTransaction
  <2>6. pc'[q] \in {pc[q], "answered"}
    BY <2>1, <2>2, <2>3, <2>4, <2>5 DEF Next, Step, AllAnswered, Crash, Exit, ProcessEnds,
                                        Shutdown, AppClosed, vars
  <2>. QED BY <2>1, <2>6 DEF InTransaction, Statements
<1>2. CASE server # "ending"
  <2>1. AppClosed
    BY <1>2 DEF Next, AllAnswered, vars, Crash, Exit, ProcessEnds, Shutdown, Step
  <2>. QED BY <2>1 DEF AppClosed, Drained, InTransaction
<1>. QED BY <1>1, <1>2

LEMMA NextInv ==
    ASSUME IngestionInv, EndingIsDrained, [Next]_vars
    PROVE  IngestionInv'
<1>1. CASE \E r \in Requests : Step(r)
  BY <1>1, ConnectStep, UpsertStep, DrawStep, InsertStep, FailureStep, CommitStep, OrphanStep
     DEF Step
<1>2. CASE \E r \in Requests : /\ Receive(r) \/ ConnectFails(r) \/ CommitReplyLost(r) \/ Abort(r)
                               /\ UNCHANGED server
  BY <1>2, ReceiveStep, FailureStep, UnheardCommitStep
<1>3. CASE Crash
  <2>1. faults' \in 0 .. MaxFaults /\ faults' > 0 /\ faults <= faults'
    BY <1>3, IngestionAssumption DEF Crash, IngestionInv, TypeOK
  <2>. QED BY <1>3, <2>1, ProcessEndsStep DEF Crash
<1>4. CASE Shutdown \/ AppClosed
  <2>1. server' \in Stages
    BY <1>4 DEF Shutdown, AppClosed, Stages
  <2>. QED BY <1>4, <2>1, IdleStep DEF Shutdown, AppClosed
<1>5. CASE Exit
  <2>1. faults' \in 0 .. MaxFaults /\ faults <= faults'
    BY <1>5, IngestionAssumption DEF Exit, IngestionInv, TypeOK
  <2>2. Drained
    BY <1>5 DEF Exit, EndingIsDrained
  <2>. QED BY <1>5, <2>1, <2>2, ProcessEndsStep DEF Exit
<1>6. CASE UNCHANGED vars
  BY <1>6, IdleStep DEF vars, IngestionInv, TypeOK
<1>. QED BY <1>1, <1>2, <1>3, <1>4, <1>5, <1>6 DEF Next, AllAnswered

THEOREM IngestionInvariant == Spec => []IngestionInv
<1>1. Init => IngestionInv /\ EndingIsDrained
  BY InitInv DEF Init, EndingIsDrained
<1>2. IngestionInv /\ EndingIsDrained /\ [Next]_vars => IngestionInv' /\ EndingIsDrained'
  BY NextInv, DrainedStays DEF IngestionInv
<1>. QED BY <1>1, <1>2, PTL DEF Spec

-----------------------------------------------------------------------------
(* What the clients and the analyser rely on.                              *)

(* Every variable keeps its type, locks are held only inside transactions  *)
(* and the pool is never exceeded, whatever fails.                         *)
THEOREM IngestionTypeOK == Spec => []TypeOK
BY IngestionInvariant, PTL DEF IngestionInv

(* However many requests submit an event, in whatever order they run, fail *)
(* and are retried, at most one is told that it created it.                *)
THEOREM IngestionCreatedOnce == Spec => []CreatedOnce
<1>1. IngestionInv => CreatedOnce
  <2>. SUFFICES ASSUME IngestionInv, NEW id \in EventIds
                PROVE  Cardinality(Reported(id, "created")) <= 1
    BY DEF CreatedOnce
  <2>1. \A p, q \in Reported(id, "created") : p = q
    BY DEF IngestionInv, RepliesTrue, Said, Reported
  <2>. QED BY <2>1, AtMostOne
<1>. QED BY <1>1, IngestionInvariant, PTL

(* An event a client was told created or duplicate is stored.              *)
THEOREM IngestionAckedIsStored == Spec => []AckedIsStored
<1>1. IngestionInv => AckedIsStored
  <2>. SUFFICES ASSUME IngestionInv, NEW id \in EventIds, NEW status,
                       NEW p \in Reported(id, status)
                PROVE  Stored(id)
    BY DEF AckedIsStored
  <2>1. p[1] \in Requests /\ p[2] \in DOMAIN reply[p[1]].results
        /\ reply[p[1]].results[p[2]].id = id
    BY DEF Reported
  <2>. QED BY <2>1 DEF IngestionInv, RepliesTrue
<1>. QED BY <1>1, IngestionInvariant, PTL

(* A stored event has its agent, whose row covers the event's time.        *)
THEOREM IngestionAgentCoversEvents == Spec => []AgentCoversEvents
BY IngestionInvariant, PTL DEF IngestionInv, TableOK

(* A shutdown waits for what it has accepted: without a failure no request *)
(* goes unanswered, because app.close() returns when nothing is under way  *)
(* and the pool that ends then admits nothing more.                        *)
THEOREM IngestionOnlyFailuresDrop == Spec => []OnlyFailuresDrop
BY IngestionInvariant, PTL DEF IngestionInv

(* When no reply to a COMMIT is lost, an event is stored only if a client  *)
(* was told so, or cut off by a crash.                                     *)
THEOREM IngestionFailurePersistsNothing ==
    ASSUME ~LosesReplies
    PROVE  Spec => []FailurePersistsNothing
<1>1. IngestionInv => FailurePersistsNothing
  <2>. SUFFICES ASSUME IngestionInv, NEW e \in events,
                       Reported(e.id, "created") = {}
                PROVE  \E r \in Requests : /\ reply[r] = Disconnected
                                           /\ \E i \in FirstOfId(body[r]) :
                                                  body[r].items[i].id = e.id
    BY DEF FailurePersistsNothing
  <2>1. ASSUME NEW r \in Requests, NEW i \in 1 .. MaxBatchSize, Said(r, i, e.id, "created")
        PROVE  FALSE
    <3>1. <<r, i>> \in Reported(e.id, "created")
      BY <2>1 DEF Said, Reported
    <3>. QED BY <3>1
  <2>. QED BY <2>1 DEF IngestionInv, Explained, Excused
<1>. QED BY <1>1, IngestionInvariant, PTL

(* What a step adds to the events is what one transaction had inserted.    *)
LEMMA EventsOnlyGrow ==
    ASSUME IngestionInv, [Next]_vars
    PROVE  /\ events \subseteq events'
           /\ \A e \in events' \ events, d \in events : d.agent = e.agent => d.seq < e.seq
<1>. SUFFICES \/ events' = events
              \/ \E r \in Requests : Publish(r) /\ nextSeq' = nextSeq
  BY PublishedTables DEF IngestionInv
<1>1. ASSUME NEW r \in Requests, Step(r) \/ CommitReplyLost(r)
      PROVE  events' = events \/ (Publish(r) /\ nextSeq' = nextSeq)
  <2>1. CASE Connect(r) \/ UpsertAgent(r) \/ DrawSeq(r) \/ InsertEvent(r)
    BY <2>1 DEF Connect, UpsertAgent, DrawSeq, InsertEvent
  <2>2. CASE StatementRefused(r) \/ DeadlockVictim(r)
    BY <2>2 DEF StatementRefused, DeadlockVictim, Rollback
  <2>3. CASE Commit(r) \/ CommitReplyLost(r) \/ OrphanEnds(r)
    BY <2>3 DEF Commit, CommitReplyLost, OrphanEnds
  <2>. QED BY <1>1, <2>1, <2>2, <2>3 DEF Step
<1>2. ASSUME NEW r \in Requests, Receive(r) \/ ConnectFails(r) \/ Abort(r)
      PROVE  events' = events
  BY <1>2 DEF Receive, ConnectFails, Abort, Rollback
<1>3. CASE Crash \/ Shutdown \/ AppClosed \/ Exit \/ UNCHANGED vars
  BY <1>3 DEF Crash, Shutdown, AppClosed, Exit, ProcessEnds, vars
<1>. QED BY <1>1, <1>2, <1>3 DEF Next, AllAnswered

(* No step removes or rewrites an event, or stores its id a second time.   *)
THEOREM IngestionFirstSubmissionWins == Spec => FirstSubmissionWins
<1>1. IngestionInv /\ IngestionInv' /\ [Next]_vars =>
          [/\ events \subseteq events'
           /\ \A d, e \in events' : d.id = e.id => d = e]_vars
  BY EventsOnlyGrow DEF IngestionInv, TableOK, UniqueIds
<1>. QED BY <1>1, IngestionInvariant, PTL DEF Spec, FirstSubmissionWins

(* The events of an agent become visible in the order of their ingest_seq. *)
THEOREM IngestionAgentEventsCommitInOrder == Spec => AgentEventsCommitInOrder
<1>1. IngestionInv /\ [Next]_vars =>
          [\A e \in events' \ events, d \in events : d.agent = e.agent => d.seq < e.seq]_vars
  BY EventsOnlyGrow
<1>. QED BY <1>1, IngestionInvariant, PTL DEF Spec, AgentEventsCommitInOrder
=============================================================================
