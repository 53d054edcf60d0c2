----------------------------- MODULE Ingestion ------------------------------
(***************************************************************************)
(* The ingestion service: POST /v1/events and POST /v1/events/batch on one *)
(* Postgres database, from the accepted request to the reply.              *)
(*                                                                         *)
(* One action per statement of the transaction, one per row of a multi-row *)
(* statement: Postgres executes the rows in VALUES order and each of them  *)
(* may have to wait for another transaction.  Rows a transaction has       *)
(* written stay locked until it ends.  A client that retries after a 503,  *)
(* or after giving up on the reply, is another request with the same body. *)
(***************************************************************************)
EXTENDS Naturals, Sequences, FiniteSets, ApiKeys, Envelope

CONSTANTS
    Requests,       \* requests of a behaviour
    Bodies,         \* bodies the clients send
    KeyEntries,     \* API_KEYS
    MaxBatchSize,   \* MAX_BATCH_SIZE
    PoolMax,        \* DB_POOL_MAX
    MaxSeq,         \* bound: the last ingest_seq
    MaxFaults,      \* bound: failed statements, connections and processes
    LosesReplies,   \* whether the reply to a COMMIT may be lost
    Signals         \* whether the server may be told to shut down

Seqs == 1 .. MaxSeq

(* Bodies the framework refuses before anything else looks at them.        *)
Unread == {"oversized", "garbled", "unsupported"}

ASSUME IngestionAssumption ==
    /\ IsFiniteSet(Requests)
    /\ Times \subseteq Nat \ {0}
    /\ KeyEntries \in Seq(Seq(STRING)) /\ ~Malformed(KeyEntries)
    /\ \A i \in DOMAIN KeyEntries : KeyEntries[i][1] # NoClient
    /\ \A b \in Bodies : /\ b.kind \in {"single", "batch"} \cup Unread
                         /\ b.items \in Seq({b.items[i] : i \in DOMAIN b.items})
                         /\ b.kind = "single" => Len(b.items) = 1
    /\ MaxBatchSize \in Nat \ {0}
    /\ PoolMax \in Nat \ {0}
    /\ MaxSeq \in Nat \ {0}
    /\ MaxFaults \in Nat
    /\ LosesReplies \in BOOLEAN
    /\ Signals \in BOOLEAN

VARIABLES
    events,     \* committed rows of events
    agents,     \* agents[a]: the committed row of agent a
    nextSeq,    \* next value of the BIGSERIAL ingest_seq
    pc,         \* pc[r]: the next statement of request r
    body,       \* body[r]: what r was sent
    upserts,    \* upserts[r]: positions whose agent is still to be upserted
    inserts,    \* inserts[r]: positions whose event is still to be inserted
    touched,    \* touched[r][a]: the row of a as r has written (and locked) it
    drawn,      \* drawn[r]: value drawn for the row being inserted, or 0
    rows,       \* rows[r]: events inserted by the open transaction
    reply,      \* reply[r]
    faults,     \* failures so far
    server      \* up, closing (app.close) or ending (pool.end)

txVars == <<upserts, inserts, touched, drawn, rows>>
vars == <<events, agents, nextSeq, pc, body, txVars, reply, faults, server>>

-----------------------------------------------------------------------------
(* The agent row before its first upsert.                                  *)
NoRow == [first |-> 0, last |-> 0]

Nothing == [kind |-> "none", header |-> <<>>, items |-> <<>>]

(* A reply that carries no results.                                        *)
Bare(code) == [code |-> code, results |-> <<>>, rejected |-> {}]

NoReply == Bare(0)

Rejected(b) == {i \in DOMAIN b.items : ParseEnvelope(b.items[i]) = "rejected"}

(* Positions of the entries that parse.                                    *)
Valid(b) == {i \in DOMAIN b.items : ParseEnvelope(b.items[i]) = "ok"}

Throws(b) == \E i \in DOMAIN b.items : ParseEnvelope(b.items[i]) = "throws"

(* requireApiKey                                                           *)
Client(b) == Caller(KeyEntries, b.header)

(* 400 before any entry is parsed.                                         *)
Unusable(b) == b.kind = "batch" /\ (b.items = <<>> \/ Len(b.items) > MaxBatchSize)

(* The answer to a request that stores nothing, 0 if it is stored: the     *)
(* body is read before the key is looked at, the key before the events.    *)
(* Errors the handler does not know (another media type, an empty body)    *)
(* are 500.                                                                *)
Refusal(b) ==
    CASE b.kind = "oversized" -> 413
      [] b.kind = "garbled" -> 400
      [] b.kind = "unsupported" -> 500
      [] b.kind \notin Unread /\ Client(b) = NoClient -> 401
      [] OTHER -> IF Unusable(b) \/ (b.kind = "single" /\ Rejected(b) # {})
                  THEN 400 ELSE IF Throws(b) THEN 500 ELSE 0

(* Positions of the first occurrence of each event id: firstOccurrence.    *)
FirstOfId(b) ==
    {i \in Valid(b) : \A j \in Valid(b) : j < i => b.items[j].id # b.items[i].id}

(* collapseAgents: one upsert per agent of those events, in the order in   *)
(* which the agents appear, with their earliest and latest timestamps.     *)
FirstOfAgent(b) ==
    {i \in FirstOfId(b) :
        \A j \in FirstOfId(b) : j < i => b.items[j].agent # b.items[i].agent}

TimesOf(b, a) == {b.items[i].at : i \in {j \in FirstOfId(b) : b.items[j].agent = a}}

(* Mutant of Upsert: last write wins.                                      *)
UpsertOverwrites(row, lo, hi) ==
    IF row = NoRow THEN [first |-> lo, last |-> hi]
    ELSE [first |-> IF lo < row.first THEN lo ELSE row.first, last |-> hi]

(* ON CONFLICT (agent_id) DO UPDATE SET last = GREATEST, first = LEAST     *)
Upsert(row, lo, hi) ==
    IF row = NoRow THEN [first |-> lo, last |-> hi]
    ELSE [first |-> IF lo < row.first THEN lo ELSE row.first,
          last  |-> IF hi > row.last THEN hi ELSE row.last]

Least(S, i) == i \in S /\ \A j \in S : i <= j

(* Mutant of Stored: events without a primary key.                         *)
StoredNever(id) == FALSE

Stored(id) == \E e \in events : e.id = id

(* Row locks: the agents a request has written, the events it has inserted *)
HeldBy(r) == {a \in Agents : touched[r][a] # NoRow}
Inserted(r) == {e.id : e \in rows[r]}

Statements == {"upsert", "draw", "insert", "commit"}
InTransaction(r) == pc[r] \in Statements

(* Accepted by a process that has died: its connection to Postgres, if it  *)
(* has one, is about to be found broken.                                   *)
Orphaned == {"orphaned", "committing"}

-----------------------------------------------------------------------------
Init ==
    /\ events = {}
    /\ agents = [a \in Agents |-> NoRow]
    /\ nextSeq = 1
    /\ pc = [r \in Requests |-> "unsent"]
    /\ body = [r \in Requests |-> Nothing]
    /\ upserts = [r \in Requests |-> {}]
    /\ inserts = [r \in Requests |-> {}]
    /\ touched = [r \in Requests |-> [a \in Agents |-> NoRow]]
    /\ drawn = [r \in Requests |-> 0]
    /\ rows = [r \in Requests |-> {}]
    /\ reply = [r \in Requests |-> NoReply]
    /\ faults = 0
    /\ server = "up"

(* Mutant of End: the client goes back to the pool inside its transaction. *)
EndWithoutRollback(r, answer) ==
    /\ pc' = [pc EXCEPT ![r] = "answered"]
    /\ reply' = [reply EXCEPT ![r] = answer]
    /\ UNCHANGED txVars

(* The transaction of r is over: its locks are gone, its client released.  *)
End(r, answer) ==
    /\ pc' = [pc EXCEPT ![r] = "answered"]
    /\ reply' = [reply EXCEPT ![r] = answer]
    /\ upserts' = [upserts EXCEPT ![r] = {}]
    /\ inserts' = [inserts EXCEPT ![r] = {}]
    /\ touched' = [touched EXCEPT ![r] = [a \in Agents |-> NoRow]]
    /\ drawn' = [drawn EXCEPT ![r] = 0]
    /\ rows' = [rows EXCEPT ![r] = {}]

(* StorageError: 503 storage_unavailable.                                  *)
Unavailable == Bare(503)

(* No reply: the connection is gone.                                       *)
Disconnected == Bare(1)

(* The body is parsed, the key checked and the handler called; a request   *)
(* without a valid entry is answered without a transaction.  While it      *)
(* closes, the server answers what arrives on its open connections 503;    *)
(* once it has closed, nobody can reach it.                                *)
Receive(r) ==
    /\ pc[r] = "unsent" /\ server # "ending"
    /\ \E b \in Bodies :
         /\ body' = [body EXCEPT ![r] = b]
         /\ \/ /\ server = "closing"
               /\ reply' = [reply EXCEPT ![r] = Unavailable]
               /\ pc' = [pc EXCEPT ![r] = "answered"]
            \/ /\ server = "up" /\ Refusal(b) # 0
               /\ reply' = [reply EXCEPT ![r] = Bare(Refusal(b))]
               /\ pc' = [pc EXCEPT ![r] = "answered"]
            \/ /\ server = "up" /\ Refusal(b) = 0 /\ Valid(b) = {}
               /\ reply' = [reply EXCEPT ![r] =
                              [code |-> 207, results |-> <<>>, rejected |-> Rejected(b)]]
               /\ pc' = [pc EXCEPT ![r] = "answered"]
            \/ /\ server = "up" /\ Refusal(b) = 0 /\ Valid(b) # {}
               /\ pc' = [pc EXCEPT ![r] = "queued"]
               /\ UNCHANGED reply
    /\ UNCHANGED <<events, agents, nextSeq, txVars, faults>>

(* pool.connect() and BEGIN; a pool that is ending hands out no client.    *)
Connect(r) ==
    /\ pc[r] = "queued" /\ server # "ending"
    /\ Cardinality({q \in Requests : InTransaction(q)}) < PoolMax
    /\ pc' = [pc EXCEPT ![r] = "upsert"]
    /\ upserts' = [upserts EXCEPT ![r] = FirstOfAgent(body[r])]
    /\ inserts' = [inserts EXCEPT ![r] = FirstOfId(body[r])]
    /\ UNCHANGED <<events, agents, nextSeq, body, touched, drawn, rows, reply, faults>>

(* No client within connectionTimeoutMillis, or no database.               *)
ConnectFails(r) ==
    /\ pc[r] = "queued"
    /\ faults < MaxFaults
    /\ faults' = faults + 1
    /\ End(r, Unavailable)
    /\ UNCHANGED <<events, agents, nextSeq, body>>

(* Mutant of UpsertAgent: the upsert commits on its own, its lock is gone  *)
(* before the events are inserted.                                         *)
UpsertAgentAutocommits(r) ==
    /\ pc[r] = "upsert"
    /\ \E i \in upserts[r] :
         LET a == body[r].items[i].agent
         IN  /\ Least(upserts[r], i)
             /\ \E lo, hi \in TimesOf(body[r], a) :
                  /\ \A t \in TimesOf(body[r], a) : lo <= t /\ t <= hi
                  /\ agents' = [agents EXCEPT ![a] = Upsert(@, lo, hi)]
             /\ upserts' = [upserts EXCEPT ![r] = @ \ {i}]
             /\ pc' = [pc EXCEPT ![r] = IF upserts[r] = {i} THEN "draw" ELSE "upsert"]
    /\ UNCHANGED <<events, nextSeq, body, inserts, touched, drawn, rows, reply, faults>>

(* The next row of the agent upsert: waits for the row lock, then merges   *)
(* with the row as it is then.                                             *)
UpsertAgent(r) ==
    /\ pc[r] = "upsert"
    /\ \E i \in upserts[r] :
         LET a == body[r].items[i].agent
         IN  /\ Least(upserts[r], i)
             /\ \A q \in Requests \ {r} : touched[q][a] = NoRow
             /\ \E lo, hi \in TimesOf(body[r], a) :
                  /\ \A t \in TimesOf(body[r], a) : lo <= t /\ t <= hi
                  /\ touched' = [touched EXCEPT ![r][a] = Upsert(agents[a], lo, hi)]
             /\ upserts' = [upserts EXCEPT ![r] = @ \ {i}]
             /\ pc' = [pc EXCEPT ![r] = IF upserts[r] = {i} THEN "draw" ELSE "upsert"]
    /\ UNCHANGED <<events, agents, nextSeq, body, inserts, drawn, rows, reply, faults>>

(* The events are sent to Postgres: whether it can store all their texts.  *)
Accepts(r) == \A i \in inserts[r] : Storable(body[r].items[i])

(* The next row of the event insert: nextval() for ingest_seq ...          *)
DrawSeq(r) ==
    /\ pc[r] = "draw" /\ Accepts(r)
    /\ nextSeq \in Seqs
    /\ drawn' = [drawn EXCEPT ![r] = nextSeq]
    /\ nextSeq' = nextSeq + 1
    /\ pc' = [pc EXCEPT ![r] = "insert"]
    /\ UNCHANGED <<events, agents, body, upserts, inserts, touched, rows, reply, faults>>

(* ... then the unique index on event_id: an uncommitted row with the same *)
(* id is waited for, a committed one makes this row a no-op.               *)
InsertEvent(r) ==
    /\ pc[r] = "insert"
    /\ \E i \in inserts[r] :
         LET e == body[r].items[i]
         IN  /\ Least(inserts[r], i)
             /\ \A q \in Requests \ {r} : e.id \notin Inserted(q)
             /\ rows' = [rows EXCEPT ![r] =
                           IF Stored(e.id) THEN @
                           ELSE @ \cup {[id |-> e.id, agent |-> e.agent, at |-> e.at,
                                         client |-> Client(body[r]),
                                         seq |-> drawn[r]]}]
             /\ inserts' = [inserts EXCEPT ![r] = @ \ {i}]
             /\ pc' = [pc EXCEPT ![r] = IF inserts[r] = {i} THEN "commit" ELSE "draw"]
    /\ drawn' = [drawn EXCEPT ![r] = 0]
    /\ UNCHANGED <<events, agents, nextSeq, body, upserts, touched, reply, faults>>

-----------------------------------------------------------------------------
(* Mutant of Results: repeats inside the batch are not told apart.         *)
ResultsByCreated(r) ==
    LET s == body[r].items
    IN  [i \in Valid(body[r]) |->
           [id |-> s[i].id,
            status |-> IF s[i].id \in Inserted(r) THEN "created" ELSE "duplicate"]]

(* One result per valid entry, in input order (each is kept here at the    *)
(* position of its entry, which the reply does not show); a repeat inside  *)
(* the batch is a duplicate although its first occurrence was created.     *)
Results(r) ==
    LET s == body[r].items
    IN  [i \in Valid(body[r]) |->
           [id |-> s[i].id,
            status |-> IF i \in FirstOfId(body[r]) /\ s[i].id \in Inserted(r)
                       THEN "created" ELSE "duplicate"]]

Answer(r) ==
    [code     |-> IF body[r].kind = "batch" THEN 207
                  ELSE IF Results(r)[1].status = "created" THEN 201 ELSE 200,
     results  |-> Results(r),
     rejected |-> Rejected(body[r])]

(* What a COMMIT does to the tables.                                       *)
Publish(r) ==
    /\ events' = events \cup rows[r]
    /\ agents' = [a \in Agents |-> IF a \in HeldBy(r) THEN touched[r][a] ELSE agents[a]]

Commit(r) ==
    /\ pc[r] = "commit"
    /\ Publish(r)
    /\ End(r, Answer(r))
    /\ UNCHANGED <<nextSeq, body, faults>>

(* The server commits, the connection dies before the driver hears of it:  *)
(* withTransaction sees COMMIT throw.                                      *)
CommitReplyLost(r) ==
    /\ LosesReplies
    /\ pc[r] = "commit"
    /\ faults < MaxFaults
    /\ faults' = faults + 1
    /\ Publish(r)
    /\ End(r, Unavailable)
    /\ UNCHANGED <<nextSeq, body>>

(* Mutant of Rollback: autocommit, so an error leaves what was inserted.   *)
RollbackKeepsRows(r) ==
    /\ events' = events \cup rows[r]
    /\ End(r, Unavailable)
    /\ UNCHANGED <<agents, nextSeq, body>>

(* Mutant of Rollback: COMMIT is not awaited, its failure goes unseen.     *)
RollbackUnawaited(r) ==
    /\ End(r, IF pc[r] = "commit" THEN Answer(r) ELSE Unavailable)
    /\ UNCHANGED <<events, agents, nextSeq, body>>

(* Mutant of Rollback: the statements are sent again on the same client.   *)
RollbackRetriesStatements(r) ==
    /\ pc' = [pc EXCEPT ![r] = "upsert"]
    /\ upserts' = [upserts EXCEPT ![r] = FirstOfAgent(body[r])]
    /\ inserts' = [inserts EXCEPT ![r] = FirstOfId(body[r])]
    /\ drawn' = [drawn EXCEPT ![r] = 0]
    /\ UNCHANGED <<events, agents, nextSeq, body, touched, rows, reply>>

(* ROLLBACK, or the death of the connection; values drawn stay drawn.      *)
Rollback(r) ==
    /\ End(r, Unavailable)
    /\ UNCHANGED <<events, agents, nextSeq, body>>

(* statement_timeout, a lost connection, or an error of any statement.     *)
Abort(r) ==
    /\ InTransaction(r)
    /\ faults < MaxFaults
    /\ faults' = faults + 1
    /\ Rollback(r)

(* One text Postgres does not take fails the statement, and the request.   *)
StatementRefused(r) ==
    /\ pc[r] = "draw" /\ ~Accepts(r)
    /\ Rollback(r)
    /\ UNCHANGED faults

(* r waits for a row that q has written.                                   *)
Waits(r, q) ==
    /\ q # r
    /\ \/ /\ pc[r] = "upsert"
          /\ \E i \in upserts[r] : /\ Least(upserts[r], i)
                                   /\ touched[q][body[r].items[i].agent] # NoRow
       \/ /\ pc[r] = "insert"
          /\ \E i \in inserts[r] : /\ Least(inserts[r], i)
                                   /\ body[r].items[i].id \in Inserted(q)

(* Everyone in C waits, and is waited for, inside C.                       *)
WaitCycle(C) ==
    /\ C # {}
    /\ \A x \in C : (\E y \in C : Waits(x, y)) /\ (\E y \in C : Waits(y, x))

(* Postgres' deadlock detector ends one transaction of a wait cycle.       *)
DeadlockVictim(r) ==
    /\ InTransaction(r)
    /\ \E C \in SUBSET Requests : r \in C /\ WaitCycle(C)
    /\ Rollback(r)
    /\ UNCHANGED faults

(* The process is gone and another takes its place: whatever it had        *)
(* accepted and not answered is lost, and Postgres finds out about each    *)
(* transaction.                                                            *)
ProcessEnds ==
    /\ pc' = [r \in Requests |-> IF pc[r] = "commit" THEN "committing"
                                 ELSE IF pc[r] = "queued" \/ InTransaction(r) THEN "orphaned"
                                 ELSE pc[r]]
    /\ upserts' = [r \in Requests |-> {}]
    /\ inserts' = [r \in Requests |-> {}]
    /\ server' = "up"
    /\ UNCHANGED <<events, agents, nextSeq, body, touched, drawn, rows, reply>>

(* The process dies.                                                       *)
Crash ==
    /\ faults < MaxFaults
    /\ faults' = faults + 1
    /\ ProcessEnds

(* What Postgres still executes for it shows at most in gaps; only a       *)
(* COMMIT that was under way may yet take effect.                          *)
OrphanEnds(r) ==
    /\ pc[r] \in Orphaned
    /\ End(r, Disconnected)
    /\ \/ pc[r] = "committing" /\ Publish(r)
       \/ UNCHANGED <<events, agents>>
    /\ UNCHANGED <<nextSeq, body, faults>>

(* A signal: app.close() stops listening.                                  *)
Shutdown ==
    /\ Signals /\ server = "up"
    /\ server' = "closing"
    /\ UNCHANGED <<events, agents, nextSeq, pc, body, txVars, reply, faults>>

(* Mutant of Drained: app.close() is not awaited.                          *)
DrainedUnawaited == TRUE

(* No request is under way: what app.close() waits for.                    *)
Drained == \A r \in Requests : pc[r] # "queued" /\ ~InTransaction(r)

(* app.close() returns and pool.end() is called.                           *)
AppClosed ==
    /\ server = "closing" /\ Drained
    /\ server' = "ending"
    /\ UNCHANGED <<events, agents, nextSeq, pc, body, txVars, reply, faults>>

(* pool.end() returns once every client has been released, and the process *)
(* exits, whether or not a handler still has something to say.             *)
Exit ==
    /\ server = "ending"
    /\ \A r \in Requests : ~InTransaction(r)
    /\ ProcessEnds
    /\ UNCHANGED faults

(* Every client has its answer.                                            *)
AllAnswered ==
    /\ \A r \in Requests : pc[r] = "answered"
    /\ UNCHANGED vars

Step(r) ==
    /\ \/ Connect(r)
       \/ UpsertAgent(r)
       \/ DrawSeq(r)
       \/ InsertEvent(r)
       \/ StatementRefused(r)
       \/ Commit(r)
       \/ DeadlockVictim(r)
       \/ OrphanEnds(r)
    /\ UNCHANGED server

Next ==
    \/ \E r \in Requests :
         \/ Step(r)
         \/ Receive(r) /\ UNCHANGED server
         \/ ConnectFails(r) /\ UNCHANGED server
         \/ CommitReplyLost(r) /\ UNCHANGED server
         \/ Abort(r) /\ UNCHANGED server
    \/ Crash
    \/ Shutdown
    \/ AppClosed
    \/ Exit
    \/ AllAnswered

Spec == Init /\ [][Next]_vars

(* The pool hands out a free client, Postgres executes the statement it is *)
(* sent once its lock is free, its deadlock detector runs and it finds the *)
(* connections of a dead process broken.                                   *)
FairSpec == Spec /\ \A r \in Requests : WF_vars(Step(r))

-----------------------------------------------------------------------------
(* Properties.                                                             *)

AgentRow == {NoRow} \cup [first : Times, last : Times]
EventRow == [id : EventIds, agent : Agents, at : Times, seq : Seqs,
             client : {KeyEntries[i][1] : i \in DOMAIN KeyEntries}]
Result == [id : EventIds, status : {"created", "duplicate"}]
Stages == {"up", "closing", "ending"}
Codes == {0, 1, 200, 201, 207, 400, 401, 413, 500, 503}
Reply == [code     : Codes,
          results  : UNION {[S -> Result] : S \in SUBSET (1 .. MaxBatchSize)},
          rejected : SUBSET Nat]

(* Every variable keeps its type; locks are held only inside transactions  *)
(* and the pool is never exceeded.                                         *)
TypeOK ==
    /\ events \subseteq EventRow
    /\ agents \in [Agents -> AgentRow]
    /\ nextSeq \in 1 .. MaxSeq + 1
    /\ pc \in [Requests -> {"unsent", "queued", "answered"} \cup Statements \cup Orphaned]
    /\ body \in [Requests -> Bodies \cup {Nothing}]
    /\ upserts \in [Requests -> SUBSET Nat]
    /\ inserts \in [Requests -> SUBSET Nat]
    /\ touched \in [Requests -> [Agents -> AgentRow]]
    /\ drawn \in [Requests -> Seqs \cup {0}]
    /\ rows \in [Requests -> SUBSET EventRow]
    /\ reply \in [Requests -> Reply]
    /\ \A r \in Requests : pc[r] \in {"unsent", "queued", "answered"} =>
                               HeldBy(r) = {} /\ rows[r] = {}
    /\ Cardinality({r \in Requests : InTransaction(r)}) <= PoolMax
    /\ faults \in 0 .. MaxFaults
    /\ server \in Stages

Reported(id, status) ==
    {p \in Requests \X (1 .. MaxBatchSize) :
        /\ p[2] \in DOMAIN reply[p[1]].results
        /\ reply[p[1]].results[p[2]] = [id |-> id, status |-> status]}

(* However many requests submit an event, at once or one after the other,  *)
(* at most one of them is told that it created it.                         *)
CreatedOnce ==
    \A id \in EventIds : Cardinality(Reported(id, "created")) <= 1

(* A client told created or duplicate can forget the event: it is stored.  *)
AckedIsStored ==
    \A id \in EventIds, status \in {"created", "duplicate"} :
        Reported(id, status) # {} => Stored(id)

(* One row per event id, the first one committed, never rewritten.         *)
FirstSubmissionWins ==
    [][/\ events \subseteq events'
       /\ \A d, e \in events' : d.id = e.id => d = e]_vars

(* A stored event has its agent, and its time is within what the agent row *)
(* says of it, whichever transactions wrote the agent meanwhile.           *)
AgentCoversEvents ==
    \A e \in events : /\ agents[e.agent].first # 0
                      /\ agents[e.agent].first <= e.at
                      /\ e.at <= agents[e.agent].last

(* The row lock on the agent orders the transactions that insert its       *)
(* events: they commit in the order of their ingest_seq.                   *)
AgentEventsCommitInOrder ==
    [][\A e \in events' \ events, d \in events :
          d.agent = e.agent => d.seq < e.seq]_vars

(* "If the transaction fails; nothing is persisted": every stored event    *)
(* has been reported created to some client, or its client was cut off by  *)
(* a crash.                                                                *)
FailurePersistsNothing ==
    \A e \in events :
        \/ Reported(e.id, "created") # {}
        \/ \E r \in Requests : /\ reply[r] = Disconnected
                               /\ \E i \in FirstOfId(body[r]) : body[r].items[i].id = e.id

(* A request the handler has accepted is dropped without an answer only by *)
(* a failure, never by a shutdown: not while it waits for a client of the  *)
(* pool, nor inside its transaction ("shut down cleanly on a signal").     *)
OnlyFailuresDrop ==
    \A r \in Requests : pc[r] \in Orphaned \/ reply[r] = Disconnected => faults > 0

(* "Per-item, so one bad entry does not cost the caller the whole batch":  *)
(* a batch whose envelope is usable gets its 207 from a server that is not *)
(* shutting down, unless something has failed.                             *)
BatchesAnswerPerItem ==
    [][\A r \in Requests :
          /\ pc[r] # "answered" /\ pc'[r] = "answered" /\ server = "up" /\ faults' = 0
          /\ body'[r].kind = "batch" /\ Client(body'[r]) # NoClient /\ ~Unusable(body'[r])
          => reply'[r].code = 207]_vars

(* Every request that reached the handler is answered, although batches    *)
(* lock agents and events in the order of their own entries.               *)
EveryRequestAnswered ==
    \A r \in Requests : (pc[r] = "queued") ~> (pc[r] = "answered")
=============================================================================
