------------------------------ MODULE EventLog ------------------------------
(***************************************************************************)
(* What the ingestion service promises its clients: an idempotent log.     *)
(* A request takes effect at once, between its arrival and its answer, or  *)
(* not at all; each entry is reported created exactly if the log had no    *)
(* event with its id, and the first submission of an id is the one kept.   *)
(***************************************************************************)
EXTENDS Naturals, Sequences, FiniteSets

CONSTANTS
    Requests,
    Bodies,
    Invalid,        \* entries that do not parse
    Credentials,    \* <<client, secret>>
    Words(_),       \* the words of an Authorization header
    MaxBatchSize,
    LosesReplies,   \* whether a request may take effect and still get 503
    Cut,            \* the answer of a client cut off by a crash
    Silent          \* the answer of a request not answered yet

VARIABLES
    log,        \* stored events, without their arrival order
    asked,      \* asked[r]: body of r, once it has arrived
    answer      \* answer[r]

logVars == <<log, asked, answer>>

(* Positions of the entries that parse.                                    *)
Entries(b) == {i \in DOMAIN b.items : b.items[i] \notin Invalid}

NotLogged(id) == \A e \in log : e.id # id

(* Entry i is the one that decides what the log keeps for its id.          *)
Fresh(b, i) ==
    /\ NotLogged(b.items[i].id)
    /\ \A j \in Entries(b) : j < i => b.items[j].id # b.items[i].id

(* The clients whose secret the header presents.                           *)
Senders(b) ==
    {c \in {k[1] : k \in Credentials} :
        \E k \in Credentials :
            /\ c = k[1]
            /\ Len(Words(b.header)) = 2
            /\ Words(b.header)[1] \in {"bearer", "Bearer"}
            /\ Words(b.header)[2] = k[2]}

(* The log says of each event which client submitted it.                   *)
Extended(b) ==
    LET s == b.items
    IN  log \cup {[id |-> s[i].id, agent |-> s[i].agent, at |-> s[i].at, client |-> c] :
                     i \in {j \in Entries(b) : Fresh(b, j)}, c \in Senders(b)}

Statuses(b) ==
    [i \in Entries(b) |-> [id     |-> b.items[i].id,
                           status |-> IF Fresh(b, i) THEN "created" ELSE "duplicate"]]

Refused(code) == [code |-> code, results |-> <<>>, rejected |-> {}]

Accepted(b) ==
    [code     |-> IF b.kind = "batch" THEN 207
                  ELSE IF Statuses(b)[1].status = "created" THEN 201 ELSE 200,
     results  |-> Statuses(b),
     rejected |-> DOMAIN b.items \ Entries(b)]

Unusable(b) ==
    \/ b.kind = "batch" /\ Len(b.items) \notin 1 .. MaxBatchSize
    \/ b.kind = "single" /\ Entries(b) = {}

LogInit ==
    /\ log = {}
    /\ asked = [r \in Requests |-> [kind |-> "none", header |-> <<>>, items |-> <<>>]]
    /\ answer = [r \in Requests |-> Silent]

(* The answer to a body that holds no event, Silent if it holds one.       *)
AtOnce(b) ==
    IF b.kind = "oversized" THEN Refused(413)
    ELSE IF b.kind = "garbled" THEN Refused(400)
    ELSE IF b.kind = "unsupported" THEN Refused(500)
    ELSE IF Senders(b) = {} THEN Refused(401)
    ELSE IF Unusable(b) THEN Refused(400)
    ELSE IF Entries(b) = {} THEN Accepted(b) ELSE Silent

(* The body of r arrives, perhaps while the service shuts down.            *)
Ask(r) ==
    /\ asked[r].kind = "none"
    /\ \E b \in Bodies :
         /\ asked' = [asked EXCEPT ![r] = b]
         /\ \E a \in {AtOnce(b), Refused(503)} : answer' = [answer EXCEPT ![r] = a]
    /\ UNCHANGED log

Waiting(r) == asked[r].kind # "none" /\ answer[r] = Silent

Record(r) ==
    /\ Waiting(r)
    /\ log' = Extended(asked[r])
    /\ answer' = [answer EXCEPT ![r] = Accepted(asked[r])]
    /\ UNCHANGED asked

Refuse(r) ==
    /\ Waiting(r)
    /\ \E a \in {Refused(503), Cut} : answer' = [answer EXCEPT ![r] = a]
    /\ UNCHANGED <<log, asked>>

RecordUnheard(r) ==
    /\ Waiting(r)
    /\ log' = Extended(asked[r])
    /\ \E a \in {Cut} \cup (IF LosesReplies THEN {Refused(503)} ELSE {}) :
         answer' = [answer EXCEPT ![r] = a]
    /\ UNCHANGED asked

LogNext ==
    \E r \in Requests : Ask(r) \/ Record(r) \/ Refuse(r) \/ RecordUnheard(r)

LogSpec == LogInit /\ [][LogNext]_logVars
=============================================================================
