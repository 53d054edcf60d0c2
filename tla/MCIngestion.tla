---------------------------- MODULE MCIngestion -----------------------------
(***************************************************************************)
(* Ingestion on a small instance: two agents, two event ids, two times.    *)
(* The bodies are chosen to collide: the same event from two agents or     *)
(* with two times, batches that name agents and events in opposite orders, *)
(* a batch that repeats an event and one with an entry that does not parse *)
(***************************************************************************)
EXTENDS IngestionRefinement, TLC

CONSTANTS agentA, agentB, eventX, eventY

Ev(i, g, t) == [id |-> i, agent |-> g, at |-> t, type |-> "file_read",
                payload |-> [path |-> "text"]]

(* The same with another type, or another payload.                         *)
Typed(e, type, payload) == [e EXCEPT !.type = type, !.payload = payload]

Keys == <<<<"ci", "s1">>, <<"demo", "s2">>>>

Single(e) == [kind |-> "single", header |-> <<"Bearer", " ", "s1">>, items |-> <<e>>]
Batch(s) == [kind |-> "batch", header |-> <<" ", "bearer", " ", " ", "s2">>, items |-> s]

(* Bodies that store something, in conflict with each other.               *)
Colliding ==
    {Single(Ev(eventX, agentA, 2)), Single(Ev(eventX, agentB, 1)),
     Batch(<<Ev(eventX, agentA, 1), Ev(eventY, agentB, 2)>>),
     Batch(<<Ev(eventY, agentB, 1), Ev(eventX, agentA, 2)>>),
     Batch(<<Ev(eventX, agentB, 1), Ev(eventX, agentA, 2)>>)}

(* Entries that do not parse: no timestamp offset, no path, a path that is *)
(* none, another type's payload.                                           *)
Malformed1 == [Ev(eventX, agentA, 2) EXCEPT !.at = 0]
Malformed2 == Typed(Ev(eventY, agentB, 1), "file_read", [name |-> "text"])
Malformed3 == Typed(Ev(eventX, agentA, 1), "file_read", [path |-> "empty"])
Malformed4 == Typed(Ev(eventX, agentA, 1), "http_request", [method |-> "text", url |-> "text", body_size |-> "text"])

(* Requests that are turned away before the handler: no header, another    *)
(* scheme, an unknown secret, more than a token, bodies nobody reads.      *)
TurnedAway ==
    {[Single(Ev(eventX, agentA, 1)) EXCEPT !.header = h] :
        h \in {<<>>, <<"basic", " ", "s1">>, <<"bearer", " ", "s3">>,
              <<"bearer", " ", "s1", " ", "s2">>}}
    \cup {[kind |-> k, header |-> <<>>, items |-> <<>>] : k \in Unread}

(* Colliding bodies, repeats, types with and without a schema, entries     *)
(* that do not parse or cannot be stored, requests refused.                *)
Mixed ==
    TurnedAway \cup Colliding \cup
    {Single(Malformed1), Single(Malformed4),
     Batch(<<Ev(eventY, agentA, 1), Malformed2, Ev(eventX, agentA, 2)>>),
     Batch(<<Malformed3>>), Batch(<<>>),
     Batch(<<Typed(Ev(eventX, agentA, 1), "text", [name |-> "bad"]),
             Typed(Ev(eventY, agentA, 1), "tool_call", [name |-> "text", args |-> "object"])>>),
     Batch(<<Ev(eventY, agentB, 1), Typed(Ev(eventX, agentA, 2), "text", [path |-> "nul"])>>),
     Batch(<<Ev(eventX, agentA, 1), Ev(eventY, agentA, 1), Ev(eventX, agentA, 1), Ev(eventY, agentA, 1)>>)}

(* One entry has a type that every JavaScript object has a property for.   *)
OddType ==
    {Batch(<<Ev(eventX, agentA, 1), Typed(Ev(eventY, agentA, 2), "constructor", [path |-> "text"])>>)}

Symmetry == Permutations(Requests)
=============================================================================
