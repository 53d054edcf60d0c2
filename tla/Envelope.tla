------------------------------ MODULE Envelope ------------------------------
(***************************************************************************)
(* What parseEnvelope makes of one entry of a request.                     *)
(*                                                                         *)
(* A field has the value the schemas tell apart: a string that is not      *)
(* empty and not too long is "text", or "nul" if it holds a U+0000, which  *)
(* zod lets pass; a field left out is missing from the record.  Anything   *)
(* else is refused.                                                        *)
(***************************************************************************)
CONSTANTS
    EventIds,   \* values of event_id that are a text
    Agents,     \* values of agent_id that are a text
    Times       \* values of timestamp with an explicit offset

Text == {"text", "nul"}

PayloadSchemas ==
    [http_request  |-> [method |-> Text, url |-> Text, headers |-> {"texts"},
                        body_size |-> {"count"}],
     file_read     |-> [path |-> Text],
     shell_command |-> [command |-> Text],
     tool_call     |-> [name |-> Text, args |-> {"object"}]]

(* Properties every JavaScript object has, PAYLOAD_SCHEMAS among them.     *)
Inherited == {"constructor"}

Types == DOMAIN PayloadSchemas \cup {"text", "nul"} \cup Inherited

EventEnvelopeSchema ==
    [id |-> EventIds, agent |-> Agents, at |-> Times, type |-> Types,
     tags |-> {"labels", "nul"}]

Optional == {"tags", "headers", "body_size", "args"}

(* Fields the schema does not name are let through.                        *)
Fits(v, schema) ==
    /\ DOMAIN schema \ Optional \subseteq DOMAIN v
    /\ \A f \in DOMAIN schema \cap DOMAIN v : v[f] \in schema[f]

(* The lookup of the type finds a schema, nothing, or something inherited, *)
(* whose safeParse is not a function.                                      *)
ParseEnvelope(e) ==
    IF ~Fits(e, EventEnvelopeSchema) \/ "payload" \notin DOMAIN e THEN "rejected"
    ELSE IF e.type \in Inherited THEN "throws"
    ELSE IF e.type \in DOMAIN PayloadSchemas /\ ~Fits(e.payload, PayloadSchemas[e.type])
         THEN "rejected" ELSE "ok"

(* Neither TEXT nor JSONB takes a U+0000.  (No id of the models has one.)  *)
Storable(e) ==
    /\ \A f \in {"type", "tags"} \cap DOMAIN e : e[f] # "nul"
    /\ \A f \in DOMAIN e.payload : e.payload[f] # "nul"
=============================================================================
