------------------------ MODULE IngestionRefinement -------------------------
(***************************************************************************)
(* What ingestion implements: to its clients an idempotent log (EventLog), *)
(* to the analyser a feed of events (Feed).                                *)
(***************************************************************************)
EXTENDS Ingestion

(* The stored events, without their ingest_seq.                            *)
Logged == {[id |-> e.id, agent |-> e.agent, at |-> e.at, client |-> e.client] : e \in events}

(* The entries that parseEnvelope refuses.                                 *)
Refused == {e \in UNION {{b.items[i] : i \in DOMAIN b.items} : b \in Bodies} :
               ParseEnvelope(e) = "rejected"}

Log == INSTANCE EventLog WITH
    Silent      <- NoReply,
    Cut         <- Disconnected,
    Invalid     <- Refused,
    Credentials <- {KeyEntries[i] : i \in DOMAIN KeyEntries},
    log         <- Logged,
    asked       <- body,
    answer      <- reply

(* Every request takes effect at its COMMIT, all entries at once, and is   *)
(* answered as if nothing else had run at the same time.                   *)
ImplementsLog == Log!LogSpec

(* The sequence numbers that the open transaction of r has in use.         *)
InUse(r) == {e.seq : e \in rows[r]} \cup ({drawn[r]} \ {0})

AnalyserView == INSTANCE Feed WITH
    Writers <- Requests,
    held    <- [r \in Requests |-> HeldBy(r)],
    open    <- [r \in Requests |-> InUse(r)],
    visible <- {e.seq : e \in events}

(* The events table changes as Analysis assumes: sequence numbers are      *)
(* drawn under the lock of an agent and become visible at the commit.      *)
ImplementsFeed == AnalyserView!FeedSpec
=============================================================================
