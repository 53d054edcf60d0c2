-------------------------------- MODULE Feed --------------------------------
(***************************************************************************)
(* The events table as the analyser sees it.  Ingestion transactions lock  *)
(* agent rows, draw ingest_seq values from the sequence while they run and *)
(* make their rows visible, all at once, when they commit.  A value drawn  *)
(* by a transaction that aborts, or whose insert meets ON CONFLICT DO      *)
(* NOTHING, is never used again: the numbers have gaps.                    *)
(*                                                                         *)
(* This is what Ingestion promises the analyser (Ingestion implements it)  *)
(* and all that Analysis assumes of it (Analysis extends it).              *)
(***************************************************************************)
EXTENDS Naturals, FiniteSets

CONSTANTS
    Writers,    \* ingestion transactions
    Agents,     \* agents that submit events
    MaxSeq      \* bound: the last ingest_seq value of a behaviour

ASSUME MaxSeqAssumption == MaxSeq \in Nat \ {0}

Seqs == 1 .. MaxSeq

VARIABLES
    nextSeq,    \* next value of the BIGSERIAL ingest_seq
    held,       \* held[w]: agent rows locked by the transaction of w
    open,       \* open[w]: values w has drawn for rows nobody else sees yet
    visible     \* ingest_seq of the committed rows

feedVars == <<nextSeq, held, open, visible>>

FeedTypeOK ==
    /\ nextSeq \in 1 .. MaxSeq + 1
    /\ held \in [Writers -> SUBSET Agents]
    /\ open \in [Writers -> SUBSET Seqs]
    /\ visible \subseteq Seqs

FeedInit ==
    /\ nextSeq = 1
    /\ held = [w \in Writers |-> {}]
    /\ open = [w \in Writers |-> {}]
    /\ visible = {}

(* The agent upsert takes the row lock of the agent, kept until the end of *)
(* the transaction.                                                        *)
Lock(w, a) ==
    /\ open[w] = {}
    /\ \A v \in Writers : a \notin held[v]
    /\ held' = [held EXCEPT ![w] = @ \cup {a}]
    /\ UNCHANGED <<nextSeq, open, visible>>

(* An event is inserted only by a transaction that has locked its agent.   *)
(* nextval() is evaluated before the conflict on event_id is looked up.    *)
Draw(w) ==
    /\ held[w] # {}
    /\ nextSeq \in Seqs
    /\ nextSeq' = nextSeq + 1
    /\ open' = [open EXCEPT ![w] = @ \cup {nextSeq}]
    /\ UNCHANGED <<held, visible>>

(* ON CONFLICT DO NOTHING: the value drawn becomes a gap.                  *)
Skip(w) ==
    /\ \E s \in open[w] : open' = [open EXCEPT ![w] = @ \ {s}]
    /\ UNCHANGED <<nextSeq, held, visible>>

CommitRows(w) ==
    /\ held[w] # {}
    /\ visible' = visible \cup open[w]
    /\ held' = [held EXCEPT ![w] = {}]
    /\ open' = [open EXCEPT ![w] = {}]
    /\ UNCHANGED nextSeq

AbortRows(w) ==
    /\ held[w] # {}
    /\ held' = [held EXCEPT ![w] = {}]
    /\ open' = [open EXCEPT ![w] = {}]
    /\ UNCHANGED <<nextSeq, visible>>

FeedStep(w) ==
    \/ \E a \in Agents : Lock(w, a)
    \/ Draw(w)
    \/ Skip(w)
    \/ CommitRows(w)
    \/ AbortRows(w)

FeedNext == \E w \in Writers : FeedStep(w)

FeedSpec == FeedInit /\ [][FeedNext]_feedVars

-----------------------------------------------------------------------------
(* Values drawn by transactions still running.                             *)
InFlight == UNION {open[w] : w \in Writers}
=============================================================================
