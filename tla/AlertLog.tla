------------------------------ MODULE AlertLog ------------------------------
(***************************************************************************)
(* What the analyser promises whoever reads its tables: a log of alerts    *)
(* that only grows.  A report takes effect at once: all that the rules of  *)
(* one build find in the events of a batch, never a part of it.  It may    *)
(* move the cursor, and then to the last of these events.                  *)
(***************************************************************************)
EXTENDS Naturals

CONSTANTS
    Events,     \* numbered in the order of ingest_seq
    Builds,     \* versions of the rules that are at work
    Found       \* Found[b][s]: what the rules of build b find in event s

VARIABLES
    present,    \* committed events
    alerts,     \* stored alerts: <<event, rule>>
    cursor      \* the last event the live passes have dealt with

logVars == <<present, alerts, cursor>>

Findings(b, E) == UNION {{s} \X Found[b][s] : s \in E}

LastOf(E) == {s \in E : \A t \in E : t <= s}

LogInit == present = {} /\ alerts = {} /\ cursor = 0

Arrive(E) ==
    /\ present' = present \cup E
    /\ UNCHANGED <<alerts, cursor>>

Report(b, E) ==
    /\ alerts' = alerts \cup Findings(b, E)
    /\ cursor' \in {cursor} \cup LastOf(E)
    /\ UNCHANGED present

LogNext ==
    \/ \E E \in SUBSET Events : Arrive(E)
    \/ \E b \in Builds, E \in SUBSET present : Report(b, E)

LogSpec == LogInit /\ [][LogNext]_logVars
=============================================================================
