----------------------------- MODULE MCInsights -----------------------------
(***************************************************************************)
(* Insights on a small instance: two agents with an event each, one of     *)
(* them later than the clock; three alerts, two of one rule.               *)
(***************************************************************************)
EXTENDS Insights

MCEventOf == [r \in AlertIds |-> IF r = 3 THEN 5 ELSE 4]
MCAgentOf == [r \in Rows |-> IF r \in {3, 5} THEN 2 ELSE 1]
MCSeverityOf == [r \in AlertIds |-> IF r = 2 THEN "critical" ELSE "low"]
MCRuleOf == [r \in AlertIds |-> IF r = 3 THEN 1 ELSE r]
MCOccurredAt == [e \in EventIds |-> IF e = 4 THEN 1 ELSE 3]

Plain == [kind |-> "alerts", agent |-> 0, rule |-> 0, severity_min |-> Unset,
          since |-> 0, until |-> 0, window |-> 0, limit |-> 1,
          header |-> <<"Bearer", " ", "s1">>]

Keys == <<<<"dashboard", "s1">>>>

(* Sliding, open and closed ranges, filters, limits, unusable ranges and   *)
(* keys.                                                                   *)
Ranges ==
    {Plain, [Plain EXCEPT !.window = 1], [Plain EXCEPT !.window = -1],
     [Plain EXCEPT !.window = 9], [Plain EXCEPT !.limit = -1], [Plain EXCEPT !.header = <<"Bearer", " ", "s2">>],
     [Plain EXCEPT !.since = 1, !.until = 2, !.limit = 9],
     [Plain EXCEPT !.since = 3], [Plain EXCEPT !.since = 2, !.until = 1],
     [Plain EXCEPT !.rule = 2, !.severity_min = "high"],
     [Plain EXCEPT !.kind = "timeline", !.agent = 1],
     [Plain EXCEPT !.kind = "timeline", !.agent = 1, !.window = 1, !.limit = 0],
     [Plain EXCEPT !.kind = "summary", !.agent = 1],
     [Plain EXCEPT !.kind = "summary", !.agent = 1, !.window = 1]}

UntilOnly == {[Plain EXCEPT !.until = 1]}
=============================================================================
