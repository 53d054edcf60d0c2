----------------------------- MODULE MCAnalysis -----------------------------
(***************************************************************************)
(* Analysis on a small instance: three events; the first has no finding,   *)
(* the second one per rule, the third one; the second carries the oldest   *)
(* timestamp.                                                              *)
(***************************************************************************)
EXTENDS Analysis, TLC

MCFinds ==
    [s \in Seqs |-> Rules \cap (CASE s = 1 -> {} [] s = 2 -> {1, 2} [] OTHER -> {1})]

MCOccurredAt == [s \in Seqs |-> CASE s = 1 -> 2 [] s = 2 -> 1 [] OTHER -> 3]

(* The poller's build has a second rule that raises on the second event;   *)
(* the build beside it does not.                                           *)
MCRaises ==
    [p \in Runners |-> [s \in Seqs |-> Rules \cap (IF p = Poller /\ s = 2 THEN {2} ELSE {})]]

MCLimit == [p \in Runners |-> 2]

Symmetry == Permutations(Writers) \cup Permutations(Agents)
=============================================================================
