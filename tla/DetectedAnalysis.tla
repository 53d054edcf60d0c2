-------------------------- MODULE DetectedAnalysis --------------------------
(***************************************************************************)
(* The analyser (Analysis) with the default rules (Detection): what a rule *)
(* finds in an event is computed from the event.                           *)
(***************************************************************************)
EXTENDS Analysis, Detection

CONSTANTS
    EventOf,    \* EventOf[s]: type of event s, and the text its rule looks at
    Entries     \* bound: the entries an operator may list

ASSUME DetectedAssumption ==
    /\ RuleCount = 3
    /\ \A s \in Seqs : EventOf[s].subject \in Seq(Fragments) \cup {NotText}
    /\ Finds = [s \in Seqs |-> Detects(EventOf[s])]
    /\ Entries \subseteq Seq(Fragments)

(* The events that name a host, whatever else is wrong with them, in a     *)
(* build whose domain_allowlist rule does not raise on them.               *)
Requested ==
    {s \in Seqs : /\ EventOf[s].type = "http_request"
                  /\ EventOf[s].subject \notin {NotText, <<>>}
                  /\ \A p \in Runners : 1 \notin Raises[p][s]}

(* Events whose host each entry, listed alone, allows as it should.        *)
Consistent ==
    {s \in Requested :
        \A entry \in Entries :
            IsAllowed(EventOf[s].subject, {entry}) <=> Covers(entry, EventOf[s].subject)}

(* "An allowlist entry covers that host and its subdomains": a request     *)
(* behind the cursor has its domain_allowlist alert exactly if none of the *)
(* domains listed, and there are some, is, label by label, an ancestor of  *)
(* its host, in whatever case; and so it would be with any other entry.    *)
EntryCoversSubdomains ==
    \A s \in visible \cap Requested :
        /\ s \in Consistent
        /\ s <= cursor =>
             (<<s, 1>> \notin alerts <=>
                \/ AllowedDomains = {}
                \/ \E domain \in AllowedDomains : Covers(domain, EventOf[s].subject))
=============================================================================
