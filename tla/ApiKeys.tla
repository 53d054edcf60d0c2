------------------------------- MODULE ApiKeys ------------------------------
(***************************************************************************)
(* API keys, as all three services read and compare them: the secrets in   *)
(* the environment, the bearer token in a request's Authorization header.  *)
(*                                                                         *)
(* The comma-separated value is the sequence of its entries: <<client,     *)
(* secret>>, trimmed, or <<text>> where there is no colon; "" is a blank   *)
(* part.  A header is the sequence of its words and blanks, <<>> if there  *)
(* is none.                                                                *)
(***************************************************************************)
EXTENDS Naturals, Sequences

Blank == " "

NoToken == ""
NoClient == "nobody"

(* What makes parse_api_keys raise, and a service refuse to start: an      *)
(* entry that is not client:secret, a blank part, a secret used before.    *)
Malformed(entries) ==
    \E i \in DOMAIN entries :
        \/ Len(entries[i]) # 2
        \/ "" \in {entries[i][1], entries[i][2]}
        \/ \E j \in 1 .. i - 1 : entries[j][2] = entries[i][2]

(* Secret to client.                                                       *)
ParseApiKeys(entries) ==
    [s \in {entries[i][2] : i \in DOMAIN entries} |->
        CHOOSE c \in {entries[i][1] : i \in DOMAIN entries} :
            \E i \in DOMAIN entries : entries[i][1] = c /\ entries[i][2] = s]

Words(header) == SelectSeq(header, LAMBDA w : w # Blank)

(* The scheme in any case, then one word; blanks around them are ignored.  *)
BearerToken(header) ==
    LET words == Words(header)
    IN  IF Len(words) = 2 /\ words[1] \in {"bearer", "Bearer"}
        THEN words[2] ELSE NoToken

Resolve(keys, token) == IF token \in DOMAIN keys THEN keys[token] ELSE NoClient

(* The client of a request, or nobody: 401 whatever is wrong with the key. *)
Caller(entries, header) == Resolve(ParseApiKeys(entries), BearerToken(header))
=============================================================================
