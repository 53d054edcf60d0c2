------------------------------ MODULE Detection -----------------------------
(***************************************************************************)
(* The default rules, each a pure predicate on one event.                  *)
(*                                                                         *)
(* Text is a sequence of fragments, cut wherever a rule may look: at dots, *)
(* slashes and blanks, and inside a name that ends like another one.       *)
(***************************************************************************)
EXTENDS Naturals, Sequences, FiniteSets, SequencesExt

CONSTANTS
    LowerCase,              \* LowerCase[f]: fragment f in lower case
    ALLOWED_DOMAINS,        \* texts of the environment
    SECRET_PATH_PATTERNS

Fragments == DOMAIN LowerCase

(* A payload field that is missing or is not a string.                     *)
NotText == <<"not a string">>

ASSUME DetectionAssumption ==
    /\ \A f \in Fragments : LowerCase[f] \in Fragments /\ LowerCase[LowerCase[f]] = LowerCase[f]
    /\ {ALLOWED_DOMAINS, SECRET_PATH_PATTERNS} \subseteq Seq(Fragments)

Lower(text) == [i \in DOMAIN text |-> LowerCase[text[i]]]

Occurs(part, text) ==
    \E i \in 1 .. Len(text) + 1 - Len(part) : SubSeq(text, i, i + Len(part) - 1) = part

(* Where a text is cut: at its ends and at its separators.                 *)
Cuts(text, separator) == {0, Len(text) + 1} \cup {i \in DOMAIN text : text[i] = separator}

(* The cut that k others come before.                                      *)
NthCut(cuts, k) == CHOOSE i \in cuts : Cardinality({j \in cuts : j < i}) = k

(* The parts of a text between its separators.                             *)
Parts(text, separator) ==
    LET cuts == Cuts(text, separator)
    IN  [k \in 1 .. Cardinality(cuts) - 1 |->
            SubSeq(text, NthCut(cuts, k - 1) + 1, NthCut(cuts, k) - 1)]

-----------------------------------------------------------------------------
(* The settings: lists of texts, in the form docker-compose passes them;   *)
(* the rules ask of a list only which texts are in it.                     *)

Blank == " "

Strip(text) ==
    LET solid == {i \in DOMAIN text : text[i] # Blank}
    IN  IF solid = {} THEN <<>> ELSE SubSeq(text, Min(solid), Max(solid))

(* "Entries are stripped and blanks dropped".                              *)
SplitCsv(text) ==
    LET entries == Parts(text, ",")
    IN  {Strip(entries[k]) : k \in DOMAIN entries} \ {<<>>}

AllowedDomains == SplitCsv(ALLOWED_DOMAINS)
SecretPathPatterns == SplitCsv(SECRET_PATH_PATTERNS)

-----------------------------------------------------------------------------
(* domain_allowlist                                                        *)

(* Mutant of IsAllowed: a suffix that may start anywhere.                  *)
IsAllowedUnanchored(host, allowlist) ==
    \/ allowlist = {}
    \/ \E entry \in allowlist : IsSuffix(Lower(entry), Lower(host))

(* An empty list allows everything.                                        *)
IsAllowed(host, allowlist) ==
    \/ allowlist = {}
    \/ \E entry \in allowlist :
         \/ Lower(host) = Lower(entry)
         \/ IsSuffix(<<".">> \o Lower(entry), Lower(host))

(* The subject of a request is its host, <<>> if the URL has none.         *)
UnlistedDomain(event) ==
    /\ event.type = "http_request"
    /\ event.subject \notin {NotText, <<>>}
    /\ ~IsAllowed(event.subject, AllowedDomains)

-----------------------------------------------------------------------------
(* download_and_execute; a command is the sequence of its words.           *)

Fetchers == {"curl", "wget"}
Shells == {"sh", "bash", "zsh"}
Interpreters == Shells \cup {"dash", "python", "perl", "ruby"}

(* [^|;&]* from word i up to word j                                        *)
OneCommand(command, i, j) == \A k \in i .. j : command[k] \notin {"|", ";", "&"}

(* \s* from behind word i up to word j: words are cut at blanks, lines end  *)
(* in a word of their own.                                                 *)
OnlyBlanks(command, i, j) == \A k \in i + 1 .. j - 1 : command[k] = "newline"

(* The pipe at j, \s*(sudo\s+)? and one of the programs.                   *)
PipedTo(programs, command, j) ==
    /\ command[j] = "|"
    /\ \E k \in j + 1 .. Len(command) :
         /\ command[k] \in programs
         /\ \/ OnlyBlanks(command, j, k)
            \/ \E s \in j + 1 .. k - 1 :
                 /\ command[s] = "sudo"
                 /\ OnlyBlanks(command, j, s) /\ OnlyBlanks(command, s, k)

DownloadPipeShell(command) ==
    \E i, j \in DOMAIN command :
        /\ i < j /\ command[i] \in Fetchers
        /\ OneCommand(command, i, j - 1) /\ PipedTo(Interpreters, command, j)

Base64PipeShell(command) ==
    \E i, d, j \in DOMAIN command :
        /\ i < d /\ d < j
        /\ command[i] = "base64" /\ command[d] \in {"-d", "--decode"}
        /\ OneCommand(command, i, j - 1)
        /\ PipedTo(Shells \cup {"python"}, command, j)

(* The substitution may stand anywhere behind the shell, on its line.      *)
ProcessSubstitution(command) ==
    \E i, j, f \in DOMAIN command :
        /\ i < j /\ j < f
        /\ command[i] \in Shells
        /\ command[j] \in {"<(", "$("}
        /\ command[f] \in Fetchers /\ OnlyBlanks(command, j, f)
        /\ "newline" \notin {command[k] : k \in i .. j}

DownloadAndExecute(event) ==
    /\ event.type = "shell_command"
    /\ event.subject # NotText
    /\ LET command == Lower(event.subject)
       IN  \/ DownloadPipeShell(command)
           \/ Base64PipeShell(command)
           \/ ProcessSubstitution(command)

-----------------------------------------------------------------------------
(* secret_file_access                                                      *)

SecretFileAccess(event) ==
    /\ event.type = "file_read"
    /\ event.subject # NotText
    /\ \E pattern \in SecretPathPatterns : Occurs(Lower(pattern), Lower(event.subject))

-----------------------------------------------------------------------------
(* default_rules(), in evaluation order: each reports an event at most     *)
(* once, however many of its patterns match.                               *)
Detects(event) ==
    {i \in 1 .. 3 : CASE i = 1 -> UnlistedDomain(event)
                      [] i = 2 -> DownloadAndExecute(event)
                      [] i = 3 -> SecretFileAccess(event)}

-----------------------------------------------------------------------------
(* The reference for allowlist entries: "An allowlist entry covers that    *)
(* host and its subdomains", name compared with name label by label.       *)

Covers(entry, host) == IsSuffix(Parts(Lower(entry), "."), Parts(Lower(host), "."))
=============================================================================
