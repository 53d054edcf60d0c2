----------------------------- MODULE MCDetection ----------------------------
(***************************************************************************)
(* Analysis with the default rules on four events: a request to a          *)
(* subdomain of a listed domain, a download piped into a shell, a read of  *)
(* a private key, a request to a host that only ends like a listed one.    *)
(***************************************************************************)
EXTENDS MCAnalysis, DetectedAnalysis

MCLowerCase ==
    [f \in {"api", "not", ".", "com", "git", "hub", "Hub", "curl", "sudo", "|", "bash",
            "/", "ID_RSA", "id_rsa", ",", " "} |->
        CASE f = "Hub" -> "hub" [] f = "ID_RSA" -> "id_rsa" [] OTHER -> f]

(* "bash, gitHub.com ," and "id_rsa"                                       *)
MCAllowedDomains == <<"bash", ",", " ", "git", "Hub", ".", "com", " ", ",">>
MCSecretPathPatterns == <<"id_rsa">>

(* What the operator means to list.                                        *)
ASSUME SettingsAreRead ==
    /\ AllowedDomains = {<<"bash">>, <<"git", "Hub", ".", "com">>}
    /\ SecretPathPatterns = {<<"id_rsa">>}

(* Every text of at most four of these fragments.                          *)
MCEntries == UNION {[1 .. n -> {"git", "hub", "Hub", ".", "com"}] : n \in 1 .. 4}

MCEventOf ==
    [s \in Seqs |->
        CASE s = 1 -> [type |-> "http_request",
                       subject |-> <<"api", ".", "git", "hub", ".", "com">>]
          [] s = 2 -> [type |-> "shell_command",
                       subject |-> <<"curl", "/", "|", "sudo", "bash">>]
          [] s = 3 -> [type |-> "file_read", subject |-> <<"/", "ID_RSA">>]
          [] OTHER -> [type |-> "http_request",
                       subject |-> <<"not", "git", "hub", ".", "com">>]]

DetectedFinds == [s \in Seqs |-> Detects(MCEventOf[s])]

(* In the poller's build the third rule raises on the shell command.       *)
DetectedRaises ==
    [p \in Runners |-> [s \in Seqs |-> IF p = Poller /\ s = 2 THEN {3} ELSE {}]]

(* BATCH_SIZE is 1; the runner beside the poller is asked for 2 at a time. *)
DetectedLimit == [p \in Runners |-> IF p = Poller THEN 1 ELSE 2]
=============================================================================
