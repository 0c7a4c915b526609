---------------------------- MODULE MCConfigText ----------------------------
(***************************************************************************)
(* ConfigText for TLC: a setting of every kind, keys with an alias or in   *)
(* capitals, values of every spelling, and each in every style.            *)
(***************************************************************************)
EXTENDS ConfigText

MCKind ==
    [listen_address |-> "string", enable_acl |-> "bool", allowed_clients |-> "list",
     listen_port |-> "port", stratum |-> "stratum", authentication_algorithm |-> "choice",
     authentication_keys |-> "keys"]

MCKeys ==
    [listen_address |-> "listen_address", enable_acl |-> "enable_acl", acl |-> "enable_acl",
     allow |-> "allowed_clients", port |-> "listen_port", stratum |-> "stratum",
     auth_algorithm |-> "authentication_algorithm", auth_keys |-> "authentication_keys"]

MCNumber == [n \in {"1", "3", "16", "65659"} |->
                CASE n = "1" -> 1 [] n = "3" -> 3 [] n = "16" -> 16 [] n = "65659" -> 65659]
MCLower == [Stratum |-> "stratum", TRUE_ |-> "true", SHA256 |-> "sha256"]

MCDefaults ==
    [listen_address |-> <<"any">>, enable_acl |-> FALSE, allowed_clients |-> << <<"any">> >>,
     listen_port |-> 123, stratum |-> 2, authentication_algorithm |-> "none",
     authentication_keys |-> [k \in {} |-> <<>>]]

\* Keys with the values they are given.
Given ==
    {<<"listen_address", <<"host">>>>, <<"listen_address", <<>>>>,
     <<"listen_address", <<"host", ",">>>>,
     <<"enable_acl", <<"true">>>>, <<"acl", <<"TRUE_">>>>, <<"acl", <<"on">>>>,
     <<"acl", <<"no">>>>,
     <<"allow", <<"a", ",", "SP", "b">>>>, <<"allow", <<"b", ",", ",">>>>,
     <<"port", <<"65659">>>>, <<"port", <<"host">>>>,
     <<"stratum", <<"16">>>>, <<"Stratum", <<"3", "SP", "host">>>>,
     <<"auth_algorithm", <<"SHA256">>>>, <<"auth_algorithm", <<"host">>>>,
     <<"auth_keys", <<"1", ":", "a", ",", "3", ":", ",", "1", ":", "b">>>>,
     <<"unknown", <<"1">>>>}

MCWords ==
    {"network", "none"} \cup {g[1] : g \in Given}
    \cup (UNION {Range(g[2]) : g \in Given} \ {"SP", ",", ":"}) \cup DOMAIN MCKeys \cup DOMAIN MCNumber

Entry(what, key, value, spaced, quoted, cr, last) ==
    [what |-> what, key |-> key, value |-> value, spaced |-> spaced, quoted |-> quoted,
     cr |-> cr, last |-> last]

MCEntries ==
    {Entry("setting", g[1], g[2], sp, q, cr, last) :
        g \in Given, sp \in BOOLEAN, q \in BOOLEAN, cr \in BOOLEAN, last \in BOOLEAN}
    \cup {Entry("comment", "stratum", <<"3">>, sp, FALSE, FALSE, TRUE) : sp \in BOOLEAN}
    \cup {Entry("section", k, <<>>, FALSE, FALSE, FALSE, TRUE) : k \in {"network", "acl"}}
    \cup {Entry("blank", "none", <<>>, FALSE, FALSE, cr, TRUE) : cr \in BOOLEAN}
=============================================================================
