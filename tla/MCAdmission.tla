----------------------------- MODULE MCAdmission -----------------------------
(***************************************************************************)
(* Admission for TLC: minutes of two seconds, and configurations that      *)
(* switch every stage of the path on and off.                              *)
(***************************************************************************)
EXTENDS Admission, TLC

Limited ==
    [enable_acl |-> FALSE, restrict_queries |-> FALSE,
     denied_clients |-> {}, allowed_clients |-> {},
     enable_rate_limiting |-> TRUE,
     connection_rate_limit_per_minute |-> 1, request_rate_limit_per_minute |-> 1,
     enable_ddos_protection |-> TRUE, ddos_anomaly_threshold_per_second |-> 1,
     enable_graceful_degradation |-> TRUE, enable_authentication |-> FALSE]

\* The limiters at work: the first stops a client at once or after one datagram,
\* or only the later ones do.
LimitedConfigs ==
    {Limited,
     [Limited EXCEPT !.connection_rate_limit_per_minute = 0],
     [Limited EXCEPT !.connection_rate_limit_per_minute = 3],
     [Limited EXCEPT !.connection_rate_limit_per_minute = 3,
                     !.enable_graceful_degradation = FALSE,
                     !.enable_authentication = TRUE]}

\* The address of three bits that is the number n.
Address(n) == {i \in AllBits : (n \div 2^i) % 2 = 1}

Net(n, prefix) == [base |-> Address(n), slash |-> TRUE, prefix |-> prefix]
Host(n) == [base |-> Address(n), slash |-> FALSE, prefix |-> 0]
NoNet == [base |-> NotAddress, slash |-> TRUE, prefix |-> 0]
NoHost == [base |-> NotAddress, slash |-> FALSE, prefix |-> 0]

\* The access lists at work, for the client 5 of three bits: networks of every
\* length around it and beside it, single addresses, and entries that match nobody;
\* deny, allow, both, and restricted queries without a list.  The limiters are off.
ListedConfigs ==
    LET open == [Limited EXCEPT !.enable_rate_limiting = FALSE,
                                !.enable_ddos_protection = FALSE]
        lists(deny, allow) == [open EXCEPT !.enable_acl = TRUE, !.denied_clients = deny,
                                           !.allowed_clients = allow]
    IN  {[open EXCEPT !.restrict_queries = TRUE],
         lists({Net(0, 0)}, {}),
         lists({Net(4, 2)}, {Net(0, 0)}),
         lists({Net(7, 1), Host(4)}, {Host(5)}),
         lists({Host(5)}, {Net(5, 3)}),
         lists({Net(6, 2), Net(5, 4), NoNet, Host(4)}, {}),
         lists({Net(4, 3)}, {Net(6, 1), NoHost}),
         lists({}, {Net(6, 2), Net(4, 3), Host(4), Net(5, -1)})}

MCClients == {Address(5)}

MCConfigs == LimitedConfigs \cup ListedConfigs

WorkerSymmetry == Permutations(Workers)
=============================================================================
