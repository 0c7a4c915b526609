----------------------------- MODULE MCResponse -----------------------------
(***************************************************************************)
(* Response for TLC: two upstream servers, a stratum one below the         *)
(* maximum, and an adjustment that starts after the first request.         *)
(***************************************************************************)
EXTENDS Response, TLC

TwoServers == <<"a.example", "b.example">>

MCConfigs ==
    {c \in ConfigType : c.enable_dynamic_stratum_adjustment}

WorkerSymmetry == Permutations(Workers)
=============================================================================
