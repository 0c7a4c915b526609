--------------------------- MODULE MCConfigReload ---------------------------
(***************************************************************************)
(* ConfigReload for TLC: three settings, one of them overridden by an      *)
(* environment variable; files that give some or all of them, a file that  *)
(* is refused and no file at all; command lines with and without a file,   *)
(* with options before and after it.                                       *)
(***************************************************************************)
EXTENDS ConfigReload, TLC

Texts(l, u, r) == "log" :> l @@ "upstreams" :> u @@ "rate" :> r

MCSettings == {"log", "upstreams", "rate"}
MCDefaults == Texts(0, 0, 0)
MCEnvironment == Texts(Absent, Garbled, 2)

MCContents ==
    {Texts(1, 1, 1), Texts(2, 2, Absent), Texts(1, Absent, Garbled), Texts(2, Bad, 1),
     Missing}

Option(s, v) == [setting |-> s, value |-> v]

MCCommandLines ==
    {<<FromFile>>, <<Option("log", 2), Option("upstreams", 2), FromFile>>,
     <<FromFile, Option("upstreams", 2), Option("rate", 1)>>, <<Option("rate", 1)>>}
=============================================================================
