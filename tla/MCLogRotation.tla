--------------------------- MODULE MCLogRotation ---------------------------
(***************************************************************************)
(* LogRotation for TLC: two threads, two file names, files of one or two   *)
(* messages, between one and three rotated files.                          *)
(***************************************************************************)
EXTENDS LogRotation

Config(l, file, console, syslog, size, n) ==
    [level |-> l, log_file |-> file, console |-> console, syslog |-> syslog,
     max_size |-> size, max_files |-> n]

MCConfigs ==
    {Config(0, "a", FALSE, FALSE, 1, 3), Config(0, "a", FALSE, TRUE, 2, 0),
     Config(1, "b", TRUE, FALSE, 2, 2), Config(0, NoName, TRUE, FALSE, 0, 1)}
=============================================================================
