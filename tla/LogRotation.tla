---------------------------- MODULE LogRotation ----------------------------
(***************************************************************************)
(* The logger and its files: Logger::Impl::log, outputToFile, rotateLogs   *)
(* and the setters (utils/logger.cpp), called by any thread; a reload of   *)
(* the configuration, which calls the setters one after the other          *)
(* (NtpServer::reloadConfig, core/server.cpp); and a process that is       *)
(* killed at any point, also in the middle of a rotation, and started      *)
(* again on the files it left behind (main/production.cpp).                *)
(*                                                                         *)
(* A log file is the set of the messages in it, which are numbered in the  *)
(* order they are written; a file that does not exist is empty.  File 0 is *)
(* the one written to and file k the one with the suffix ".k".  Every      *)
(* message has the same size.  System calls may fail; the code ignores     *)
(* their errors, and the history notes that it happened.  A message        *)
(* written in part, and formats, are left out.                             *)
(***************************************************************************)
EXTENDS Integers, FiniteSets

CONSTANTS
    Threads,        \* the threads that log
    Names,          \* names of log files
    NoName,         \* the empty name
    Levels,         \* the levels of messages
    Configs,        \* the configurations a start or a reload may find
    MostFiles,      \* the largest log_max_files of them, at least 1
    None,           \* nobody
    MaxMessages,    \* bound: messages written to files
    MaxReloads,     \* bound: reloads
    MaxCrashes,     \* bound: times the process is killed
    MaxFaults       \* bound: system calls that fail

ConfigType ==
    [level : Levels, log_file : Names \cup {NoName}, console : BOOLEAN,
     syslog : BOOLEAN, max_size : Nat, max_files : Nat]

ASSUME LogAssumption ==
    /\ NoName \notin Names /\ None \notin Threads \cup {"reload"}
    /\ Levels \subseteq Nat
    /\ Configs # {} /\ Configs \subseteq ConfigType
    /\ MostFiles \in Nat \ {0}
    /\ \A c \in Configs : c.max_files <= MostFiles
    /\ {MaxMessages, MaxReloads, MaxCrashes, MaxFaults} \subseteq Nat

VARIABLES
    files,                      \* the files of each name
    impl,                       \* the settings of Logger::Impl
    mutex,                      \* who holds mutex_
    pc,                         \* of each thread
    i,                          \* rotateLogs' loop variable
    reload, new_config,         \* the reloading thread
    written, reloads, crashes,  \* messages, reloads and crashes so far
    \* History, for the properties only.
    faults,                     \* system calls that failed
    endless,                    \* something was written without a limit of size
    dropped                     \* messages that went nowhere

reloadVars == <<reload, new_config, reloads>>
history == <<faults, endless, dropped>>
vars == <<files, impl, mutex, pc, i, reloadVars, written, crashes, history>>

Suffixes == 0 .. MostFiles + 1

\* setLogRotation: std::max(1u, max_files)
AtLeastOne(n) == IF n = 0 THEN 1 ELSE n

\* main configures the logger before there are other threads; it does not enable
\* syslog, and never chooses both console and file.
Configured(c) ==
    [level |-> c.level, log_file |-> c.log_file,
     destination |-> IF c.console THEN "CONSOLE" ELSE "FILE", enable_syslog |-> FALSE,
     max_size |-> c.max_size, max_files |-> AtLeastOne(c.max_files)]

Init ==
    /\ files = [n \in Names |-> [k \in Suffixes |-> {}]]
    /\ \E c \in Configs : impl = Configured(c) /\ new_config = c
    /\ mutex = None
    /\ pc = [t \in Threads |-> "idle"]
    /\ i = 0
    /\ reload = "idle"
    /\ written = 0 /\ reloads = 0 /\ crashes = 0
    /\ faults = 0 /\ endless = FALSE /\ dropped = 0

-----------------------------------------------------------------------------
(* log() *)

ToConsole == impl.destination \in {"CONSOLE", "BOTH"}
ToFile == impl.destination \in {"FILE", "BOTH"} /\ impl.log_file # NoName

\* log: the level is tested before the mutex is taken.
Call(t, l) ==
    /\ pc[t] = "idle"
    /\ written < MaxMessages /\ dropped < MaxMessages
    /\ l >= impl.level
    /\ pc' = [pc EXCEPT ![t] = "lock"]
    /\ UNCHANGED <<files, impl, mutex, i, reloadVars, written, crashes, history>>

\* A message is done: what went to no output is noted, the mutex is released.
Done(t, toFile) ==
    /\ dropped' = IF ToConsole \/ toFile \/ impl.enable_syslog THEN dropped ELSE dropped + 1
    /\ mutex' = None
    /\ pc' = [pc EXCEPT ![t] = "idle"]

\* log, under the mutex: console, and on to the file if there is one.
Acquire(t) ==
    /\ pc[t] = "lock" /\ mutex = None
    /\ IF ToFile
       THEN mutex' = t /\ pc' = [pc EXCEPT ![t] = "size"] /\ UNCHANGED dropped
       ELSE Done(t, FALSE)
    /\ UNCHANGED <<files, impl, i, reloadVars, written, crashes, faults, endless>>

\* The thread that writes, the files of the current name, and a step of it.
File(k) == files[impl.log_file][k]

Goto(t, from, to) ==
    /\ mutex = t /\ pc[t] = from
    /\ pc' = [pc EXCEPT ![t] = to]
    /\ UNCHANGED <<impl, mutex, reloadVars, crashes, dropped>>

Fault == faults < MaxFaults /\ faults' = faults + 1

\* Mutant: the file may pass the limit by one message.
Full_Above == impl.max_size > 0 /\ Cardinality(File(0)) > impl.max_size

\* outputToFile: rotate_max_size_bytes_ > 0, exists, file_size >= limit
Full == impl.max_size > 0 /\ Cardinality(File(0)) >= impl.max_size

\* outputToFile: rotate if needed; if file_size fails there is no rotation.
TestSize(t) ==
    /\ \/ Goto(t, "size", IF Full THEN "remove" ELSE "append") /\ UNCHANGED faults
       \/ Goto(t, "size", "append") /\ Full /\ Fault
    /\ UNCHANGED <<files, i, written, endless>>

\* A file is renamed: what the new name had is replaced.  Or nothing happens, when
\* there is no such file or the system call fails.
Rename(from, to) ==
    \/ /\ File(from) # {}
       /\ files' = [files EXCEPT ![impl.log_file][to] = File(from), ![impl.log_file][from] = {}]
       /\ UNCHANGED faults
    \/ File(from) = {} /\ UNCHANGED <<files, faults>>
    \/ File(from) # {} /\ Fault /\ UNCHANGED files

\* Where rotateLogs goes on with i.
Loop(n) == IF n >= 1 THEN "shift" ELSE "current"

\* rotateLogs: remove the file with the highest number.
RemoveOldest(t) ==
    /\ Goto(t, "remove", Loop(impl.max_files - 1))
    /\ i' = impl.max_files - 1
    /\ \/ files' = [files EXCEPT ![impl.log_file][impl.max_files] = {}] /\ UNCHANGED faults
       \/ File(impl.max_files) # {} /\ Fault /\ UNCHANGED files
    /\ UNCHANGED <<written, endless>>

\* Mutant: the files are shifted from the newest to the oldest.
Shift_Upward(t) ==
    /\ Goto(t, "shift", Loop(i - 1))
    /\ i' = i - 1
    /\ Rename(impl.max_files - i, impl.max_files - i + 1)
    /\ UNCHANGED <<written, endless>>

\* rotateLogs: .i becomes .i+1
Shift(t) ==
    /\ Goto(t, "shift", Loop(i - 1))
    /\ i' = i - 1
    /\ Rename(i, i + 1)
    /\ UNCHANGED <<written, endless>>

\* Mutant: the current file gets the highest number.
RotateCurrent_ToLast(t) ==
    /\ Goto(t, "current", "append")
    /\ Rename(0, impl.max_files)
    /\ UNCHANGED <<i, written, endless>>

\* rotateLogs: the current file becomes .1
RotateCurrent(t) ==
    /\ Goto(t, "current", "append")
    /\ Rename(0, 1)
    /\ UNCHANGED <<i, written, endless>>

\* outputToFile: append, unless the file cannot be opened; then syslog.
Append(t) ==
    /\ mutex = t /\ pc[t] = "append"
    /\ \/ /\ files' = [files EXCEPT ![impl.log_file][0] = @ \cup {written + 1}]
          /\ written' = written + 1
          /\ endless' = (endless \/ impl.max_size = 0)
          /\ Done(t, TRUE)
          /\ UNCHANGED faults
       \/ Fault /\ Done(t, FALSE) /\ UNCHANGED <<files, written, endless>>
    /\ UNCHANGED <<impl, i, reloadVars, crashes>>

Log(t) ==
    \/ \E l \in Levels : Call(t, l)
    \/ Acquire(t) \/ TestSize(t) \/ RemoveOldest(t) \/ Shift(t) \/ RotateCurrent(t)
    \/ Append(t)

-----------------------------------------------------------------------------
(* reloadConfig: one setter after the other, each under the mutex *)

SetterGoto(from, to) ==
    /\ reload = from /\ mutex = None
    /\ reload' = to
    /\ UNCHANGED <<files, mutex, pc, i, new_config, reloads, written, crashes, history>>

\* A file that validate() accepts: log_max_files is at least 1.
StartReload ==
    /\ reload = "idle" /\ reloads < MaxReloads
    /\ reload' = "level"
    /\ new_config' \in {c \in Configs : c.max_files >= 1}
    /\ reloads' = reloads + 1
    /\ UNCHANGED <<files, impl, mutex, pc, i, written, crashes, history>>

setLevel ==
    /\ SetterGoto("level", "file")
    /\ impl' = [impl EXCEPT !.level = new_config.level]

\* Mutant: the reload does not tell the logger the new file.
setLogFile_Forgotten == SetterGoto("file", "destination") /\ UNCHANGED impl

setLogFile ==
    /\ SetterGoto("file", "destination")
    /\ impl' = [impl EXCEPT !.log_file = new_config.log_file]

setDestination ==
    /\ SetterGoto("destination", "syslog")
    /\ impl' = [impl EXCEPT !.destination =
                    IF ~new_config.console THEN "FILE"
                    ELSE IF new_config.log_file = NoName THEN "CONSOLE" ELSE "BOTH"]

setSyslog ==
    /\ SetterGoto("syslog", "rotation")
    /\ impl' = [impl EXCEPT !.enable_syslog = new_config.syslog]

setLogRotation ==
    /\ SetterGoto("rotation", "idle")
    /\ impl' = [impl EXCEPT !.max_size = new_config.max_size,
                            !.max_files = AtLeastOne(new_config.max_files)]

Reload ==
    \/ StartReload \/ setLevel \/ setLogFile \/ setDestination \/ setSyslog
    \/ setLogRotation

-----------------------------------------------------------------------------
\* The process is killed, whatever its threads are doing, and started again with
\* the configuration of the moment; the files are as it left them.
Crash ==
    /\ crashes < MaxCrashes
    /\ crashes' = crashes + 1
    /\ \E c \in Configs : impl' = Configured(c) /\ new_config' = c
    /\ mutex' = None
    /\ pc' = [t \in Threads |-> "idle"]
    /\ i' = 0
    /\ reload' = "idle"
    /\ UNCHANGED <<files, reloads, written, history>>

Next == (\E t \in Threads : Log(t)) \/ Reload \/ Crash

Spec == Init /\ [][Next]_vars
-----------------------------------------------------------------------------
\* Types of the logger's variables.
TypeOK ==
    /\ files \in [Names -> [Suffixes -> SUBSET (1 .. written)]]
    /\ impl \in [level : Levels, log_file : Names \cup {NoName},
                 destination : {"CONSOLE", "FILE", "BOTH"}, enable_syslog : BOOLEAN,
                 max_size : Nat, max_files : 1 .. MostFiles]
    /\ mutex \in Threads \cup {None}
    /\ pc \in [Threads -> {"idle", "lock", "size", "remove", "shift", "current",
                           "append"}]
    /\ i \in 0 .. MostFiles - 1
    /\ reload \in {"idle", "level", "file", "destination", "syslog", "rotation"}
    /\ new_config \in Configs
    /\ {written, reloads, crashes, faults, dropped} \subseteq Nat
    /\ endless \in BOOLEAN

\* What the properties below rest on.  A thread that writes holds the mutex, so the
\* settings stay as it found them; a rotation has emptied the file it renames to next,
\* unless a system call failed; and the file it then appends to has room.
HoldInv ==
    \A t \in Threads : pc[t] \notin {"idle", "lock"} => mutex = t /\ impl.log_file \in Names

RotateInv ==
    \A t \in Threads :
        /\ pc[t] = "shift" => i \in 1 .. impl.max_files - 1
        /\ pc[t] = "current" => i = 0
        /\ pc[t] \in {"remove", "shift", "current"} => impl.max_size > 0
        /\ faults = 0 /\ pc[t] \in {"shift", "current"} => File(i + 1) = {}
        /\ faults = 0 /\ pc[t] = "append" /\ impl.max_size > 0
             => Cardinality(File(0)) < impl.max_size

\* The logger has a limit of some configuration, and names an output: its destination
\* lags behind its file only between the two setters.
SettingsInv ==
    /\ \E c \in Configs : impl.max_size = c.max_size
    /\ reload = "destination" => impl.log_file = new_config.log_file
    /\ (\A c \in Configs : c.console \/ c.log_file # NoName)
         => impl.destination # "FILE" \/ impl.log_file # NoName \/ reload = "destination"

\* The messages of each name stay in the order of its files' numbers: everything in
\* a file is newer than everything in the files with higher numbers.  No crash in
\* the middle of a rotation, no failing system call and no change of the limits
\* breaks that.
FilesOrdered ==
    \A n \in Names : \A j, k \in Suffixes :
        j < k => \A x \in files[n][j], y \in files[n][k] : x > y

Kept(f, n) == UNION {f[n][k] : k \in Suffixes}

\* A rotation gives up one file only, the one with the number log_max_files, and
\* never renames one file over another: unless a system call failed, messages leave
\* the disk only with that file, also when an earlier rotation was cut short and
\* when log_max_files changed in between.
OnlyLastRemoved ==
    [][faults' = 0 =>
        \A n \in Names : \A x \in Kept(files, n) \ Kept(files', n) :
            n = impl.log_file /\ x \in File(impl.max_files)]_vars

\* The disk the logs take is bounded: no file has a number above the largest
\* log_max_files, even after it was lowered and raised, and unless a system call
\* failed none is larger than the largest log_max_size_bytes.
DiskBounded ==
    \A n \in Names :
        /\ \A k \in Suffixes : k > MostFiles => files[n][k] = {}
        /\ faults = 0 /\ ~endless =>
              \A k \in Suffixes :
                  \E c \in Configs : Cardinality(files[n][k]) <= c.max_size

\* If every configuration names the console or a file, a message that passed the
\* test of the level is dropped only when a system call fails, or while a reload
\* has set the new file's name and not yet the new destination.
DroppedOnlyInReload ==
    [][dropped' # dropped /\ (\A c \in Configs : c.console \/ c.log_file # NoName) =>
        faults' # faults \/ reload = "destination"]_vars
=============================================================================
