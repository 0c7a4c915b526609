---------------------------- MODULE ConfigReload ----------------------------
(***************************************************************************)
(* Reloading the configuration: NtpServer::reloadConfig, called by the     *)
(* watcher thread when the file's modification time changes                *)
(* (startConfigWatcher, configWatcherLoop in core/server.cpp) and by the   *)
(* SIGHUP handler on the main thread (main/production.cpp); the file is    *)
(* read by NtpConfig::loadFromFile (config/config.cpp).  No lock keeps two *)
(* reloads apart.                                                          *)
(*                                                                         *)
(* A configuration gives each setting a value.  The file has a text for    *)
(* some of them: a value, one out of range (Bad), which parses but makes   *)
(* validate() fail, or one that does not parse (Garbled), which is         *)
(* skipped.  Environment variables override the file on every load and     *)
(* stay the same while the process lives.  The command line is a sequence  *)
(* of options, which main takes one after the other: --config, which loads *)
(* the file there and then, and options that set one setting.  One that    *)
(* does not parse ends the process before any of this.  An editor replaces *)
(* the file at once, and each write has its own time.  The setting "log"   *)
(* stands for the logger's level, file, format and rotation; its           *)
(* destination and syslog, which main and a reload choose differently, are *)
(* in LogRotation.                                                         *)
(***************************************************************************)
EXTENDS Integers, Sequences

CONSTANTS
    Settings,       \* the settings; "log" is one of them
    Values,         \* the values a setting may have
    Bad,            \* a value validate() refuses
    Garbled,        \* a text that does not parse
    Absent,         \* no text for the setting
    Environment,    \* the texts of the environment variables
    Missing,        \* there is no file
    Defaults,       \* NtpConfig::setDefaults
    Contents,       \* what an editor may write
    FromFile,       \* the option --config
    CommandLines,   \* the command lines: sequences of options
    MaxWrites,      \* bound: writes of the file
    MaxHups         \* bound: SIGHUPs

ASSUME ReloadAssumption ==
    /\ "log" \in Settings
    /\ Bad \notin Values /\ {Absent, Garbled} \cap (Values \cup {Bad}) = {}
    /\ Defaults \in [Settings -> Values]
    /\ Environment \in [Settings -> Values \cup {Bad, Garbled, Absent}]
    /\ Contents \subseteq [Settings -> Values \cup {Bad, Garbled, Absent}] \cup {Missing}
    /\ Missing \notin [Settings -> Values \cup {Bad, Garbled, Absent}]
    /\ CommandLines \subseteq Seq({FromFile} \cup [setting : Settings, value : Values])
    /\ MaxWrites \in Nat /\ MaxHups \in Nat

\* The threads that reload: the watcher, and main in its SIGHUP handler.
Threads == {"watcher", "hup"}

VARIABLES
    file, mtime,        \* the file, and its modification time
    config,             \* *config_
    logger,             \* the logger's settings
    watched,            \* startConfigWatcher has run
    config_last_mtime,  \* config_last_mtime_
    pc,                 \* of each reloading thread
    new_config,         \* reloadConfig's new_config
    main,               \* main: "parse", "run", or "exit" if it gave up
    options, parsed,    \* the command line, and how many options main has taken
    writes, hups,       \* writes and SIGHUPs so far
    \* History, for the properties only.
    read_mtime,         \* the time of what was read last
    overlooked,         \* the recorded time is of a file nobody has read
    given,              \* the settings that something loaded so far gave
    reloaded,           \* a reload has installed its configuration
    solo,               \* the reloads under way that no other reload overlapped
    raced               \* overlapping reloads, and none after them that was alone

fileVars == <<file, mtime, writes>>
inUse == <<config, logger>>
watchVars == <<watched, config_last_mtime>>
readVars == <<read_mtime, overlooked, given, reloaded>>
raceVars == <<solo, raced>>
mainVars == <<main, options, parsed>>
vars == <<fileVars, inUse, watchVars, pc, new_config, mainVars, hups, readVars, raceVars>>

\* What a setting becomes; a text that does not parse leaves it alone.
parseCommandLineArg(old, text) == IF text = Garbled THEN old ELSE text

\* The settings the file does not give stay.
parseConfigFile(c, f) ==
    [s \in Settings |-> IF f[s] = Absent THEN c[s] ELSE parseCommandLineArg(c[s], f[s])]

applyEnvironmentOverrides(c) ==
    [s \in Settings |-> IF Environment[s] \in {Absent, Garbled} THEN c[s]
                        ELSE Environment[s]]

\* Mutant: the file overrides the environment.
loadFromFile_FileLast(c, f) == parseConfigFile(applyEnvironmentOverrides(c), f)

loadFromFile(c, f) == applyEnvironmentOverrides(parseConfigFile(c, f))

validate(c) == \A s \in Settings : c[s] # Bad

\* lastConfigFile() is not empty.
HasFile == \E i \in 1 .. parsed : options[i] = FromFile

\* The settings a load of f gives a value.
Gives(f) ==
    {s \in Settings : {Environment[s], f[s]} \ {Absent, Garbled} # {}}

\* main starts from setDefaults.
Init ==
    /\ file \in Contents
    /\ options \in CommandLines /\ parsed = 0
    /\ main = "parse"
    /\ config = Defaults
    /\ logger = Defaults["log"]
    /\ mtime = 0 /\ config_last_mtime = -1
    /\ watched = FALSE
    /\ read_mtime = 0 /\ overlooked = FALSE
    /\ given = {}
    /\ reloaded = FALSE
    /\ pc = [t \in Threads |-> "idle"]
    /\ new_config = [t \in Threads |-> Defaults]
    /\ solo = {} /\ raced = FALSE
    /\ writes = 0 /\ hups = 0

-----------------------------------------------------------------------------
\* Somebody writes, replaces or removes the file.
WriteFile ==
    /\ writes < MaxWrites
    /\ \E f \in Contents : f # file /\ file' = f
    /\ mtime' = mtime + 1
    /\ writes' = writes + 1
    /\ UNCHANGED <<inUse, watchVars, pc, new_config, mainVars, hups, readVars, raceVars>>

\* main's parseCommandLine takes the next option; it does not validate what it loads,
\* only a reload does.  Without the file the process ends.
parseCommandLine ==
    /\ main = "parse" /\ parsed < Len(options)
    /\ LET o == options[parsed + 1]
       IN  \/ /\ o = FromFile /\ file # Missing
              /\ config' = loadFromFile(config, file)
              /\ read_mtime' = mtime
              /\ given' = given \cup Gives(file)
              /\ parsed' = parsed + 1 /\ UNCHANGED main
           \/ /\ o = FromFile /\ file = Missing
              /\ main' = "exit"
              /\ UNCHANGED <<config, read_mtime, given, parsed>>
           \/ /\ o # FromFile
              /\ config' = [config EXCEPT ![o.setting] = o.value]
              /\ parsed' = parsed + 1 /\ UNCHANGED <<main, read_mtime, given>>
    /\ UNCHANGED <<fileVars, logger, watchVars, pc, new_config, options, hups, overlooked,
                   reloaded, raceVars>>

\* main configures the logger and starts the server, which takes reloads from now on.
Start ==
    /\ main = "parse" /\ parsed = Len(options)
    /\ logger' = config["log"]
    /\ main' = "run"
    /\ UNCHANGED <<fileVars, config, watchVars, pc, new_config, options, parsed, hups,
                   readVars, raceVars>>

\* startConfigWatcher: the modification time is taken as that of what was loaded.
StartWatcher ==
    /\ main = "run" /\ HasFile /\ ~watched /\ pc["hup"] = "idle"
    /\ watched' = TRUE
    /\ config_last_mtime' = IF file = Missing THEN -1 ELSE mtime
    /\ overlooked' = (file # Missing /\ mtime # read_mtime)
    /\ UNCHANGED <<fileVars, inUse, pc, new_config, mainVars, hups, read_mtime, given,
                   reloaded, raceVars>>

\* Thread t calls reloadConfig.
Call(t) ==
    LET busy == {u \in Threads \ {t} : pc[u] # "idle"}
    IN  /\ pc' = [pc EXCEPT ![t] = "copy"]
        /\ solo' = IF busy = {} THEN {t} ELSE {}
        /\ raced' = (raced \/ busy # {})

\* configWatcherLoop: the time has changed; it is recorded before the reload.
\* Without a file there is nothing to see, and a first time (-1) is only noted.
Poll ==
    /\ watched /\ pc["watcher"] = "idle"
    /\ file # Missing /\ mtime # config_last_mtime
    /\ config_last_mtime' = mtime
    /\ IF config_last_mtime = -1
       THEN overlooked' = (mtime # read_mtime) /\ UNCHANGED <<pc, raceVars>>
       ELSE Call("watcher") /\ UNCHANGED overlooked
    /\ UNCHANGED <<fileVars, inUse, watched, new_config, mainVars, hups, read_mtime, given,
                   reloaded>>

\* SIGHUP: the handler calls reloadConfig on the main thread, which returns at once
\* if there is no file.
Hup ==
    /\ main = "run" /\ hups < MaxHups /\ pc["hup"] = "idle"
    /\ hups' = hups + 1
    /\ IF HasFile THEN Call("hup") ELSE UNCHANGED <<pc, raceVars>>
    /\ UNCHANGED <<fileVars, inUse, watchVars, new_config, mainVars, readVars>>

ReloadGoto(t, from, to) ==
    /\ pc[t] = from
    /\ pc' = [pc EXCEPT ![t] = to]
    /\ UNCHANGED <<fileVars, watchVars, mainVars, hups>>

\* Mutant: a reload starts from the defaults.
CopyConfig_Defaults(t) ==
    /\ ReloadGoto(t, "copy", "load")
    /\ new_config' = [new_config EXCEPT ![t] = Defaults]
    /\ UNCHANGED <<inUse, readVars, raceVars>>

\* reloadConfig: make_shared<NtpConfig>(*config_)
CopyConfig(t) ==
    /\ ReloadGoto(t, "copy", "load")
    /\ new_config' = [new_config EXCEPT ![t] = config]
    /\ UNCHANGED <<inUse, readVars, raceVars>>

\* Mutant: the loaded configuration is not validated.
Acceptable_NotValidated(c) == file # Missing

\* Both loadFromFile and validate succeed.
Acceptable(c) == file # Missing /\ validate(loadFromFile(c, file))

\* reloadConfig: loadFromFile and validate; if either fails all stays as it was.
LoadFile(t) ==
    /\ \/ /\ Acceptable(new_config[t])
          /\ ReloadGoto(t, "load", "apply")
          /\ new_config' = [new_config EXCEPT ![t] = loadFromFile(@, file)]
          /\ given' = given \cup Gives(file)
       \/ /\ ~Acceptable(new_config[t])
          /\ ReloadGoto(t, "load", "idle")
          /\ UNCHANGED <<new_config, given>>
    /\ read_mtime' = mtime /\ overlooked' = FALSE
    /\ UNCHANGED <<inUse, reloaded, raceVars>>

\* Mutant: the logger is not told.
ApplyLogger_Skipped(t) ==
    /\ ReloadGoto(t, "apply", "install")
    /\ UNCHANGED <<inUse, new_config, readVars, raceVars>>

\* reloadConfig: the logger's setters
ApplyLogger(t) ==
    /\ ReloadGoto(t, "apply", "install")
    /\ logger' = new_config[t]["log"]
    /\ UNCHANGED <<config, new_config, readVars, raceVars>>

\* reloadConfig: config_ = new_config.  The upstream manager and the connections keep
\* the pointer they were created with.
InstallConfig(t) ==
    /\ ReloadGoto(t, "install", "idle")
    /\ config' = new_config[t]
    /\ raced' = (raced /\ t \notin solo)
    /\ reloaded' = TRUE
    /\ UNCHANGED <<logger, new_config, read_mtime, overlooked, given, solo>>

Reload(t) == CopyConfig(t) \/ LoadFile(t) \/ ApplyLogger(t) \/ InstallConfig(t)

Next ==
    \/ WriteFile \/ parseCommandLine \/ Start \/ StartWatcher \/ Poll \/ Hup
    \/ \E t \in Threads : Reload(t)

Spec == Init /\ [][Next]_vars

\* main and start() go on, the watcher polls every two seconds, and a reload ends.
Fairness ==
    /\ WF_vars(parseCommandLine) /\ WF_vars(Start)
    /\ WF_vars(StartWatcher) /\ WF_vars(Poll)
    /\ \A t \in Threads : WF_vars(Reload(t))

FairSpec == Spec /\ Fairness
-----------------------------------------------------------------------------
Configs == [Settings -> Values \cup {Bad}]

\* The types of the configurations, the texts and the threads.
TypeOK ==
    /\ file \in Contents
    /\ config \in Configs /\ new_config \in [Threads -> Configs]
    /\ logger \in Values \cup {Bad}
    /\ main \in {"parse", "run", "exit"}
    /\ options \in CommandLines /\ parsed \in 0 .. Len(options)
    /\ pc \in [Threads -> {"idle", "copy", "load", "apply", "install"}]
    /\ main # "run" => ~watched /\ pc = [t \in Threads |-> "idle"]
    /\ given \subseteq Settings
    /\ solo \subseteq Threads /\ raced \in BOOLEAN

\* A reload puts only what validate() accepts into use, whatever is written to the
\* file and however the reloads of two threads overlap: a refused file changes
\* nothing, neither the configuration nor the logger.
OnlyValidInstalled ==
    [][main = "run" =>
        /\ config' # config => validate(config')
        /\ logger' # logger => logger' # Bad]_vars

\* What it rests on: nobody changes new_config between validate() and its use.
ValidInv == \A t \in Threads : pc[t] \in {"apply", "install"} => validate(new_config[t])

Quiet == \A t \in Threads : pc[t] = "idle"

\* An option after --config sets s.
Overridden(s) ==
    \E i, j \in DOMAIN options :
        i < j /\ options[i] = FromFile /\ options[j] # FromFile /\ options[j].setting = s

\* The configuration in use says what the environment and then the file say, unless the
\* file is missing or refused; an option after --config has its way until a reload.
Agrees(c) ==
    file # Missing /\ validate(loadFromFile(c, file)) =>
        \A s \in Settings :
            \/ ~reloaded /\ Overridden(s)
            \/ IF Environment[s] \notin {Absent, Garbled} THEN c[s] = Environment[s]
               ELSE file[s] \notin {Absent, Garbled} => c[s] = file[s]

\* Every edit of the file takes effect: when the edits end, the configuration comes to
\* say what the file says and goes on doing so, whatever options and SIGHUPs came too.
\* Two things prevent it, both only until the next reload that is alone: an edit
\* between the load and the start of the watcher, whose time is recorded as seen,
\* and reloads of the two threads that overlap.
WatchedFileTakesEffect == <>[](~HasFile \/ main = "exit" \/ overlooked \/ raced \/ Agrees(config))

\* Configuration c has what the command line gave and nothing loaded since gave anew.
Keeps(c) ==
    \A i \in 1 .. parsed :
        options[i] # FromFile /\ options[i].setting \notin given =>
            \E j \in i .. parsed :
                options[j] # FromFile /\ options[j].setting = options[i].setting
                    /\ c[options[i].setting] = options[j].value

\* Reloads and races never lose an option of the command line: it stays in force until
\* a loaded file, or the environment, gives its setting another value, although only
\* main has seen the command line.
OptionsKept == Keeps(config)

\* Its inductive form: so do the copies that the reloads under way will install.
KeptInv ==
    /\ OptionsKept
    /\ \A t \in Threads : pc[t] \notin {"idle", "copy"} => Keeps(new_config[t])

\* Between reloads, if the last ones did not overlap, the logger works with the settings of
\* the configuration, also after a reload that failed half-way.
LoggerFollowsConfig == main = "run" /\ Quiet /\ ~raced => logger = config["log"]

\* Its inductive form: a reload that no other has overlapped leaves nothing behind that
\* a thread elsewhere in reloadConfig could undo.
RaceInv ==
    /\ \A t \in solo : \A u \in Threads \ {t} : pc[u] = "idle"
    /\ \A t \in solo : pc[t] = "install" => logger = new_config[t]["log"]
    /\ ~raced => \A t \in Threads : pc[t] # "idle" => t \in solo
    /\ main = "run" /\ ~raced /\ (\A t \in Threads : pc[t] # "install")
         => logger = config["log"]
=============================================================================
