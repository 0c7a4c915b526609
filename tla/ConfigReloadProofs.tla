------------------------- MODULE ConfigReloadProofs -------------------------
(***************************************************************************)
(* Proofs about ConfigReload for any settings, files, environment and      *)
(* command lines, and for any number of writes and SIGHUPs: a refused file *)
(* never gets into use, options of the command line survive the reloads,   *)
(* and the logger follows the configuration unless reloads overlapped.     *)
(*                                                                         *)
(* Then proofs about ConfigText, for any words, settings, values and any   *)
(* number of lines: the parsers of the three formats agree, and the        *)
(* daemon's reader agrees with them on compact lines.                      *)
(***************************************************************************)
EXTENDS ConfigReload, ConfigText, SequenceTheorems, WellFoundedInduction, TLAPS

\* loadFromFile gives every setting a value, or one that validate() refuses.
LEMMA LoadType ==
    ASSUME NEW c \in Configs, NEW f \in Contents, f # Missing
    PROVE  loadFromFile(c, f) \in Configs
<1>1. f \in [Settings -> Values \cup {Bad, Garbled, Absent}]
    BY ReloadAssumption
<1>2. parseConfigFile(c, f) \in Configs
    BY <1>1 DEF parseConfigFile, parseCommandLineArg, Configs
<1> QED
    BY <1>2, ReloadAssumption DEF loadFromFile, applyEnvironmentOverrides, Configs

\* loadFromFile leaves alone what neither the file nor the environment gives.
LEMMA LoadKeeps ==
    ASSUME NEW c \in Configs, NEW f, NEW s \in Settings, s \notin Gives(f)
    PROVE  loadFromFile(c, f)[s] = c[s]
BY DEF loadFromFile, applyEnvironmentOverrides, parseConfigFile, parseCommandLineArg, Gives, Configs

\* What is valid has a logger setting that is not Bad.
LEMMA ValidLog ==
    ASSUME NEW c, validate(c)
    PROVE  c["log"] # Bad
BY ReloadAssumption DEF validate

\* An option sets one setting to a value.
LEMMA OptionType ==
    ASSUME TypeOK, NEW i \in 1 .. Len(options), options[i] # FromFile
    PROVE  options[i].setting \in Settings /\ options[i].value \in Values
BY ReloadAssumption DEF TypeOK

\* The command line has a length.
LEMMA LineLength ==
    ASSUME TypeOK
    PROVE  Len(options) \in Nat /\ parsed \in 0 .. Len(options)
BY ReloadAssumption DEF TypeOK

\* Every step keeps the types; while main parses, no thread reloads.
LEMMA TypeStep == TypeOK /\ [Next]_vars => TypeOK'
<1> SUFFICES ASSUME TypeOK, [Next]_vars
             PROVE  TypeOK'
    OBVIOUS
<1>0. Len(options) \in Nat /\ parsed \in 0 .. Len(options)
    BY LineLength
<1> USE DEF Threads, fileVars, inUse, watchVars, mainVars, readVars, raceVars
<1>1. CASE WriteFile
    BY <1>1 DEF WriteFile, TypeOK
<1>2. CASE parseCommandLine
    <2> DEFINE o == options[parsed + 1]
    <2>0. main = "parse" /\ parsed < Len(options)
        BY <1>2 DEF parseCommandLine
    <2>1. CASE o = FromFile /\ file # Missing
        BY <1>2, <2>0, <2>1, <1>0, LoadType DEF parseCommandLine, TypeOK, Gives
    <2>2. CASE o = FromFile /\ file = Missing
        BY <1>2, <2>0, <2>2, <1>0 DEF parseCommandLine, TypeOK
    <2>3. CASE o # FromFile
        <3>1. o.setting \in Settings /\ o.value \in Values
            BY <2>0, <2>3, <1>0, OptionType
        <3>2. config' \in Configs /\ parsed' \in 0 .. Len(options)
            BY <1>2, <2>0, <2>3, <1>0, <3>1 DEF parseCommandLine, TypeOK, Configs
        <3> QED
            BY <1>2, <2>0, <2>3, <3>2 DEF parseCommandLine, TypeOK
    <2> QED
        BY <2>1, <2>2, <2>3
<1>3. CASE Start
    BY <1>3, ReloadAssumption DEF Start, TypeOK, Configs
<1>4. CASE StartWatcher
    BY <1>4 DEF StartWatcher, TypeOK
<1>5. CASE Poll
    <2>1. main = "run"
        BY <1>5 DEF Poll, TypeOK
    <2> QED
        BY <1>5, <2>1 DEF Poll, Call, TypeOK
<1>6. CASE Hup
    BY <1>6 DEF Hup, Call, TypeOK
<1>7. ASSUME NEW t \in Threads, Reload(t)
      PROVE  TypeOK'
    <2>0. main = "run" /\ main' = main /\ parsed' = parsed /\ options' = options /\ file' = file
        BY <1>7 DEF Reload, CopyConfig, LoadFile, ApplyLogger, InstallConfig, ReloadGoto, TypeOK
    <2>1. CASE CopyConfig(t)
        BY <2>0, <2>1 DEF CopyConfig, ReloadGoto, TypeOK
    <2>2. CASE LoadFile(t)
        <3>1. Acceptable(new_config[t]) => loadFromFile(new_config[t], file) \in Configs
            BY LoadType DEF Acceptable, TypeOK
        <3> QED
            BY <2>0, <2>2, <3>1 DEF LoadFile, ReloadGoto, TypeOK, Gives
    <2>3. CASE ApplyLogger(t)
        BY <2>0, <2>3, ReloadAssumption DEF ApplyLogger, ReloadGoto, TypeOK, Configs
    <2>4. CASE InstallConfig(t)
        BY <2>0, <2>4 DEF InstallConfig, ReloadGoto, TypeOK
    <2> QED
        BY <1>7, <2>1, <2>2, <2>3, <2>4 DEF Reload
<1>8. CASE UNCHANGED vars
    BY <1>8 DEF vars, TypeOK
<1> QED
    BY <1>1, <1>2, <1>3, <1>4, <1>5, <1>6, <1>7, <1>8 DEF Next

\* The settings, the loaded copies and the command line keep their types.
THEOREM TypeCorrect == Spec => []TypeOK
<1>1. Init => TypeOK
    <2> SUFFICES ASSUME Init
                 PROVE  TypeOK
        OBVIOUS
    <2>1. options \in CommandLines /\ Len(options) \in Nat
        BY ReloadAssumption DEF Init
    <2>2. Defaults \in Configs /\ Defaults["log"] \in Values \cup {Bad}
        BY ReloadAssumption DEF Configs
    <2>3. raced \in BOOLEAN /\ ~watched
        BY Zenon DEF Init
    <2> QED
        BY <2>1, <2>2, <2>3 DEF Init, TypeOK, Threads
<1> QED
    BY <1>1, TypeStep, PTL DEF Spec
-----------------------------------------------------------------------------
\* Only LoadFile lets a thread past validate(), and only that thread changes its copy.
LEMMA ValidStep == TypeOK /\ ValidInv /\ [Next]_vars => ValidInv'
<1> SUFFICES ASSUME TypeOK, ValidInv, [Next]_vars, NEW u \in Threads,
                    pc'[u] \in {"apply", "install"}
             PROVE  validate(new_config'[u])
    BY DEF ValidInv, validate
<1>1. pc \in [Threads -> {"idle", "copy", "load", "apply", "install"}]
      /\ new_config \in [Threads -> Configs]
    BY DEF TypeOK
<1>2. CASE pc[u] \in {"apply", "install"} /\ new_config'[u] = new_config[u]
    BY <1>2 DEF ValidInv, validate
<1>3. ASSUME NEW t \in Threads, Reload(t)
      PROVE  validate(new_config'[u])
    <2>1. CASE t # u
        BY <1>1, <1>2, <1>3, <2>1
        DEF Reload, CopyConfig, LoadFile, ApplyLogger, InstallConfig, ReloadGoto
    <2>2. CASE t = u /\ CopyConfig(u)
        BY <1>1, <2>2 DEF CopyConfig, ReloadGoto
    <2>3. CASE t = u /\ LoadFile(u)
        BY <1>1, <2>3 DEF LoadFile, ReloadGoto, Acceptable
    <2>4. CASE t = u /\ (ApplyLogger(u) \/ InstallConfig(u))
        BY <1>1, <1>2, <2>4 DEF ApplyLogger, InstallConfig, ReloadGoto
    <2> QED
        BY <1>3, <2>1, <2>2, <2>3, <2>4 DEF Reload
<1>4. Poll \/ Hup => pc[u] \in {"apply", "install"} /\ new_config'[u] = new_config[u]
    BY <1>1 DEF Poll, Hup, Call
<1>5. WriteFile \/ parseCommandLine \/ Start \/ StartWatcher \/ UNCHANGED vars
        => pc[u] \in {"apply", "install"} /\ new_config'[u] = new_config[u]
    BY DEF WriteFile, parseCommandLine, Start, StartWatcher, vars
<1> QED
    BY <1>2, <1>3, <1>4, <1>5 DEF Next

\* For every file anybody may write, at every moment, and however the reloads of the
\* watcher and of SIGHUP overlap: what validate() refuses is never put into use.
THEOREM OnlyValid == Spec => OnlyValidInstalled
<1>1. Init => ValidInv
    BY DEF Init, ValidInv
<1>2. TypeOK /\ ValidInv /\ [Next]_vars
        => [main = "run" => /\ config' # config => validate(config')
                            /\ logger' # logger => logger' # Bad]_vars
    <2> SUFFICES ASSUME TypeOK, ValidInv, [Next]_vars, main = "run"
                 PROVE  /\ config' # config => validate(config')
                        /\ logger' # logger => logger' # Bad
        OBVIOUS
    <2>1. ASSUME NEW t \in Threads, ApplyLogger(t)
          PROVE  config' = config /\ logger' # Bad
        BY <2>1, ValidLog DEF ApplyLogger, ReloadGoto, ValidInv
    <2>2. ASSUME NEW t \in Threads, InstallConfig(t)
          PROVE  logger' = logger /\ validate(config')
        BY <2>2 DEF InstallConfig, ReloadGoto, ValidInv
    <2>3. ASSUME NEW t \in Threads, CopyConfig(t) \/ LoadFile(t)
          PROVE  UNCHANGED <<config, logger>>
        BY <2>3 DEF CopyConfig, LoadFile, inUse
    <2>4. WriteFile \/ StartWatcher \/ Poll \/ Hup \/ UNCHANGED vars => UNCHANGED <<config, logger>>
        BY DEF WriteFile, StartWatcher, Poll, Hup, inUse, vars
    <2>5. ~parseCommandLine /\ ~Start
        BY DEF parseCommandLine, Start
    <2> QED
        BY <2>1, <2>2, <2>3, <2>4, <2>5 DEF Next, Reload
<1> QED
    BY <1>1, <1>2, ValidStep, TypeCorrect, PTL DEF Spec, OnlyValidInstalled

-----------------------------------------------------------------------------
\* A configuration that differs from one that keeps the options only where something
\* loaded gave a value keeps them too.
LEMMA KeepsStep ==
    ASSUME TypeOK, NEW c, NEW d, Keeps(c), given \subseteq given',
           \A s \in Settings \ given' : d[s] = c[s], UNCHANGED <<options, parsed>>
    PROVE  Keeps(d)'
<1> SUFFICES ASSUME NEW i \in 1 .. parsed, options[i] # FromFile, options[i].setting \notin given'
             PROVE  \E j \in i .. parsed :
                        options[j] # FromFile /\ options[j].setting = options[i].setting
                            /\ d[options[i].setting] = options[j].value
    BY DEF Keeps
<1>1. PICK j \in i .. parsed :
        options[j] # FromFile /\ options[j].setting = options[i].setting
            /\ c[options[i].setting] = options[j].value
    BY DEF Keeps
<1>2. options[i].setting \in Settings
    BY LineLength, OptionType
<1> QED
    BY <1>1, <1>2

\* While nobody reloads, an option that main takes sets its own setting and leaves the
\* others alone.
LEMMA OptionStep ==
    ASSUME TypeOK, OptionsKept, parseCommandLine
    PROVE  OptionsKept'
<1>0. Len(options) \in Nat /\ parsed \in 0 .. Len(options) /\ parsed < Len(options)
    BY LineLength DEF parseCommandLine
<1> DEFINE o == options[parsed + 1]
<1>1. CASE o = FromFile
    <2>1. \A s \in Settings \ given' : config'[s] = config[s]
        BY <1>1, LoadKeeps DEF parseCommandLine, TypeOK
    <2>2. given \subseteq given' /\ options' = options /\ parsed' \in {parsed, parsed + 1}
        BY <1>1 DEF parseCommandLine
    <2> SUFFICES ASSUME NEW i \in 1 .. parsed', options[i] # FromFile,
                        options[i].setting \notin given'
                 PROVE  \E j \in i .. parsed' :
                            options[j] # FromFile /\ options[j].setting = options[i].setting
                                /\ config'[options[i].setting] = options[j].value
        BY <2>2 DEF OptionsKept, Keeps
    <2>3. i \in 1 .. parsed
        BY <1>0, <1>1, <2>2
    <2>4. PICK j \in i .. parsed :
            options[j] # FromFile /\ options[j].setting = options[i].setting
                /\ config[options[i].setting] = options[j].value
        BY <2>2, <2>3 DEF OptionsKept, Keeps
    <2>5. options[i].setting \in Settings
        BY <1>0, <2>3, OptionType
    <2> QED
        BY <1>0, <2>1, <2>2, <2>4, <2>5
<1>2. CASE o # FromFile
    <2>1. /\ config' = [config EXCEPT ![o.setting] = o.value]
          /\ parsed' = parsed + 1 /\ given' = given /\ options' = options
        BY <1>2 DEF parseCommandLine
    <2>2. o.setting \in Settings /\ config \in Configs
        BY <1>0, <1>2, OptionType DEF TypeOK
    <2> SUFFICES ASSUME NEW i \in 1 .. parsed + 1, options[i] # FromFile,
                        options[i].setting \notin given
                 PROVE  \E j \in i .. parsed + 1 :
                            options[j] # FromFile /\ options[j].setting = options[i].setting
                                /\ config'[options[i].setting] = options[j].value
        BY <2>1 DEF OptionsKept, Keeps
    <2>3. options[i].setting \in Settings
        BY <1>0, OptionType
    <2>4. CASE options[i].setting = o.setting
        <3>1. config'[options[i].setting] = o.value /\ parsed + 1 \in i .. parsed + 1
            BY <1>0, <2>1, <2>2, <2>4 DEF Configs
        <3> QED
            BY <1>2, <2>4, <3>1
    <2>5. CASE options[i].setting # o.setting
        <3>1. i \in 1 .. parsed
            BY <1>0, <2>5
        <3>2. PICK j \in i .. parsed :
                options[j] # FromFile /\ options[j].setting = options[i].setting
                    /\ config[options[i].setting] = options[j].value
            BY <3>1 DEF OptionsKept, Keeps
        <3>3. config'[options[i].setting] = config[options[i].setting]
            BY <2>1, <2>2, <2>3, <2>5 DEF Configs
        <3> QED
            BY <1>0, <3>2, <3>3
    <2> QED
        BY <2>4, <2>5
<1> QED
    BY <1>1, <1>2

\* A reload copies a configuration that has the options, and loads over it only what
\* is given; installing it, whatever was installed since, loses none.
LEMMA KeptStep == TypeOK /\ KeptInv /\ [Next]_vars => KeptInv'
<1> SUFFICES ASSUME TypeOK, KeptInv, [Next]_vars
             PROVE  KeptInv'
    OBVIOUS
<1>0. pc \in [Threads -> {"idle", "copy", "load", "apply", "install"}]
      /\ new_config \in [Threads -> Configs]
    BY DEF TypeOK
<1>1. CASE parseCommandLine
    <2>1. pc' = [t \in Threads |-> "idle"]
        BY <1>1 DEF parseCommandLine, TypeOK
    <2> QED
        BY <1>1, <2>1, OptionStep DEF KeptInv
<1>2. ASSUME UNCHANGED <<options, parsed>>, given \subseteq given',
             \/ config' = config
             \/ \E t \in Threads : pc[t] \notin {"idle", "copy"} /\ config' = new_config[t]
      PROVE  OptionsKept'
    <2> PICK c : c = config'
        OBVIOUS
    <2>1. Keeps(c)
        BY <1>2 DEF KeptInv, OptionsKept, Keeps
    <2>2. Keeps(c)'
        BY <1>2, <2>1, KeepsStep
    <2> QED
        BY <2>2 DEF OptionsKept, Keeps
<1>3. ASSUME UNCHANGED <<options, parsed>>, given \subseteq given', NEW u \in Threads,
             \/ pc[u] \notin {"idle", "copy"}
                  /\ \A s \in Settings \ given' : new_config'[u][s] = new_config[u][s]
             \/ new_config'[u] = config
      PROVE  Keeps(new_config[u])'
    <2> PICK c, d : d = new_config'[u]
                      /\ c = IF pc[u] \notin {"idle", "copy"}
                                /\ \A s \in Settings \ given' : new_config'[u][s] = new_config[u][s]
                             THEN new_config[u] ELSE config
        OBVIOUS
    <2>1. Keeps(c) /\ \A s \in Settings \ given' : d[s] = c[s]
        BY <1>3 DEF KeptInv, OptionsKept, Keeps
    <2>2. Keeps(d)'
        BY <1>3, <2>1, KeepsStep
    <2> QED
        BY <2>2 DEF Keeps
<1>4. ASSUME NEW t \in Threads, Reload(t)
      PROVE  KeptInv'
    <2>0. UNCHANGED <<options, parsed>>
        BY <1>4 DEF Reload, CopyConfig, LoadFile, ApplyLogger, InstallConfig, ReloadGoto, mainVars
    <2>1. given \subseteq given'
        BY <1>4 DEF Reload, CopyConfig, LoadFile, ApplyLogger, InstallConfig, readVars
    <2>2. OptionsKept'
        BY <1>2, <1>4, <2>0, <2>1
        DEF Reload, CopyConfig, LoadFile, ApplyLogger, InstallConfig, ReloadGoto, inUse
    <2> SUFFICES ASSUME NEW u \in Threads, pc'[u] \notin {"idle", "copy"}
                 PROVE  Keeps(new_config[u])'
        BY <2>2 DEF KeptInv
    <2>3. CASE t # u
        <3>1. pc[u] \notin {"idle", "copy"} /\ new_config'[u] = new_config[u]
            BY <1>0, <1>4, <2>3
            DEF Reload, CopyConfig, LoadFile, ApplyLogger, InstallConfig, ReloadGoto
        <3> QED
            BY <1>3, <2>0, <2>1, <3>1
    <2>4. CASE t = u /\ CopyConfig(u)
        <3>1. new_config'[u] = config
            BY <1>0, <2>4 DEF CopyConfig
        <3> QED
            BY <1>3, <2>0, <2>1, <3>1
    <2>5. CASE t = u /\ LoadFile(u)
        <3>1. pc[u] = "load" /\ new_config'[u] = loadFromFile(new_config[u], file)
              /\ given' = given \cup Gives(file)
            BY <1>0, <2>5 DEF LoadFile, ReloadGoto
        <3>2. \A s \in Settings \ given' : new_config'[u][s] = new_config[u][s]
            BY <1>0, <3>1, LoadKeeps
        <3> QED
            BY <1>3, <2>0, <2>1, <3>1, <3>2
    <2>6. CASE t = u /\ (ApplyLogger(u) \/ InstallConfig(u))
        <3>1. pc[u] \notin {"idle", "copy"} /\ new_config'[u] = new_config[u]
            BY <1>0, <2>6 DEF ApplyLogger, InstallConfig, ReloadGoto
        <3> QED
            BY <1>3, <2>0, <2>1, <3>1
    <2> QED
        BY <1>4, <2>3, <2>4, <2>5, <2>6 DEF Reload
<1>5. CASE WriteFile \/ Start \/ StartWatcher \/ Poll \/ Hup \/ UNCHANGED vars
    <2>1. UNCHANGED <<options, parsed, given, config, new_config>>
        BY <1>5 DEF WriteFile, Start, StartWatcher, Poll, Hup, vars, mainVars, readVars, inUse
    <2>2. \A u \in Threads : pc'[u] \notin {"idle", "copy"} => pc[u] \notin {"idle", "copy"}
        BY <1>0, <1>5 DEF WriteFile, Start, StartWatcher, Poll, Hup, Call, vars
    <2>3. OptionsKept'
        BY <1>2, <2>1
    <2>4. ASSUME NEW u \in Threads, pc'[u] \notin {"idle", "copy"}
          PROVE  Keeps(new_config[u])'
        BY <1>3, <2>1, <2>2, <2>4
    <2> QED
        BY <2>3, <2>4 DEF KeptInv
<1> QED
    BY <1>1, <1>4, <1>5 DEF Next

\* For every command line and every file, an option stays in force until something
\* loaded gives its setting a value: no order of the two threads' reloads loses it.
THEOREM OptionsStay == Spec => []OptionsKept
<1>1. Init => KeptInv
    BY DEF Init, KeptInv, OptionsKept, Keeps
<1>2. KeptInv => OptionsKept
    BY DEF KeptInv
<1> QED
    BY <1>1, <1>2, KeptStep, TypeCorrect, PTL DEF Spec

-----------------------------------------------------------------------------
\* A thread that enters reloadConfig while the other is inside takes itself and the
\* other out of solo; one that enters alone is the only one in it.
LEMMA CallStep ==
    ASSUME TypeOK, RaceInv, NEW t \in Threads, pc[t] = "idle", Call(t),
           UNCHANGED <<config, logger, new_config, main>>
    PROVE  RaceInv'
<1>1. pc \in [Threads -> {"idle", "copy", "load", "apply", "install"}]
    BY DEF TypeOK
<1>2. \A u \in Threads : pc'[u] = IF u = t THEN "copy" ELSE pc[u]
    BY <1>1 DEF Call
<1>3. CASE \E u \in Threads \ {t} : pc[u] # "idle"
    <2>1. solo' = {} /\ raced'
        BY <1>3 DEF Call
    <2> QED
        BY <2>1 DEF RaceInv
<1>4. CASE \A u \in Threads \ {t} : pc[u] = "idle"
    <2>1. solo' = {t} /\ (raced' <=> raced)
        BY <1>4 DEF Call
    <2>2. \A u \in Threads : pc[u] # "install"
        BY <1>4
    <2> QED
        BY <1>2, <1>4, <2>1, <2>2 DEF RaceInv
<1> QED
    BY <1>3, <1>4

\* The steps of a reload that no other overlaps find the logger and the configuration
\* as the previous step left them.
LEMMA RaceStep == TypeOK /\ RaceInv /\ [Next]_vars => RaceInv'
<1> SUFFICES ASSUME TypeOK, RaceInv, [Next]_vars
             PROVE  RaceInv'
    OBVIOUS
<1>1. /\ pc \in [Threads -> {"idle", "copy", "load", "apply", "install"}]
      /\ new_config \in [Threads -> Configs]
    BY DEF TypeOK
<1>2. CASE WriteFile \/ StartWatcher \/ UNCHANGED vars
    BY <1>2 DEF WriteFile, StartWatcher, vars, inUse, mainVars, raceVars, RaceInv
<1>3. CASE parseCommandLine
    BY <1>3 DEF parseCommandLine, raceVars, RaceInv, TypeOK
<1>4. CASE Start
    BY <1>4 DEF Start, raceVars, RaceInv, TypeOK
<1>5. CASE Poll
    BY <1>5, CallStep DEF Poll, inUse, mainVars, raceVars, RaceInv, Threads
<1>6. CASE Hup
    BY <1>6, CallStep DEF Hup, inUse, mainVars, raceVars, RaceInv, Threads
<1>7. ASSUME NEW t \in Threads, Reload(t)
      PROVE  RaceInv'
    <2>0. main' = main /\ solo' = solo
        BY <1>7 DEF Reload, CopyConfig, LoadFile, ApplyLogger, InstallConfig, ReloadGoto,
                    mainVars, raceVars
    <2>1. CASE CopyConfig(t)
        BY <1>1, <2>0, <2>1 DEF CopyConfig, ReloadGoto, inUse, raceVars, RaceInv
    <2>2. CASE LoadFile(t)
        <3>1. \A u \in Threads : u # t => pc'[u] = pc[u] /\ new_config'[u] = new_config[u]
            BY <1>1, <2>2 DEF LoadFile, ReloadGoto
        <3>2. pc[t] = "load" /\ pc'[t] \in {"apply", "idle"} /\ UNCHANGED <<config, logger, raced>>
            BY <1>1, <2>2 DEF LoadFile, ReloadGoto, inUse, raceVars
        <3> QED
            BY <2>0, <3>1, <3>2 DEF RaceInv
    <2>3. CASE ApplyLogger(t)
        <3>1. /\ pc[t] = "apply" /\ pc'[t] = "install" /\ logger' = new_config[t]["log"]
              /\ UNCHANGED <<new_config, raced>>
              /\ \A u \in Threads : u # t => pc'[u] = pc[u]
            BY <1>1, <2>3 DEF ApplyLogger, ReloadGoto, raceVars
        <3> QED
            BY <2>0, <3>1 DEF RaceInv
    <2>4. CASE InstallConfig(t)
        <3>1. /\ pc[t] = "install" /\ pc'[t] = "idle" /\ config' = new_config[t]
              /\ UNCHANGED <<new_config, logger>>
              /\ raced' = (raced /\ t \notin solo)
              /\ \A u \in Threads : u # t => pc'[u] = pc[u]
            BY <1>1, <2>4 DEF InstallConfig, ReloadGoto
        <3>2. ~raced' => t \in solo
            BY <3>1 DEF RaceInv
        <3> QED
            BY <2>0, <3>1, <3>2 DEF RaceInv
    <2> QED
        BY <1>7, <2>1, <2>2, <2>3, <2>4 DEF Reload
<1> QED
    BY <1>2, <1>3, <1>4, <1>5, <1>6, <1>7 DEF Next

\* Between reloads the logger works with the settings of the configuration, for every
\* sequence of edits and SIGHUPs, unless the last reloads overlapped.
THEOREM LoggerFollows == Spec => []LoggerFollowsConfig
<1>1. Init => RaceInv
    BY DEF Init, RaceInv
<1>2. RaceInv => LoggerFollowsConfig
    BY DEF RaceInv, LoggerFollowsConfig, Quiet
<1> QED
    BY <1>1, <1>2, RaceStep, TypeCorrect, PTL DEF Spec

-----------------------------------------------------------------------------
(* ConfigText *)

\* The naturals are well-founded, so a set of them has a least element and, if it is
\* bounded, a greatest.
LessThan == {p \in Nat \X Nat : p[1] < p[2]}

\* By the library, which has it of the ordering as an operator.
LEMMA LessThanWellFounded == IsWellFoundedOn(LessThan, Nat)
<1>1. OpToRel(<, Nat) = LessThan
    BY Zenon DEF OpToRel, LessThan
<1> QED
    BY <1>1, NatLessThanWellFounded, Zenon

\* A set of naturals with an element has a least one ...
LEMMA LeastExists ==
    ASSUME NEW S \in SUBSET Nat, S # {}
    PROVE  \E m \in S : \A i \in S : m <= i
<1>1. PICK m \in S : \A i \in S : <<i, m>> \notin LessThan
    BY LessThanWellFounded, WFMin
<1>2. \A i \in S : ~(i < m)
    BY <1>1 DEF LessThan
<1> QED
    BY <1>2

\* ... and one that is bounded has a greatest.
LEMMA GreatestExists ==
    ASSUME NEW S \in SUBSET Nat, S # {}, NEW n \in Nat, \A i \in S : i <= n
    PROVE  \E m \in S : \A i \in S : i <= m
<1>1. PICK D : D = {d \in 0 .. n : \E i \in S : d = n - i}
    OBVIOUS
<1>2. D \in SUBSET Nat /\ \A i \in S : n - i \in D
    BY <1>1
<1>3. D # {}
    BY <1>2
<1>4. PICK d \in D : \A j \in D : d <= j
    BY <1>2, <1>3, LeastExists
<1>5. PICK m \in S : d = n - m
    BY <1>1
<1>6. ASSUME NEW i \in S
      PROVE  i <= m
    BY <1>2, <1>4, <1>5
<1> QED
    BY <1>6

\* SelectInSeq and SelectLastInSeq choose the least of a set of indices ...
LEMMA LeastIndex ==
    ASSUME NEW I, I \subseteq Nat, NEW m \in I, \A i \in I : m <= i
    PROVE  (CHOOSE x \in I : \A y \in I : x <= y) = m
<1> DEFINE c == CHOOSE x \in I : \A y \in I : x <= y
<1>1. c \in I /\ \A y \in I : c <= y
    OBVIOUS
<1> HIDE DEF c
<1>2. c = m
    BY <1>1
<1> QED
    BY <1>2 DEF c

\* ... and the greatest.
LEMMA GreatestIndex ==
    ASSUME NEW I, I \subseteq Nat, NEW m \in I, \A i \in I : i <= m
    PROVE  (CHOOSE x \in I : \A y \in I : x >= y) = m
<1> DEFINE c == CHOOSE x \in I : \A y \in I : x >= y
<1>1. c \in I /\ \A y \in I : c >= y
    OBVIOUS
<1> HIDE DEF c
<1>2. c = m
    BY <1>1
<1> QED
    BY <1>2 DEF c

\* line.find of a separator that is at m first, and of one that is nowhere.
LEMMA FindFirst ==
    ASSUME NEW T, NEW text \in Seq(T), NEW sep, NEW m \in 1 .. Len(text), text[m] = sep,
           \A i \in 1 .. Len(text) : i < m => text[i] # sep
    PROVE  Find(text, sep) = m
<1> DEFINE I == {i \in 1 .. Len(text) : text[i] = sep}
<1>1. I # {} /\ (CHOOSE x \in I : \A y \in I : x <= y) = m
    BY LeastIndex
<1> QED
    BY <1>1 DEF Find, SelectInSeq, Min

\* find() of a text without the separator.
LEMMA FindNone ==
    ASSUME NEW T, NEW text \in Seq(T), NEW sep, \A i \in 1 .. Len(text) : text[i] # sep
    PROVE  Find(text, sep) = 0
BY DEF Find, SelectInSeq

\* The tokens of a text with a token between two parts.
LEMMA Around ==
    ASSUME NEW T, NEW a \in Seq(T), NEW t \in T, NEW b \in Seq(T)
    PROVE  LET line == a \o <<t>> \o b
           IN  /\ line \in Seq(T)
               /\ Len(a) \in Nat /\ Len(b) \in Nat /\ Len(line) = Len(a) + 1 + Len(b)
               /\ \A i \in 1 .. Len(a) : line[i] = a[i]
               /\ line[Len(a) + 1] = t
               /\ \A i \in 1 .. Len(b) : line[Len(a) + 1 + i] = b[i]
OBVIOUS

\* What is before and after the first separator.
LEMMA SplitAtFirst ==
    ASSUME NEW T, NEW a \in Seq(T), NEW sep \in T, NEW b \in Seq(T),
           \A i \in 1 .. Len(a) : a[i] # sep
    PROVE  /\ Find(a \o <<sep>> \o b, sep) = Len(a) + 1
           /\ Before(a \o <<sep>> \o b, sep) = a
           /\ After(a \o <<sep>> \o b, sep) = b
<1>0. a \o <<sep>> \o b \in Seq(T)
    BY Around
<1>1. PICK text \in Seq(T) : text = a \o <<sep>> \o b
    BY <1>0
<1>2. /\ Len(text) = Len(a) + 1 + Len(b) /\ Len(a) \in Nat /\ Len(b) \in Nat
      /\ \A i \in 1 .. Len(a) : text[i] = a[i]
      /\ text[Len(a) + 1] = sep
    BY <1>1, Around
<1>3. Find(text, sep) = Len(a) + 1
    <2>1. Len(a) + 1 \in 1 .. Len(text)
        BY <1>2
    <2>2. ASSUME NEW i \in 1 .. Len(text), i < Len(a) + 1
          PROVE  text[i] # sep
        <3>1. i \in 1 .. Len(a)
            BY <1>2, <2>2
        <3> QED
            BY <1>2, <3>1
    <2> QED
        BY <1>2, <2>1, <2>2, FindFirst
<1>4. SubSeq(text, 1, Len(a)) = a
    BY <1>1, <1>2
<1>5. SubSeq(text, Len(a) + 2, Len(text)) = b
    BY <1>1, <1>2
<1>6. Find(text, sep) - 1 = Len(a) /\ Find(text, sep) + 1 = Len(a) + 2
    BY <1>2, <1>3
<1> QED
    BY <1>1, <1>3, <1>4, <1>5, <1>6 DEF Before, After

\* What is trimmed goes from the first token that is no blank to the last.
LEMMA TrimmedBetween ==
    ASSUME NEW T, NEW blanks, NEW text \in Seq(T),
           NEW f \in 1 .. Len(text), text[f] \notin blanks,
           NEW g \in 1 .. Len(text), text[g] \notin blanks,
           \A i \in 1 .. Len(text) : text[i] \notin blanks => f <= i /\ i <= g
    PROVE  Trimmed(text, blanks) = SubSeq(text, f, g)
<1> DEFINE S == {i \in 1 .. Len(text) : text[i] \notin blanks}
<1>1. S # {} /\ \E i \in DOMAIN text : text[i] \notin blanks
    OBVIOUS
<1>2. /\ (CHOOSE i \in S : \A j \in S : i <= j) = f
      /\ (CHOOSE i \in S : \A j \in S : i >= j) = g
    BY LeastIndex, GreatestIndex
<1>3. SelectInSeq(text, LAMBDA t : t \notin blanks) = f
    BY <1>1, <1>2 DEF SelectInSeq, Min
<1>4. SelectLastInSeq(text, LAMBDA t : t \notin blanks) = g
    BY <1>1, <1>2 DEF SelectLastInSeq, Max
<1> QED
    BY <1>1, <1>3, <1>4 DEF Trimmed

-----------------------------------------------------------------------------
(* ConfigText: lines, and how they split at a separator *)

\* A text is solid at its ends if it is empty or neither end is blank.
Solid(text, blanks) == text # <<>> => text[1] \notin blanks /\ text[Len(text)] \notin blanks

\* A text with something on both sides.
Wrapped(x, core, y) == x \o core \o y

\* A text of blanks.
AllBlank(text, blanks) == \A i \in 1 .. Len(text) : text[i] \in blanks

\* Only blanks, and they all, go from the ends.
LEMMA TrimmedCore ==
    ASSUME NEW T, NEW blanks, NEW x \in Seq(T), NEW core \in Seq(T), NEW y \in Seq(T),
           AllBlank(x, blanks), AllBlank(y, blanks), Solid(core, blanks)
    PROVE  Trimmed(Wrapped(x, core, y), blanks) = core
<1> USE DEF Solid, AllBlank, Wrapped
<1>0. x \o core \o y \in Seq(T)
    OBVIOUS
<1>1. PICK text \in Seq(T) : text = x \o core \o y
    BY <1>0
<1>2. /\ Len(text) = Len(x) + Len(core) + Len(y)
      /\ Len(x) \in Nat /\ Len(core) \in Nat /\ Len(y) \in Nat
      /\ \A i \in 1 .. Len(x) : text[i] = x[i]
      /\ \A i \in 1 .. Len(core) : text[Len(x) + i] = core[i]
      /\ \A i \in Len(x) + Len(core) + 1 .. Len(text) :
            i - (Len(x) + Len(core)) \in 1 .. Len(y) /\ text[i] = y[i - (Len(x) + Len(core))]
    BY <1>1
<1>3. ASSUME NEW i \in 1 .. Len(text), text[i] \notin blanks
      PROVE  Len(x) + 1 <= i /\ i <= Len(x) + Len(core)
    <2>1. i \notin 1 .. Len(x)
        BY <1>2, <1>3
    <2>2. i \notin Len(x) + Len(core) + 1 .. Len(text)
        BY <1>2, <1>3
    <2> QED
        BY <1>2, <2>1, <2>2
<1>4. CASE core = <<>>
    <2>1. \A i \in DOMAIN text : text[i] \in blanks
        BY <1>2, <1>3, <1>4
    <2> QED
        BY <1>1, <1>4, <2>1 DEF Trimmed
<1>5. CASE core # <<>>
    <2>0. 1 \in 1 .. Len(core) /\ Len(core) \in 1 .. Len(core)
        BY <1>5
    <2>1. /\ Len(x) + 1 \in 1 .. Len(text) /\ text[Len(x) + 1] \notin blanks
          /\ Len(x) + Len(core) \in 1 .. Len(text) /\ text[Len(x) + Len(core)] \notin blanks
        BY <1>2, <1>5, <2>0
    <2>2. Trimmed(text, blanks) = SubSeq(text, Len(x) + 1, Len(x) + Len(core))
        BY <1>3, <2>1, TrimmedBetween
    <2>3. SubSeq(text, Len(x) + 1, Len(x) + Len(core)) = core
        BY <1>1, <1>2
    <2> QED
        BY <1>1, <2>2, <2>3
<1> QED
    BY <1>4, <1>5

\* A value keeps the blanks before it when the line is trimmed, unless it is empty.
Kept(s, v) == IF v = <<>> THEN <<>> ELSE s \o v

\* ... and trimmed it is the value.
LEMMA KeptTrimmed ==
    ASSUME NEW T, NEW blanks, NEW s \in Seq(T), AllBlank(s, blanks),
           NEW v \in Seq(T), Solid(v, blanks)
    PROVE  Kept(s, v) \in Seq(T) /\ Trimmed(Kept(s, v), blanks) = v
<1>1. <<>> \in Seq(T) /\ AllBlank(<<>>, blanks)
    BY DEF AllBlank
<1>2. CASE v = <<>>
    <2>1. Trimmed(Wrapped(<<>>, v, <<>>), blanks) = v
        BY <1>1, TrimmedCore
    <2>2. Kept(s, v) = Wrapped(<<>>, v, <<>>) /\ Kept(s, v) \in Seq(T)
        BY <1>2 DEF Kept, Wrapped
    <2> QED
        BY <2>1, <2>2
<1>3. CASE v # <<>>
    <2>1. Trimmed(Wrapped(s, v, <<>>), blanks) = v
        BY <1>1, TrimmedCore
    <2>2. Kept(s, v) = Wrapped(s, v, <<>>) /\ Kept(s, v) \in Seq(T)
        BY <1>3 DEF Kept, Wrapped
    <2> QED
        BY <2>1, <2>2
<1> QED
    BY <1>2, <1>3

\* Concatenation, by a name the provers leave as it is.
Cat(a, b) == a \o b

\* Where the parentheses of a concatenation are makes no difference.
LEMMA Regroup ==
    ASSUME NEW T, NEW a \in Seq(T), NEW b \in Seq(T), NEW c \in Seq(T), NEW d \in Seq(T)
    PROVE  Wrapped(a, b \o c, d) = Wrapped(a, b, c \o d)
BY DEF Wrapped

\* A key with the blanks after it, the separator, and the rest.
Keyed(k, s, sep, w) == (k \o s) \o <<sep>> \o w

\* Blanks after a separator that nothing follows belong to the line's outer blanks.
LEMMA MoveBlanks ==
    ASSUME NEW T, NEW x \in Seq(T), NEW k \in Seq(T), NEW s \in Seq(T), NEW sep \in T,
           NEW r \in Seq(T), NEW y \in Seq(T)
    PROVE  Wrapped(x, Keyed(k, s, sep, r), y) = Wrapped(x, Keyed(k, s, sep, <<>>), r \o y)
<1>1. /\ Keyed(k, s, sep, <<>>) \in Seq(T)
      /\ Keyed(k, s, sep, r) = Keyed(k, s, sep, <<>>) \o r
    BY DEF Keyed
<1> QED
    BY <1>1, Regroup

\* A line without its outer blanks: a key with the blanks after it, the separator, and
\* the rest.
LEMMA KeyCore ==
    ASSUME NEW T, NEW blanks, NEW sep \in T, sep \notin blanks,
           NEW k \in Seq(T), NEW s \in Seq(T), NEW w \in Seq(T),
           AllBlank(s, blanks), k # <<>>, k[1] \notin blanks,
           w # <<>> => w[Len(w)] \notin blanks, \A i \in 1 .. Len(k) : k[i] # sep
    PROVE  LET core == Keyed(k, s, sep, w)
           IN  /\ core \in Seq(T) /\ core # <<>> /\ core[1] = k[1] /\ Solid(core, blanks)
               /\ Find(core, sep) # 0
               /\ Before(core, sep) = k \o s /\ After(core, sep) = w
<1>0. k \o s \in Seq(T)
    OBVIOUS
<1>1. PICK a \in Seq(T) : a = k \o s
    BY <1>0
<1>2. /\ Len(a) = Len(k) + Len(s) /\ Len(k) \in Nat \ {0} /\ Len(s) \in Nat
      /\ \A i \in 1 .. Len(k) : a[i] = k[i]
      /\ \A i \in 1 .. Len(s) : a[Len(k) + i] = s[i]
    BY <1>1
<1> HIDE <1>1
<1>3. ASSUME NEW i \in 1 .. Len(a)
      PROVE  a[i] # sep
    <2>1. CASE i \in 1 .. Len(k)
        BY <1>2, <2>1
    <2>2. CASE i \notin 1 .. Len(k)
        <3>1. i - Len(k) \in 1 .. Len(s) /\ Len(k) + (i - Len(k)) = i
            BY <1>2, <2>2
        <3>2. a[i] = s[i - Len(k)]
            BY <1>2, <3>1
        <3> QED
            BY <3>1, <3>2 DEF AllBlank
    <2> QED
        BY <2>1, <2>2
<1>4. /\ Find(a \o <<sep>> \o w, sep) = Len(a) + 1
      /\ Before(a \o <<sep>> \o w, sep) = a /\ After(a \o <<sep>> \o w, sep) = w
    <2>1. \A i \in 1 .. Len(a) : a[i] # sep
        BY <1>3
    <2> QED
        BY <2>1, SplitAtFirst, SMTT(30)
<1>5. /\ a \o <<sep>> \o w \in Seq(T) /\ Len(a \o <<sep>> \o w) = Len(a) + 1 + Len(w)
      /\ Len(a) \in Nat /\ Len(w) \in Nat
      /\ \A i \in 1 .. Len(a) : (a \o <<sep>> \o w)[i] = a[i]
      /\ (a \o <<sep>> \o w)[Len(a) + 1] = sep
      /\ \A i \in 1 .. Len(w) : (a \o <<sep>> \o w)[Len(a) + 1 + i] = w[i]
    BY Around
<1>6. PICK core \in Seq(T) : core = a \o <<sep>> \o w
    BY <1>5
<1>7. core # <<>> /\ core[1] = k[1]
    <2>1. 1 \in 1 .. Len(k) /\ 1 \in 1 .. Len(a) /\ Len(core) # 0
        BY <1>2, <1>5, <1>6
    <2> QED
        BY <1>2, <1>5, <1>6, <2>1
<1>8. core[Len(core)] \notin blanks
    <2>1. CASE w = <<>>
        BY <1>5, <1>6, <2>1
    <2>2. CASE w # <<>>
        <3>1. Len(w) \in 1 .. Len(w) /\ Len(core) = Len(a) + 1 + Len(w)
            BY <1>5, <1>6, <2>2
        <3> QED
            BY <1>5, <1>6, <2>2, <3>1
    <2> QED
        BY <2>1, <2>2
<1>9. Len(a) + 1 # 0
    BY <1>5
<1> QED
    BY <1>1, <1>4, <1>6, <1>7, <1>8, <1>9 DEF Solid, Keyed

\* The parts of a line: blanks, a key without the separator, blanks, the separator, blanks,
\* a value, blanks.
Parts(T, blanks, sep, x, k, s, r, v, y) ==
    /\ sep \in T /\ sep \notin blanks
    /\ x \in Seq(T) /\ k \in Seq(T) /\ s \in Seq(T) /\ r \in Seq(T) /\ v \in Seq(T)
    /\ y \in Seq(T)
    /\ AllBlank(x, blanks) /\ AllBlank(s, blanks) /\ AllBlank(r, blanks) /\ AllBlank(y, blanks)
    /\ k # <<>> /\ k[1] \notin blanks /\ Solid(v, blanks) /\ \A i \in 1 .. Len(k) : k[i] # sep

\* A line of these parts.
LineOf(sep, x, k, s, r, v, y) == Wrapped(x, Keyed(k, s, sep, Cat(r, v)), y)

\* What is trimmed of a line, and how it splits at the separator.
LEMMA KeyLine ==
    ASSUME NEW T, NEW blanks, NEW sep, NEW x, NEW k, NEW s, NEW r, NEW v, NEW y,
           Parts(T, blanks, sep, x, k, s, r, v, y)
    PROVE  LET line == Trimmed(LineOf(sep, x, k, s, r, v, y), blanks)
           IN  /\ line \in Seq(T) /\ line # <<>> /\ line[1] = k[1]
               /\ line = Keyed(k, s, sep, Kept(r, v))
               /\ Find(line, sep) # 0
               /\ Before(line, sep) = Cat(k, s) /\ After(line, sep) = Kept(r, v)
<1>0. /\ sep \in T /\ sep \notin blanks
      /\ x \in Seq(T) /\ k \in Seq(T) /\ s \in Seq(T) /\ r \in Seq(T) /\ v \in Seq(T)
      /\ y \in Seq(T)
      /\ AllBlank(x, blanks) /\ AllBlank(s, blanks) /\ AllBlank(r, blanks) /\ AllBlank(y, blanks)
      /\ k # <<>> /\ k[1] \notin blanks /\ Solid(v, blanks) /\ \A i \in 1 .. Len(k) : k[i] # sep
    BY DEF Parts
<1>01. PICK text : text = Wrapped(x, Keyed(k, s, sep, Cat(r, v)), y)
    OBVIOUS
<1> USE <1>0
<1>1. Kept(r, v) \in Seq(T) /\ (Kept(r, v) # <<>> => Kept(r, v)[Len(Kept(r, v))] \notin blanks)
    <2>1. CASE v = <<>>
        BY <2>1 DEF Kept
    <2>2. CASE v # <<>>
        <3>1. r \o v \in Seq(T) /\ Len(r \o v) = Len(r) + Len(v) /\ Len(v) \in Nat \ {0}
              /\ (r \o v)[Len(r) + Len(v)] = v[Len(v)]
            BY <2>2
        <3> QED
            BY <2>2, <3>1 DEF Kept, Solid
    <2> QED
        BY <2>1, <2>2
<1>2. PICK w \in Seq(T) : w = Kept(r, v)
    BY <1>1
<1>3. LET core == Keyed(k, s, sep, w)
      IN  /\ core \in Seq(T) /\ core # <<>> /\ core[1] = k[1] /\ Solid(core, blanks)
          /\ Find(core, sep) # 0
          /\ Before(core, sep) = k \o s /\ After(core, sep) = w
    <2>1. w # <<>> => w[Len(w)] \notin blanks
        BY <1>1, <1>2
    <2> QED
        <3>1. /\ sep \in T /\ sep \notin blanks /\ k \in Seq(T) /\ s \in Seq(T) /\ w \in Seq(T)
              /\ AllBlank(s, blanks) /\ k # <<>> /\ k[1] \notin blanks
              /\ \A i \in 1 .. Len(k) : k[i] # sep
            OBVIOUS
        <3> QED
            BY ONLY <3>1, <2>1, KeyCore
<1>4. PICK core \in Seq(T) : core = Keyed(k, s, sep, w)
    BY <1>3
<1>5. Solid(core, blanks)
    BY <1>3, <1>4
<1>6. Trimmed(text, blanks) = core
    <2>1. CASE v # <<>>
        <3>1. text = Wrapped(x, core, y)
            BY <1>01, <1>2, <1>4, <2>1 DEF Kept, Cat
        <3> QED
            BY <1>5, <3>1, TrimmedCore
    <2>2. CASE v = <<>>
        <3>1. r \o y \in Seq(T) /\ r \o v = r
            BY <2>2
        <3>2. AllBlank(r \o y, blanks)
            BY DEF AllBlank
        <3>3. text = Wrapped(x, Keyed(k, s, sep, r), y) /\ core = Keyed(k, s, sep, <<>>)
            BY <1>01, <1>2, <1>4, <2>2, <3>1 DEF Kept, Cat
        <3>4. text = Wrapped(x, core, r \o y)
            BY <3>3, MoveBlanks
        <3> QED
            <4>1. Trimmed(Wrapped(x, core, r \o y), blanks) = core
                BY ONLY <1>0, <1>5, <3>1, <3>2, TrimmedCore
            <4> QED
                BY <3>4, <4>1
    <2> QED
        BY <2>1, <2>2
<1>7. Cat(k, s) = k \o s
    BY DEF Cat
<1> QED
    BY <1>01, <1>2, <1>3, <1>4, <1>6, <1>7 DEF LineOf

\* A trimmed text begins with the first token that is no blank.
LEMMA TrimmedFirst ==
    ASSUME NEW T, NEW blanks, NEW text \in Seq(T),
           NEW f \in 1 .. Len(text), text[f] \notin blanks,
           \A i \in 1 .. Len(text) : i < f => text[i] \in blanks
    PROVE  /\ Trimmed(text, blanks) \in Seq(T) /\ Trimmed(text, blanks) # <<>>
           /\ Trimmed(text, blanks)[1] = text[f]
<1> DEFINE S == {i \in 1 .. Len(text) : text[i] \notin blanks}
<1>1. /\ f \in S /\ S \in SUBSET Nat /\ S \subseteq 1 .. Len(text)
      /\ Len(text) \in Nat /\ \A i \in S : i <= Len(text)
    OBVIOUS
<1>2. PICK g \in S : \A i \in S : i <= g
    BY <1>1, GreatestExists
<1>3. /\ g \in 1 .. Len(text) /\ text[g] \notin blanks /\ f <= g
      /\ \A i \in 1 .. Len(text) : text[i] \notin blanks => f <= i /\ i <= g
    BY <1>1, <1>2
<1> HIDE DEF S
<1>4. Trimmed(text, blanks) = SubSeq(text, f, g)
    BY <1>3, TrimmedBetween
<1>5. SubSeq(text, f, g) \in Seq(T) /\ SubSeq(text, f, g) # <<>>
        /\ SubSeq(text, f, g)[1] = text[f]
    BY <1>1, <1>3
<1> QED
    BY <1>4, <1>5

\* Blanks that do not occur make no difference.
LEMMA TrimmedSame ==
    ASSUME NEW T, NEW text \in Seq(T), NEW b1, NEW b2,
           \A i \in 1 .. Len(text) : text[i] \in b1 <=> text[i] \in b2
    PROVE  Trimmed(text, b1) = Trimmed(text, b2)
<1>1. {i \in 1 .. Len(text) : text[i] \notin b1} = {i \in 1 .. Len(text) : text[i] \notin b2}
    OBVIOUS
<1>2. (\E i \in DOMAIN text : text[i] \notin b1) <=> (\E i \in DOMAIN text : text[i] \notin b2)
    OBVIOUS
<1>3. SelectInSeq(text, LAMBDA t : t \notin b1)
        = SelectInSeq(text, LAMBDA t : t \notin b2)
    BY <1>1 DEF SelectInSeq
<1>4. SelectLastInSeq(text, LAMBDA t : t \notin b1)
        = SelectLastInSeq(text, LAMBDA t : t \notin b2)
    BY <1>1 DEF SelectLastInSeq
<1> QED
    BY <1>2, <1>3, <1>4 DEF Trimmed

\* Nothing is left of blanks alone.
LEMMA TrimmedNone ==
    ASSUME NEW T, NEW blanks, NEW text \in Seq(T), AllBlank(text, blanks)
    PROVE  Trimmed(text, blanks) = <<>>
<1>1. DOMAIN text = 1 .. Len(text)
    OBVIOUS
<1>2. ~ \E i \in DOMAIN text : text[i] \notin blanks
    BY <1>1 DEF AllBlank
<1> QED
    BY <1>2 DEF Trimmed

\* A key names a setting only if it is one word.
LEMMA NamedByWord ==
    ASSUME NEW key \in Seq(Tokens), Len(key) # 1
    PROVE  Named(key) = {}
<1>1. ASSUME NEW x, tolower(key) = <<x>>
      PROVE  FALSE
    <2>1. DOMAIN tolower(key) = 1 .. Len(key) /\ Len(key) \in Nat
        BY DEF tolower
    <2>2. DOMAIN <<x>> = {1}
        OBVIOUS
    <2>3. 1 .. Len(key) = {1}
        BY <1>1, <2>1, <2>2
    <2>4. 1 \in 1 .. Len(key) /\ Len(key) \in 1 .. Len(key)
        BY <2>1, <2>3
    <2>5. Len(key) \in {1}
        BY <2>3, <2>4
    <2> QED
        BY <2>5
<1> QED
    BY <1>1 DEF Named

-----------------------------------------------------------------------------
(* ConfigText: quotes and commas *)

\* A text and one token more.
LEMMA Appended ==
    ASSUME NEW T, NEW v \in Seq(T), NEW t \in T
    PROVE  /\ v \o <<t>> \in Seq(T) /\ v \o <<t>> # <<>>
           /\ Len(v \o <<t>>) = Len(v) + 1 /\ Len(v) \in Nat
           /\ \A i \in 1 .. Len(v) : (v \o <<t>>)[i] = v[i]
           /\ (v \o <<t>>)[Len(v) + 1] = t
           /\ Last(v \o <<t>>) = t /\ Front(v \o <<t>>) = v
<1>0. v \o <<t>> \in Seq(T)
    OBVIOUS
<1>1. PICK text \in Seq(T) : text = v \o <<t>>
    BY <1>0
<1>2. /\ text # <<>> /\ Len(text) = Len(v) + 1 /\ Len(v) \in Nat /\ text[Len(v) + 1] = t
      /\ \A i \in 1 .. Len(v) : text[i] = v[i]
    BY <1>1
<1>3. Last(text) = t
    BY <1>2 DEF Last
<1>4. Front(text) = v
    BY <1>2 DEF Front
<1> QED
    BY <1>1, <1>2, <1>3, <1>4

\* A text is its front and its last token.
LEMMA FrontAppended ==
    ASSUME NEW T, NEW v \in Seq(T), v # <<>>
    PROVE  Front(v) \in Seq(T) /\ v = Front(v) \o <<v[Len(v)]>>
<1>1. PICK w \in Seq(T), t \in T : v = Append(w, t)
    BY SequenceEmptyOrAppend
<1>2. v = w \o <<t>>
    BY <1>1, AppendIsConcat
<1>3. Front(v) = w /\ v[Len(v)] = t
    BY <1>2, Appended
<1> QED
    BY <1>2, <1>3

\* A text in quotes.
LEMMA Enclosed ==
    ASSUME NEW T, NEW q \in T, NEW v \in Seq(T)
    PROVE  LET text == Wrapped(<<q>>, v, <<q>>)
           IN  /\ text \in Seq(T) /\ Len(text) >= 2
               /\ Head(text) = q /\ Last(text) = q /\ Tail(Front(text)) = v
               /\ text[1] = q
<1>0. <<q>> \o v \in Seq(T)
    OBVIOUS
<1>1. PICK w \in Seq(T) : w = <<q>> \o v
    BY <1>0
<1>2. w # <<>> /\ Len(w) >= 1 /\ w[1] = q /\ Tail(w) = v
    BY <1>1
<1>3. Wrapped(<<q>>, v, <<q>>) = w \o <<q>>
    BY <1>1 DEF Wrapped
<1> HIDE <1>1
<1>4. PICK text \in Seq(T) : text = w \o <<q>>
    BY Appended
<1>5. /\ Len(text) = Len(w) + 1 /\ Len(w) \in Nat /\ text[1] = w[1]
      /\ Last(text) = q /\ Front(text) = w
    BY <1>2, <1>4, Appended
<1>6. Head(text) = q /\ Len(text) >= 2
    BY <1>2, <1>5
<1>7. Wrapped(<<q>>, v, <<q>>) = text
    BY <1>3, <1>4
<1> QED
    BY ONLY <1>2, <1>4, <1>5, <1>6, <1>7

\* The daemon's and the parsers' unquote takes the quotes off a quoted text and nothing
\* off another.
LEMMA Unquoted ==
    ASSUME NEW v \in Seq(Tokens)
    PROVE  unquote(Wrapped(<<Quote>>, v, <<Quote>>)) = v
<1>1. PICK text : text = Wrapped(<<Quote>>, v, <<Quote>>)
    OBVIOUS
<1>2. Quote \in Tokens
    BY DEF Tokens, Signs
<1>3. /\ Len(text) >= 2
      /\ Head(text) = Quote /\ Last(text) = Quote /\ Tail(Front(text)) = v
    BY <1>1, <1>2, Enclosed
<1> QED
    BY <1>1, <1>3 DEF unquote

\* A text that has no quotes at both ends stays.
LEMMA NotUnquoted ==
    ASSUME NEW T, NEW text \in Seq(T),
           text = <<>> \/ text[1] # Quote \/ text[Len(text)] # Quote
    PROVE  unquote(text) = text
<1>1. ~(Len(text) >= 2 /\ Head(text) = Quote /\ Last(text) = Quote)
    BY DEF Last
<1> QED
    BY <1>1 DEF unquote

\* The comma a text ends with goes, and only that.
LEMMA CommaDropped ==
    ASSUME NEW v \in Seq(Tokens)
    PROVE  dropComma(v \o <<Comma>>) = v
<1>1. Comma \in Tokens
    BY DEF Tokens, Signs
<1>2. PICK t \in Tokens : t = Comma
    BY <1>1
<1>3. v \o <<t>> # <<>> /\ Last(v \o <<t>>) = t /\ Front(v \o <<t>>) = v
    BY Appended
<1>4. PICK text : text = v \o <<t>>
    OBVIOUS
<1> QED
    BY <1>2, <1>3, <1>4 DEF dropComma

\* dropComma takes one comma off the end, or nothing.
LEMMA CommaOrNone ==
    ASSUME NEW v \in Seq(Tokens)
    PROVE  /\ dropComma(v) \in Seq(Tokens)
           /\ \/ dropComma(v) = v /\ (v = <<>> \/ Last(v) # Comma)
              \/ v # <<>> /\ Last(v) = Comma /\ v = dropComma(v) \o <<Comma>>
<1>1. CASE v = <<>> \/ Last(v) # Comma
    BY <1>1 DEF dropComma
<1>2. CASE v # <<>> /\ Last(v) = Comma
    <2>1. dropComma(v) = Front(v)
        BY <1>2 DEF dropComma
    <2>2. Front(v) \in Seq(Tokens) /\ v = Front(v) \o <<Last(v)>>
        BY <1>2, FrontAppended DEF Last
    <2> QED
        BY <1>2, <2>1, <2>2
<1> QED
    BY <1>1, <1>2

-----------------------------------------------------------------------------
(* ConfigText: values *)

\* The facts about what an author writes.
Author(v) ==
    /\ v \in Seq(Tokens) /\ \A i \in 1 .. Len(v) : v[i] \notin {"CR", Quote}
    /\ Solid(v, {"SP", "CR"})

\* What TextAssumption says of one entry.
LEMMA EntryFacts ==
    ASSUME TextAssumption, NEW e \in Entries
    PROVE  /\ e.what \in {"setting", "section", "comment", "blank"}
           /\ e.key \in Words /\ e.key \in Tokens /\ e.key \notin Signs
           /\ Author(e.value)
           /\ e.spaced \in BOOLEAN /\ e.quoted \in BOOLEAN /\ e.cr \in BOOLEAN
           /\ e.last \in BOOLEAN
<1>1. /\ e.what \in {"setting", "section", "comment", "blank"} /\ e.key \in Words
      /\ e.value \in Seq(Tokens \ {"CR", Quote})
      /\ e.spaced \in BOOLEAN /\ e.quoted \in BOOLEAN /\ e.cr \in BOOLEAN
      /\ e.last \in BOOLEAN
      /\ e.value # <<>> => "SP" \notin {Head(e.value), Last(e.value)}
    BY DEF TextAssumption
<1>2. e.key \in Tokens /\ e.key \notin Signs
    BY <1>1 DEF TextAssumption, Tokens
<1>3. PICK v \in Seq(Tokens \ {"CR", Quote}) : v = e.value
    BY <1>1
<1>4. v \in Seq(Tokens)
    BY SeqMonotonic
<1>5. \A i \in 1 .. Len(v) : v[i] \notin {"CR", Quote}
    OBVIOUS
<1>6. ASSUME v # <<>>
      PROVE  v[1] \notin {"SP", "CR"} /\ v[Len(v)] \notin {"SP", "CR"}
    <2>1. 1 \in 1 .. Len(v) /\ Len(v) \in 1 .. Len(v)
        BY <1>4, <1>6
    <2>2. Head(v) = v[1] /\ Last(v) = v[Len(v)]
        BY <1>6 DEF Last
    <2> QED
        BY <1>1, <1>3, <1>5, <1>6, <2>1, <2>2
<1>7. Author(v)
    BY <1>4, <1>5, <1>6 DEF Author, Solid
<1> QED
    BY <1>1, <1>2, <1>3, <1>7

\* What std::stoi makes of a text that begins with no blank is in its first token, and
\* a line's end after the text makes no difference.
LEMMA NumberOfFirst ==
    ASSUME NEW text \in Seq(Tokens), text # <<>> => text[1] \notin {"SP", "CR"}
    PROVE  /\ HasNumber(text) <=> text # <<>> /\ text[1] \in DOMAIN Number
           /\ HasNumber(text) => stoi(text) = Number[text[1]]
<1>1. CASE text = <<>>
    <2>1. AllBlank(text, {"SP", "CR"})
        BY <1>1 DEF AllBlank
    <2>2. trim(text) = <<>>
        BY <2>1, TrimmedNone DEF trim
    <2> QED
        BY <1>1, <2>2 DEF HasNumber
<1>2. CASE text # <<>>
    <2>1. 1 \in 1 .. Len(text) /\ \A i \in 1 .. Len(text) : ~(i < 1)
        BY <1>2
    <2>2. trim(text) \in Seq(Tokens) /\ trim(text) # <<>>
            /\ trim(text)[1] = text[1]
        BY <1>2, <2>1, TrimmedFirst DEF trim
    <2>3. Digits(text) = text[1]
        BY <2>2 DEF Digits
    <2> QED
        BY <1>2, <2>2, <2>3 DEF HasNumber, stoi
<1> QED
    BY <1>1, <1>2

\* Two texts that std::stoi reads alike.
SameNumber(a, b) ==
    /\ HasNumber(a) <=> HasNumber(b)
    /\ HasNumber(a) => stoi(a) = stoi(b)

\* The comma after a number does not matter to std::stoi ...
LEMMA NumberOfDropped ==
    ASSUME TextAssumption, NEW v, Author(v)
    PROVE  SameNumber(v, dropComma(v))
<1>1. v \in Seq(Tokens) /\ (v # <<>> => v[1] \notin {"SP", "CR"})
    BY DEF Author, Solid
<1>2. PICK d \in Seq(Tokens) : d = dropComma(v)
    BY <1>1, CommaOrNone
<1>3. CASE d = v
    BY <1>2, <1>3 DEF SameNumber
<1>4. CASE v = d \o <<Comma>>
    <2>0. PICK t \in Tokens : t = Comma
        BY DEF Tokens, Signs
    <2>1. /\ v # <<>> /\ Len(v) = Len(d) + 1 /\ Len(d) \in Nat /\ v[Len(d) + 1] = Comma
          /\ \A i \in 1 .. Len(d) : v[i] = d[i]
        <3>1. LET w == d \o <<t>>
              IN  /\ w # <<>> /\ Len(w) = Len(d) + 1 /\ Len(d) \in Nat /\ w[Len(d) + 1] = t
                  /\ \A i \in 1 .. Len(d) : w[i] = d[i]
            BY Appended
        <3>2. v = d \o <<t>>
            BY <1>4, <2>0
        <3> QED
            BY ONLY <2>0, <3>1, <3>2
    <2>2. Comma \notin DOMAIN Number
        BY DEF TextAssumption, Signs
    <2>3. CASE d = <<>>
        <3>0. Len(d) + 1 = 1
            BY <2>3
        <3>1. v[1] = Comma
            BY <2>1, <3>0
        <3>2. ~HasNumber(v) /\ ~HasNumber(d)
            BY <1>1, <2>2, <2>3, <3>1, NumberOfFirst
        <3> QED
            BY <1>2, <3>2 DEF SameNumber
    <2>4. CASE d # <<>>
        <3>1. 1 \in 1 .. Len(d)
            BY <2>4
        <3>2. d[1] = v[1]
            BY <2>1, <3>1
        <3>3. /\ HasNumber(d) <=> d # <<>> /\ d[1] \in DOMAIN Number
              /\ HasNumber(d) => stoi(d) = Number[d[1]]
            BY <1>1, <2>1, <3>2, NumberOfFirst
        <3>4. /\ HasNumber(v) <=> v # <<>> /\ v[1] \in DOMAIN Number
              /\ HasNumber(v) => stoi(v) = Number[v[1]]
            BY <1>1, <2>1, NumberOfFirst
        <3> QED
            BY <1>2, <2>1, <2>4, <3>2, <3>3, <3>4 DEF SameNumber
    <2> QED
        BY <2>3, <2>4
<1> QED
    BY <1>1, <1>2, <1>3, <1>4, CommaOrNone

\* ... and neither does a carriage return.
LEMMA NumberOfEnded ==
    ASSUME NEW v, Author(v)
    PROVE  SameNumber(v, v \o <<"CR">>)
<1>0. PICK t \in Tokens : t = "CR"
    BY DEF Tokens, Signs
<1>1. v \in Seq(Tokens) /\ Solid(v, {"SP", "CR"}) /\ <<>> \in Seq(Tokens)
        /\ <<t>> \in Seq(Tokens)
    BY DEF Author
<1>2. AllBlank(<<>>, {"SP", "CR"}) /\ AllBlank(<<t>>, {"SP", "CR"})
    BY <1>0 DEF AllBlank
<1>3. Trimmed(Wrapped(<<>>, v, <<>>), {"SP", "CR"}) = v
    BY <1>1, <1>2, TrimmedCore
<1>4. Trimmed(Wrapped(<<>>, v, <<t>>), {"SP", "CR"}) = v
    BY <1>1, <1>2, TrimmedCore
<1>5. Wrapped(<<>>, v, <<>>) = v /\ Wrapped(<<>>, v, <<t>>) = v \o <<t>>
    BY <1>1 DEF Wrapped
<1>6. trim(v) = trim(v \o <<"CR">>)
    BY <1>0, <1>3, <1>4, <1>5 DEF trim
<1> QED
    BY <1>6 DEF SameNumber, HasNumber, stoi, Digits

\* An item ends within its text, at most before its start.
Reach(text, i) == {i - 1} \cup {j \in i .. Len(text) : \A k \in i .. j : text[k] # Comma}

\* Where an item ends.
LEMMA EndsBound ==
    ASSUME NEW T, NEW text \in Seq(T), NEW i \in 1 .. Len(text) + 1
    PROVE  Ends(text, i) \in i - 1 .. Len(text)
<1> DEFINE R == Reach(text, i)
<1>1. /\ R \in SUBSET Nat /\ R # {} /\ Len(text) \in Nat /\ R \subseteq i - 1 .. Len(text)
      /\ \A j \in R : j <= Len(text)
    <2>1. Len(text) \in Nat /\ i - 1 \in Nat /\ i - 1 \in i - 1 .. Len(text)
        OBVIOUS
    <2>2. i - 1 \in R /\ \A j \in R : j = i - 1 \/ j \in i .. Len(text)
        BY DEF Reach
    <2>3. R \subseteq i - 1 .. Len(text)
        BY <2>1, <2>2
    <2> HIDE DEF R
    <2> QED
        BY <2>1, <2>2, <2>3
<1>2. Ends(text, i) = CHOOSE x \in R : \A y \in R : x >= y
    BY DEF Ends, Max, Reach
<1> HIDE DEF R
<1>3. PICK m \in R : \A j \in R : j <= m
    BY <1>1, GreatestExists
<1>4. (CHOOSE x \in R : \A y \in R : x >= y) = m
    BY <1>1, <1>3, GreatestIndex
<1> QED
    BY <1>1, <1>2, <1>3, <1>4

\* Where an item may start.
LEMMA StartsBound ==
    ASSUME NEW T, NEW text \in Seq(T), NEW i \in Starts(text)
    PROVE  i \in 1 .. Len(text) + 1
<1>1. DOMAIN text = 1 .. Len(text) /\ Len(text) \in Nat
    OBVIOUS
<1>2. i = 1 \/ \E j \in DOMAIN text : i = j + 1
    BY DEF Starts
<1> QED
    BY <1>1, <1>2

\* v is d and a comma after it.
CommaEnded(v, d) ==
    /\ Len(v) = Len(d) + 1 /\ Len(d) \in Nat /\ v[Len(d) + 1] = Comma
    /\ \A i \in 1 .. Len(d) : v[i] = d[i]

\* A text with a comma appended is one.
LEMMA CommaEnds ==
    ASSUME NEW d \in Seq(Tokens)
    PROVE  CommaEnded(d \o <<Comma>>, d)
<1>0. PICK t \in Tokens : t = Comma
    BY DEF Tokens, Signs
<1>1. LET w == d \o <<t>>
      IN  /\ Len(w) = Len(d) + 1 /\ Len(d) \in Nat /\ w[Len(d) + 1] = t
          /\ \A i \in 1 .. Len(d) : w[i] = d[i]
    BY Appended
<1>2. CommaEnded(d \o <<t>>, d)
    BY ONLY <1>0, <1>1 DEF CommaEnded
<1> QED
    BY <1>0, <1>2

\* A comma at the end of a list is no item.
LEMMA PlacedBeforeComma ==
    ASSUME NEW blanks, NEW d \in Seq(Tokens), NEW v \in Seq(Tokens), CommaEnded(v, d)
    PROVE  Placed(v, blanks) = Placed(d, blanks)
<1>0. PICK n \in Nat : n = Len(d)
    BY DEF CommaEnded
<1>1. /\ Len(v) = n + 1 /\ Len(d) = n /\ DOMAIN v = 1 .. n + 1 /\ DOMAIN d = 1 .. n
      /\ v[n + 1] = Comma /\ \A i \in 1 .. n : v[i] = d[i]
    BY <1>0 DEF CommaEnded
<1>2. Starts(v) = Starts(d) \cup {n + 2}
    <2>1. {j \in 1 .. n + 1 : v[j] = Comma} = {j \in 1 .. n : d[j] = Comma} \cup {n + 1}
        BY ONLY <1>1, n \in Nat
    <2>2. /\ Starts(v) = {1} \cup {i + 1 : i \in {j \in 1 .. n + 1 : v[j] = Comma}}
          /\ Starts(d) = {1} \cup {i + 1 : i \in {j \in 1 .. n : d[j] = Comma}}
        BY ONLY <1>1 DEF Starts
    <2>3. (n + 1) + 1 = n + 2
        OBVIOUS
    <2>4. PICK J : J = {j \in 1 .. n : d[j] = Comma}
        OBVIOUS
    <2>5. Starts(v) = {1} \cup {i + 1 : i \in J \cup {n + 1}}
            /\ Starts(d) = {1} \cup {i + 1 : i \in J}
        BY ONLY <2>1, <2>2, <2>4, Zenon
    <2> QED
        BY ONLY <2>3, <2>5
<1>3. Item(v, n + 2, blanks) = <<>>
    <2>1. n + 2 \in 1 .. Len(v) + 1 /\ (n + 2) - 1 = n + 1
        BY ONLY <1>1, n \in Nat
    <2>2. Ends(v, n + 2) \in (n + 2) - 1 .. Len(v)
        BY <2>1, EndsBound
    <2>3. Ends(v, n + 2) = n + 1
        BY ONLY <1>1, <2>1, <2>2, n \in Nat
    <2>4. SubSeq(v, n + 2, n + 1) = <<>>
        BY SubSeqEmpty
    <2>5. <<>> \in Seq(Tokens) /\ AllBlank(<<>>, blanks)
        BY DEF AllBlank
    <2> QED
        BY <2>3, <2>4, <2>5, TrimmedNone DEF Item
<1>4. ASSUME NEW i \in Starts(d)
      PROVE  Item(v, i, blanks) = Item(d, i, blanks)
    <2>1. i \in 1 .. n + 1
        BY <1>1, StartsBound
    <2>2. Reach(v, i) = Reach(d, i)
        <3>1. \A j \in i .. n + 1 : (\A k \in i .. j : v[k] # Comma) => j \in i .. n
            BY ONLY <1>1, <2>1, n \in Nat
        <3>2. \A j \in i .. n : j \in i .. n + 1 /\ \A k \in i .. j : v[k] = d[k]
            BY ONLY <1>1, <2>1, n \in Nat
        <3>3. {j \in i .. n + 1 : \A k \in i .. j : v[k] # Comma}
                = {j \in i .. n : \A k \in i .. j : d[k] # Comma}
            BY ONLY <3>1, <3>2
        <3> QED
            BY ONLY <1>1, <3>3 DEF Reach
    <2>3. Ends(v, i) = Ends(d, i)
        BY <2>2 DEF Ends, Reach
    <2>4. PICK e \in i - 1 .. n : e = Ends(d, i)
        BY <1>1, <2>1, EndsBound
    <2>5. SubSeq(v, i, e) = SubSeq(d, i, e)
        <3>1. \A j \in i .. e : v[j] = d[j] /\ d[j] \in Tokens /\ v[j] \in Tokens
            BY ONLY <1>1, <2>1, <2>4, n \in Nat, d \in Seq(Tokens)
        <3>2. i \in Int /\ e \in Int
            BY ONLY <2>1, <2>4, n \in Nat
        <3>3. /\ SubSeq(v, i, e) \in Seq(Tokens)
              /\ Len(SubSeq(v, i, e)) = (IF i <= e THEN e - i + 1 ELSE 0)
              /\ \A j \in 1 .. e - i + 1 : SubSeq(v, i, e)[j] = v[i + j - 1]
            BY ONLY <3>1, <3>2, SubSeqProperties
        <3>4. /\ SubSeq(d, i, e) \in Seq(Tokens)
              /\ Len(SubSeq(d, i, e)) = (IF i <= e THEN e - i + 1 ELSE 0)
              /\ \A j \in 1 .. e - i + 1 : SubSeq(d, i, e)[j] = d[i + j - 1]
            BY ONLY <3>1, <3>2, SubSeqProperties
        <3>5. PICK a, b : a = SubSeq(v, i, e) /\ b = SubSeq(d, i, e)
            OBVIOUS
        <3>6. a \in Seq(Tokens) /\ b \in Seq(Tokens) /\ Len(a) = Len(b)
            BY ONLY <3>3, <3>4, <3>5
        <3>7. ASSUME NEW j \in 1 .. Len(a)
              PROVE  a[j] = b[j]
            <4>1. j \in 1 .. e - i + 1 /\ i + j - 1 \in i .. e
                BY ONLY <3>2, <3>3, <3>5, <3>7
            <4> QED
                BY ONLY <3>1, <3>3, <3>4, <3>5, <4>1
        <3>8. a = b
            BY ONLY <3>6, <3>7, SeqEqual
        <3> QED
            BY <3>5, <3>8
    <2> QED
        BY <2>3, <2>4, <2>5 DEF Item
<1>5. {j \in Starts(v) : Item(v, j, blanks) # <<>>}
        = {j \in Starts(d) : Item(d, j, blanks) # <<>>}
    BY ONLY <1>2, <1>3, <1>4
<1> QED
    BY <1>4, <1>5 DEF Placed

\* Whether carriage returns are blanks makes no difference to a list without any.
LEMMA PlacedSame ==
    ASSUME NEW v \in Seq(Tokens), \A i \in 1 .. Len(v) : v[i] # "CR"
    PROVE  Placed(v, {"SP"}) = Placed(v, {"SP", "CR"})
<1>1. ASSUME NEW i \in Starts(v)
      PROVE  Item(v, i, {"SP"}) = Item(v, i, {"SP", "CR"})
    <2>1. i \in 1 .. Len(v) + 1 /\ Len(v) \in Nat
        BY StartsBound
    <2>2. Ends(v, i) \in i - 1 .. Len(v)
        BY <2>1, EndsBound
    <2>3. PICK e \in i - 1 .. Len(v) : e = Ends(v, i)
        BY <2>2
    <2>4. \A j \in i .. e : j \in 1 .. Len(v) /\ v[j] \in Tokens
        BY <2>1
    <2>5. PICK text : text = SubSeq(v, i, e)
        OBVIOUS
    <2>6. /\ text \in Seq(Tokens)
          /\ \A j \in 1 .. Len(text) : j + i - 1 \in 1 .. Len(v) /\ text[j] = v[j + i - 1]
        <3>1. /\ SubSeq(v, i, e) \in Seq(Tokens)
              /\ Len(SubSeq(v, i, e)) = (IF i <= e THEN e - i + 1 ELSE 0)
              /\ \A j \in 1 .. e - i + 1 : SubSeq(v, i, e)[j] = v[i + j - 1]
            BY <2>1, <2>4, SubSeqProperties
        <3>2. ASSUME NEW j \in 1 .. Len(text)
              PROVE  j \in 1 .. e - i + 1 /\ j + i - 1 \in 1 .. Len(v) /\ j + i - 1 = i + j - 1
            BY <2>1, <2>5, <3>1
        <3> QED
            BY <2>5, <3>1, <3>2
    <2>7. \A j \in 1 .. Len(text) : text[j] \in {"SP"} <=> text[j] \in {"SP", "CR"}
        BY <2>6
    <2> QED
        <3>1. Trimmed(text, {"SP"}) = Trimmed(text, {"SP", "CR"})
            BY ONLY <2>6, <2>7, TrimmedSame
        <3> QED
            BY ONLY <2>3, <2>5, <3>1 DEF Item
<1> QED
    BY <1>1 DEF Placed

\* What the two readers make of a list is the same, with or without a comma at its end.
LEMMA ListsAgree ==
    ASSUME NEW v, Author(v)
    PROVE  /\ daemonList(v) = parseList(v)
           /\ parseList(dropComma(v)) = parseList(v)
           /\ daemonList(dropComma(v)) = daemonList(v)
<1>1. v \in Seq(Tokens) /\ \A i \in 1 .. Len(v) : v[i] # "CR"
    BY DEF Author
<1>2. daemonList(v) = parseList(v)
    BY <1>1, PlacedSame DEF daemonList, parseList, Items
<1>3. PICK d \in Seq(Tokens) : d = dropComma(v)
    BY <1>1, CommaOrNone
<1>4. CASE d = v
    BY <1>2, <1>3, <1>4
<1>5. CASE v = d \o <<Comma>>
    <2>1. Placed(v, {"SP"}) = Placed(d, {"SP"})
            /\ Placed(v, {"SP", "CR"}) = Placed(d, {"SP", "CR"})
        BY <1>1, <1>5, CommaEnds, PlacedBeforeComma
    <2> HIDE <1>5
    <2> QED
        BY <1>2, <1>3, <2>1 DEF daemonList, parseList, Items
<1> QED
    BY <1>1, <1>3, <1>4, <1>5, CommaOrNone

\* A setting becomes the same if what its kind asks of the values is the same.
LEMMA ConvertedAgree ==
    ASSUME TextAssumption, NEW s \in SettingNames, NEW old,
           NEW v, NEW bool, NEW list, NEW w, NEW wbool, NEW wlist,
           Kind[s] \in {"string", "choice"} => v = w,
           Kind[s] = "bool" => bool = wbool,
           Kind[s] = "list" => list = wlist,
           Kind[s] \in {"port", "stratum"} => SameNumber(v, w),
           Kind[s] = "keys" => daemonList(v) = daemonList(w)
    PROVE  Converted(s, v, old, bool, list) = Converted(s, w, old, wbool, wlist)
<1>1. Kind[s] \in {"string", "bool", "list", "port", "stratum", "choice", "keys"}
    BY DEF TextAssumption
<1>2. CASE Kind[s] = "string"
    BY <1>2 DEF Converted
<1>3. CASE Kind[s] = "bool"
    BY <1>3 DEF Converted
<1>4. CASE Kind[s] = "list"
    BY <1>4 DEF Converted
<1>5. CASE Kind[s] = "port"
    BY <1>5 DEF Converted, SameNumber
<1>6. CASE Kind[s] = "stratum"
    BY <1>6 DEF Converted, SameNumber
<1>7. CASE Kind[s] = "choice"
    BY <1>7 DEF Converted
<1>8. CASE Kind[s] = "keys"
    BY <1>8 DEF Converted
<1> QED
    BY <1>1, <1>2, <1>3, <1>4, <1>5, <1>6, <1>7, <1>8

\* What the JSON parser leaves of a value at the end of its line.
JsonValue(e) == IF e.last THEN dropComma(e.value) ELSE e.value

\* A ConfigParser makes the same of it as of the value, unless a comma is lost ...
LEMMA JsonValueAgrees ==
    ASSUME TextAssumption, NEW e \in Entries, NEW s \in SettingNames, ~CommaLost(e, s),
           NEW old
    PROVE  LET v == e.value
               w == JsonValue(e)
           IN  Converted(s, w, old, stringToBool(w), parseList(w))
                 = Converted(s, v, old, stringToBool(v), parseList(v))
<1>1. PICK v : v = e.value /\ Author(v)
    BY EntryFacts
<1>2. PICK w : w = JsonValue(e)
    OBVIOUS
<1>3. w = v \/ w = dropComma(v)
    BY <1>1, <1>2 DEF JsonValue
<1>4. SameNumber(w, v) /\ parseList(w) = parseList(v)
        /\ daemonList(w) = daemonList(v)
    BY <1>1, <1>3, NumberOfDropped, ListsAgree DEF SameNumber
<1>5. Kind[s] \in {"string", "bool", "choice"} => w = v
    <2>1. v \in Seq(Tokens)
        BY <1>1 DEF Author
    <2> QED
        BY <1>1, <1>2, <2>1, CommaOrNone DEF CommaLost, JsonValue
<1>6. Converted(s, w, old, stringToBool(w), parseList(w))
        = Converted(s, v, old, stringToBool(v), parseList(v))
    BY ONLY <1>4, <1>5, TextAssumption, s \in SettingNames, ConvertedAgree
<1> QED
    BY <1>1, <1>2, <1>6

\* ... and the daemon's reader the same as the parsers of a compact line's value.
LEMMA DaemonValueAgrees ==
    ASSUME TextAssumption, NEW e \in Entries, NEW s \in SettingNames, Compact(e, s),
           NEW old,
           NEW u, u = e.value \/ (e.cr /\ u = e.value \o <<"CR">>)
    PROVE  LET v == e.value
           IN  Converted(s, u, old, daemonBool(u), daemonList(u))
                 = Converted(s, v, old, stringToBool(v), parseList(v))
<1>1. PICK v : v = e.value /\ Author(v)
    BY EntryFacts
<1>2. CASE u = v
    <2>1. daemonList(v) = parseList(v)
        BY <1>1, ListsAgree
    <2>2. Kind[s] = "bool" => (daemonBool(v) = stringToBool(v))
        BY <1>1 DEF Compact
    <2>3. SameNumber(v, v)
        BY DEF SameNumber
    <2>4. Converted(s, v, old, daemonBool(v), daemonList(v))
            = Converted(s, v, old, stringToBool(v), parseList(v))
        BY ONLY <2>1, <2>2, <2>3, TextAssumption, s \in SettingNames, ConvertedAgree
    <2> QED
        BY <1>1, <1>2, <2>4
<1>3. CASE u # v
    <2>1. u = v \o <<"CR">> /\ Kind[s] \in {"port", "stratum"}
        BY <1>1, <1>3 DEF Compact
    <2>2. SameNumber(u, v)
        BY <1>1, <2>1, NumberOfEnded DEF SameNumber
    <2>3. Converted(s, u, old, daemonBool(u), daemonList(u))
            = Converted(s, v, old, stringToBool(v), parseList(v))
        <3>1. Kind[s] \in {"port", "stratum"}
            BY <2>1
        <3> QED
            BY ONLY <3>1, <2>2, TextAssumption, s \in SettingNames, ConvertedAgree
    <2> QED
        BY <1>1, <2>3
<1> QED
    BY <1>2, <1>3

-----------------------------------------------------------------------------
(* ConfigText: the lines an author writes *)

\* The value as it is written, quoted or not.
LEMMA ValueWritten ==
    ASSUME TextAssumption, NEW e \in Entries, NEW f
    PROVE  LET w == Value(e, f)
           IN  /\ w \in Seq(Tokens) /\ Solid(w, {"SP", "CR"}) /\ unquote(w) = e.value
               /\ w = e.value \/ (Quotable(e) /\ (e.quoted \/ f = "JSON"))
<1>1. PICK v : v = e.value /\ Author(v)
    BY EntryFacts
<1>2. v \in Seq(Tokens) /\ Solid(v, {"SP", "CR"}) /\ \A i \in 1 .. Len(v) : v[i] # Quote
    BY <1>1 DEF Author
<1>3. PICK w : w = Value(e, f)
    OBVIOUS
<1>4. CASE w = v
    <2>1. v = <<>> \/ v[1] # Quote
        BY <1>2
    <2>2. unquote(v) = v
        BY <1>2, <2>1, NotUnquoted
    <2> QED
        BY <1>1, <1>2, <1>3, <1>4, <2>2
<1>5. CASE w = Wrapped(<<Quote>>, v, <<Quote>>) /\ Quotable(e)
             /\ (e.quoted \/ f = "JSON")
    <2>1. Quote \in Tokens /\ Quote \notin {"SP", "CR"}
        BY DEF Tokens, Signs, Quote
    <2>2. w \in Seq(Tokens) /\ w[1] = Quote /\ Last(w) = Quote
        BY <1>2, <1>5, <2>1, Enclosed
    <2>3. Solid(w, {"SP", "CR"})
        BY <2>1, <2>2 DEF Solid, Last
    <2>4. unquote(w) = v
        BY <1>2, <1>5, Unquoted
    <2> QED
        BY <1>1, <1>3, <1>5, <2>2, <2>3, <2>4
<1>6. \/ w = v
      \/ w = Wrapped(<<Quote>>, v, <<Quote>>) /\ Quotable(e)
           /\ (e.quoted \/ f = "JSON")
    BY <1>1, <1>3 DEF Value, Wrapped
<1> QED
    BY <1>4, <1>5, <1>6

\* What JsonConfigParser::cleanJsonValue leaves of it.
LEMMA JsonCleaned ==
    ASSUME TextAssumption, NEW e \in Entries
    PROVE  CleanJson(Value(e, "JSON") \o When(~e.last, <<Comma>>))
             = JsonValue(e)
<1>1. PICK v : v = e.value /\ Author(v)
    BY EntryFacts
<1>2. v \in Seq(Tokens) /\ \A i \in 1 .. Len(v) : v[i] # Quote
    BY <1>1 DEF Author
<1>3. PICK w : w = Value(e, "JSON")
    OBVIOUS
<1>4. w \in Seq(Tokens) /\ unquote(w) = v
    BY <1>1, <1>3, ValueWritten
<1>5. PICK c \in Tokens : c = Comma
    BY DEF Tokens, Signs
<1>6. c # Quote
    BY <1>5 DEF Comma, Quote
<1>7. CASE e.last
    <2>1. w \o When(~e.last, <<Comma>>) = w
        BY <1>4, <1>7 DEF When
    <2>2. PICK d \in Seq(Tokens) : d = dropComma(v)
        BY <1>2, CommaOrNone
    <2>3. d = <<>> \/ d[1] # Quote
        <3>1. CASE d = v
            BY <1>2, <3>1
        <3>2. CASE v = d \o <<Comma>> /\ d # <<>>
            <4>1. CommaEnded(v, d)
                BY <3>2, CommaEnds
            <4>2. 1 \in 1 .. Len(d) /\ 1 \in 1 .. Len(v)
                BY <2>2, <3>2, <4>1 DEF CommaEnded
            <4> QED
                BY <1>2, <4>1, <4>2 DEF CommaEnded
        <3> QED
            BY <1>2, <2>2, <3>1, <3>2, CommaOrNone
    <2>4. unquote(d) = d
        BY <2>3, NotUnquoted
    <2> QED
        BY <1>1, <1>3, <1>4, <1>7, <2>1, <2>2, <2>4 DEF CleanJson, JsonValue
<1>8. CASE ~e.last
    <2>1. PICK text : text = w \o <<c>>
        OBVIOUS
    <2>2. text \in Seq(Tokens) /\ Last(text) = c /\ dropComma(text) = w
        BY <1>4, <1>5, <2>1, Appended, CommaDropped
    <2>3. unquote(text) = text
        BY <1>6, <2>2, NotUnquoted DEF Last
    <2>4. w \o When(~e.last, <<Comma>>) = text
        BY <1>5, <1>8, <2>1 DEF When
    <2> QED
        BY <1>1, <1>3, <1>4, <1>8, <2>2, <2>3, <2>4 DEF CleanJson, JsonValue
<1> QED
    BY <1>7, <1>8, EntryFacts

\* Cat is associative and has the empty text as its unit.
LEMMA CatProperties ==
    ASSUME NEW T, NEW a \in Seq(T), NEW b \in Seq(T), NEW c \in Seq(T)
    PROVE  /\ Cat(a, b) \in Seq(T) /\ Cat(Cat(a, b), c) = Cat(a, Cat(b, c))
           /\ Cat(<<>>, a) = a /\ Cat(a, <<>>) = a
BY DEF Cat

\* The lines of the three formats as a key and a value with blanks around.
LEMMA IniShape ==
    ASSUME NEW T, NEW k \in Seq(T), NEW s \in Seq(T), NEW sep, <<sep>> \in Seq(T),
           NEW v \in Seq(T), NEW y \in Seq(T)
    PROVE  /\ Cat(Cat(Cat(Cat(Cat(k, s), <<sep>>), s), v), y) = LineOf(sep, <<>>, k, s, s, v, y)
           /\ Cat(Cat(Cat(Cat(Cat(k, s), <<sep>>), s), v), y)
                = LineOf(sep, <<>>, k, s, s, Cat(v, y), <<>>)
           /\ Cat(Cat(Cat(Cat(k, s), <<sep>>), s), v) \in Seq(T)
<1>1. PICK a \in Seq(T) : a = Cat(Cat(k, s), <<sep>>)
    <2>1. Cat(Cat(k, s), <<sep>>) \in Seq(T)
        BY CatProperties, Zenon
    <2> QED
        BY <2>1, Zenon
<1>2. /\ Cat(Cat(a, s), v) = Cat(a, Cat(s, v)) /\ Cat(s, v) \in Seq(T)
      /\ Cat(a, Cat(s, v)) \in Seq(T)
      /\ Cat(Cat(s, v), y) = Cat(s, Cat(v, y)) /\ Cat(v, y) \in Seq(T)
    <2>1. Cat(s, v) \in Seq(T) /\ Cat(v, y) \in Seq(T)
        BY CatProperties
    <2>2. Cat(a, Cat(s, v)) \in Seq(T)
        BY <2>1, CatProperties
    <2>3. Cat(Cat(a, s), v) = Cat(a, Cat(s, v))
        BY CatProperties
    <2>4. Cat(Cat(s, v), y) = Cat(s, Cat(v, y))
        BY CatProperties
    <2> QED
        BY <2>1, <2>2, <2>3, <2>4
<1>3. Cat(Cat(a, Cat(s, v)), y) = Cat(a, Cat(Cat(s, v), y))
    BY <1>2, CatProperties
<1>4. Cat(a, Cat(s, Cat(v, y))) \in Seq(T)
    BY <1>2, CatProperties, Zenon
<1>5. /\ Cat(<<>>, Cat(a, Cat(s, v))) = Cat(a, Cat(s, v))
      /\ Cat(<<>>, Cat(a, Cat(s, Cat(v, y)))) = Cat(a, Cat(s, Cat(v, y)))
      /\ Cat(Cat(a, Cat(s, Cat(v, y))), <<>>) = Cat(a, Cat(s, Cat(v, y)))
    BY <1>2, <1>4, CatProperties, Zenon
<1>6. /\ Cat(Cat(Cat(a, s), v), y) = Cat(Cat(<<>>, Cat(a, Cat(s, v))), y)
      /\ Cat(Cat(Cat(a, s), v), y) = Cat(Cat(<<>>, Cat(a, Cat(s, Cat(v, y)))), <<>>)
      /\ Cat(Cat(a, s), v) \in Seq(T)
    BY <1>2, <1>3, <1>5, Zenon
<1> QED
    BY <1>1, <1>6, Zenon DEF LineOf, Wrapped, Keyed, Cat

\* Four texts, nested to the left and to the right.
LEMMA CatRight ==
    ASSUME NEW T, NEW a \in Seq(T), NEW b \in Seq(T), NEW c \in Seq(T), NEW d \in Seq(T)
    PROVE  Cat(Cat(a, Cat(b, c)), d) = Cat(a, Cat(b, Cat(c, d)))
<1>1. Cat(b, c) \in Seq(T)
    BY CatProperties
<1>2. Cat(Cat(a, Cat(b, c)), d) = Cat(a, Cat(Cat(b, c), d))
    BY <1>1, CatProperties
<1>3. Cat(Cat(b, c), d) = Cat(b, Cat(c, d))
    BY CatProperties
<1> QED
    BY <1>2, <1>3

\* A JSON line: what is before the key is a blank, and a comma may follow the value.
LEMMA JsonShape ==
    ASSUME NEW T, NEW b, NEW q, NEW key, <<b>> \in Seq(T), <<q, key, q>> \in Seq(T),
           NEW s \in Seq(T), NEW sep, <<sep>> \in Seq(T),
           NEW v \in Seq(T), NEW c \in Seq(T), NEW y \in Seq(T)
    PROVE  /\ Cat(Cat(Cat(Cat(Cat(<<b, q, key, q>>, s), <<sep, b>>), v), c), y)
                = LineOf(sep, <<b>>, <<q, key, q>>, s, <<b>>, Cat(v, c), y)
           /\ Cat(Cat(Cat(Cat(<<b, q, key, q>>, s), <<sep, b>>), v), c) \in Seq(T)
<1>1. <<b, q, key, q>> = Cat(<<b>>, <<q, key, q>>) /\ <<sep, b>> = Cat(<<sep>>, <<b>>)
    BY DEF Cat
<1>2. PICK h \in Seq(T), k \in Seq(T), m \in Seq(T) :
             h = <<b>> /\ k = <<q, key, q>> /\ m = <<sep>>
    OBVIOUS
<1>3. PICK w \in Seq(T) : w = Cat(v, c)
    BY CatProperties
<1>4. PICK ks \in Seq(T), mh \in Seq(T) : ks = Cat(k, s) /\ mh = Cat(m, h)
    BY CatProperties
<1>5. PICK p \in Seq(T) : p = Cat(ks, m)
    BY CatProperties
<1>6. PICK ph \in Seq(T), hw \in Seq(T) : ph = Cat(p, h) /\ hw = Cat(h, w)
    BY CatProperties
<1>7. PICK x \in Seq(T), z \in Seq(T) : x = Cat(h, ph) /\ z = Cat(h, Cat(p, hw))
    <2>1. Cat(h, ph) \in Seq(T) /\ Cat(p, hw) \in Seq(T)
        BY CatProperties
    <2>2. Cat(h, Cat(p, hw)) \in Seq(T)
        BY <2>1, CatProperties
    <2> QED
        BY <2>1, <2>2
<1>8. Cat(Cat(Cat(h, k), s), mh) = x
    <2>1. Cat(Cat(h, k), s) = Cat(h, ks)
        BY <1>4, CatProperties
    <2>2. Cat(Cat(h, ks), mh) = Cat(h, Cat(ks, mh))
        BY CatProperties
    <2>3. Cat(ks, mh) = ph
        BY <1>4, <1>5, <1>6, CatProperties
    <2> QED
        BY <1>7, <2>1, <2>2, <2>3
<1>9. Cat(Cat(x, v), c) = z
    <2>1. Cat(Cat(x, v), c) = Cat(x, w)
        BY <1>3, CatProperties
    <2>2. Cat(x, w) = z
        BY ONLY <1>6, <1>7, h \in Seq(T), p \in Seq(T), w \in Seq(T), CatRight
    <2> QED
        BY <2>1, <2>2
<1>10. /\ Cat(Cat(Cat(Cat(Cat(Cat(h, k), s), mh), v), c), y) = Cat(z, y)
       /\ Cat(Cat(Cat(Cat(Cat(h, k), s), mh), v), c) \in Seq(T)
       /\ z = Cat(h, Cat(Cat(Cat(k, s), m), Cat(h, Cat(v, c))))
    BY ONLY z \in Seq(T), <1>3, <1>4, <1>5, <1>6, <1>7, <1>8, <1>9
<1>11. /\ Cat(Cat(Cat(Cat(Cat(<<b, q, key, q>>, s), <<sep, b>>), v), c), y)
            = Cat(Cat(<<b>>, Cat(Cat(Cat(<<q, key, q>>, s), <<sep>>), Cat(<<b>>, Cat(v, c)))), y)
       /\ Cat(Cat(Cat(Cat(<<b, q, key, q>>, s), <<sep, b>>), v), c) \in Seq(T)
    BY ONLY <1>1, <1>2, <1>4, <1>10, Zenon
<1> QED
    BY ONLY <1>11, Zenon DEF LineOf, Cat, Wrapped, Keyed

\* A YAML line: what is before the key is a blank or nothing.
LEMMA YamlShape ==
    ASSUME NEW T, NEW b, NEW key, <<b>> \in Seq(T), <<key>> \in Seq(T), NEW s \in Seq(T),
           NEW sep, <<sep>> \in Seq(T), NEW v \in Seq(T), NEW y \in Seq(T)
    PROVE  /\ Cat(Cat(Cat(s, <<key, sep, b>>), v), y)
                = LineOf(sep, s, <<key>>, <<>>, <<b>>, v, y)
           /\ Cat(Cat(s, <<key, sep, b>>), v) \in Seq(T)
<1>1. <<key, sep, b>> = Cat(Cat(Cat(<<key>>, <<>>), <<sep>>), <<b>>)
    BY DEF Cat
<1>2. PICK h \in Seq(T), k \in Seq(T), m \in Seq(T) : h = <<b>> /\ k = <<key>> /\ m = <<sep>>
    OBVIOUS
<1>3. PICK ke \in Seq(T) : ke = Cat(k, <<>>)
    BY CatProperties
<1>4. PICK p \in Seq(T) : p = Cat(ke, m)
    BY CatProperties
<1>5. Cat(Cat(s, Cat(p, h)), v) = Cat(s, Cat(p, Cat(h, v)))
    BY CatRight
<1>6. Cat(Cat(s, Cat(p, h)), v) \in Seq(T)
    <2>1. Cat(p, h) \in Seq(T)
        BY CatProperties
    <2>2. Cat(s, Cat(p, h)) \in Seq(T)
        BY <2>1, CatProperties
    <2> QED
        BY <2>2, CatProperties
<1>7. /\ Cat(Cat(Cat(s, <<key, sep, b>>), v), y)
            = Cat(Cat(s, Cat(Cat(Cat(<<key>>, <<>>), <<sep>>), Cat(<<b>>, v))), y)
      /\ Cat(Cat(s, <<key, sep, b>>), v) \in Seq(T)
    BY ONLY <1>1, <1>2, <1>3, <1>4, <1>5, <1>6, Zenon
<1> QED
    BY ONLY <1>7, Zenon DEF LineOf, Cat, Wrapped, Keyed

\* A text without a separator has none when it is trimmed.
LEMMA TrimmedWithout ==
    ASSUME NEW T, NEW blanks, NEW text \in Seq(T), NEW sep,
           \A i \in 1 .. Len(text) : text[i] # sep
    PROVE  Find(Trimmed(text, blanks), sep) = 0
<1> DEFINE S == {i \in 1 .. Len(text) : text[i] \notin blanks}
<1>1. S \in SUBSET Nat /\ S \subseteq 1 .. Len(text) /\ Len(text) \in Nat
        /\ \A i \in S : i <= Len(text)
    OBVIOUS
<1>2. CASE S = {}
    <2>1. AllBlank(text, blanks)
        BY <1>2 DEF AllBlank
    <2>2. Trimmed(text, blanks) = <<>>
        BY <2>1, TrimmedNone
    <2>3. <<>> \in Seq(T) /\ \A i \in 1 .. Len(<<>>) : <<>>[i] # sep
        OBVIOUS
    <2>4. Find(<<>>, sep) = 0
        BY <2>3, FindNone
    <2> QED
        BY <2>2, <2>4
<1>3. CASE S # {}
    <2>1. PICK f \in S : \A i \in S : f <= i
        BY <1>1, <1>3, LeastExists
    <2>2. PICK g \in S : \A i \in S : i <= g
        BY <1>1, <1>3, GreatestExists
    <2>3. /\ f \in 1 .. Len(text) /\ text[f] \notin blanks
          /\ g \in 1 .. Len(text) /\ text[g] \notin blanks
          /\ \A i \in 1 .. Len(text) : text[i] \notin blanks => f <= i /\ i <= g
        BY <2>1, <2>2
    <2> HIDE DEF S
    <2>4. Trimmed(text, blanks) = SubSeq(text, f, g)
        BY <2>3, TrimmedBetween
    <2>5. PICK t : t = SubSeq(text, f, g)
        OBVIOUS
    <2>6. t \in Seq(T) /\ \A i \in 1 .. Len(t) : t[i] # sep
        <3>1. \A i \in f .. g : text[i] \in T /\ text[i] # sep
            BY <2>3
        <3>2. /\ SubSeq(text, f, g) \in Seq(T)
              /\ Len(SubSeq(text, f, g)) = (IF f <= g THEN g - f + 1 ELSE 0)
              /\ \A i \in 1 .. g - f + 1 : SubSeq(text, f, g)[i] = text[f + i - 1]
            BY <2>3, <3>1, SubSeqProperties
        <3>3. ASSUME NEW i \in 1 .. Len(t)
              PROVE  i \in 1 .. g - f + 1 /\ f + i - 1 \in f .. g
            BY <2>3, <2>5, <3>2
        <3> QED
            BY <2>5, <3>1, <3>2, <3>3
    <2>7. Find(t, sep) = 0
        BY <2>6, FindNone
    <2> QED
        BY <2>4, <2>5, <2>7
<1> QED
    BY <1>2, <1>3

\* A comment's mark stays the first token.
LEMMA MarkFirst ==
    ASSUME NEW T, NEW blanks, NEW s \in Seq(T), NEW mark \in T, NEW rest \in Seq(T),
           NEW y \in Seq(T),
           AllBlank(s, blanks), mark \notin blanks
    PROVE  LET line == Trimmed(Cat(Cat(Cat(s, <<mark>>), rest), y), blanks)
           IN  line # <<>> /\ line[1] = mark
<1>0. <<mark>> \in Seq(T)
    OBVIOUS
<1>1. PICK a \in Seq(T) : a = Cat(s, <<mark>>)
    BY <1>0, CatProperties
<1>2. Cat(Cat(Cat(s, <<mark>>), rest), y) = Cat(a, Cat(rest, y)) /\ Cat(rest, y) \in Seq(T)
    BY <1>1, CatProperties
<1>3. PICK w \in Seq(T) : w = Cat(rest, y)
    BY <1>2
<1>4. Cat(Cat(Cat(s, <<mark>>), rest), y) = Cat(a, w)
    BY ONLY <1>2, <1>3, Zenon
<1>5. LET text == s \o <<mark>> \o w
      IN  /\ text \in Seq(T) /\ Len(s) \in Nat /\ Len(w) \in Nat
          /\ Len(text) = Len(s) + 1 + Len(w)
          /\ \A i \in 1 .. Len(s) : text[i] = s[i]
          /\ text[Len(s) + 1] = mark
    BY Around
<1>6. PICK text \in Seq(T) : text = s \o <<mark>> \o w
    BY <1>5
<1>7. /\ Len(s) + 1 \in 1 .. Len(text) /\ text[Len(s) + 1] = mark
      /\ \A i \in 1 .. Len(text) : i < Len(s) + 1 => text[i] \in blanks
    <2>1. /\ Len(s) \in Nat /\ Len(w) \in Nat /\ Len(text) = Len(s) + 1 + Len(w)
          /\ \A i \in 1 .. Len(s) : text[i] = s[i]
          /\ text[Len(s) + 1] = mark
        BY ONLY <1>5, <1>6
    <2>2. \A i \in 1 .. Len(s) : s[i] \in blanks
        BY DEF AllBlank
    <2>3. ASSUME NEW i \in 1 .. Len(text), i < Len(s) + 1
          PROVE  text[i] \in blanks
        <3>1. i \in 1 .. Len(s)
            BY ONLY <2>1, <2>3
        <3> QED
            BY ONLY <2>1, <2>2, <3>1
    <2> QED
        BY ONLY <2>1, <2>3
<1>8. Cat(Cat(Cat(s, <<mark>>), rest), y) = text
    BY ONLY <1>1, <1>4, <1>6, Zenon DEF Cat
<1>9. Trimmed(text, blanks) # <<>> /\ Trimmed(text, blanks)[1] = mark
    <2>1. PICK f : f = Len(s) + 1
        OBVIOUS
    <2>2. /\ text \in Seq(T) /\ f \in 1 .. Len(text) /\ text[f] = mark /\ text[f] \notin blanks
          /\ \A i \in 1 .. Len(text) : i < f => text[i] \in blanks
        BY <1>7, <2>1
    <2> QED
        BY ONLY <2>2, TrimmedFirst
<1> QED
    BY ONLY <1>8, <1>9, Zenon

\* What a ConfigParser takes from a line for key and value.
LEMMA LineParts ==
    ASSUME NEW sep, NEW x, NEW k, NEW s, NEW r, NEW v, NEW y,
           Parts(Tokens, {"SP", "CR"}, sep, x, k, s, r, v, y), Solid(k, {"SP", "CR"})
    PROVE  LET line == trim(LineOf(sep, x, k, s, r, v, y))
           IN  /\ line # <<>> /\ line[1] = k[1] /\ Find(line, sep) # 0
               /\ KeyText(line, sep) = k /\ ValueText(line, sep) = v
<1>1. PICK blanks : blanks = {"SP", "CR"}
    OBVIOUS
<1>2. Parts(Tokens, blanks, sep, x, k, s, r, v, y) /\ Solid(k, blanks)
    BY <1>1
<1>3. LET line == Trimmed(LineOf(sep, x, k, s, r, v, y), blanks)
      IN  /\ line \in Seq(Tokens) /\ line # <<>> /\ line[1] = k[1]
          /\ line = Keyed(k, s, sep, Kept(r, v))
          /\ Find(line, sep) # 0
          /\ Before(line, sep) = Cat(k, s) /\ After(line, sep) = Kept(r, v)
    BY ONLY <1>2, KeyLine
<1>4. PICK line : line = Trimmed(LineOf(sep, x, k, s, r, v, y), blanks)
    OBVIOUS
<1>5. Trimmed(Cat(k, s), blanks) = k
    <2>1. <<>> \in Seq(Tokens) /\ AllBlank(<<>>, blanks)
        BY DEF AllBlank
    <2>2. Trimmed(Wrapped(<<>>, k, s), blanks) = k
        BY <1>2, <2>1, TrimmedCore DEF Parts
    <2>3. Wrapped(<<>>, k, s) = Cat(k, s)
        BY <1>2 DEF Wrapped, Cat, Parts
    <2> QED
        BY <2>2, <2>3
<1>6. Trimmed(Kept(r, v), blanks) = v
    BY <1>2, KeptTrimmed DEF Parts
<1>7. KeyText(line, sep) = k /\ ValueText(line, sep) = v
    BY ONLY <1>1, <1>3, <1>4, <1>5, <1>6 DEF KeyText, ValueText, trim
<1> QED
    BY ONLY <1>1, <1>3, <1>4, <1>7 DEF trim

\* Two tokens are the one and the other.
LEMMA PairCat ==
    ASSUME NEW a, NEW b
    PROVE  <<a, b>> = Cat(<<a>>, <<b>>)
<1>1. <<a>> \in Seq({a, b}) /\ <<b>> \in Seq({a, b}) /\ Len(<<a>>) = 1 /\ Len(<<b>>) = 1
    OBVIOUS
<1>2. PICK c : c = <<a>> \o <<b>>
    OBVIOUS
<1>3. c \in Seq({a, b}) /\ Len(c) = 2 /\ c[1] = a /\ c[2] = b
    BY <1>1, <1>2
<1>4. <<a, b>> \in Seq({a, b}) /\ Len(<<a, b>>) = 2 /\ <<a, b>>[1] = a /\ <<a, b>>[2] = b
    OBVIOUS
<1>5. c = <<a, b>>
    BY <1>3, <1>4
<1> QED
    BY <1>2, <1>5 DEF Cat

\* A comment is a line whose key starts with the mark.
LEMMA CommentShape ==
    ASSUME NEW T, NEW mark, NEW key, <<mark>> \in Seq(T), <<key>> \in Seq(T), NEW s \in Seq(T),
           NEW sep, <<sep>> \in Seq(T), NEW v \in Seq(T), NEW y \in Seq(T)
    PROVE  Cat(Cat(Cat(s, <<mark>>), Cat(Cat(Cat(Cat(<<key>>, s), <<sep>>), s), v)), y)
             = LineOf(sep, s, <<mark, key>>, s, s, Cat(v, y), <<>>)
<1>0. <<mark, key>> = Cat(<<mark>>, <<key>>)
    BY PairCat
<1>1. PICK h \in Seq(T), k \in Seq(T), m \in Seq(T) : h = <<mark>> /\ k = <<key>> /\ m = <<sep>>
    OBVIOUS
<1>2. PICK hk \in Seq(T) : hk = <<mark, key>> /\ hk = Cat(h, k)
    <2>1. Cat(h, k) \in Seq(T)
        BY CatProperties
    <2>2. <<mark, key>> = Cat(h, k)
        BY ONLY <1>0, <1>1, Zenon
    <2> QED
        BY ONLY <2>1, <2>2, Zenon
<1>3. PICK ks \in Seq(T), hks \in Seq(T), vy \in Seq(T) :
        ks = Cat(k, s) /\ hks = Cat(hk, s) /\ vy = Cat(v, y)
    BY CatProperties
<1>4. PICK a \in Seq(T), ha \in Seq(T), svy \in Seq(T) :
             a = Cat(ks, m) /\ ha = Cat(hks, m) /\ svy = Cat(s, vy)
    BY CatProperties
<1>5. Cat(h, a) = ha
    <2>1. hks = Cat(h, ks)
        BY <1>2, <1>3, CatProperties
    <2>2. Cat(Cat(h, ks), m) = Cat(h, Cat(ks, m))
        BY CatProperties
    <2> QED
        BY <1>4, <2>1, <2>2
<1>6. PICK sv \in Seq(T) : sv = Cat(s, v) /\ Cat(sv, y) = svy
    <2>1. Cat(s, v) \in Seq(T) /\ Cat(Cat(s, v), y) = Cat(s, Cat(v, y))
        BY CatProperties
    <2> QED
        BY <1>3, <1>4, <2>1
<1>7. PICK asv \in Seq(T) :
             asv = Cat(a, sv) /\ asv = Cat(Cat(a, s), v) /\ Cat(asv, y) = Cat(a, svy)
    <2>1. Cat(a, sv) \in Seq(T)
        BY CatProperties
    <2>2. Cat(Cat(a, s), v) = Cat(a, sv)
        BY <1>6, CatProperties
    <2>3. Cat(Cat(a, sv), y) = Cat(a, Cat(sv, y))
        BY CatProperties
    <2> QED
        BY <1>6, <2>1, <2>2, <2>3
<1>8. Cat(Cat(Cat(s, h), asv), y) = Cat(s, Cat(ha, svy))
    <2>1. PICK sh \in Seq(T) : sh = Cat(s, h)
        BY CatProperties
    <2>2. Cat(Cat(sh, asv), y) = Cat(sh, Cat(asv, y)) /\ Cat(a, svy) \in Seq(T)
        BY CatProperties
    <2>3. Cat(sh, Cat(a, svy)) = Cat(s, Cat(h, Cat(a, svy)))
        BY <2>1, <2>2, CatProperties
    <2>4. Cat(h, Cat(a, svy)) = Cat(Cat(h, a), svy)
        BY CatProperties
    <2> QED
        BY <1>5, <1>7, <2>1, <2>2, <2>3, <2>4
<1>9. Cat(Cat(s, Cat(ha, svy)), <<>>) = Cat(s, Cat(ha, svy))
    <2>1. Cat(ha, svy) \in Seq(T)
        BY CatProperties
    <2>2. Cat(s, Cat(ha, svy)) \in Seq(T)
        BY <2>1, CatProperties
    <2> QED
        BY <2>2, CatProperties
<1>10. Cat(Cat(Cat(s, <<mark>>), Cat(Cat(Cat(Cat(<<key>>, s), <<sep>>), s), v)), y)
         = Cat(Cat(s, Cat(Cat(Cat(<<mark, key>>, s), <<sep>>), Cat(s, Cat(v, y)))), <<>>)
    BY ONLY <1>1, <1>2, <1>3, <1>4, <1>7, <1>8, <1>9, Zenon
<1> QED
    BY ONLY <1>10, Zenon DEF LineOf, Cat, Wrapped, Keyed

\* The blanks of a line.
Sp(e) == When(e.spaced, <<"SP">>)
\* Its carriage return.
Cr(e) == When(e.cr, <<"CR">>)

\* The blanks and the signs of a line are texts.
LEMMA BlankParts ==
    ASSUME TextAssumption, NEW e \in Entries
    PROVE  /\ \A t \in Signs : t \in Tokens /\ <<t>> \in Seq(Tokens)
           /\ Sp(e) \in Seq(Tokens) /\ AllBlank(Sp(e), {"SP", "CR"})
           /\ AllBlank(Sp(e), {"SP"})
           /\ Cr(e) \in Seq(Tokens) /\ AllBlank(Cr(e), {"SP", "CR"})
           /\ AllBlank(<<>>, {"SP", "CR"}) /\ AllBlank(<<>>, {"SP"}) /\ <<>> \in Seq(Tokens)
           /\ AllBlank(<<"SP">>, {"SP", "CR"}) /\ AllBlank(<<"SP">>, {"SP"})
           /\ <<e.key>> \in Seq(Tokens)
<1>1. \A t \in Signs : t \in Tokens /\ <<t>> \in Seq(Tokens)
    BY DEF Tokens
<1>2. "SP" \in Signs /\ "CR" \in Signs
    BY DEF Signs
<1>3. ASSUME NEW T, NEW t \in T
      PROVE  AllBlank(<<t>>, T) /\ AllBlank(<<>>, T)
    BY DEF AllBlank
<1>4. /\ AllBlank(<<>>, {"SP", "CR"}) /\ AllBlank(<<>>, {"SP"})
      /\ AllBlank(<<"SP">>, {"SP", "CR"}) /\ AllBlank(<<"SP">>, {"SP"})
      /\ AllBlank(<<"CR">>, {"SP", "CR"})
    <2>1. "SP" \in {"SP", "CR"} /\ "SP" \in {"SP"} /\ "CR" \in {"SP", "CR"}
        OBVIOUS
    <2> QED
        BY <1>3, <2>1, Zenon
<1>5. <<>> \in Seq(Tokens) /\ <<e.key>> \in Seq(Tokens)
    BY EntryFacts
<1>6. Sp(e) \in {<<>>, <<"SP">>} /\ Cr(e) \in {<<>>, <<"CR">>}
    BY Zenon DEF Sp, Cr, When
<1> QED
    BY <1>1, <1>2, <1>4, <1>5, <1>6, Zenon

\* What each parser takes from a line that is a setting.
LEMMA KeyParts ==
    ASSUME TextAssumption, NEW e \in Entries
    PROVE  /\ <<e.key>> # <<>> /\ <<e.key>>[1] = e.key /\ Len(<<e.key>>) = 1
           /\ Solid(<<e.key>>, {"SP", "CR"}) /\ Solid(<<e.key>>, {"SP"})
           /\ \A sep \in Signs : \A i \in 1 .. Len(<<e.key>>) : <<e.key>>[i] # sep
           /\ e.key \notin {"SP", "CR"}
<1>1. e.key \notin Signs
    BY EntryFacts
<1>2. "SP" \in Signs /\ "CR" \in Signs
    BY DEF Signs
<1>3. <<e.key>> # <<>> /\ <<e.key>>[1] = e.key /\ Len(<<e.key>>) = 1
    OBVIOUS
<1> QED
    BY <1>1, <1>2, <1>3 DEF Solid

\* The INI parser takes the key and the value the author wrote.
LEMMA IniParsed ==
    ASSUME TextAssumption, NEW e \in Entries, e.what = "setting", NEW c
    PROVE  IniLine(c, Line(e, "INI"))
             = parseKeyValue(c, <<e.key>>, Value(e, "INI"))
<1>1. PICK k \in Seq(Tokens) : k = <<e.key>>
    BY BlankParts
<1>2. PICK s \in Seq(Tokens) : s = Sp(e) /\ AllBlank(s, {"SP", "CR"})
    BY BlankParts
<1>3. PICK y \in Seq(Tokens) : y = Cr(e) /\ AllBlank(y, {"SP", "CR"})
    BY BlankParts
<1>4. PICK v \in Seq(Tokens) : v = Value(e, "INI") /\ Solid(v, {"SP", "CR"})
    BY ValueWritten
<1>5. PICK sep \in Tokens :
             sep = "=" /\ sep \in Signs /\ <<sep>> \in Seq(Tokens)
               /\ sep \notin {"SP", "CR"}
    <2>1. "=" \in Signs /\ "=" \notin {"SP", "CR"}
        BY DEF Signs
    <2> QED
        BY <2>1, BlankParts
<1>6. Line(e, "INI") = Cat(Cat(Cat(Cat(Cat(k, s), <<"=">>), s), v), y)
    BY <1>1, <1>2, <1>3, <1>4, Zenon DEF Line, Setting, Sp, Cr, Cat
<1>7. Cat(Cat(Cat(Cat(Cat(k, s), <<sep>>), s), v), y) = LineOf(sep, <<>>, k, s, s, v, y)
    BY <1>5, IniShape
<1>8. Line(e, "INI") = LineOf(sep, <<>>, k, s, s, v, y)
    BY ONLY <1>5, <1>6, <1>7, Zenon
<1>9. Parts(Tokens, {"SP", "CR"}, sep, <<>>, k, s, s, v, y) /\ Solid(k, {"SP", "CR"})
        /\ k[1] = e.key
    <2>1. <<>> \in Seq(Tokens) /\ AllBlank(<<>>, {"SP", "CR"})
        BY BlankParts
    <2>2. /\ k # <<>> /\ k[1] \notin {"SP", "CR"} /\ Solid(k, {"SP", "CR"}) /\ k[1] = e.key
          /\ \A i \in 1 .. Len(k) : k[i] # sep
        BY <1>1, <1>5, KeyParts
    <2> QED
        BY <1>2, <1>3, <1>4, <1>5, <2>1, <2>2 DEF Parts
<1>10. LET line == trim(Line(e, "INI"))
       IN  /\ line # <<>> /\ line[1] = e.key /\ Find(line, "=") # 0
           /\ KeyText(line, "=") = <<e.key>>
           /\ ValueText(line, "=") = Value(e, "INI")
    BY ONLY <1>1, <1>4, <1>5, <1>8, <1>9, LineParts
<1>11. e.key \notin {"#", ";"}
    BY EntryFacts DEF Signs
<1> QED
    BY ONLY <1>10, <1>11 DEF IniLine, Skips

\* So does the YAML parser.
LEMMA YamlParsed ==
    ASSUME TextAssumption, NEW e \in Entries, e.what = "setting", NEW c
    PROVE  YamlLine(c, Line(e, "YAML"))
             = parseKeyValue(c, <<e.key>>, Value(e, "YAML"))
<1>1. PICK k \in Seq(Tokens) : k = <<e.key>>
    BY BlankParts
<1>2. PICK s \in Seq(Tokens) : s = Sp(e) /\ AllBlank(s, {"SP", "CR"})
    BY BlankParts
<1>3. PICK y \in Seq(Tokens) : y = Cr(e) /\ AllBlank(y, {"SP", "CR"})
    BY BlankParts
<1>4. PICK v \in Seq(Tokens) : v = Value(e, "YAML") /\ Solid(v, {"SP", "CR"})
    BY ValueWritten
<1>5. PICK sep \in Tokens :
             sep = ":" /\ sep \in Signs /\ <<sep>> \in Seq(Tokens)
               /\ sep \notin {"SP", "CR"}
    <2>1. ":" \in Signs /\ ":" \notin {"SP", "CR"}
        BY DEF Signs
    <2> QED
        BY <2>1, BlankParts
<1>6. PICK b \in Tokens :
             b = "SP" /\ <<b>> \in Seq(Tokens) /\ AllBlank(<<b>>, {"SP", "CR"})
    <2>1. "SP" \in Signs
        BY DEF Signs
    <2> QED
        BY <2>1, BlankParts
<1>7. Line(e, "YAML") = Cat(Cat(Cat(s, <<e.key, ":", "SP">>), v), y)
    BY <1>2, <1>3, <1>4, Zenon DEF Line, Setting, Sp, Cr, Cat
<1>8. Cat(Cat(Cat(s, <<e.key, sep, b>>), v), y) = LineOf(sep, s, <<e.key>>, <<>>, <<b>>, v, y)
    BY <1>1, <1>5, <1>6, YamlShape
<1>9. Line(e, "YAML") = LineOf(sep, s, k, <<>>, <<b>>, v, y)
    BY ONLY <1>1, <1>5, <1>6, <1>7, <1>8, Zenon
<1>10. Parts(Tokens, {"SP", "CR"}, sep, s, k, <<>>, <<b>>, v, y) /\ Solid(k, {"SP", "CR"})
         /\ k[1] = e.key
    <2>1. <<>> \in Seq(Tokens) /\ AllBlank(<<>>, {"SP", "CR"})
        BY BlankParts
    <2>2. /\ k # <<>> /\ k[1] \notin {"SP", "CR"} /\ Solid(k, {"SP", "CR"}) /\ k[1] = e.key
          /\ \A i \in 1 .. Len(k) : k[i] # sep
        BY <1>1, <1>5, KeyParts
    <2> QED
        BY <1>2, <1>3, <1>4, <1>5, <1>6, <2>1, <2>2 DEF Parts
<1>11. LET line == trim(Line(e, "YAML"))
       IN  /\ line # <<>> /\ line[1] = e.key /\ Find(line, ":") # 0
           /\ KeyText(line, ":") = <<e.key>>
           /\ ValueText(line, ":") = Value(e, "YAML")
    BY ONLY <1>1, <1>4, <1>5, <1>9, <1>10, LineParts
<1>12. e.key \notin {"#"}
    BY EntryFacts DEF Signs
<1> QED
    BY ONLY <1>11, <1>12 DEF YamlLine, Skips

\* Three tokens are a token with one on either side.
LEMMA Tripled ==
    ASSUME NEW a, NEW b, NEW c
    PROVE  Wrapped(<<a>>, <<b>>, <<c>>) = <<a, b, c>>
<1>1. /\ <<a>> \in Seq({a, b, c}) /\ <<b>> \in Seq({a, b, c}) /\ <<c>> \in Seq({a, b, c})
      /\ Len(<<a>>) = 1 /\ Len(<<b>>) = 1 /\ Len(<<c>>) = 1
    OBVIOUS
<1>2. PICK d : d = <<a>> \o <<b>> \o <<c>>
    OBVIOUS
<1>3. d \in Seq({a, b, c}) /\ Len(d) = 3 /\ d[1] = a /\ d[2] = b /\ d[3] = c
    <2>0. <<a, b>> \in Seq({a, b, c})
        OBVIOUS
    <2>1. PICK p \in Seq({a, b, c}) : p = <<a, b>>
        BY <2>0
    <2>2. p = <<a>> \o <<b>>
        BY <2>1, PairCat, Zenon DEF Cat
    <2>3. d = p \o <<c>>
        BY <1>2, <2>2, Zenon
    <2>4. Len(p) = 2 /\ p[1] = a /\ p[2] = b
        BY <2>1
    <2>5. LET w == p \o <<c>>
          IN  /\ w \in Seq({a, b, c}) /\ Len(w) = Len(p) + 1
              /\ \A i \in 1 .. Len(p) : w[i] = p[i]
              /\ w[Len(p) + 1] = c
        BY Appended
    <2> HIDE <2>2
    <2> QED
        BY ONLY <2>3, <2>4, <2>5
<1>4. PICK t : t = <<a, b, c>>
    OBVIOUS
<1>5. t \in Seq({a, b, c}) /\ Len(t) = 3 /\ t[1] = a /\ t[2] = b /\ t[3] = c
    BY <1>4
<1>6. \A i \in 1 .. Len(d) : i = 1 \/ i = 2 \/ i = 3
    BY <1>3
<1>7. \A i \in 1 .. Len(d) : d[i] = t[i]
    BY ONLY <1>3, <1>5, <1>6
<1>8. d = t
    BY ONLY <1>3, <1>5, <1>7, SeqEqual
<1> QED
    BY <1>2, <1>4, <1>8 DEF Wrapped

\* A key in quotes.
LEMMA QuotedKey ==
    ASSUME TextAssumption, NEW e \in Entries
    PROVE  LET k == <<Quote, e.key, Quote>>
           IN  /\ k \in Seq(Tokens) /\ k # <<>> /\ k[1] = Quote
               /\ Solid(k, {"SP", "CR"})
               /\ unquote(k) = <<e.key>>
               /\ \A i \in 1 .. Len(k) : k[i] # ":"
               /\ Quote \notin {"SP", "CR", "/", "*"}
<1>1. PICK q \in Tokens : q = Quote /\ q \notin {"SP", "CR", ":", "/", "*"}
    BY DEF Tokens, Signs, Quote
<1>2. e.key \in Tokens /\ e.key # ":"
    BY EntryFacts DEF Signs
<1>3. PICK k \in Seq(Tokens) : k = <<q, e.key, q>>
    <2>1. <<q, e.key, q>> \in Seq(Tokens)
        BY <1>2
    <2> QED
        BY <2>1, Zenon
<1>4. Len(k) = 3 /\ k[1] = q /\ k[2] = e.key /\ k[3] = q /\ k # <<>>
    BY <1>3
<1>5. Solid(k, {"SP", "CR"}) /\ \A i \in 1 .. Len(k) : k[i] # ":"
    BY <1>1, <1>2, <1>4 DEF Solid
<1>6. unquote(k) = <<e.key>>
    <2>1. PICK m \in Seq(Tokens) : m = <<e.key>>
        BY BlankParts
    <2>2. Wrapped(<<q>>, m, <<q>>) = k
        BY <1>3, <2>1, Tripled
    <2>3. unquote(Wrapped(<<Quote>>, m, <<Quote>>)) = m
        BY Unquoted
    <2> QED
        BY ONLY <1>1, <2>1, <2>2, <2>3, Zenon
<1> QED
    BY <1>1, <1>3, <1>4, <1>5, <1>6

\* The JSON parser takes the key without its quotes and the value it cleaned.
LEMMA JsonParsed ==
    ASSUME TextAssumption, NEW e \in Entries, e.what = "setting", NEW c
    PROVE  JsonLine(c, Line(e, "JSON")) = parseKeyValue(c, <<e.key>>, JsonValue(e))
<1>1. PICK k \in Seq(Tokens) : k = <<Quote, e.key, Quote>>
    BY QuotedKey
<1>2. PICK s \in Seq(Tokens) : s = Sp(e) /\ AllBlank(s, {"SP", "CR"})
    BY BlankParts
<1>3. PICK y \in Seq(Tokens) : y = Cr(e) /\ AllBlank(y, {"SP", "CR"})
    BY BlankParts
<1>4. PICK v \in Seq(Tokens) : v = Value(e, "JSON") /\ Solid(v, {"SP", "CR"})
    BY ValueWritten
<1>5. PICK sep \in Tokens :
             sep = ":" /\ sep \in Signs /\ <<sep>> \in Seq(Tokens)
               /\ sep \notin {"SP", "CR"}
    <2>1. ":" \in Signs /\ ":" \notin {"SP", "CR"}
        BY DEF Signs
    <2> QED
        BY <2>1, BlankParts
<1>6. PICK b \in Tokens :
             b = "SP" /\ <<b>> \in Seq(Tokens) /\ AllBlank(<<b>>, {"SP", "CR"})
    <2>1. "SP" \in Signs
        BY DEF Signs
    <2> QED
        BY <2>1, BlankParts
<1>7. PICK m \in Seq(Tokens) :
             m = When(~e.last, <<Comma>>) /\ (m = <<>> \/ m = <<Comma>>)
    <2>1. Comma \in Signs
        BY DEF Signs
    <2>2. <<>> \in Seq(Tokens) /\ <<Comma>> \in Seq(Tokens)
        BY <2>1, BlankParts
    <2> QED
        BY <2>2 DEF When
<1>8. PICK w \in Seq(Tokens) : w = Cat(v, m) /\ w = v \o m /\ Solid(w, {"SP", "CR"})
    <2>1. Cat(v, m) \in Seq(Tokens) /\ Cat(v, m) = v \o m
        BY CatProperties DEF Cat
    <2>2. CASE m = <<>>
        <3>1. Cat(v, m) = v
            BY <2>2, CatProperties
        <3> QED
            BY <1>4, <2>1, <3>1
    <2>3. CASE m = <<Comma>>
        <3>1. PICK t \in Tokens : t = Comma /\ t \notin {"SP", "CR"}
            BY DEF Tokens, Signs, Comma
        <3>2. LET u == v \o <<t>>
              IN  /\ u \in Seq(Tokens) /\ u # <<>> /\ Len(u) = Len(v) + 1 /\ Len(v) \in Nat
                  /\ \A i \in 1 .. Len(v) : u[i] = v[i]
                  /\ u[Len(v) + 1] = t
            BY Appended
        <3>3. PICK u \in Seq(Tokens) : u = v \o <<t>>
            BY <3>2
        <3>4. u[Len(u)] \notin {"SP", "CR"} /\ u[1] \notin {"SP", "CR"}
            <4>1. CASE v = <<>>
                <5>1. Len(v) + 1 = 1
                    BY <4>1
                <5> QED
                    BY ONLY <3>1, <3>2, <3>3, <5>1
            <4>2. CASE v # <<>>
                <5>1. 1 \in 1 .. Len(v) /\ v[1] \notin {"SP", "CR"}
                    BY <1>4, <4>2 DEF Solid
                <5> QED
                    BY ONLY <3>1, <3>2, <3>3, <5>1
            <4> QED
                BY <4>1, <4>2
        <3>5. Solid(u, {"SP", "CR"})
            BY <3>4 DEF Solid
        <3> QED
            BY <2>1, <2>3, <3>1, <3>3, <3>5
    <2> QED
        BY <1>7, <2>2, <2>3
<1>9. Line(e, "JSON")
        = Cat(Cat(Cat(Cat(Cat(<<"SP", Quote, e.key, Quote>>, s), <<":", "SP">>), v), m),
          y)
    BY <1>2, <1>3, <1>4, <1>7, Zenon DEF Line, Setting, Sp, Cr, Cat
<1>10. PICK q : q = Quote
    OBVIOUS
<1>11. Cat(Cat(Cat(Cat(Cat(<<b, q, e.key, q>>, s), <<sep, b>>), v), m), y)
         = LineOf(sep, <<b>>, <<q, e.key, q>>, s, <<b>>, Cat(v, m), y)
    <2>1. <<q, e.key, q>> \in Seq(Tokens)
        BY ONLY <1>1, <1>10, k \in Seq(Tokens), Zenon
    <2> QED
        BY <1>5, <1>6, <2>1, JsonShape
<1>12. Line(e, "JSON") = LineOf(sep, <<b>>, k, s, <<b>>, w, y)
    BY ONLY <1>1, <1>5, <1>6, <1>8, <1>9, <1>10, <1>11, Zenon
<1>13. Parts(Tokens, {"SP", "CR"}, sep, <<b>>, k, s, <<b>>, w, y) /\ Solid(k, {"SP", "CR"})
         /\ k[1] = Quote
    <2>1. /\ k # <<>> /\ k[1] = Quote /\ Solid(k, {"SP", "CR"})
          /\ Quote \notin {"SP", "CR"}
          /\ \A i \in 1 .. Len(k) : k[i] # sep
        BY <1>1, <1>5, QuotedKey
    <2> QED
        BY <1>2, <1>3, <1>5, <1>6, <1>8, <2>1 DEF Parts
<1>14. LET line == trim(Line(e, "JSON"))
       IN  /\ line # <<>> /\ line[1] = Quote /\ Find(line, ":") # 0
           /\ KeyText(line, ":") = k /\ ValueText(line, ":") = w
    BY ONLY <1>5, <1>12, <1>13, LineParts
<1>15. CleanJson(w) = JsonValue(e)
    BY ONLY <1>4, <1>7, <1>8, TextAssumption, e \in Entries, JsonCleaned
<1>16. unquote(k) = <<e.key>> /\ Quote \notin {"/", "*"}
    BY <1>1, QuotedKey
<1> QED
    BY ONLY <1>14, <1>15, <1>16 DEF JsonLine, Skips

\* A line whose key does not name a setting leaves it as it is.
LEMMA NotNamed ==
    ASSUME NEW s \in SettingNames, NEW key, s \notin Named(key), NEW c, NEW v
    PROVE  parseKeyValue(c, key, v)[s] = c[s]
             /\ daemonKeyValue(c, key, v)[s] = c[s]
BY DEF parseKeyValue, daemonKeyValue

\* What the author writes for a setting is a text.
LEMMA SettingWritten ==
    ASSUME TextAssumption, NEW e \in Entries, NEW f \in {"INI", "JSON", "YAML"}
    PROVE  Setting(e, f) \in Seq(Tokens)
<1>1. PICK s \in Seq(Tokens) : s = Sp(e)
    BY BlankParts
<1>2. PICK v \in Seq(Tokens) : v = Value(e, f)
    BY ValueWritten
<1>3. /\ \A t \in Signs : t \in Tokens /\ <<t>> \in Seq(Tokens)
      /\ <<>> \in Seq(Tokens) /\ <<e.key>> \in Seq(Tokens)
      /\ <<Quote, e.key, Quote>> \in Seq(Tokens)
    BY BlankParts, QuotedKey
<1>4. "SP" \in Signs /\ "=" \in Signs /\ ":" \in Signs /\ Comma \in Signs
    BY DEF Signs
<1>5. <<"SP">> \in Seq(Tokens) /\ <<"=">> \in Seq(Tokens)
        /\ <<":">> \in Seq(Tokens)
    BY <1>3, <1>4, Zenon
<1>6. PICK m \in Seq(Tokens) : m = When(~e.last, <<Comma>>)
    BY <1>3, <1>4 DEF When
<1>7. CASE f = "INI"
    <2>1. Setting(e, f) = Cat(Cat(Cat(Cat(<<e.key>>, s), <<"=">>), s), v)
        BY <1>1, <1>2, <1>7, Zenon DEF Setting, Sp, Cat
    <2>2. Cat(Cat(Cat(Cat(<<e.key>>, s), <<"=">>), s), v) \in Seq(Tokens)
        BY <1>3, <1>5, IniShape
    <2> QED
        BY <2>1, <2>2
<1>8. CASE f = "JSON"
    <2>1. Setting(e, f)
            = Cat(Cat(Cat(Cat(<<"SP", Quote, e.key, Quote>>, s), <<":", "SP">>), v), m)
        BY <1>1, <1>2, <1>6, <1>8, Zenon DEF Setting, Sp, Cat
    <2>2. PICK b, q, sep : b = "SP" /\ q = Quote /\ sep = ":"
        OBVIOUS
    <2>3. <<b>> \in Seq(Tokens) /\ <<q, e.key, q>> \in Seq(Tokens)
            /\ <<sep>> \in Seq(Tokens)
        BY ONLY <1>3, <1>5, <2>2, Zenon
    <2>4. Cat(Cat(Cat(Cat(<<b, q, e.key, q>>, s), <<sep, b>>), v), m) \in Seq(Tokens)
        BY ONLY <2>3, s \in Seq(Tokens), v \in Seq(Tokens), m \in Seq(Tokens),
           <<>> \in Seq(Tokens), <1>3, JsonShape
    <2> QED
        BY ONLY <2>1, <2>2, <2>4, Zenon
<1>9. CASE f = "YAML"
    <2>1. Setting(e, f) = Cat(Cat(s, <<e.key, ":", "SP">>), v)
        BY <1>1, <1>2, <1>9, Zenon DEF Setting, Sp, Cat
    <2>2. PICK b, sep : b = "SP" /\ sep = ":"
        OBVIOUS
    <2>3. Cat(Cat(s, <<e.key, sep, b>>), v) \in Seq(Tokens)
        <3>1. <<b>> \in Seq(Tokens) /\ <<sep>> \in Seq(Tokens)
            BY ONLY <1>5, <2>2, Zenon
        <3> QED
            BY ONLY <1>3, <3>1, s \in Seq(Tokens), v \in Seq(Tokens), YamlShape
    <2> QED
        BY ONLY <2>1, <2>2, <2>3, Zenon
<1> QED
    BY <1>7, <1>8, <1>9

\* A comment assigns nothing, whichever reader it is for.
LEMMA CommentSkipped ==
    ASSUME TextAssumption, NEW e \in Entries, e.what = "comment", NEW c
    PROVE  /\ IniLine(c, Line(e, "INI")) = c
           /\ JsonLine(c, Line(e, "JSON")) = c
           /\ YamlLine(c, Line(e, "YAML")) = c
<1>1. ASSUME NEW f \in {"INI", "JSON", "YAML"}, NEW mark \in Tokens,
             mark \notin {"SP", "CR"},
             mark = IF f = "JSON" THEN "/" ELSE "#"
      PROVE  trim(Line(e, f)) # <<>> /\ trim(Line(e, f))[1] = mark
    <2>1. PICK s \in Seq(Tokens) : s = Sp(e) /\ AllBlank(s, {"SP", "CR"})
        BY BlankParts
    <2>2. PICK y \in Seq(Tokens) : y = Cr(e)
        BY BlankParts
    <2>3. PICK rest \in Seq(Tokens) : rest = Setting(e, f)
        BY SettingWritten
    <2>4. Line(e, f) = Cat(Cat(Cat(s, <<mark>>), rest), y)
        BY <1>1, <2>1, <2>2, <2>3, Zenon DEF Line, Comment, Sp, Cr, Cat
    <2>5. LET line == Trimmed(Cat(Cat(Cat(s, <<mark>>), rest), y), {"SP", "CR"})
          IN  line # <<>> /\ line[1] = mark
        <3>1. s \in Seq(Tokens) /\ rest \in Seq(Tokens) /\ y \in Seq(Tokens)
                /\ mark \in Tokens
            OBVIOUS
        <3> QED
            BY ONLY <3>1, <1>1, <2>1, MarkFirst
    <2> QED
        BY ONLY <2>4, <2>5, Zenon DEF trim
<1>2. /\ "#" \in Tokens /\ "/" \in Tokens /\ "#" \notin {"SP", "CR"}
      /\ "/" \notin {"SP", "CR"}
    BY DEF Tokens, Signs
<1>3. trim(Line(e, "INI")) # <<>> /\ trim(Line(e, "INI"))[1] = "#"
    BY <1>1, <1>2
<1>4. trim(Line(e, "JSON")) # <<>> /\ trim(Line(e, "JSON"))[1] = "/"
    BY <1>1, <1>2
<1>5. trim(Line(e, "YAML")) # <<>> /\ trim(Line(e, "YAML"))[1] = "#"
    BY <1>1, <1>2
<1> QED
    BY ONLY <1>3, <1>4, <1>5 DEF IniLine, JsonLine, YamlLine, Skips

\* Nor does a blank line.
LEMMA BlankSkipped ==
    ASSUME TextAssumption, NEW e \in Entries, e.what = "blank", NEW c
    PROVE  /\ IniLine(c, Line(e, "INI")) = c
           /\ JsonLine(c, Line(e, "JSON")) = c
           /\ YamlLine(c, Line(e, "YAML")) = c
           /\ DaemonLine(c, Line(e, "INI")) = c
<1>1. PICK y \in Seq(Tokens) : y = Cr(e) /\ AllBlank(y, {"SP", "CR"})
    BY BlankParts
<1>2. Line(e, "INI") = y /\ Line(e, "JSON") = y /\ Line(e, "YAML") = y
    <2>1. <<>> \o y = y
        OBVIOUS
    <2> QED
        BY <1>1, <2>1, Zenon DEF Line, Cr
<1>3. \A i \in 1 .. Len(y) : y[i] # "=" /\ y[i] # ":"
    BY <1>1 DEF AllBlank
<1>4. Find(trim(y), "=") = 0 /\ Find(trim(y), ":") = 0
    BY <1>3, TrimmedWithout DEF trim
<1>5. Find(daemonTrim(y), "=") = 0
    BY <1>3, TrimmedWithout DEF daemonTrim
<1> QED
    BY ONLY <1>2, <1>4, <1>5 DEF IniLine, JsonLine, YamlLine, Skips,
       DaemonLine

\* A section is no setting for the INI parser and the daemon's reader.
LEMMA IniSectionSkipped ==
    ASSUME TextAssumption, NEW e \in Entries, e.what = "section", NEW c
    PROVE  IniLine(c, Line(e, "INI")) = c
             /\ DaemonLine(c, Line(e, "INI")) = c
<1>1. PICK y \in Seq(Tokens) : y = Cr(e) /\ AllBlank(y, {"SP", "CR"})
    BY BlankParts
<1>2. PICK k \in Seq(Tokens) : k = <<"[", e.key, "]">> /\ \A i \in 1 .. Len(k) : k[i] # "="
    <2>0. "[" \in Tokens /\ "]" \in Tokens /\ e.key \in Tokens /\ e.key # "="
        BY EntryFacts DEF Tokens, Signs
    <2>1. PICK a \in Tokens, b \in Tokens, n \in Tokens :
            a = "[" /\ b = "]" /\ n = e.key /\ a # "=" /\ b # "=" /\ n # "="
        BY <2>0
    <2>2. PICK t : t = <<a, n, b>>
        OBVIOUS
    <2>3. t \in Seq(Tokens) /\ Len(t) = 3 /\ t[1] = a /\ t[2] = n /\ t[3] = b
        BY <2>2
    <2>4. \A i \in 1 .. Len(t) : i = 1 \/ i = 2 \/ i = 3
        BY <2>3
    <2>5. \A i \in 1 .. Len(t) : t[i] # "="
        BY ONLY <2>1, <2>3, <2>4
    <2>6. t = <<"[", e.key, "]">>
        BY ONLY <2>1, <2>2, Zenon
    <2> QED
        BY ONLY <2>3, <2>5, <2>6, Zenon
<1>3. PICK sep : sep = "="
    OBVIOUS
<1>4. PICK text : text = k \o y
    OBVIOUS
<1>5. text \in Seq(Tokens) /\ \A i \in 1 .. Len(text) : text[i] # sep
    <2>1. \A i \in 1 .. Len(y) : y[i] # sep
        BY <1>1, <1>3 DEF AllBlank
    <2>2. \A i \in 1 .. Len(k) : k[i] # sep
        BY <1>2, <1>3
    <2>3. /\ k \o y \in Seq(Tokens) /\ Len(k \o y) = Len(k) + Len(y)
          /\ \A i \in 1 .. Len(k) + Len(y) :
                (k \o y)[i] = IF i <= Len(k) THEN k[i] ELSE y[i - Len(k)]
        BY ConcatProperties
    <2>4. Len(k) \in Nat /\ Len(y) \in Nat
        OBVIOUS
    <2> QED
        BY ONLY <1>4, <2>1, <2>2, <2>3, <2>4
<1>6. Line(e, "INI") = text
    BY <1>1, <1>2, <1>4, Zenon DEF Line, Section, Cr
<1>7. Find(trim(text), "=") = 0 /\ Find(daemonTrim(text), "=") = 0
    BY <1>3, <1>5, TrimmedWithout DEF trim, daemonTrim
<1> QED
    BY ONLY <1>6, <1>7 DEF IniLine, Skips, DaemonLine

\* A section of a YAML or a JSON file is a key with an empty value or a brace.
LEMMA YamlSectionParsed ==
    ASSUME TextAssumption, NEW e \in Entries, e.what = "section", NEW c
    PROVE  \E v : YamlLine(c, Line(e, "YAML")) = parseKeyValue(c, <<e.key>>, v)
<1>1. PICK k \in Seq(Tokens) : k = <<e.key>>
    BY BlankParts
<1>2. PICK y \in Seq(Tokens) : y = Cr(e) /\ AllBlank(y, {"SP", "CR"})
    BY BlankParts
<1>3. PICK sep \in Tokens :
             sep = ":" /\ sep \in Signs /\ <<sep>> \in Seq(Tokens)
               /\ sep \notin {"SP", "CR"}
    <2>1. ":" \in Signs /\ ":" \notin {"SP", "CR"}
        BY DEF Signs
    <2> QED
        BY <2>1, BlankParts
<1>4. Line(e, "YAML") = Cat(<<e.key, sep>>, y)
    BY <1>2, <1>3, Zenon DEF Line, Section, Cr, Cat
<1>5. <<e.key, sep>> = Cat(k, <<sep>>)
    BY <1>1, PairCat
<1>6. LineOf(sep, <<>>, k, <<>>, <<>>, <<>>, y) = Cat(Cat(k, <<sep>>), y)
    <2>1. <<>> \in Seq(Tokens)
        OBVIOUS
    <2>2. Cat(k, <<>>) = k /\ Cat(<<>>, <<>>) = <<>> /\ Cat(k, <<sep>>) \in Seq(Tokens)
        BY <1>3, <2>1, CatProperties
    <2>3. Cat(Cat(k, <<sep>>), <<>>) = Cat(k, <<sep>>)
            /\ Cat(<<>>, Cat(k, <<sep>>)) = Cat(k, <<sep>>)
        BY <2>2, CatProperties
    <2>4. LineOf(sep, <<>>, k, <<>>, <<>>, <<>>, y)
            = Cat(Cat(<<>>, Cat(Cat(Cat(k, <<>>), <<sep>>), Cat(<<>>, <<>>))), y)
        BY ONLY Zenon DEF LineOf, Wrapped, Keyed, Cat
    <2> QED
        BY ONLY <2>2, <2>3, <2>4, Zenon
<1>7. Parts(Tokens, {"SP", "CR"}, sep, <<>>, k, <<>>, <<>>, <<>>, y)
        /\ Solid(k, {"SP", "CR"}) /\ k[1] = e.key
    <2>1. <<>> \in Seq(Tokens) /\ AllBlank(<<>>, {"SP", "CR"}) /\ Solid(<<>>, {"SP", "CR"})
        BY BlankParts DEF Solid
    <2>2. /\ k # <<>> /\ k[1] \notin {"SP", "CR"} /\ Solid(k, {"SP", "CR"}) /\ k[1] = e.key
          /\ \A i \in 1 .. Len(k) : k[i] # sep
        BY <1>1, <1>3, KeyParts
    <2> QED
        BY <1>2, <1>3, <2>1, <2>2 DEF Parts
<1>8. PICK line : line = trim(Line(e, "YAML"))
    OBVIOUS
<1>9. line # <<>> /\ line[1] = e.key /\ Find(line, ":") # 0
        /\ KeyText(line, ":") = <<e.key>>
    BY ONLY <1>1, <1>3, <1>4, <1>5, <1>6, <1>7, <1>8, LineParts
<1>10. e.key \notin {"#"}
    BY EntryFacts DEF Signs
<1>11. YamlLine(c, Line(e, "YAML"))
         = parseKeyValue(c, <<e.key>>, ValueText(line, ":"))
    BY ONLY <1>8, <1>9, <1>10 DEF YamlLine, Skips
<1> QED
    BY <1>11

\* The JSON parser takes a section for a setting, as the YAML parser does.
LEMMA JsonSectionParsed ==
    ASSUME TextAssumption, NEW e \in Entries, e.what = "section", NEW c
    PROVE  \E v : JsonLine(c, Line(e, "JSON")) = parseKeyValue(c, <<e.key>>, v)
<1>1. PICK k \in Seq(Tokens) : k = <<Quote, e.key, Quote>>
    BY QuotedKey
<1>2. PICK y \in Seq(Tokens) : y = Cr(e) /\ AllBlank(y, {"SP", "CR"})
    BY BlankParts
<1>3. PICK sep \in Tokens :
             sep = ":" /\ sep \in Signs /\ <<sep>> \in Seq(Tokens)
               /\ sep \notin {"SP", "CR"}
    <2>1. ":" \in Signs /\ ":" \notin {"SP", "CR"}
        BY DEF Signs
    <2> QED
        BY <2>1, BlankParts
<1>4. PICK r \in Seq(Tokens) : r = <<"SP">> /\ AllBlank(r, {"SP", "CR"})
    <2>1. "SP" \in Signs
        BY DEF Signs
    <2> QED
        BY <2>1, BlankParts
<1>5. PICK v \in Seq(Tokens) : v = <<"{">> /\ Solid(v, {"SP", "CR"})
    <2>1. "{" \in Signs /\ "{" \notin {"SP", "CR"}
        BY DEF Signs
    <2>2. <<"{">> \in Seq(Tokens) /\ Len(<<"{">>) = 1 /\ <<"{">>[1] = "{"
        BY <2>1, BlankParts
    <2> QED
        BY <2>1, <2>2 DEF Solid
<1>6. <<Quote, e.key, Quote, ":", "SP", "{">> = Cat(Cat(k, <<sep>>), Cat(r, v))
    <2>1. Cat(r, v) = <<"SP", "{">>
        BY <1>4, <1>5, PairCat
    <2>2. PICK q, n, b, o : q = Quote /\ n = e.key /\ b = "SP" /\ o = "{"
        OBVIOUS
    <2>3. <<q, n, q, sep, b, o>> = (<<q, n, q>> \o <<sep>>) \o <<b, o>>
        BY ONLY TRUE
    <2> QED
        BY ONLY <1>1, <1>3, <2>1, <2>2, <2>3, Zenon DEF Cat
<1>7. Line(e, "JSON") = Cat(Cat(Cat(k, <<sep>>), Cat(r, v)), y)
    <2>1. Line(e, "JSON") = Cat(<<Quote, e.key, Quote, ":", "SP", "{">>, y)
        BY <1>2, Zenon DEF Line, Section, Cr, Cat
    <2> QED
        BY ONLY <1>6, <2>1, Zenon
<1>8. LineOf(sep, <<>>, k, <<>>, r, v, y) = Cat(Cat(Cat(k, <<sep>>), Cat(r, v)), y)
    <2>1. Cat(k, <<>>) = k /\ Cat(k, <<sep>>) \in Seq(Tokens)
            /\ Cat(r, v) \in Seq(Tokens)
        BY <1>3, CatProperties
    <2>2. Cat(Cat(k, <<sep>>), Cat(r, v)) \in Seq(Tokens)
        BY <2>1, CatProperties
    <2>3. Cat(<<>>, Cat(Cat(k, <<sep>>), Cat(r, v))) = Cat(Cat(k, <<sep>>), Cat(r, v))
        BY <2>2, CatProperties
    <2>4. LineOf(sep, <<>>, k, <<>>, r, v, y)
            = Cat(Cat(<<>>, Cat(Cat(Cat(k, <<>>), <<sep>>), Cat(r, v))), y)
        BY ONLY Zenon DEF LineOf, Wrapped, Keyed, Cat
    <2> QED
        BY ONLY <2>1, <2>3, <2>4, Zenon
<1>9. Parts(Tokens, {"SP", "CR"}, sep, <<>>, k, <<>>, r, v, y) /\ Solid(k, {"SP", "CR"})
        /\ k[1] = Quote
    <2>1. <<>> \in Seq(Tokens) /\ AllBlank(<<>>, {"SP", "CR"})
        BY BlankParts
    <2>2. /\ k # <<>> /\ k[1] = Quote /\ Solid(k, {"SP", "CR"})
          /\ Quote \notin {"SP", "CR"}
          /\ \A i \in 1 .. Len(k) : k[i] # sep
        BY <1>1, <1>3, QuotedKey
    <2> QED
        BY <1>2, <1>3, <1>4, <1>5, <2>1, <2>2 DEF Parts
<1>10. PICK line : line = trim(Line(e, "JSON"))
    OBVIOUS
<1>11. line # <<>> /\ line[1] = Quote /\ Find(line, ":") # 0
         /\ KeyText(line, ":") = k
    BY ONLY <1>3, <1>7, <1>8, <1>9, <1>10, LineParts
<1>12. unquote(k) = <<e.key>> /\ Quote \notin {"/", "*"}
    BY <1>1, QuotedKey
<1>13. JsonLine(c, Line(e, "JSON"))
         = parseKeyValue(c, <<e.key>>, CleanJson(ValueText(line, ":")))
    BY ONLY <1>10, <1>11, <1>12 DEF JsonLine, Skips
<1> QED
    BY <1>13

-----------------------------------------------------------------------------
(* ConfigText: the daemon's reader *)

\* What the daemon's reader takes from a line of key=value.
LEMMA DaemonParts ==
    ASSUME NEW sep, sep = "=", NEW x, NEW k, NEW s, NEW w, NEW text, NEW c,
           Parts(Tokens, {"SP"}, sep, x, k, s, s, w, <<>>),
           text = LineOf(sep, x, k, s, s, w, <<>>)
    PROVE  /\ Find(daemonTrim(text), "=") # 0
           /\ Before(daemonTrim(text), "=") = Cat(k, s)
           /\ After(daemonTrim(text), "=") = Kept(s, w)
           /\ daemonTrim(text)[1] = k[1]
           /\ daemonTrim(text) = Keyed(k, s, sep, Kept(s, w))
           /\ daemonTrim(text) \in Seq(Tokens)
           /\ \/ DaemonLine(c, text) = c
              \/ DaemonLine(c, text)
                   = daemonKeyValue(c, Cat(k, s), unquote(Kept(s, w)))
<1>1. LET line == Trimmed(LineOf(sep, x, k, s, s, w, <<>>), {"SP"})
      IN  /\ line \in Seq(Tokens) /\ line # <<>> /\ line[1] = k[1]
          /\ line = Keyed(k, s, sep, Kept(s, w))
          /\ Find(line, sep) # 0
          /\ Before(line, sep) = Cat(k, s) /\ After(line, sep) = Kept(s, w)
    <2>1. Parts(Tokens, {"SP"}, sep, x, k, s, s, w, <<>>)
        OBVIOUS
    <2>2. PICK blanks : blanks = {"SP"}
        OBVIOUS
    <2>3. Parts(Tokens, blanks, sep, x, k, s, s, w, <<>>)
        BY <2>1, <2>2
    <2>4. LET line == Trimmed(LineOf(sep, x, k, s, s, w, <<>>), blanks)
          IN  /\ line \in Seq(Tokens) /\ line # <<>> /\ line[1] = k[1]
              /\ line = Keyed(k, s, sep, Kept(s, w))
              /\ Find(line, sep) # 0
              /\ Before(line, sep) = Cat(k, s) /\ After(line, sep) = Kept(s, w)
        BY ONLY <2>3, KeyLine
    <2> QED
        BY ONLY <2>2, <2>4, Zenon
<1>2. PICK line : line = daemonTrim(text)
    OBVIOUS
<1>3. /\ line \in Seq(Tokens) /\ line # <<>> /\ line[1] = k[1]
      /\ line = Keyed(k, s, sep, Kept(s, w))
      /\ Find(line, "=") # 0 /\ Before(line, "=") = Cat(k, s)
      /\ After(line, "=") = Kept(s, w)
    <2>1. line = Trimmed(LineOf(sep, x, k, s, s, w, <<>>), {"SP"})
        BY ONLY <1>2, text = LineOf(sep, x, k, s, s, w, <<>>), Zenon DEF daemonTrim
    <2> QED
        BY ONLY <1>1, <2>1, sep = "=", Zenon
<1>4. \/ DaemonLine(c, text) = c
      \/ DaemonLine(c, text)
           = daemonKeyValue(c, Before(line, "="),
             unquote(After(line, "=")))
    BY ONLY <1>2, Zenon DEF DaemonLine
<1> QED
    BY ONLY <1>2, <1>3, <1>4, Zenon

\* The value of an INI line for the daemon, whose blanks are not the line's end.
LEMMA DaemonValue ==
    ASSUME TextAssumption, NEW e \in Entries
    PROVE  LET w == Cat(Value(e, "INI"), Cr(e))
           IN  /\ w \in Seq(Tokens) /\ Solid(w, {"SP"})
               /\ \/ w = Value(e, "INI")
                  \/ e.cr /\ w = Cat(Value(e, "INI"), <<"CR">>)
                          /\ Last(w) = "CR" /\ w # <<>>
<1>1. PICK v \in Seq(Tokens) : v = Value(e, "INI") /\ Solid(v, {"SP", "CR"})
    BY ValueWritten
<1>2. Solid(v, {"SP"})
    BY <1>1 DEF Solid
<1>3. CASE ~e.cr
    <2>1. Cr(e) = <<>>
        BY <1>3 DEF Cr, When
    <2>2. Cat(v, <<>>) = v
        BY CatProperties
    <2> QED
        BY <1>1, <1>2, <2>1, <2>2
<1>4. CASE e.cr
    <2>1. Cr(e) = <<"CR">>
        BY <1>4, Zenon DEF Cr, When
    <2>2. PICK t \in Tokens : t = "CR" /\ t \notin {"SP"}
        BY DEF Tokens, Signs
    <2>3. LET u == v \o <<t>>
          IN  /\ u \in Seq(Tokens) /\ u # <<>> /\ Len(u) = Len(v) + 1 /\ Len(v) \in Nat
              /\ \A i \in 1 .. Len(v) : u[i] = v[i]
              /\ u[Len(v) + 1] = t /\ Last(u) = t
        BY Appended
    <2>4. PICK u \in Seq(Tokens) : u = v \o <<t>>
        BY <2>3
    <2>5. u[Len(u)] \notin {"SP"} /\ u[1] \notin {"SP"}
        <3>1. CASE v = <<>>
            <4>1. Len(v) + 1 = 1
                BY <3>1
            <4> QED
                BY ONLY <2>2, <2>3, <2>4, <4>1
        <3>2. CASE v # <<>>
            <4>1. 1 \in 1 .. Len(v) /\ v[1] \notin {"SP"}
                BY <1>2, <3>2 DEF Solid
            <4> QED
                BY ONLY <2>2, <2>3, <2>4, <4>1
        <3> QED
            BY <3>1, <3>2
    <2>6. Solid(u, {"SP"})
        BY <2>5 DEF Solid
    <2>7. u = Cat(v, <<"CR">>)
        BY ONLY <2>2, <2>4, Zenon DEF Cat
    <2>8. u # <<>> /\ Last(u) = "CR"
        BY ONLY <2>2, <2>3, <2>4
    <2> QED
        BY ONLY <1>1, <1>4, <2>1, <2>6, <2>7, <2>8, u \in Seq(Tokens), Zenon
<1> QED
    BY <1>3, <1>4, EntryFacts

\* A line of key=value as the daemon's reader splits it.
LEMMA DaemonSetting ==
    ASSUME TextAssumption, NEW e \in Entries, e.what = "setting", NEW c
    PROVE  LET w == Cat(Value(e, "INI"), Cr(e))
           IN  /\ Parts(Tokens, {"SP"}, "=", <<>>, <<e.key>>, Sp(e), Sp(e), w, <<>>)
               /\ Line(e, "INI") = LineOf("=", <<>>, <<e.key>>, Sp(e), Sp(e), w, <<>>)
<1>1. PICK k \in Seq(Tokens) : k = <<e.key>>
    BY BlankParts
<1>2. PICK s \in Seq(Tokens) : s = Sp(e) /\ AllBlank(s, {"SP"})
    BY BlankParts
<1>3. PICK v \in Seq(Tokens) : v = Value(e, "INI")
    BY ValueWritten
<1>4. PICK y \in Seq(Tokens) : y = Cr(e)
    BY BlankParts
<1>5. PICK w \in Seq(Tokens) : w = Cat(v, y) /\ Solid(w, {"SP"})
    BY <1>3, <1>4, DaemonValue
<1>6. PICK sep \in Tokens :
             sep = "=" /\ sep \in Signs /\ <<sep>> \in Seq(Tokens) /\ sep \notin {"SP"}
    <2>1. "=" \in Signs /\ "=" \notin {"SP"}
        BY DEF Signs
    <2> QED
        BY <2>1, BlankParts
<1>7. Line(e, "INI") = Cat(Cat(Cat(Cat(Cat(k, s), <<"=">>), s), v), y)
    BY <1>1, <1>2, <1>3, <1>4, Zenon DEF Line, Setting, Sp, Cr, Cat
<1>8. Cat(Cat(Cat(Cat(Cat(k, s), <<sep>>), s), v), y)
        = LineOf(sep, <<>>, k, s, s, Cat(v, y), <<>>)
    BY <1>6, IniShape
<1>9. Parts(Tokens, {"SP"}, sep, <<>>, k, s, s, w, <<>>)
    <2>1. <<>> \in Seq(Tokens) /\ AllBlank(<<>>, {"SP"})
        BY BlankParts
    <2>2. k # <<>> /\ k[1] \notin {"SP"} /\ \A i \in 1 .. Len(k) : k[i] # sep
        BY <1>1, <1>6, KeyParts
    <2> QED
        BY <1>2, <1>5, <1>6, <2>1, <2>2 DEF Parts
<1> QED
    BY ONLY <1>1, <1>2, <1>3, <1>4, <1>5, <1>6, <1>7, <1>8, <1>9, Zenon

\* A comment or a line for another setting leaves a setting of the daemon as it is.
LEMMA DaemonKeeps ==
    ASSUME TextAssumption, NEW e \in Entries, NEW s \in SettingNames, ~Assigns(e, s),
           NEW c
    PROVE  DaemonLine(c, Line(e, "INI"))[s] = c[s]
<1>1. CASE e.what = "setting"
    <2>1. PICK w : w = Cat(Value(e, "INI"), Cr(e))
        OBVIOUS
    <2>2. PICK sep : sep = "="
        OBVIOUS
    <2>3. /\ Parts(Tokens, {"SP"}, sep, <<>>, <<e.key>>, Sp(e), Sp(e), w, <<>>)
          /\ Line(e, "INI") = LineOf(sep, <<>>, <<e.key>>, Sp(e), Sp(e), w, <<>>)
        BY ONLY <1>1, <2>1, <2>2, TextAssumption, e \in Entries, DaemonSetting, Zenon
    <2>4. \/ DaemonLine(c, Line(e, "INI")) = c
          \/ DaemonLine(c, Line(e, "INI"))
                = daemonKeyValue(c, Cat(<<e.key>>, Sp(e)), unquote(Kept(Sp(e), w)))
        BY ONLY <2>2, <2>3, DaemonParts
    <2>5. s \notin Named(Cat(<<e.key>>, Sp(e)))
        <3>1. CASE e.spaced
            <4>1. Sp(e) = <<"SP">>
                BY <3>1, Zenon DEF Sp, When
            <4>2. Cat(<<e.key>>, <<"SP">>) = <<e.key, "SP">>
                BY PairCat
            <4>3. "SP" \in Tokens /\ e.key \in Tokens
                BY EntryFacts DEF Tokens, Signs
            <4>4. PICK t \in Tokens, n \in Tokens : t = "SP" /\ n = e.key
                BY <4>3
            <4>5. <<n, t>> \in Seq(Tokens) /\ Len(<<n, t>>) # 1
                OBVIOUS
            <4>6. Named(<<n, t>>) = {}
                BY <4>5, NamedByWord
            <4> QED
                BY ONLY <4>1, <4>2, <4>4, <4>6
        <3>2. CASE ~e.spaced
            <4>1. Sp(e) = <<>>
                BY <3>2, Zenon DEF Sp, When
            <4>2. Cat(<<e.key>>, <<>>) = <<e.key>>
                BY BlankParts, CatProperties
            <4> QED
                BY <1>1, <4>1, <4>2 DEF Assigns
        <3> QED
            BY <3>1, <3>2, EntryFacts
    <2> QED
        BY <2>4, <2>5, NotNamed
<1>2. CASE e.what = "comment"
    <2>1. PICK n \in Tokens : n = e.key /\ n \notin Signs /\ <<n>> \in Seq(Tokens)
        BY EntryFacts, BlankParts
    <2>2. PICK z \in Seq(Tokens) : z = Sp(e) /\ AllBlank(z, {"SP"})
        BY BlankParts
    <2>3. PICK v \in Seq(Tokens) : v = Value(e, "INI")
        BY ValueWritten
    <2>4. PICK y \in Seq(Tokens) : y = Cr(e)
        BY BlankParts
    <2>5. PICK w \in Seq(Tokens) : w = Cat(v, y) /\ Solid(w, {"SP"})
        BY <2>3, <2>4, DaemonValue
    <2>6. PICK sep \in Tokens :
                 sep = "=" /\ sep \in Signs /\ <<sep>> \in Seq(Tokens)
                   /\ sep \notin {"SP"}
        <3>1. "=" \in Signs /\ "=" \notin {"SP"}
            BY DEF Signs
        <3> QED
            BY <3>1, BlankParts
    <2>7. PICK mark \in Tokens :
                 mark = "#" /\ <<mark>> \in Seq(Tokens) /\ mark \notin {"SP", "="}
        <3>1. "#" \in Signs /\ "#" \notin {"SP", "="}
            BY DEF Signs
        <3>2. "#" \in Tokens /\ <<"#">> \in Seq(Tokens)
            BY <3>1, BlankParts
        <3> QED
            BY <3>1, <3>2
    <2>8. Line(e, "INI")
            = Cat(Cat(Cat(z, <<"#">>), Cat(Cat(Cat(Cat(<<n>>, z), <<"=">>), z), v)), y)
        BY <1>2, <2>1, <2>2, <2>3, <2>4, Zenon DEF Line, Comment, Setting, Sp, Cr,
           Cat
    <2>9. Cat(Cat(Cat(z, <<mark>>), Cat(Cat(Cat(Cat(<<n>>, z), <<sep>>), z), v)), y)
            = LineOf(sep, z, <<mark, n>>, z, z, Cat(v, y), <<>>)
        BY <2>1, <2>6, <2>7, CommentShape
    <2>10. PICK k \in Seq(Tokens) : k = <<mark, n>>
        <3>1. <<mark, n>> \in Seq(Tokens)
            OBVIOUS
        <3> QED
            BY <3>1
    <2>11. Line(e, "INI") = LineOf(sep, z, k, z, z, w, <<>>)
        BY ONLY <2>5, <2>6, <2>7, <2>8, <2>9, <2>10, Zenon
    <2>12. Len(k) = 2 /\ k[1] = mark /\ k[2] = n /\ k # <<>>
        BY <2>10
    <2>13. \A i \in 1 .. Len(k) : k[i] # sep
        <3>1. n # sep /\ mark # sep
            BY <2>1, <2>6, <2>7
        <3>2. \A i \in 1 .. Len(k) : i = 1 \/ i = 2
            BY ONLY <2>12
        <3> QED
            BY ONLY <2>12, <3>1, <3>2
    <2>14. Parts(Tokens, {"SP"}, sep, z, k, z, z, w, <<>>)
        <3>1. <<>> \in Seq(Tokens) /\ AllBlank(<<>>, {"SP"})
            BY BlankParts
        <3>2. k[1] \notin {"SP"}
            BY <2>7, <2>12
        <3> QED
            BY <2>2, <2>5, <2>6, <2>12, <2>13, <3>1, <3>2 DEF Parts
    <2>15. \/ DaemonLine(c, Line(e, "INI")) = c
           \/ DaemonLine(c, Line(e, "INI"))
                = daemonKeyValue(c, Cat(k, z), unquote(Kept(z, w)))
        <3>1. sep = "="
            BY <2>6
        <3> QED
            BY ONLY <2>11, <2>14, <3>1, DaemonParts
    <2>16. Named(Cat(k, z)) = {}
        <3>1. PICK u \in Seq(Tokens) : u = Cat(k, z)
            BY CatProperties
        <3>2. Cat(k, z) = k \o z /\ Len(k \o z) = Len(k) + Len(z) /\ Len(z) \in Nat
            BY ConcatProperties DEF Cat
        <3>3. Len(u) # 1
            BY ONLY <2>12, <3>1, <3>2
        <3> QED
            BY <3>1, <3>3, NamedByWord
    <2>17. s \in SettingNames /\ s \notin Named(Cat(k, z))
        BY ONLY <2>16, s \in SettingNames, Zenon
    <2>18. daemonKeyValue(c, Cat(k, z), unquote(Kept(z, w)))[s] = c[s]
        BY ONLY <2>17, NotNamed
    <2> QED
        BY ONLY <2>15, <2>18, Zenon
<1>3. CASE e.what = "section"
    BY <1>3, IniSectionSkipped
<1>4. CASE e.what = "blank"
    BY <1>4, BlankSkipped
<1> QED
    BY <1>1, <1>2, <1>3, <1>4, EntryFacts

\* The kind of a setting that a line assigns is the kind its key says.
LEMMA AssignedKind ==
    ASSUME TextAssumption, NEW e \in Entries, NEW s \in SettingNames, Assigns(e, s),
           Quotable(e)
    PROVE  Kind[s] \notin {"port", "stratum"}
<1>1. PICK x \in DOMAIN Keys : tolower(<<e.key>>) = <<x>> /\ s = Keys[x]
    BY DEF Assigns, Named
<1>2. e.key \in DOMAIN Keys /\ e.key \notin DOMAIN Lower
    BY DEF Quotable, TextAssumption
<1>3. tolower(<<e.key>>) = <<e.key>>
    <2>1. DOMAIN <<e.key>> = {1} /\ <<e.key>>[1] = e.key
        OBVIOUS
    <2>2. tolower(<<e.key>>) = [i \in {1} |-> e.key]
        BY <1>2, <2>1 DEF tolower
    <2>3. <<e.key>> = [i \in {1} |-> e.key]
        OBVIOUS
    <2> QED
        BY <2>2, <2>3
<1>4. <<e.key>>[1] = e.key /\ <<x>>[1] = x
    OBVIOUS
<1>5. x = e.key
    BY <1>1, <1>3, <1>4
<1> QED
    BY <1>1, <1>5 DEF Quotable

\* What a compact line assigns, in the daemon.
LEMMA DaemonAssigned ==
    ASSUME TextAssumption, NEW e \in Entries, NEW s \in SettingNames, Assigns(e, s),
           Compact(e, s), NEW c
    PROVE  DaemonLine(c, Line(e, "INI"))[s]
             = Converted(s, e.value, c[s], stringToBool(e.value),
               parseList(e.value))
<1>1. PICK w \in Seq(Tokens) : w = Cat(Value(e, "INI"), Cr(e))
    BY DaemonValue
<1>2. PICK sep : sep = "="
    OBVIOUS
<1>3. Sp(e) = <<>>
    BY Zenon DEF Compact, Sp, When
<1>4. PICK text : text = Line(e, "INI")
    OBVIOUS
<1>5. PICK k \in Seq(Tokens) : k = <<e.key>> /\ k[1] = e.key
    BY BlankParts, KeyParts
<1>6. /\ Parts(Tokens, {"SP"}, sep, <<>>, k, <<>>, <<>>, w, <<>>)
      /\ text = LineOf(sep, <<>>, k, <<>>, <<>>, w, <<>>)
    <2>1. e.what = "setting"
        BY DEF Assigns
    <2> QED
        BY ONLY <1>1, <1>2, <1>3, <1>4, <1>5, <2>1, TextAssumption, e \in Entries,
           DaemonSetting, Zenon
<1>7. /\ Find(daemonTrim(text), "=") # 0
      /\ Before(daemonTrim(text), "=") = Cat(k, <<>>)
      /\ After(daemonTrim(text), "=") = Kept(<<>>, w) /\ daemonTrim(text)[1] = k[1]
      /\ daemonTrim(text) = Keyed(k, <<>>, sep, Kept(<<>>, w))
      /\ daemonTrim(text) \in Seq(Tokens)
    <2>1. PICK blanks : blanks = {"SP"}
        OBVIOUS
    <2>2. PICK nil : nil = <<>>
        OBVIOUS
    <2>3. Parts(Tokens, blanks, sep, nil, k, nil, nil, w, nil)
        BY ONLY <1>6, <2>1, <2>2, Zenon
    <2>4. LET line == Trimmed(LineOf(sep, nil, k, nil, nil, w, nil), blanks)
          IN  /\ line \in Seq(Tokens) /\ line # <<>> /\ line[1] = k[1]
              /\ line = Keyed(k, nil, sep, Kept(nil, w))
              /\ Find(line, sep) # 0
              /\ Before(line, sep) = Cat(k, nil) /\ After(line, sep) = Kept(nil, w)
        BY ONLY <2>3, KeyLine
    <2>5. daemonTrim(text) = Trimmed(LineOf(sep, nil, k, nil, nil, w, nil), blanks)
        BY ONLY <1>6, <2>1, <2>2, Zenon DEF daemonTrim
    <2> QED
        BY ONLY <1>2, <2>2, <2>4, <2>5, Zenon
<1>8. Kept(<<>>, w) = w /\ Cat(<<>>, w) = w /\ Cat(k, <<>>) = k
    <2>1. Cat(<<>>, w) = w /\ Cat(k, <<>>) = k
        BY CatProperties
    <2>2. Kept(<<>>, w) = w
        BY ONLY <2>1, Zenon DEF Kept, Cat
    <2> QED
        BY <2>1, <2>2
<1>9. PICK line \in Seq(Tokens) : line = daemonTrim(text)
    BY <1>7
<1>10. text = line
    <2>1. line = Keyed(k, <<>>, sep, w)
        BY ONLY <1>7, <1>8, <1>9, Zenon
    <2>2. text = Wrapped(<<>>, line, <<>>)
        BY ONLY <1>6, <1>8, <2>1, Zenon DEF LineOf
    <2>3. Cat(<<>>, line) = line /\ Cat(line, <<>>) = line
        BY CatProperties
    <2> QED
        BY ONLY <2>2, <2>3, Zenon DEF Wrapped, Cat
<1>11. line[1] \notin {"#", ";", "["} /\ line # <<>>
    <2>1. e.key \notin {"#", ";", "["}
        BY EntryFacts DEF Signs
    <2>2. line # <<>>
        <3>1. LET l == Trimmed(LineOf(sep, <<>>, k, <<>>, <<>>, w, <<>>), {"SP"})
              IN  l # <<>>
            BY ONLY <1>6, KeyLine
        <3> QED
            BY ONLY <1>6, <1>9, <3>1, Zenon DEF daemonTrim
    <2> QED
        BY ONLY <1>5, <1>7, <1>9, <2>1, <2>2
<1>12. DaemonLine(c, text) = daemonKeyValue(c, k, unquote(w))
    BY ONLY <1>7, <1>8, <1>9, <1>10, <1>11 DEF DaemonLine
<1>13. unquote(w) = e.value \/ (e.cr /\ unquote(w) = e.value \o <<"CR">>)
    <2>1. CASE w = Value(e, "INI")
        BY <2>1, ValueWritten
    <2>2. CASE e.cr /\ w = Cat(Value(e, "INI"), <<"CR">>) /\ Last(w) = "CR" /\ w # <<>>
        <3>1. Kind[s] \in {"port", "stratum"}
            BY <2>2 DEF Compact
        <3>2. ~Quotable(e)
            BY <3>1, AssignedKind
        <3>3. Value(e, "INI") = e.value
            BY <3>2 DEF Value
        <3>4. w = e.value \o <<"CR">>
            BY ONLY <2>2, <3>3, Zenon DEF Cat
        <3>5. unquote(w) = w
            <4>1. "CR" # Quote
                BY DEF Quote
            <4>2. w[Len(w)] # Quote
                BY ONLY <2>2, <4>1 DEF Last
            <4> QED
                BY <4>2, NotUnquoted
        <3> QED
            BY ONLY <2>2, <3>4, <3>5, Zenon
    <2> QED
        BY <1>1, <2>1, <2>2, DaemonValue
<1>14. daemonKeyValue(c, k, unquote(w))[s]
         = Converted(s, unquote(w), c[s], daemonBool(unquote(w)),
           daemonList(unquote(w)))
    <2>1. s \in Named(k)
        BY <1>5 DEF Assigns
    <2> QED
        BY <2>1 DEF daemonKeyValue
<1>15. Converted(s, unquote(w), c[s], daemonBool(unquote(w)),
         daemonList(unquote(w)))
         = Converted(s, e.value, c[s], stringToBool(e.value), parseList(e.value))
    BY <1>13, DaemonValueAgrees
<1> QED
    BY ONLY <1>4, <1>12, <1>14, <1>15, Zenon

-----------------------------------------------------------------------------
(* ConfigText: the readers agree *)

\* What a line that is not for a setting does to it in each parser: nothing.
LEMMA ParsersKeep ==
    ASSUME TextAssumption, NEW e \in Entries, NEW s \in SettingNames,
           (~Assigns(e, s) /\ ~Heads(e, s)) \/ s \in DaemonOnly, NEW c
    PROVE  /\ IniLine(c, Line(e, "INI"))[s] = c[s]
           /\ JsonLine(c, Line(e, "JSON"))[s] = c[s]
           /\ YamlLine(c, Line(e, "YAML"))[s] = c[s]
<1>1. ASSUME NEW v, e.what \in {"setting", "section"}
      PROVE  parseKeyValue(c, <<e.key>>, v)[s] = c[s]
    BY <1>1 DEF Assigns, Heads, parseKeyValue
<1>2. CASE e.what = "setting"
    BY <1>1, <1>2, IniParsed, JsonParsed, YamlParsed
<1>3. CASE e.what = "section"
    <2>1. PICK v : JsonLine(c, Line(e, "JSON")) = parseKeyValue(c, <<e.key>>, v)
        BY <1>3, JsonSectionParsed
    <2>2. PICK u : YamlLine(c, Line(e, "YAML")) = parseKeyValue(c, <<e.key>>, u)
        BY <1>3, YamlSectionParsed
    <2> QED
        BY <1>1, <1>3, <2>1, <2>2, IniSectionSkipped
<1>4. CASE e.what = "comment"
    BY <1>4, CommentSkipped
<1>5. CASE e.what = "blank"
    BY <1>5, BlankSkipped
<1> QED
    BY <1>2, <1>3, <1>4, <1>5, EntryFacts

\* What a line assigns in each parser: the value as the author meant it, in JSON with quotes
\* and in the other formats without.
LEMMA ParsersAssign ==
    ASSUME TextAssumption, NEW e \in Entries, NEW s \in SettingNames, s \notin DaemonOnly,
           Assigns(e, s), ~CommaLost(e, s), NEW c
    PROVE  LET value == Converted(s, e.value, c[s], stringToBool(e.value),
             parseList(e.value))
           IN  /\ JsonLine(c, Line(e, "JSON"))[s] = value
               /\ ~(e.quoted /\ Quotable(e)) =>
                     /\ IniLine(c, Line(e, "INI"))[s] = value
                     /\ YamlLine(c, Line(e, "YAML"))[s] = value
<1>1. e.what = "setting" /\ s \in Named(<<e.key>>)
    BY DEF Assigns
<1>2. ASSUME NEW v
      PROVE  parseKeyValue(c, <<e.key>>, v)[s]
               = Converted(s, v, c[s], stringToBool(v), parseList(v))
    BY <1>1 DEF parseKeyValue
<1>3. JsonLine(c, Line(e, "JSON"))[s]
        = Converted(s, e.value, c[s], stringToBool(e.value), parseList(e.value))
    BY <1>1, <1>2, JsonParsed, JsonValueAgrees
<1>4. ASSUME ~(e.quoted /\ Quotable(e))
      PROVE  Value(e, "INI") = e.value /\ Value(e, "YAML") = e.value
    BY <1>4 DEF Value
<1> QED
    BY <1>1, <1>2, <1>3, <1>4, IniParsed, YamlParsed

\* What a line does to each reader.
LEMMA ReadLineStep ==
    ASSUME NEW e \in Entries, ReadLine(e)
    PROVE  /\ parser'["conf"] = IniLine(parser["conf"], Line(e, "INI"))
           /\ parser'["json"] = JsonLine(parser["json"], Line(e, "JSON"))
           /\ parser'["yaml"] = YamlLine(parser["yaml"], Line(e, "YAML"))
           /\ daemon'["conf"] = DaemonLine(daemon["conf"], Line(e, "INI"))
<1>1. /\ parser' = [ext \in Extensions |->
                       parserLine(ext, parser[ext], Line(e, TextFormat[ext]))]
      /\ daemon' = [ext \in Extensions |->
                       DaemonLine(daemon[ext], Line(e, TextFormat[ext]))]
    BY Zenon DEF ReadLine
<1>2. "conf" \in Extensions /\ "json" \in Extensions /\ "yaml" \in Extensions
    BY DEF Extensions
<1>3. TextFormat["conf"] = "INI" /\ TextFormat["json"] = "JSON"
        /\ TextFormat["yaml"] = "YAML"
    BY DEF TextFormat
<1>4. /\ detectFormat("conf") = "INI" /\ detectFormat("json") = "JSON"
      /\ detectFormat("yaml") = "YAML"
    BY DEF detectFormat
<1>5. ASSUME NEW c, NEW text
      PROVE  /\ parserLine("conf", c, text) = IniLine(c, text)
             /\ parserLine("json", c, text) = JsonLine(c, text)
             /\ parserLine("yaml", c, text) = YamlLine(c, text)
    BY <1>4 DEF parserLine
<1>6. /\ parser'["conf"]
           = parserLine("conf", parser["conf"], Line(e, TextFormat["conf"]))
      /\ parser'["json"]
           = parserLine("json", parser["json"], Line(e, TextFormat["json"]))
      /\ parser'["yaml"]
           = parserLine("yaml", parser["yaml"], Line(e, TextFormat["yaml"]))
      /\ daemon'["conf"]
           = DaemonLine(daemon["conf"], Line(e, TextFormat["conf"]))
    BY ONLY <1>1, <1>2, Zenon
<1> QED
    BY ONLY <1>3, <1>5, <1>6, Zenon

\* The lines read so far stay what they were, with the new one after them.
LEMMA LinesGrow ==
    ASSUME NEW e \in Entries, ReadLine(e), lines \in Seq(Entries)
    PROVE  /\ lines' \in Seq(Entries)
           /\ \A i \in DOMAIN lines : i \in DOMAIN lines' /\ lines'[i] = lines[i]
           /\ \E i \in DOMAIN lines' : lines'[i] = e
<1>1. lines' = Append(lines, e)
    BY DEF ReadLine
<1>2. Len(lines') = Len(lines) + 1 /\ Len(lines) \in Nat /\ lines'[Len(lines) + 1] = e
    BY <1>1
<1>3. \A i \in DOMAIN lines : i \in DOMAIN lines' /\ lines'[i] = lines[i]
    BY <1>1
<1>4. Len(lines) + 1 \in DOMAIN lines'
    BY <1>1
<1> QED
    BY <1>1, <1>2, <1>3, <1>4

\* A line that the formats do not read alike.
Differs(e, s) ==
    \/ Heads(e, s)
    \/ Assigns(e, s) /\ ((e.quoted /\ Quotable(e)) \/ CommaLost(e, s))

\* A line that the daemon may not take for what the JSON parser takes it for.
Strays(e, s) ==
    \/ Heads(e, s)
    \/ Assigns(e, s) /\ (~Compact(e, s) \/ CommaLost(e, s))

\* FormatsAgree, as what the lines read so far allow.
LEMMA FormatsAgreeByLine ==
    FormatsAgree <=>
        \A s \in SettingNames :
            \/ parser["conf"][s] = parser["json"][s] /\ parser["json"][s] = parser["yaml"][s]
            \/ \E i \in DOMAIN lines : Differs(lines[i], s)
BY Zenon DEF FormatsAgree, Differs

\* DaemonReadsCompact, as what the lines read so far allow.
LEMMA DaemonReadsCompactByLine ==
    DaemonReadsCompact <=>
        \A s \in SettingNames \ DaemonOnly :
            \/ daemon["conf"][s] = parser["json"][s]
            \/ \E i \in DOMAIN lines : Strays(lines[i], s)
BY Zenon DEF DaemonReadsCompact, Strays

\* The parsers of the three formats make the same of a line they read alike.
LEMMA ParsersStepAlike ==
    ASSUME TextAssumption, NEW e \in Entries, NEW s \in SettingNames, ~Differs(e, s),
           ReadLine(e),
           parser["conf"][s] = parser["json"][s] /\ parser["json"][s] = parser["yaml"][s]
    PROVE  parser'["conf"][s] = parser'["json"][s] /\ parser'["json"][s] = parser'["yaml"][s]
<1>1. CASE (~Assigns(e, s) /\ ~Heads(e, s)) \/ s \in DaemonOnly
    BY <1>1, ReadLineStep, ParsersKeep
<1>2. CASE Assigns(e, s) /\ s \notin DaemonOnly
    <2>1. ~(e.quoted /\ Quotable(e)) /\ ~CommaLost(e, s)
        BY <1>2 DEF Differs
    <2>2. ASSUME NEW c
          PROVE  LET value == Converted(s, e.value, c[s], stringToBool(e.value),
                   parseList(e.value))
                 IN  /\ JsonLine(c, Line(e, "JSON"))[s] = value
                     /\ IniLine(c, Line(e, "INI"))[s] = value
                     /\ YamlLine(c, Line(e, "YAML"))[s] = value
        BY <1>2, <2>1, ParsersAssign
    <2> QED
        BY <2>2, ReadLineStep
<1> QED
    BY <1>1, <1>2 DEF Differs

\* So do the daemon's reader and the JSON parser.
LEMMA DaemonStepAlike ==
    ASSUME TextAssumption, NEW e \in Entries, NEW s \in SettingNames, s \notin DaemonOnly,
           ~Strays(e, s), ReadLine(e), daemon["conf"][s] = parser["json"][s]
    PROVE  daemon'["conf"][s] = parser'["json"][s]
<1>1. CASE ~Assigns(e, s)
    <2>1. ~Heads(e, s)
        BY DEF Strays
    <2> QED
        BY <1>1, <2>1, ReadLineStep, ParsersKeep, DaemonKeeps
<1>2. CASE Assigns(e, s)
    <2>1. Compact(e, s) /\ ~CommaLost(e, s)
        BY <1>2 DEF Strays
    <2>2. ASSUME NEW c
          PROVE  LET value == Converted(s, e.value, c[s], stringToBool(e.value),
                   parseList(e.value))
                 IN  /\ JsonLine(c, Line(e, "JSON"))[s] = value
                     /\ DaemonLine(c, Line(e, "INI"))[s] = value
        BY <1>2, <2>1, ParsersAssign, DaemonAssigned
    <2> QED
        BY <2>2, ReadLineStep
<1> QED
    BY <1>1, <1>2

\* For any keys, values and lines: whatever is around them, the parsers of the three formats
\* make the same of the same settings, unless a line that assigns the setting has quotes or
\* loses a comma, or a section has its name (parseString of IniConfigParser,
\* JsonConfigParser and YamlConfigParser).
THEOREM ParsersAgree == TextSpec => []FormatsAgree
<1> DEFINE Inv == lines \in Seq(Entries) /\ FormatsAgree
<1>1. TextInit => Inv
    <2> SUFFICES ASSUME TextInit PROVE Inv
        OBVIOUS
    <2>1. lines \in Seq(Entries)
        BY DEF TextInit
    <2>2. \A s \in SettingNames :
            parser["conf"][s] = parser["json"][s] /\ parser["json"][s] = parser["yaml"][s]
        BY DEF TextInit, Extensions
    <2> QED
        BY <2>1, <2>2, FormatsAgreeByLine
<1>2. Inv /\ [TextNext]_textVars => Inv'
    <2> SUFFICES ASSUME Inv, [TextNext]_textVars PROVE Inv'
        OBVIOUS
    <2>1. ASSUME NEW e \in Entries, ReadLine(e)
          PROVE  Inv'
        <3>1. lines' \in Seq(Entries)
            BY <2>1, LinesGrow
        <3>2. ASSUME NEW s \in SettingNames
              PROVE  \/ /\ parser'["conf"][s] = parser'["json"][s]
                        /\ parser'["json"][s] = parser'["yaml"][s]
                     \/ \E i \in DOMAIN lines' : Differs(lines'[i], s)
            <4>1. CASE \E i \in DOMAIN lines : Differs(lines[i], s)
                <5>1. PICK i \in DOMAIN lines : Differs(lines[i], s)
                    BY <4>1
                <5>2. i \in DOMAIN lines' /\ lines'[i] = lines[i]
                    BY <2>1, LinesGrow
                <5> QED
                    BY ONLY <5>1, <5>2, Zenon
            <4>2. CASE Differs(e, s)
                <5>1. PICK i \in DOMAIN lines' : lines'[i] = e
                    BY <2>1, LinesGrow
                <5> QED
                    BY ONLY <4>2, <5>1, Zenon
            <4>3. CASE ~Differs(e, s) /\ ~ \E i \in DOMAIN lines : Differs(lines[i], s)
                <5>1. parser["conf"][s] = parser["json"][s]
                        /\ parser["json"][s] = parser["yaml"][s]
                    BY <4>3, FormatsAgreeByLine
                <5> QED
                    BY <2>1, <4>3, <5>1, ParsersStepAlike, TextAssumption
            <4> QED
                BY <4>1, <4>2, <4>3
        <3>3. FormatsAgree'
            BY ONLY <3>2, Zenon DEF FormatsAgree, Differs, Heads, Assigns,
               CommaLost
        <3> QED
            BY <3>1, <3>3
    <2>2. CASE UNCHANGED textVars
        BY <2>2 DEF textVars, FormatsAgree
    <2> QED
        BY <2>1, <2>2 DEF TextNext
<1> QED
    BY <1>1, <1>2, PTL DEF TextSpec

\* For any keys, values and lines: what the daemon makes of a file of key=value lines is what
\* the JSON parser makes of the same settings, unless a line that assigns the setting is not
\* compact or loses a comma, or a section has its name (NtpConfig::parseConfigFile).
THEOREM DaemonMatchesJson == TextSpec => []DaemonReadsCompact
<1> DEFINE Inv == lines \in Seq(Entries) /\ DaemonReadsCompact
<1>1. TextInit => Inv
    <2> SUFFICES ASSUME TextInit PROVE Inv
        OBVIOUS
    <2>1. lines \in Seq(Entries)
        BY DEF TextInit
    <2>2. \A s \in SettingNames : daemon["conf"][s] = parser["json"][s]
        BY DEF TextInit, Extensions
    <2> QED
        BY <2>1, <2>2, DaemonReadsCompactByLine
<1>2. Inv /\ [TextNext]_textVars => Inv'
    <2> SUFFICES ASSUME Inv, [TextNext]_textVars PROVE Inv'
        OBVIOUS
    <2>1. ASSUME NEW e \in Entries, ReadLine(e)
          PROVE  Inv'
        <3>1. lines' \in Seq(Entries)
            BY <2>1, LinesGrow
        <3>2. ASSUME NEW s \in SettingNames \ DaemonOnly
              PROVE  \/ daemon'["conf"][s] = parser'["json"][s]
                     \/ \E i \in DOMAIN lines' : Strays(lines'[i], s)
            <4>1. CASE \E i \in DOMAIN lines : Strays(lines[i], s)
                <5>1. PICK i \in DOMAIN lines : Strays(lines[i], s)
                    BY <4>1
                <5>2. i \in DOMAIN lines' /\ lines'[i] = lines[i]
                    BY <2>1, LinesGrow
                <5> QED
                    BY ONLY <5>1, <5>2, Zenon
            <4>2. CASE Strays(e, s)
                <5>1. PICK i \in DOMAIN lines' : lines'[i] = e
                    BY <2>1, LinesGrow
                <5> QED
                    BY ONLY <4>2, <5>1, Zenon
            <4>3. CASE ~Strays(e, s) /\ ~ \E i \in DOMAIN lines : Strays(lines[i], s)
                <5>1. daemon["conf"][s] = parser["json"][s]
                    BY <4>3, DaemonReadsCompactByLine
                <5> QED
                    BY <2>1, <4>3, <5>1, DaemonStepAlike, TextAssumption
            <4> QED
                BY <4>1, <4>2, <4>3
        <3>3. DaemonReadsCompact'
            BY ONLY <3>2, Zenon DEF DaemonReadsCompact, Strays, Heads, Assigns,
               CommaLost
        <3> QED
            BY <3>1, <3>3
    <2>2. CASE UNCHANGED textVars
        BY <2>2 DEF textVars, DaemonReadsCompact
    <2> QED
        BY <2>1, <2>2 DEF TextNext
<1> QED
    BY <1>1, <1>2, PTL DEF TextSpec
=============================================================================
