------------------------- MODULE LogRotationProofs -------------------------
(***************************************************************************)
(* Proofs about LogRotation for any threads, file names, configurations,   *)
(* crashes and failing system calls: the types, and what the rotations do  *)
(* to the messages on the disk.  A rotation runs under the mutex, so no    *)
(* setter changes its limits half-way; what it has emptied so far is       *)
(* RotateInv, which a crash forgets together with the thread.              *)
(***************************************************************************)
EXTENDS LogRotation, FiniteSetTheorems, TLAPS

FilesType == [Names -> [Suffixes -> SUBSET (1 .. written)]]

ImplType == [level : Levels, log_file : Names \cup {NoName},
             destination : {"CONSOLE", "FILE", "BOTH"}, enable_syslog : BOOLEAN,
             max_size : Nat, max_files : 1 .. MostFiles]

PCs == {"idle", "lock", "size", "remove", "shift", "current", "append"}

ReloadPCs == {"idle", "level", "file", "destination", "syslog", "rotation"}

\* The parts of TypeOK.
State ==
    /\ mutex \in Threads \cup {None}
    /\ pc \in [Threads -> PCs]
    /\ i \in 0 .. MostFiles - 1
    /\ reload \in ReloadPCs
    /\ new_config \in Configs
    /\ {written, reloads, crashes, faults, dropped} \subseteq Nat

LEMMA TypeSplit ==
    /\ TypeOK <=> files \in FilesType /\ impl \in ImplType /\ State /\ endless \in BOOLEAN
    /\ TypeOK' <=> /\ files' \in FilesType' /\ impl' \in ImplType /\ State'
                   /\ endless' \in BOOLEAN
BY DEF TypeOK, FilesType, ImplType, State, PCs, ReloadPCs

\* What a configuration gives the logger at start.
LEMMA ConfiguredType ==
    ASSUME NEW c \in Configs
    PROVE  /\ Configured(c) \in ImplType
           /\ Configured(c).max_size = c.max_size
           /\ Configured(c).log_file = c.log_file
           /\ Configured(c).destination = IF c.console THEN "CONSOLE" ELSE "FILE"
<1>1. c \in ConfigType /\ c.max_files \in Nat /\ c.max_files <= MostFiles
      /\ MostFiles \in Nat \ {0}
    BY LogAssumption DEF ConfigType
<1>2. AtLeastOne(c.max_files) \in 1 .. MostFiles
    BY <1>1 DEF AtLeastOne
<1> QED
    BY <1>1, <1>2 DEF Configured, ImplType, ConfigType

\* A rename moves all of a file, or nothing; it does nothing to a file that exists
\* only when the system call fails.
Moved(n, from, to) ==
    /\ files[n][from] # {}
    /\ \A m \in Names, k \in Suffixes :
         files'[m][k] = IF m = n /\ k = to THEN files[n][from]
                        ELSE IF m = n /\ k = from THEN {} ELSE files[m][k]

LEMMA Renamed ==
    ASSUME files \in FilesType, impl.log_file \in Names, UNCHANGED written,
           NEW from \in Suffixes, NEW to \in Suffixes, from # to, Rename(from, to)
    PROVE  /\ files' \in FilesType'
           /\ \/ Moved(impl.log_file, from, to) /\ faults' = faults
              \/ File(from) = {} /\ files' = files /\ faults' = faults
              \/ faults' = faults + 1 /\ files' = files
<1>1. CASE /\ File(from) # {}
           /\ files' = [files EXCEPT ![impl.log_file][to] = File(from),
                                     ![impl.log_file][from] = {}]
           /\ UNCHANGED faults
    <2>1. Moved(impl.log_file, from, to)
        BY <1>1 DEF Moved, File, FilesType
    <2>2. files' \in FilesType'
        BY <1>1 DEF File, FilesType
    <2> QED
        BY <1>1, <2>1, <2>2
<1>2. CASE File(from) = {} /\ UNCHANGED <<files, faults>>
    BY <1>2 DEF FilesType
<1>3. CASE File(from) # {} /\ Fault /\ UNCHANGED files
    BY <1>3 DEF FilesType, Fault
<1> QED
    BY <1>1, <1>2, <1>3 DEF Rename

\* The files that one thread's step writes, in place of its EXCEPTs.
LEMMA Removed ==
    ASSUME files \in FilesType, impl.log_file \in Names, UNCHANGED written,
           NEW n \in Suffixes, files' = [files EXCEPT ![impl.log_file][n] = {}]
    PROVE  /\ files' \in FilesType'
           /\ \A m \in Names, k \in Suffixes :
                files'[m][k] = IF m = impl.log_file /\ k = n THEN {} ELSE files[m][k]
BY DEF FilesType

LEMMA Appended ==
    ASSUME files \in FilesType, impl.log_file \in Names, written \in Nat,
           0 \in Suffixes, written' = written + 1,
           files' = [files EXCEPT ![impl.log_file][0] = @ \cup {written + 1}]
    PROVE  /\ files' \in FilesType'
           /\ \A m \in Names, k \in Suffixes :
                files'[m][k] = IF m = impl.log_file /\ k = 0 THEN files[m][k] \cup {written + 1}
                                                             ELSE files[m][k]
<1>1. \A m \in Names, k \in Suffixes :
        files'[m][k] = IF m = impl.log_file /\ k = 0 THEN files[m][k] \cup {written + 1}
                                                     ELSE files[m][k]
    BY DEF FilesType
<1>2. 1 .. written \subseteq 1 .. written + 1 /\ written + 1 \in 1 .. written + 1
    OBVIOUS
<1>3. \A m \in Names, k \in Suffixes : files[m][k] \subseteq 1 .. written
    BY DEF FilesType
<1>4. \A m \in Names, k \in Suffixes : files'[m][k] \subseteq 1 .. written'
    BY <1>1, <1>2, <1>3
<1>5. DOMAIN files' = Names /\ files' = [m \in Names |-> files'[m]]
      /\ \A m \in Names : files'[m] = [k \in Suffixes |-> files'[m][k]]
    BY DEF FilesType
<1>6. \A m \in Names : files'[m] \in [Suffixes -> SUBSET (1 .. written')]
    BY <1>4, <1>5
<1>7. files' \in [Names -> [Suffixes -> SUBSET (1 .. written')]]
    BY <1>5, <1>6
<1> QED
    BY <1>1, <1>7 DEF FilesType

LEMMA Numbers ==
    ASSUME TypeOK
    PROVE  /\ MostFiles \in Nat \ {0} /\ impl.max_files \in 1 .. MostFiles
           /\ impl.max_size \in Nat /\ i \in 0 .. MostFiles - 1
           /\ Suffixes = 0 .. MostFiles + 1 /\ i \in Suffixes /\ i + 1 \in Suffixes
           /\ impl.max_files \in Suffixes /\ 0 \in Suffixes /\ 1 \in Suffixes
           /\ written \in Nat /\ faults \in Nat /\ dropped \in Nat
<1>1. MostFiles \in Nat \ {0} /\ impl.max_files \in 1 .. MostFiles
      /\ impl.max_size \in Nat /\ i \in 0 .. MostFiles - 1
    BY LogAssumption, TypeSplit DEF ImplType, State
<1>2. written \in Nat /\ faults \in Nat /\ dropped \in Nat
    BY TypeSplit DEF State
<1> QED
    BY <1>1, <1>2 DEF Suffixes

\* A thread holds the mutex while it writes, and nobody changes the settings then.
LEMMA HoldStep == TypeOK /\ HoldInv /\ [Next]_vars => HoldInv'
<1> SUFFICES ASSUME TypeOK, HoldInv, [Next]_vars
             PROVE  HoldInv'
    OBVIOUS
<1>0. pc \in [Threads -> PCs] /\ None \notin Threads
    BY LogAssumption, TypeSplit DEF State
<1>1. ASSUME NEW t \in Threads, NEW from, NEW to, Goto(t, from, to), from \notin {"idle", "lock"}
      PROVE  HoldInv'
    BY <1>0, <1>1 DEF Goto, HoldInv
<1>2. ASSUME NEW t \in Threads, NEW l \in Levels, Call(t, l)
      PROVE  HoldInv'
    BY <1>0, <1>2 DEF Call, HoldInv
<1>3. ASSUME NEW t \in Threads, Acquire(t)
      PROVE  HoldInv'
    <2>1. impl \in ImplType /\ (ToFile => impl.log_file \in Names)
        BY TypeSplit DEF ToFile, ImplType
    <2> QED
        BY <1>0, <1>3, <2>1 DEF Acquire, Done, HoldInv
<1>4. ASSUME NEW t \in Threads, Append(t)
      PROVE  HoldInv'
    BY <1>0, <1>4 DEF Append, Done, HoldInv
<1>5. ASSUME NEW t \in Threads,
             TestSize(t) \/ RemoveOldest(t) \/ Shift(t) \/ RotateCurrent(t)
      PROVE  HoldInv'
    BY <1>1, <1>5 DEF TestSize, RemoveOldest, Shift, RotateCurrent
<1>6. CASE Reload
    BY <1>0, <1>6 DEF Reload, StartReload, setLevel, setLogFile, setDestination, setSyslog,
       setLogRotation, SetterGoto, HoldInv
<1>7. CASE Crash
    BY <1>7 DEF Crash, HoldInv
<1>8. CASE UNCHANGED vars
    BY <1>8 DEF vars, HoldInv
<1> QED
    BY <1>2, <1>3, <1>4, <1>5, <1>6, <1>7, <1>8 DEF Next, Log

\* Every step keeps the types; only an append adds a message, with the next number.
LEMMA TypeStep == TypeOK /\ HoldInv /\ RotateInv /\ [Next]_vars => TypeOK'
<1> SUFFICES ASSUME TypeOK, HoldInv, RotateInv, [Next]_vars
             PROVE  files' \in FilesType' /\ impl' \in ImplType /\ State' /\ endless' \in BOOLEAN
    BY TypeSplit
<1>0. files \in FilesType /\ impl \in ImplType /\ State /\ endless \in BOOLEAN
    BY TypeSplit
<1>00. Configs \subseteq ConfigType /\ MostFiles \in Nat \ {0}
       /\ \A c \in Configs : c.max_files <= MostFiles
    BY LogAssumption
<1>1. endless' \in BOOLEAN
    BY Zenon, <1>0 DEF Next, Log, Call, Acquire, TestSize, RemoveOldest, Shift,
       RotateCurrent, Append, Goto, Reload, StartReload, setLevel, setLogFile,
       setDestination, setSyslog, setLogRotation, SetterGoto, Crash, history, vars
<1>2. ASSUME NEW t \in Threads, \E l \in Levels : Call(t, l)
      PROVE  files' \in FilesType' /\ impl' \in ImplType /\ State'
    BY <1>0, <1>2 DEF Call, State, PCs, FilesType, reloadVars, history
<1>3. ASSUME NEW t \in Threads, Acquire(t)
      PROVE  files' \in FilesType' /\ impl' \in ImplType /\ State'
    <2>1. dropped' \in Nat
        BY <1>0, <1>3 DEF Acquire, Done, State
    <2> QED
        BY <1>0, <1>3, <2>1 DEF Acquire, Done, State, PCs, FilesType, reloadVars
<1>4. ASSUME NEW t \in Threads, TestSize(t)
      PROVE  files' \in FilesType' /\ impl' \in ImplType /\ State'
    BY <1>0, <1>4 DEF TestSize, Goto, Fault, State, PCs, FilesType, reloadVars
<1>5. ASSUME NEW t \in Threads, RemoveOldest(t)
      PROVE  files' \in FilesType' /\ impl' \in ImplType /\ State'
    <2>1. impl.log_file \in Names /\ UNCHANGED written
        BY <1>5 DEF RemoveOldest, Goto, HoldInv
    <2>2. files' \in FilesType'
        BY <1>0, <1>5, <2>1, Removed, Numbers DEF RemoveOldest, FilesType
    <2>3. i' \in 0 .. MostFiles - 1
        BY <1>5, Numbers DEF RemoveOldest
    <2>4. faults' \in Nat
        BY <1>0, <1>5 DEF RemoveOldest, Fault, State
    <2> QED
        BY <1>0, <1>5, <2>2, <2>3, <2>4 DEF RemoveOldest, Goto, State, PCs, Loop, reloadVars
<1>6. ASSUME NEW t \in Threads, Shift(t) \/ RotateCurrent(t)
      PROVE  files' \in FilesType' /\ impl' \in ImplType /\ State'
    <2>1. impl.log_file \in Names /\ UNCHANGED written
        BY <1>6 DEF Shift, RotateCurrent, Goto, HoldInv
    <2>2. files' \in FilesType' /\ faults' \in Nat
        <3>1. PICK from \in Suffixes, to \in Suffixes : from # to /\ Rename(from, to)
            <4>1. i \in Suffixes /\ i + 1 \in Suffixes /\ i # i + 1 /\ 0 \in Suffixes
                  /\ 1 \in Suffixes
                BY Numbers
            <4> QED
                BY <1>6, <4>1 DEF Shift, RotateCurrent
        <3>2. faults \in Nat
            BY Numbers
        <3>3. files' \in FilesType' /\ faults' \in {faults, faults + 1}
            BY <1>0, <2>1, <3>1, Renamed
        <3> QED
            BY <3>2, <3>3
    <2>3. i' \in 0 .. MostFiles - 1
        BY <1>6, Numbers DEF Shift, RotateCurrent, Goto, RotateInv
    <2> QED
        BY <1>0, <1>6, <2>2, <2>3 DEF Shift, RotateCurrent, Goto, State, PCs, Loop, reloadVars
<1>7. ASSUME NEW t \in Threads, Append(t)
      PROVE  files' \in FilesType' /\ impl' \in ImplType /\ State'
    <2>1. impl.log_file \in Names
        BY <1>7 DEF Append, HoldInv
    <2>2. files' \in FilesType' /\ written' \in Nat /\ faults' \in Nat
        <3>1. CASE UNCHANGED <<files, written>> /\ Fault
            BY <1>0, <3>1, Numbers DEF FilesType, Fault
        <3>2. CASE /\ files' = [files EXCEPT ![impl.log_file][0] = @ \cup {written + 1}]
                   /\ written' = written + 1 /\ UNCHANGED faults
            BY <1>0, <2>1, <3>2, Appended, Numbers
        <3> QED
            BY <1>7, <3>1, <3>2 DEF Append
    <2>3. dropped' \in Nat
        BY <1>7, Numbers DEF Append, Done
    <2> QED
        BY <1>0, <1>7, <2>2, <2>3 DEF Append, Done, State, PCs, reloadVars
<1>8. CASE StartReload
    BY <1>0, <1>8 DEF StartReload, State, ReloadPCs, FilesType, history
<1>9. CASE setLevel \/ setLogFile
    <2>1. new_config \in ConfigType
        BY <1>0, <1>00 DEF State
    <2> QED
        BY <1>0, <1>9, <2>1 DEF setLevel, setLogFile, SetterGoto, State, ReloadPCs, FilesType,
           ImplType, ConfigType, history
<1>10. CASE setDestination
    BY <1>0, <1>10 DEF setDestination, SetterGoto, State, ReloadPCs, FilesType, ImplType,
       history
<1>11. CASE setSyslog \/ setLogRotation
    <2>1. new_config \in ConfigType /\ AtLeastOne(new_config.max_files) \in 1 .. MostFiles
        BY <1>0, <1>00 DEF State, ConfigType, AtLeastOne
    <2>2. impl' \in ImplType
        <3>1. CASE setSyslog
            BY <1>0, <2>1, <3>1 DEF setSyslog, ImplType, ConfigType
        <3>2. CASE setLogRotation
            BY <1>0, <2>1, <3>2 DEF setLogRotation, ImplType, ConfigType
        <3> QED
            BY <1>11, <3>1, <3>2
    <2> QED
        BY <1>0, <1>11, <2>2 DEF setSyslog, setLogRotation, SetterGoto, State, ReloadPCs,
           FilesType, history
<1>12. CASE Crash
    <2>1. impl' \in ImplType
        BY <1>12, ConfiguredType DEF Crash
    <2> QED
        BY <1>0, <1>00, <1>12, <2>1 DEF Crash, State, ReloadPCs, PCs, FilesType, history
<1>13. CASE UNCHANGED vars
    BY <1>0, <1>13 DEF vars, State, FilesType, reloadVars, history
<1> QED
    BY <1>1, <1>2, <1>3, <1>4, <1>5, <1>6, <1>7, <1>8, <1>9, <1>10, <1>11, <1>12, <1>13
    DEF Next, Log, Reload

\* A file has a size.
LEMMA FileSize ==
    ASSUME TypeOK, NEW n \in Names, NEW k \in Suffixes
    PROVE  /\ files[n][k] \subseteq 1 .. written
           /\ IsFiniteSet(files[n][k]) /\ Cardinality(files[n][k]) \in Nat
<1>1. files[n][k] \subseteq 1 .. written /\ written \in Nat
    BY TypeSplit, Numbers DEF FilesType
<1>2. IsFiniteSet(1 .. written)
    BY <1>1, FS_Interval
<1> QED
    BY <1>1, <1>2, FS_Subset, FS_CardinalityType

\* While a thread writes, no other one does.
LEMMA OneWriter ==
    ASSUME HoldInv, NEW t \in Threads, mutex = t
    PROVE  \A v \in Threads \ {t} : pc[v] \in {"idle", "lock"}
BY DEF HoldInv

\* What RotateInv says of one thread.
Rotates(t) ==
    /\ pc[t] = "shift" => i \in 1 .. impl.max_files - 1
    /\ pc[t] = "current" => i = 0
    /\ pc[t] \in {"remove", "shift", "current"} => impl.max_size > 0
    /\ faults = 0 /\ pc[t] \in {"shift", "current"} => File(i + 1) = {}
    /\ faults = 0 /\ pc[t] = "append" /\ impl.max_size > 0
         => Cardinality(File(0)) < impl.max_size

\* Each step of a rotation leaves the file it has just moved empty for the next one.
LEMMA RotateStep == TypeOK /\ HoldInv /\ RotateInv /\ [Next]_vars => RotateInv'
<1> SUFFICES ASSUME TypeOK, HoldInv, RotateInv, [Next]_vars, NEW v \in Threads
             PROVE  Rotates(v)'
    BY DEF RotateInv, Rotates
<1>0. /\ pc \in [Threads -> PCs] /\ None \notin Threads /\ files \in FilesType
      /\ \A t \in Threads : Rotates(t)
    BY LogAssumption, TypeSplit DEF State, RotateInv, Rotates
<1>1. pc'[v] \in {"idle", "lock"} => Rotates(v)'
    BY DEF Rotates
<1>2. ASSUME NEW t \in Threads, t # v, NEW from, NEW to, Goto(t, from, to)
      PROVE  Rotates(v)'
    BY <1>0, <1>1, <1>2, OneWriter DEF Goto
<1>3. ASSUME NEW t \in Threads, (\E l \in Levels : Call(t, l)) \/ Acquire(t)
      PROVE  Rotates(v)'
    <2>1. CASE \E l \in Levels : Call(t, l)
        <3>1. pc'[v] = pc[v] \/ pc'[v] = "lock"
            BY <1>0, <2>1 DEF Call
        <3>2. UNCHANGED <<files, impl, i, faults>>
            BY <2>1 DEF Call, history
        <3> QED
            BY <1>0, <1>1, <3>1, <3>2 DEF Rotates, File
    <2>2. CASE Acquire(t)
        <3>1. pc[v] \in {"idle", "lock"}
            BY <1>0, <2>2 DEF Acquire, HoldInv
        <3>2. pc'[v] \in {"idle", "lock", "size"}
            BY <1>0, <2>2, <3>1 DEF Acquire, Done
        <3> QED
            BY <3>2 DEF Rotates
    <2> QED
        BY <1>3, <2>1, <2>2
<1>4. ASSUME NEW t \in Threads, TestSize(t)
      PROVE  Rotates(v)'
    <2>1. CASE t # v
        BY <1>2, <1>4, <2>1 DEF TestSize
    <2>2. CASE t = v
        <3>0. pc'[v] \in {"remove", "append"} /\ UNCHANGED <<files, impl>>
            BY <1>0, <1>4, <2>2 DEF TestSize, Goto
        <3>1. pc'[v] = "remove" => impl.max_size > 0
            BY <1>0, <1>4, <2>2 DEF TestSize, Goto, Full
        <3>2. impl.log_file \in Names /\ impl.max_size \in Nat /\ 0 \in Suffixes
            BY <1>4, <2>2, Numbers DEF TestSize, Goto, HoldInv
        <3>3. Cardinality(File(0)) \in Nat
            BY <3>2, FileSize DEF File
        <3>4. pc'[v] = "append" /\ faults' = 0 /\ impl.max_size > 0
                => Cardinality(File(0)) < impl.max_size
            <4>1. pc'[v] = "append" /\ faults' = 0 => ~Full
                BY <1>0, <1>4, <2>2, Numbers DEF TestSize, Goto, Fault
            <4> QED
                BY <3>2, <3>3, <4>1 DEF Full
        <3> QED
            BY <3>0, <3>1, <3>4 DEF Rotates, File
    <2> QED
        BY <2>1, <2>2
<1>5. ASSUME NEW t \in Threads, RemoveOldest(t)
      PROVE  Rotates(v)'
    <2>1. CASE t # v
        BY <1>2, <1>5, <2>1 DEF RemoveOldest
    <2>2. CASE t = v
        <3>1. /\ pc[v] = "remove" /\ pc'[v] = Loop(impl.max_files - 1)
              /\ i' = impl.max_files - 1 /\ UNCHANGED <<impl, written>>
              /\ impl.log_file \in Names
            BY <1>0, <1>5, <2>2 DEF RemoveOldest, Goto, HoldInv
        <3>2. faults' = 0 => files'[impl.log_file][impl.max_files] = {}
            <4>1. CASE files' = [files EXCEPT ![impl.log_file][impl.max_files] = {}]
                BY <1>0, <3>1, <4>1, Numbers DEF FilesType
            <4>2. CASE Fault
                BY <4>2, Numbers DEF Fault
            <4> QED
                BY <1>5, <4>1, <4>2 DEF RemoveOldest
        <3>3. i' + 1 = impl.max_files /\ impl.max_files \in Nat \ {0}
            BY <3>1, Numbers
        <3>4. pc'[v] = "shift" => i' \in 1 .. impl.max_files - 1
            BY <3>1, <3>3 DEF Loop
        <3>5. pc'[v] = "current" => i' = 0
            BY <3>1, <3>3 DEF Loop
        <3>6. pc'[v] \in {"shift", "current"} /\ impl.max_size > 0
            BY <1>0, <3>1 DEF Loop, Rotates
        <3> QED
            BY <3>1, <3>2, <3>3, <3>4, <3>5, <3>6 DEF Rotates, File
    <2> QED
        BY <2>1, <2>2
<1>6. ASSUME NEW t \in Threads, Shift(t)
      PROVE  Rotates(v)'
    <2>1. CASE t # v
        BY <1>2, <1>6, <2>1 DEF Shift
    <2>2. CASE t = v
        <3>1. /\ pc[v] = "shift" /\ pc'[v] = Loop(i - 1) /\ i' = i - 1
              /\ UNCHANGED <<impl, written>> /\ impl.log_file \in Names /\ Rename(i, i + 1)
            BY <1>0, <1>6, <2>2 DEF Shift, Goto, HoldInv
        <3>2. i \in 1 .. impl.max_files - 1 /\ impl.max_size > 0
            BY <1>0, <3>1 DEF Rotates
        <3>3. faults' = 0 => files'[impl.log_file][i] = {}
            BY SMTT(30), <1>0, <3>1, Renamed, Numbers DEF Moved, File
        <3>4. i' + 1 = i /\ (i' >= 1 => i' \in 1 .. impl.max_files - 1)
              /\ (~(i' >= 1) => i' = 0)
            BY <3>1, <3>2, Numbers
        <3> QED
            BY <3>1, <3>2, <3>3, <3>4 DEF Rotates, File, Loop
    <2> QED
        BY <2>1, <2>2
<1>7. ASSUME NEW t \in Threads, RotateCurrent(t)
      PROVE  Rotates(v)'
    <2>1. CASE t # v
        BY <1>2, <1>7, <2>1 DEF RotateCurrent
    <2>2. CASE t = v
        <3>1. /\ pc[v] = "current" /\ pc'[v] = "append"
              /\ UNCHANGED <<impl, written>> /\ impl.log_file \in Names /\ Rename(0, 1)
            BY <1>0, <1>7, <2>2 DEF RotateCurrent, Goto, HoldInv
        <3>2. faults' = 0 => files'[impl.log_file][0] = {}
            BY SMTT(30), <1>0, <3>1, Renamed, Numbers DEF Moved, File
        <3>3. Cardinality({}) = 0
            BY FS_EmptySet
        <3> QED
            BY <3>1, <3>2, <3>3 DEF Rotates, File
    <2> QED
        BY <2>1, <2>2
<1>8. ASSUME NEW t \in Threads, Append(t)
      PROVE  Rotates(v)'
    <2>1. CASE t # v
        BY <1>0, <1>1, <1>8, <2>1, OneWriter DEF Append, Done
    <2>2. CASE t = v
        BY <1>0, <1>1, <1>8, <2>2 DEF Append, Done
    <2> QED
        BY <2>1, <2>2
<1>9. CASE StartReload
    BY <1>0, <1>9 DEF StartReload, history, Rotates, File
<1>10. CASE setLevel \/ setLogFile \/ setDestination \/ setSyslog \/ setLogRotation
    <2>1. pc[v] \in {"idle", "lock"} /\ pc' = pc
        BY <1>0, <1>10 DEF setLevel, setLogFile, setDestination, setSyslog, setLogRotation,
           SetterGoto, HoldInv
    <2> QED
        BY <1>1, <2>1
<1>11. CASE Crash
    BY <1>1, <1>11 DEF Crash
<1>12. CASE UNCHANGED vars
    BY <1>0, <1>12 DEF vars, history, Rotates, File
<1> QED
    BY <1>3, <1>4, <1>5, <1>6, <1>7, <1>8, <1>9, <1>10, <1>11, <1>12 DEF Next, Log, Reload

\* The logger is type correct: in particular every file holds messages that were
\* written, and rotateLogs' loop variable stays within the files there can be.
THEOREM TypeCorrect == Spec => [](TypeOK /\ HoldInv /\ RotateInv)
<1>1. Init => TypeOK
    <2> SUFFICES ASSUME Init
                 PROVE  files \in FilesType /\ impl \in ImplType /\ State /\ endless \in BOOLEAN
        BY TypeSplit
    <2>1. endless \in BOOLEAN
        BY Zenon DEF Init
    <2>2. impl \in ImplType /\ new_config \in Configs
        BY ConfiguredType DEF Init
    <2>3. files \in FilesType
        BY DEF Init, FilesType
    <2> QED
        BY <2>1, <2>2, <2>3, LogAssumption DEF Init, State, PCs, ReloadPCs
<1>2. Init => HoldInv /\ RotateInv
    BY DEF Init, HoldInv, RotateInv
<1> QED
    BY <1>1, <1>2, TypeStep, HoldStep, RotateStep, PTL DEF Spec
-----------------------------------------------------------------------------
\* The three ways a step changes the files: the file with the number log_max_files goes,
\* one moves up by one number, or the next message is appended to the current one.
Removes(n, last) ==
    \A m \in Names, k \in Suffixes :
        files'[m][k] = IF m = n /\ k = last THEN {} ELSE files[m][k]

Appends(n) ==
    /\ written' = written + 1
    /\ \A m \in Names, k \in Suffixes :
         files'[m][k] = IF m = n /\ k = 0 THEN files[m][k] \cup {written + 1}
                                          ELSE files[m][k]

LEMMA FileChange ==
    ASSUME TypeOK, HoldInv, RotateInv, [Next]_vars
    PROVE  \/ UNCHANGED files
           \/ /\ impl.log_file \in Names
              /\ \E t \in Threads :
                  \/ pc[t] = "remove" /\ Removes(impl.log_file, impl.max_files)
                  \/ /\ pc[t] \in {"shift", "current"} /\ i <= impl.max_files - 1
                     /\ Moved(impl.log_file, i, i + 1)
                  \/ /\ pc[t] = "append" /\ Appends(impl.log_file)
                     /\ endless' = FALSE => endless = FALSE /\ impl.max_size # 0
<1> DEFINE Goal == \/ UNCHANGED files
                   \/ /\ impl.log_file \in Names
                      /\ \E t \in Threads :
                          \/ pc[t] = "remove" /\ Removes(impl.log_file, impl.max_files)
                          \/ /\ pc[t] \in {"shift", "current"} /\ i <= impl.max_files - 1
                             /\ Moved(impl.log_file, i, i + 1)
                          \/ /\ pc[t] = "append" /\ Appends(impl.log_file)
                             /\ endless' = FALSE => endless = FALSE /\ impl.max_size # 0
<1>0. files \in FilesType
    BY TypeSplit
<1>1. ASSUME NEW t \in Threads, RemoveOldest(t)
      PROVE  Goal
    <2>1. pc[t] = "remove" /\ impl.log_file \in Names /\ UNCHANGED written
        BY <1>1 DEF RemoveOldest, Goto, HoldInv
    <2>2. CASE files' = [files EXCEPT ![impl.log_file][impl.max_files] = {}]
        BY <1>0, <2>1, <2>2, Numbers DEF FilesType, Removes
    <2> QED
        BY <1>1, <2>1, <2>2 DEF RemoveOldest
<1>2. ASSUME NEW t \in Threads, Shift(t) \/ RotateCurrent(t)
      PROVE  Goal
    <2>1. /\ pc[t] \in {"shift", "current"} /\ impl.log_file \in Names /\ UNCHANGED written
          /\ Rename(i, i + 1) /\ i <= impl.max_files - 1
        <3>1. CASE Shift(t)
            BY SMTT(30), <3>1, Numbers DEF Shift, Goto, HoldInv, RotateInv
        <3>2. CASE RotateCurrent(t)
            <4>1. pc[t] = "current" /\ i = 0 /\ Rename(0, 1) /\ UNCHANGED written
                BY <3>2 DEF RotateCurrent, Goto, RotateInv
            <4>2. 0 + 1 = 1 /\ 0 <= impl.max_files - 1
                BY Numbers
            <4> QED
                BY <4>1, <4>2 DEF HoldInv
        <3> QED
            BY <1>2, <3>1, <3>2
    <2>2. files' = files \/ Moved(impl.log_file, i, i + 1)
        BY <1>0, <2>1, Renamed, Numbers
    <2> QED
        BY <2>1, <2>2
<1>3. ASSUME NEW t \in Threads, Append(t)
      PROVE  Goal
    <2>1. pc[t] = "append" /\ impl.log_file \in Names
        BY <1>3 DEF Append, HoldInv
    <2>2. CASE UNCHANGED files
        BY <2>2
    <2>3. CASE /\ files' = [files EXCEPT ![impl.log_file][0] = @ \cup {written + 1}]
               /\ written' = written + 1
               /\ endless' = (endless \/ impl.max_size = 0)
        <3>1. Appends(impl.log_file)
            BY <1>0, <2>1, <2>3, Appended, Numbers DEF Appends
        <3>2. endless' = FALSE => endless = FALSE /\ impl.max_size # 0
            <4>1. endless \in BOOLEAN
                BY TypeSplit
            <4> QED
                BY Zenon, <2>3, <4>1
        <3> QED
            BY <2>1, <3>1, <3>2
    <2> QED
        BY <1>3, <2>2, <2>3 DEF Append
<1>4. ASSUME NEW t \in Threads, (\E l \in Levels : Call(t, l)) \/ Acquire(t) \/ TestSize(t)
      PROVE  UNCHANGED files
    BY <1>4 DEF Call, Acquire, TestSize
<1>5. CASE Reload \/ Crash \/ UNCHANGED vars
    BY <1>5 DEF Reload, StartReload, setLevel, setLogFile, setDestination, setSyslog,
       setLogRotation, SetterGoto, Crash, vars
<1> QED
    BY <1>1, <1>2, <1>3, <1>4, <1>5 DEF Next, Log

\* Everything in a file is newer than everything in the files with higher numbers: an
\* append writes the newest message to the lowest number, and a file only moves past
\* a number that nobody else holds, the one it takes.
THEOREM OrderKept == Spec => []FilesOrdered
<1>1. Init => FilesOrdered
    BY DEF Init, FilesOrdered
<1>2. TypeOK /\ HoldInv /\ RotateInv /\ FilesOrdered /\ [Next]_vars => FilesOrdered'
    <2> SUFFICES ASSUME TypeOK, HoldInv, RotateInv, FilesOrdered, [Next]_vars,
                        NEW n \in Names, NEW j \in Suffixes, NEW k \in Suffixes, j < k,
                        NEW x \in files'[n][j], NEW y \in files'[n][k]
                 PROVE  x > y
        BY DEF FilesOrdered
    <2>1. \A p, q \in Suffixes : p < q => \A a \in files[n][p], b \in files[n][q] : a > b
        BY DEF FilesOrdered
    <2>2. CASE UNCHANGED files
        BY <2>1, <2>2
    <2>3. CASE Removes(impl.log_file, impl.max_files)
        BY <2>1, <2>3 DEF Removes
    <2>4. CASE Moved(impl.log_file, i, i + 1)
        <3>1. CASE n # impl.log_file
            BY <2>1, <2>4, <3>1 DEF Moved
        <3>2. CASE n = impl.log_file
            <4> DEFINE from(p) == IF p = i + 1 THEN i ELSE p
            <4>1. i \in Suffixes /\ i + 1 \in Suffixes /\ Suffixes \subseteq Int
                BY Numbers
            <4>2. j # i /\ k # i /\ x \in files[n][from(j)] /\ y \in files[n][from(k)]
                BY <2>4, <3>2, <4>1 DEF Moved
            <4>3. from(j) \in Suffixes /\ from(k) \in Suffixes /\ from(j) < from(k)
                BY <4>1, <4>2
            <4> HIDE DEF from
            <4> QED
                BY <2>1, <4>2, <4>3
        <3> QED
            BY <3>1, <3>2
    <2>5. CASE Appends(impl.log_file)
        <3>1. 0 \in Suffixes /\ Suffixes \subseteq Nat /\ written \in Nat
            BY Numbers
        <3>6. k # 0
            BY <3>1
        <3>4. files'[n][k] = files[n][k] /\ files[n][k] \subseteq 1 .. written
            <4>1. files'[n][k] = files[n][k]
                BY <2>5, <3>6 DEF Appends
            <4> QED
                BY <4>1, FileSize
        <3>2. y \in files[n][k] /\ y \in 1 .. written
            BY <3>4
        <3>5. files'[n][j] \in {files[n][j], files[n][j] \cup {written + 1}}
            BY <2>5 DEF Appends
        <3>3. x \in files[n][j] \/ x = written + 1
            BY <3>5
        <3> QED
            BY <2>1, <3>1, <3>2, <3>3
    <2> QED
        BY <2>2, <2>3, <2>4, <2>5, FileChange
<1> QED
    BY <1>1, <1>2, TypeCorrect, PTL DEF Spec

\* Faults are only counted up, and what was written without a limit stays noted.
LEMMA HistoryStep ==
    ASSUME TypeOK, [Next]_vars
    PROVE  /\ faults' \in {faults, faults + 1} /\ faults \in Nat
           /\ faults' = 0 => faults = 0
           /\ ~endless' => ~endless
<1>1. faults' \in {faults, faults + 1}
    BY DEF Next, Log, Call, Acquire, TestSize, RemoveOldest, Shift, RotateCurrent, Rename,
       Append, Goto, Fault, Reload, StartReload, setLevel, setLogFile, setDestination,
       setSyslog, setLogRotation, SetterGoto, Crash, history, vars
<1>2. faults \in Nat
    BY Numbers
<1>3. ~endless' => ~endless
    BY Zenon DEF Next, Log, Call, Acquire, TestSize, RemoveOldest, Shift, RotateCurrent,
       Append, Goto, Reload, StartReload, setLevel, setLogFile, setDestination, setSyslog,
       setLogRotation, SetterGoto, Crash, history, vars
<1> QED
    BY <1>1, <1>2, <1>3

\* A message leaves the disk only with the file that carries the highest number of the
\* moment: a rename finds its new name free, whatever interrupted earlier rotations.
THEOREM OnlyLastLost == Spec => OnlyLastRemoved
<1>1. ASSUME TypeOK, HoldInv, RotateInv, [Next]_vars, faults' = 0,
             NEW n \in Names, NEW x \in Kept(files, n) \ Kept(files', n)
      PROVE  n = impl.log_file /\ x \in File(impl.max_files)
    <2>1. PICK k \in Suffixes : x \in files[n][k]
        BY <1>1 DEF Kept
    <2>2. \A p \in Suffixes : x \notin files'[n][p]
        BY <1>1 DEF Kept
    <2>3. CASE UNCHANGED files
        BY <2>1, <2>2, <2>3
    <2>4. CASE Removes(impl.log_file, impl.max_files)
        BY <2>1, <2>2, <2>4 DEF Removes, File
    <2>5. CASE Appends(impl.log_file)
        <3>1. files'[n][k] \in {files[n][k], files[n][k] \cup {written + 1}}
            BY <2>5 DEF Appends
        <3> QED
            BY <2>1, <2>2, <3>1
    <2>6. ASSUME NEW t \in Threads, pc[t] \in {"shift", "current"},
                 Moved(impl.log_file, i, i + 1)
          PROVE  FALSE
        <3>1. i \in Suffixes /\ i + 1 \in Suffixes /\ i # i + 1
            BY <1>1, Numbers
        <3>2. faults = 0
            BY <1>1, HistoryStep
        <3>3. files[impl.log_file][i + 1] = {}
            BY <1>1, <2>6, <3>2 DEF RotateInv, File
        <3>4. k # i + 1 \/ n # impl.log_file
            BY <2>1, <3>3
        <3>5. CASE n = impl.log_file /\ k = i
            BY <2>1, <2>2, <2>6, <3>1, <3>5 DEF Moved
        <3>6. CASE ~(n = impl.log_file /\ k = i)
            BY <2>1, <2>2, <2>6, <3>4, <3>6 DEF Moved
        <3> QED
            BY <3>5, <3>6
    <2> QED
        BY <1>1, <2>3, <2>4, <2>5, <2>6, FileChange
<1>2. TypeOK /\ HoldInv /\ RotateInv /\ [Next]_vars
        => (faults' = 0 =>
              \A n \in Names : \A x \in Kept(files, n) \ Kept(files', n) :
                  n = impl.log_file /\ x \in File(impl.max_files))
    BY <1>1
<1> QED
    BY <1>2, TypeCorrect, PTL DEF Spec, OnlyLastRemoved
-----------------------------------------------------------------------------
\* The limits and the outputs of the logger come from a configuration, except between
\* two setters of a reload.
LEMMA SettingsStep == TypeOK /\ SettingsInv /\ [Next]_vars => SettingsInv'
<1> SUFFICES ASSUME TypeOK, SettingsInv, [Next]_vars
             PROVE  SettingsInv'
    OBVIOUS
<1>0. impl \in ImplType /\ new_config \in Configs /\ Configs \subseteq ConfigType
    BY TypeSplit, LogAssumption DEF State
<1>1. ASSUME NEW t \in Threads, Log(t)
      PROVE  SettingsInv'
    <2>1. UNCHANGED <<impl, reload, new_config>>
        BY <1>1 DEF Log, Call, Acquire, TestSize, RemoveOldest, Shift, RotateCurrent, Append,
           Goto, reloadVars
    <2> QED
        BY <2>1 DEF SettingsInv
<1>2. CASE StartReload
    BY <1>2 DEF StartReload, SettingsInv
<1>3. CASE setLevel
    BY <1>0, <1>3 DEF setLevel, SetterGoto, SettingsInv, ImplType
<1>4. CASE setLogFile
    BY <1>0, <1>4 DEF setLogFile, SetterGoto, SettingsInv, ImplType
<1>5. CASE setDestination
    BY <1>0, <1>5 DEF setDestination, SetterGoto, SettingsInv, ImplType
<1>6. CASE setSyslog
    BY <1>0, <1>6 DEF setSyslog, SetterGoto, SettingsInv, ImplType
<1>7. CASE setLogRotation
    BY <1>0, <1>7 DEF setLogRotation, SetterGoto, SettingsInv, ImplType
<1>8. CASE Crash
    <2>1. PICK c \in Configs : impl' = Configured(c) /\ new_config' = c
        BY <1>8 DEF Crash
    <2>2. reload' = "idle"
        BY <1>8 DEF Crash
    <2> QED
        BY <2>1, <2>2, ConfiguredType DEF SettingsInv
<1>9. CASE UNCHANGED vars
    BY <1>9 DEF vars, reloadVars, SettingsInv
<1> QED
    BY <1>1, <1>2, <1>3, <1>4, <1>5, <1>6, <1>7, <1>8, <1>9 DEF Next, Reload

LEMMA SettingsInvariant == Spec => []SettingsInv
<1>1. Init => SettingsInv
    <2> SUFFICES ASSUME NEW c \in Configs, impl = Configured(c), reload = "idle"
                 PROVE  SettingsInv
        BY DEF Init
    <2> QED
        BY ConfiguredType DEF SettingsInv
<1> QED
    BY <1>1, SettingsStep, TypeCorrect, PTL DEF Spec

\* A message that passed the test of the level is lost only to a failing system call, or
\* while a reload has set the file's name and not yet the destination.
THEOREM DroppedRarely == Spec => DroppedOnlyInReload
<1>1. ASSUME TypeOK, SettingsInv, [Next]_vars, dropped' # dropped,
             \A c \in Configs : c.console \/ c.log_file # NoName
      PROVE  faults' # faults \/ reload = "destination"
    <2>1. PICK t \in Threads : Acquire(t) \/ Append(t)
        BY <1>1 DEF Next, Log, Call, TestSize, RemoveOldest, Shift, RotateCurrent, Goto, Reload,
           StartReload, setLevel, setLogFile, setDestination, setSyslog,
           setLogRotation, SetterGoto, Crash, history, vars
    <2>2. impl \in ImplType
        BY <1>1, TypeSplit
    <2>3. CASE Acquire(t)
        <3>1. ~ToFile /\ ~ToConsole
            BY <1>1, <2>3 DEF Acquire, Done
        <3>2. impl.destination = "FILE" /\ impl.log_file = NoName
            BY <2>2, <3>1 DEF ToFile, ToConsole, ImplType
        <3> QED
            BY <1>1, <3>2 DEF SettingsInv
    <2>4. CASE Append(t)
        <3>1. faults' = faults + 1
            BY <1>1, <2>4 DEF Append, Done, Fault
        <3> QED
            BY <1>1, <3>1, Numbers
    <2> QED
        BY <2>1, <2>3, <2>4
<1>2. TypeOK /\ SettingsInv /\ [Next]_vars
        => (dropped' # dropped /\ (\A c \in Configs : c.console \/ c.log_file # NoName) =>
              faults' # faults \/ reload = "destination")
    BY <1>1
<1> QED
    BY <1>2, SettingsInvariant, TypeCorrect, PTL DEF Spec, DroppedOnlyInReload
-----------------------------------------------------------------------------
\* The logs take no more files than the largest log_max_files and one, and no more
\* messages each than the largest log_max_size_bytes, unless a system call failed or no
\* limit of size was set.
THEOREM DiskIsBounded == Spec => []DiskBounded
<1>1. Init => DiskBounded
    <2> SUFFICES ASSUME Init
                 PROVE  DiskBounded
        OBVIOUS
    <2>1. \A n \in Names, k \in Suffixes : files[n][k] = {}
        BY DEF Init
    <2>2. Cardinality({}) = 0
        BY FS_EmptySet
    <2>3. PICK c \in Configs : c.max_size \in Nat
        BY LogAssumption DEF ConfigType
    <2>4. \A n \in Names, k \in Suffixes : Cardinality(files[n][k]) <= c.max_size
        BY <2>1, <2>2, <2>3
    <2> QED
        BY <2>1, <2>4 DEF DiskBounded
<1>2. ASSUME TypeOK, HoldInv, RotateInv, SettingsInv, DiskBounded, [Next]_vars,
             NEW n \in Names, NEW k \in Suffixes
      PROVE  /\ k > MostFiles => files'[n][k] = {}
             /\ faults' = 0 /\ ~endless'
                  => \E c \in Configs : Cardinality(files'[n][k]) <= c.max_size
    <2>0. /\ \A j \in Suffixes : j > MostFiles => files[n][j] = {}
          /\ faults = 0 /\ ~endless => \A j \in Suffixes :
               \E c \in Configs : Cardinality(files[n][j]) <= c.max_size
        BY <1>2 DEF DiskBounded
    <2>1. PICK c0 \in Configs : c0.max_size \in Nat
        BY LogAssumption DEF ConfigType
    <2>2. \E c \in Configs : Cardinality({}) <= c.max_size
        BY <2>1, FS_EmptySet
    <2>3. faults' = 0 /\ ~endless' => faults = 0 /\ ~endless
        BY <1>2, HistoryStep
    <2>4. CASE files'[n][k] = {} \/ files'[n][k] = files[n][k]
        BY <1>2, <2>0, <2>2, <2>3, <2>4
    <2>5. CASE Moved(impl.log_file, i, i + 1) /\ i <= impl.max_files - 1
        <3>1. CASE n = impl.log_file /\ k = i + 1
            <4>1. files'[n][k] = files[n][i] /\ i \in Suffixes /\ ~(k > MostFiles)
                BY <1>2, <2>5, <3>1, Numbers DEF Moved
            <4> QED
                BY <1>2, <2>0, <2>3, <4>1
        <3>2. CASE ~(n = impl.log_file /\ k = i + 1)
            BY <1>2, <2>4, <2>5, <3>2 DEF Moved
        <3> QED
            BY <3>1, <3>2
    <2>6. ASSUME NEW t \in Threads, pc[t] = "append", Appends(impl.log_file),
                 impl.log_file \in Names, ~endless' => impl.max_size # 0
          PROVE  /\ k > MostFiles => files'[n][k] = {}
                 /\ faults' = 0 /\ ~endless'
                      => \E c \in Configs : Cardinality(files'[n][k]) <= c.max_size
        <3>1. CASE ~(n = impl.log_file /\ k = 0)
            BY <1>2, <2>4, <2>6, <3>1 DEF Appends
        <3>2. CASE n = impl.log_file /\ k = 0
            <4>1. files'[n][k] = File(0) \cup {written + 1} /\ File(0) = files[n][k]
                BY <2>6, <3>2 DEF Appends, File
            <4>2. ~(k > MostFiles)
                BY <1>2, <3>2, Numbers
            <4>3. File(0) \subseteq 1 .. written /\ IsFiniteSet(File(0))
                  /\ Cardinality(File(0)) \in Nat /\ written \in Nat
                BY <1>2, <4>1, FileSize, Numbers
            <4>4. Cardinality(files'[n][k]) = Cardinality(File(0)) + 1
                <5>1. written + 1 \notin File(0)
                    BY <4>3
                <5> QED
                    BY <4>1, <4>3, <5>1, FS_AddElement
            <4>5. ASSUME faults' = 0, ~endless'
                  PROVE  \E c \in Configs : Cardinality(files'[n][k]) <= c.max_size
                <5>1. impl.max_size \in Nat /\ impl.max_size > 0
                    BY <1>2, <2>6, <4>5, Numbers
                <5>2. Cardinality(File(0)) < impl.max_size
                    BY <1>2, <2>3, <2>6, <4>5, <5>1 DEF RotateInv
                <5>3. PICK c \in Configs : impl.max_size = c.max_size
                    BY <1>2 DEF SettingsInv
                <5>4. Cardinality(files'[n][k]) <= c.max_size
                    BY <4>3, <4>4, <5>1, <5>2, <5>3
                <5> QED
                    BY <5>4
            <4> QED
                BY <4>2, <4>5
        <3> QED
            BY <3>1, <3>2
    <2>7. endless' \in BOOLEAN
        BY TypeStep, TypeSplit, <1>2
    <2> QED
        BY <1>2, <2>4, <2>5, <2>6, <2>7, FileChange DEF Removes
<1>3. TypeOK /\ HoldInv /\ RotateInv /\ SettingsInv /\ DiskBounded /\ [Next]_vars
        => DiskBounded'
    BY <1>2 DEF DiskBounded
<1> QED
    BY <1>1, <1>3, SettingsInvariant, TypeCorrect, PTL DEF Spec
=============================================================================
