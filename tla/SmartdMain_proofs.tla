-------------------------- MODULE SmartdMain_proofs --------------------------
(***************************************************************************)
(* Theorems about SmartdMain, for every set of devices, every content of   *)
(* smartd.conf, every command line and every bound.                        *)
(***************************************************************************)
EXTENDS SmartdMain, FiniteSetTheorems, TLAPS

LEMMA FreshType == Fresh \in StateType
BY DEF Fresh, StateType

\* Writing the state files keeps the types of what it touches.
LEMMA WriteAllType ==
    ASSUME TypeOK, NEW always \in BOOLEAN, WriteAllDevStates(always)
    PROVE  /\ file' \in [Devices -> StateType]
           /\ mustWrite' \in [Devices -> BOOLEAN]
           /\ lost' \in SUBSET Devices
           /\ writeFails' \in Nat
<1>1. PICK failed \in SUBSET ToWrite(always) : \E gone \in SUBSET failed :
        LET written == ToWrite(always) \ failed IN
        /\ writeFails' = writeFails + Cardinality(failed)
        /\ file' = [d \in Devices |-> IF d \in written THEN mem[d]
                                      ELSE IF d \in gone THEN Fresh ELSE file[d]]
        /\ mustWrite' = [d \in Devices |-> mustWrite[d] /\ d \notin written]
        /\ lost' = (lost \ written) \cup failed
  BY DEF WriteAllDevStates
<1>2. failed \subseteq Devices
  BY DEF TypeOK, ToWrite
<1>3. Cardinality(failed) \in Nat
  BY <1>2, DevicesAssumption, FS_Subset, FS_CardinalityType
<1>4. QED
  BY <1>1, <1>2, <1>3, FreshType DEF TypeOK

LEMMA InitTypeOK == Init => TypeOK
<1> SUFFICES ASSUME Init PROVE TypeOK
  OBVIOUS
<1>1. /\ firstpass \in BOOLEAN /\ writeStatesAlways \in BOOLEAN
      /\ caughtsigHUP \in BOOLEAN /\ caughtsigUSR1 \in BOOLEAN
      /\ installed \in BOOLEAN /\ interrupted \in BOOLEAN /\ due \in BOOLEAN
      /\ pidFile \in BOOLEAN /\ forced \in BOOLEAN /\ owed \in BOOLEAN
      /\ mustWrite \in [Devices -> BOOLEAN]
  BY DEF Init
<1>2. QED
  BY <1>1, FreshType, ConfsAssumption
  DEF Init, TypeOK, Locations, Statuses, Stopped, ExitSignals

LEMMA NextTypeOK == TypeOK /\ [Next]_vars => TypeOK'
<1> SUFFICES ASSUME TypeOK, [Next]_vars PROVE TypeOK'
  OBVIOUS
<1> USE DEF signalVars, confVars, stateVars, fileVars, pidVars, envVars, ghostVars, Locations,
           Stopped, ExitSignals, Statuses
<1>1. CASE TopReconfigure
  <2>1. /\ file' \in [Devices -> StateType] /\ mustWrite' \in [Devices -> BOOLEAN]
        /\ lost' \in SUBSET Devices /\ writeFails' \in Nat
    <3>1. CASE firstpass
      BY <1>1, <3>1 DEF TopReconfigure, TypeOK
    <3>2. CASE ~firstpass
      <4>1. WriteAllDevStates(TRUE)
        BY <1>1, <3>2 DEF TopReconfigure
      <4>2. QED
        BY <4>1, WriteAllType
    <3>3. QED
      BY <3>1, <3>2
  <2>2. QED
    BY <1>1, <2>1 DEF TopReconfigure, TypeOK
<1>2. CASE TopContinue
  BY <1>2 DEF TypeOK, TopContinue
<1>3. CASE ReadConfig
  BY <1>3, FreshType, ConfsAssumption DEF TypeOK, ReadConfig
<1>4. CASE RegisterDevices
  BY <1>4, FreshType, ConfsAssumption DEF TypeOK, RegisterDevices, Statuses, Registrable
<1>5. CASE RegisterBadDevice
  BY <1>5, FreshType, ConfsAssumption DEF TypeOK, RegisterBadDevice, Break, Registrable
<1>6. CASE ReusePreviousConfiguration
  BY <1>6 DEF TypeOK, ReusePreviousConfiguration
<1>7. CASE ConfigError
  BY <1>7 DEF TypeOK, ConfigError, Break
<1>8. CASE NoDevices
  BY <1>8 DEF TypeOK, NoDevices, Break
<1>9. CASE ShowTests
  BY <1>9 DEF TypeOK, ShowTests
<1>10. CASE ResetHUP
  <2>1. caughtsigHUP' \in BOOLEAN /\ writeStatesAlways' \in BOOLEAN /\ forced' \in BOOLEAN
    BY <1>10 DEF TypeOK, ResetHUP
  <2>2. QED
    BY <1>10, <2>1 DEF TypeOK, ResetHUP
<1>11. CASE CheckDevicesOnce
  <2>1. owed' \in BOOLEAN /\ afterExit' \in Nat
    BY <1>11 DEF CheckDevicesOnce, TypeOK
  <2>2. /\ mem' \in [Devices -> StateType] /\ mustWrite' \in [Devices -> BOOLEAN]
        /\ changes' \in Nat
    <3>1. CASE UNCHANGED << mem, mustWrite, changes >>
      BY <3>1 DEF TypeOK
    <3>2. CASE changes' = changes + 1 /\ \E d \in monitored : Change(d)
      <4>1. PICK d \in monitored : Change(d)
        BY <3>2
      <4>2. d \in Devices /\ mem[d] \in StateType
        BY DEF TypeOK
      <4>3. /\ [major |-> mem[d].major + 1, minor |-> mem[d].minor] \in StateType
            /\ [major |-> mem[d].major, minor |-> mem[d].minor + 1] \in StateType
        BY <4>2 DEF StateType
      <4>4. mem' \in [Devices -> StateType]
        BY <4>1, <4>2, <4>3 DEF Change, TypeOK
      <4>5. mustWrite' \in [Devices -> BOOLEAN]
        BY <4>1 DEF Change, TypeOK
      <4>6. QED
        BY <3>2, <4>4, <4>5 DEF TypeOK
    <3>3. QED
      BY <1>11, <3>1, <3>2 DEF CheckDevicesOnce
  <2>3. QED
    BY <1>11, <2>1, <2>2 DEF TypeOK, CheckDevicesOnce
<1>12. CASE WriteStates
  <2>1. /\ file' \in [Devices -> StateType] /\ mustWrite' \in [Devices -> BOOLEAN]
        /\ lost' \in SUBSET Devices /\ writeFails' \in Nat
    <3>1. WriteAllDevStates(writeStatesAlways)
      BY <1>12 DEF WriteStates
    <3>2. writeStatesAlways \in BOOLEAN
      BY DEF TypeOK
    <3>3. QED
      BY <3>1, <3>2, WriteAllType
  <2>2. QED
    <3>1. writeStatesAlways' \in BOOLEAN /\ due' \in BOOLEAN
      BY <1>12 DEF WriteStates
    <3>2. QED
      BY <1>12, <2>1, <3>1 DEF WriteStates, TypeOK
<1>13. CASE DaemonInit
  BY <1>13 DEF TypeOK, DaemonInit
<1>14. CASE WritePidFile
  <2>1. pidFile' \in BOOLEAN /\ pidOwn' \in {"no", "written", "kept"}
    BY <1>14 DEF TypeOK, WritePidFile
  <2>2. pc' \in {"install", "end"} /\ status' \in Statuses
    BY <1>14 DEF TypeOK, WritePidFile
  <2>3. /\ UNCHANGED << opts, firstpass, writeStatesAlways, due, changes >>
        /\ UNCHANGED << signalVars, confVars, stateVars, fileVars, envVars, ghostVars >>
    BY <1>14 DEF WritePidFile
  <2>4. QED
    BY <2>1, <2>2, <2>3 DEF TypeOK
<1>15. CASE InstallSignalHandlers
  <2>1. installed' \in BOOLEAN /\ firstpass' \in BOOLEAN /\ due' \in BOOLEAN
    BY <1>15 DEF TypeOK, InstallSignalHandlers
  <2>2. QED
    BY <1>15, <2>1 DEF TypeOK, InstallSignalHandlers
<1>16. CASE TestSleep
  BY <1>16 DEF TypeOK, TestSleep
<1>17. CASE EnterSleep
  <2>1. interrupted' \in BOOLEAN
    BY <1>17 DEF TypeOK, EnterSleep
  <2>2. QED
    BY <1>17, <2>1 DEF TypeOK, EnterSleep
<1>18. CASE LeaveSleep
  BY <1>18 DEF TypeOK, LeaveSleep
<1>19. CASE Wake
  <2>1. /\ caughtsigHUP' \in BOOLEAN /\ caughtsigUSR1' \in BOOLEAN
        /\ writeStatesAlways' \in BOOLEAN /\ forced' \in BOOLEAN
    BY <1>19 DEF TypeOK, Wake, ConsumeSignals, ForceWrite
  <2>2. QED
    BY <1>19, <2>1 DEF TypeOK, Wake, ConsumeSignals, ForceWrite
<1>20. CASE LoopCondition
  BY <1>20 DEF TypeOK, LoopCondition
<1>21. CASE ExitLoop
  <2>1. /\ file' \in [Devices -> StateType] /\ mustWrite' \in [Devices -> BOOLEAN]
        /\ lost' \in SUBSET Devices /\ writeFails' \in Nat
    <3>1. CASE SaveOnExit
      <4>1. WriteAllDevStates(TRUE)
        BY <1>21, <3>1 DEF ExitLoop
      <4>2. QED
        BY <4>1, WriteAllType
    <3>2. CASE ~SaveOnExit
      BY <1>21, <3>2 DEF ExitLoop, TypeOK
    <3>3. QED
      BY <3>1, <3>2
  <2>2. QED
    BY <1>21, <2>1 DEF ExitLoop, ExitStatus, AfterLoop, TypeOK
<1>22. CASE UnlinkPidFile
  <2>1. pidFile' \in BOOLEAN /\ pidOwn' \in {"no", "written", "kept"}
    BY <1>22 DEF TypeOK, UnlinkPidFile
  <2>2. QED
    BY <1>22, <2>1 DEF TypeOK, UnlinkPidFile
<1>23. CASE Signal
  <2>1. /\ caughtsigHUP' \in BOOLEAN /\ caughtsigUSR1' \in BOOLEAN
        /\ interrupted' \in BOOLEAN /\ owed' \in BOOLEAN
    BY <1>23 DEF TypeOK, Signal, Handle, DefaultAction, Signals, ExitSignals, IsHUP
  <2>2. QED
    BY <1>23, <2>1 DEF TypeOK, Signal, Handle, DefaultAction, Signals, ExitSignals, IsHUP
<1>24. CASE EditConfig
  BY <1>24 DEF TypeOK, EditConfig
<1>25. CASE Replug
  BY <1>25 DEF TypeOK, Replug
<1>26. CASE Crash
  BY <1>26 DEF TypeOK, Crash
<1>27. CASE Restart
  <2>1. /\ firstpass' \in BOOLEAN /\ writeStatesAlways' \in BOOLEAN
        /\ caughtsigHUP' \in BOOLEAN /\ caughtsigUSR1' \in BOOLEAN
        /\ installed' \in BOOLEAN /\ interrupted' \in BOOLEAN /\ due' \in BOOLEAN
        /\ forced' \in BOOLEAN /\ owed' \in BOOLEAN
        /\ mustWrite' \in [Devices -> BOOLEAN]
    BY <1>27 DEF TypeOK, Restart
  <2>2. QED
    BY <1>27, <2>1, FreshType, ConfsAssumption DEF TypeOK, Restart
<1>28. CASE UNCHANGED vars
  BY <1>28 DEF vars, TypeOK
<1>29. QED
  BY <1>1, <1>2, <1>3, <1>4, <1>5, <1>6, <1>7, <1>8, <1>9, <1>10, <1>11, <1>12, <1>13, <1>14,
     <1>15, <1>16, <1>17, <1>18, <1>19, <1>20, <1>21, <1>22, <1>23, <1>24, <1>25, <1>26, <1>27,
     <1>28 DEF Next, Step, Environment

\* Type correctness of the life cycle.
THEOREM TypeCorrect == Spec => []TypeOK
BY InitTypeOK, NextTypeOK, PTL DEF Spec

-----------------------------------------------------------------------------
(***************************************************************************)
(* A HUP is lost only in the window between reading and resetting.         *)
(***************************************************************************)
\* While the window is open a HUP that is newer than what was read came
\* inside the window: the invariant that makes HupHonoured inductive.
HupInv ==
    /\ HupHonoured
    /\ pc \in ResetWindow /\ told > readVersion => toldAt \in ResetWindow
    /\ told <= confVersion

LEMMA NextHupInv == TypeOK /\ HupInv /\ [Next]_vars => HupInv'
<1> SUFFICES ASSUME TypeOK, HupInv, [Next]_vars PROVE HupInv'
  OBVIOUS
<1>1. told \in Nat /\ readVersion \in Nat /\ confVersion \in Nat
  BY DEF TypeOK
<1> USE DEF HupInv, HupHonoured, ResetWindow, Locations, Stopped
<1> USE DEF signalVars, confVars, stateVars, fileVars, pidVars, envVars, ghostVars
<1>2. CASE TopReconfigure \/ TopContinue
  BY <1>2 DEF TopReconfigure, TopContinue
<1>3. CASE ReadConfig
  BY <1>1, <1>3 DEF ReadConfig
<1>4. CASE \/ RegisterDevices \/ RegisterBadDevice \/ ReusePreviousConfiguration
           \/ ConfigError \/ NoDevices \/ ShowTests
  BY <1>4 DEF RegisterDevices, RegisterBadDevice, ReusePreviousConfiguration,
              ConfigError, NoDevices, ShowTests, Break
<1>5. CASE ResetHUP
  BY <1>5 DEF ResetHUP
<1>6. CASE \/ CheckDevicesOnce \/ WriteStates \/ DaemonInit \/ WritePidFile
           \/ InstallSignalHandlers \/ TestSleep \/ EnterSleep \/ LeaveSleep
  BY <1>6 DEF CheckDevicesOnce, WriteStates, DaemonInit, WritePidFile,
              InstallSignalHandlers, TestSleep, EnterSleep, LeaveSleep
<1>7. CASE Wake \/ LoopCondition \/ ExitLoop \/ UnlinkPidFile
  BY <1>7 DEF Wake, ConsumeSignals, LoopCondition, ExitLoop, AfterLoop, UnlinkPidFile
<1>8. CASE Signal
  <2>1. PICK s \in Signals : Handle(s) \/ DefaultAction(s)
    BY <1>8 DEF Signal
  <2>2. UNCHANGED << confVars, confVersion >>
    BY <1>8 DEF Signal
  <2>3. CASE Handle(s) /\ IsHUP(s)
    BY <1>1, <2>2, <2>3 DEF Handle
  <2>4. CASE Handle(s) /\ ~IsHUP(s)
    BY <2>2, <2>4 DEF Handle
  <2>5. CASE DefaultAction(s)
    BY <2>2, <2>5 DEF DefaultAction
  <2>6. QED
    BY <2>1, <2>3, <2>4, <2>5
<1>9. CASE EditConfig
  BY <1>1, <1>9 DEF EditConfig
<1>10. CASE Replug \/ Crash
  BY <1>10 DEF Replug, Crash
<1>11. CASE Restart
  BY <1>1, <1>11 DEF Restart
<1>12. CASE UNCHANGED vars
  BY <1>12 DEF vars
<1>13. QED
  BY <1>2, <1>3, <1>4, <1>5, <1>6, <1>7, <1>8, <1>9, <1>10, <1>11, <1>12
  DEF Next, Step, Environment

\* A HUP that arrives outside the window between ParseConfigFile() and the
\* reset of caughtsigHUP is answered by a reading that is at least as new as
\* the file it announced.
THEOREM HupOutsideWindowHonoured == Spec => []HupHonoured
<1>1. Init => HupInv
  BY DEF Init, HupInv, HupHonoured, ResetWindow
<1>2. HupInv => HupHonoured
  BY DEF HupInv
<1>3. QED
  BY <1>1, <1>2, InitTypeOK, NextTypeOK, NextHupInv, PTL DEF Spec

-----------------------------------------------------------------------------
(***************************************************************************)
(* At most one more check cycle after an exit signal.                      *)
(***************************************************************************)
\* The check cycle that counted is the last one: the loop condition stands
\* between it and the next.
ExitInv ==
    /\ afterExit \in {0, 1}
    /\ afterExit = 1 =>
         /\ caughtsigEXIT # "none"
         /\ pc \in {"write", "daemon", "pid", "install", "dosleep", "presleep", "sleep",
                    "wake", "bottom", "exit", "unlink"} \cup Stopped

LEMMA NextExitInv == TypeOK /\ ExitInv /\ [Next]_vars => ExitInv'
<1> SUFFICES ASSUME TypeOK, ExitInv, [Next]_vars PROVE ExitInv'
  OBVIOUS
<1> USE DEF ExitInv, Stopped
<1> USE DEF signalVars, confVars, stateVars, fileVars, pidVars, envVars, ghostVars
<1>1. CASE TopReconfigure \/ TopContinue \/ ReadConfig
  BY <1>1 DEF TopReconfigure, TopContinue, ReadConfig
<1>2. CASE \/ RegisterDevices \/ RegisterBadDevice \/ ReusePreviousConfiguration
           \/ ConfigError \/ NoDevices \/ ShowTests \/ ResetHUP
  BY <1>2 DEF RegisterDevices, RegisterBadDevice, ReusePreviousConfiguration,
              ConfigError, NoDevices, ShowTests, ResetHUP, Break
<1>3. CASE CheckDevicesOnce
  BY <1>3 DEF CheckDevicesOnce
<1>4. CASE \/ WriteStates \/ DaemonInit \/ WritePidFile
           \/ InstallSignalHandlers \/ TestSleep \/ EnterSleep \/ LeaveSleep
  BY <1>4 DEF WriteStates, DaemonInit, WritePidFile,
              InstallSignalHandlers, TestSleep, EnterSleep, LeaveSleep
<1>5. CASE Wake \/ LoopCondition \/ ExitLoop \/ UnlinkPidFile
  BY <1>5 DEF Wake, LoopCondition, ExitRequested, ExitLoop, AfterLoop, UnlinkPidFile
<1>6. CASE Signal
  BY <1>6 DEF Signal, Signals, ExitSignals, Handle, IsHUP, DefaultAction
<1>7. CASE EditConfig \/ Replug \/ Crash \/ Restart
  BY <1>7 DEF EditConfig, Replug, Crash, Restart
<1>8. CASE UNCHANGED vars
  BY <1>8 DEF vars
<1>9. QED
  BY <1>1, <1>2, <1>3, <1>4, <1>5, <1>6, <1>7, <1>8 DEF Next, Step, Environment

\* However many signals arrive and however they interleave, smartd starts at
\* most one more check cycle after it has caught TERM, QUIT or INT.
THEOREM ExitIsPrompt == Spec => []PromptExit
<1>1. Init => ExitInv
  BY DEF Init, ExitInv
<1>2. ExitInv => PromptExit
  BY DEF ExitInv, PromptExit
<1>3. QED
  BY <1>1, <1>2, InitTypeOK, NextTypeOK, NextExitInv, PTL DEF Spec

-----------------------------------------------------------------------------
(***************************************************************************)
(* What a crash can lose.                                                  *)
(***************************************************************************)
\* The places between the writing of the state files and the next check.
Settled == {"daemon", "pid", "install", "dosleep", "presleep", "sleep", "wake"}

\* A device whose must_write is not set has its important changes on disk,
\* and must_write is not set anywhere once the files have been written,
\* except where the file could not be created.
SavedInv ==
    \A d \in monitored \ lost : opts.statePath =>
        /\ ~mustWrite[d] => file[d].major = mem[d].major
        /\ pc \in Settled => ~mustWrite[d]

\* Writing the state files settles every device that is not lost, if
\* must_write was right before.
LEMMA WriteAllSettles ==
    ASSUME TypeOK, SavedInv, NEW always \in BOOLEAN, WriteAllDevStates(always),
           UNCHANGED << monitored, mem, opts >>
    PROVE  \A d \in monitored' \ lost' : opts'.statePath =>
               ~mustWrite'[d] /\ file'[d].major = mem'[d].major
<1>1. PICK failed \in SUBSET ToWrite(always) : \E gone \in SUBSET failed :
        LET written == ToWrite(always) \ failed IN
        /\ file' = [d \in Devices |-> IF d \in written THEN mem[d]
                                      ELSE IF d \in gone THEN Fresh ELSE file[d]]
        /\ mustWrite' = [d \in Devices |-> mustWrite[d] /\ d \notin written]
        /\ lost' = (lost \ written) \cup failed
  BY DEF WriteAllDevStates
<1> SUFFICES ASSUME NEW d \in monitored, d \notin lost', opts.statePath
             PROVE  ~mustWrite'[d] /\ file'[d].major = mem[d].major
  OBVIOUS
<1>2. d \in Devices /\ d \notin failed
  BY <1>1 DEF TypeOK
<1>3. CASE d \in ToWrite(always)
  BY <1>1, <1>2, <1>3
<1>4. CASE d \notin ToWrite(always)
  <2>1. ~mustWrite[d] /\ d \notin lost
    BY <1>1, <1>4 DEF ToWrite
  <2>2. file[d].major = mem[d].major
    BY <2>1 DEF SavedInv
  <2>3. QED
    BY <1>1, <1>2, <1>4, <2>1, <2>2
<1>5. QED
  BY <1>3, <1>4

LEMMA NextSavedInv == TypeOK /\ SavedInv /\ [Next]_vars => SavedInv'
<1> SUFFICES ASSUME TypeOK, SavedInv, [Next]_vars PROVE SavedInv'
  OBVIOUS
<1> USE DEF Stopped, Settled
<1> USE DEF signalVars, confVars, stateVars, fileVars, pidVars, envVars, ghostVars
<1>1. CASE TopReconfigure
  <2>1. CASE firstpass
    BY <1>1, <2>1 DEF TopReconfigure, SavedInv
  <2>2. CASE ~firstpass
    <3>1. WriteAllDevStates(TRUE) /\ UNCHANGED << monitored, mem, opts >>
      BY <1>1, <2>2 DEF TopReconfigure
    <3>2. QED
      BY <3>1, WriteAllSettles DEF SavedInv
  <2>3. QED
    BY <2>1, <2>2
<1>2. CASE TopContinue \/ ReadConfig
  BY <1>2 DEF TopContinue, ReadConfig, SavedInv
<1>3. CASE RegisterDevices
  <2>1. /\ monitored' = Registrable /\ Registrable \subseteq Devices
        /\ mem' = [d \in Devices |-> IF d \in Registrable /\ opts.statePath
                                     THEN file[d] ELSE Fresh]
        /\ mustWrite' = [d \in Devices |-> FALSE]
        /\ UNCHANGED << file, lost, opts >>
    BY <1>3 DEF RegisterDevices, Registrable, TypeOK
  <2>2. QED
    BY <2>1 DEF SavedInv
<1>4. CASE RegisterBadDevice
  BY <1>4 DEF RegisterBadDevice, Break, SavedInv, TypeOK
<1>5. CASE ReusePreviousConfiguration \/ ConfigError \/ NoDevices \/ ShowTests \/ ResetHUP
  BY <1>5 DEF ReusePreviousConfiguration, ConfigError, NoDevices, ShowTests, ResetHUP,
              Break, SavedInv
<1>6. CASE CheckDevicesOnce
  <2>1. UNCHANGED << monitored, lost, file, opts >> /\ pc' = "write"
    BY <1>6 DEF CheckDevicesOnce
  <2>2. CASE UNCHANGED << mem, mustWrite, changes >>
    BY <2>1, <2>2 DEF SavedInv
  <2>3. ASSUME NEW c \in monitored, Change(c) PROVE SavedInv'
    <3>1. c \in Devices
      BY DEF TypeOK
    <3>2. ASSUME NEW d \in monitored, d \notin lost, opts.statePath, ~mustWrite'[d]
          PROVE  file[d].major = mem'[d].major
      <4>1. d \in Devices
        BY DEF TypeOK
      <4>2. CASE d # c
        BY <2>3, <3>2, <4>1, <4>2 DEF Change, SavedInv, TypeOK
      <4>3. CASE d = c
        BY <2>3, <3>1, <3>2, <4>3 DEF Change, SavedInv, TypeOK
      <4>4. QED
        BY <4>2, <4>3
    <3>3. QED
      BY <2>1, <3>2 DEF SavedInv
  <2>4. QED
    BY <1>6, <2>2, <2>3 DEF CheckDevicesOnce
<1>7. CASE WriteStates
  <2>1. WriteAllDevStates(writeStatesAlways) /\ UNCHANGED << monitored, mem, opts >>
    BY <1>7 DEF WriteStates
  <2>2. writeStatesAlways \in BOOLEAN
    BY DEF TypeOK
  <2>3. QED
    BY <2>1, <2>2, WriteAllSettles DEF SavedInv
<1>8. CASE DaemonInit \/ WritePidFile \/ InstallSignalHandlers
  BY <1>8 DEF DaemonInit, WritePidFile, InstallSignalHandlers, SavedInv
<1>9. CASE TestSleep \/ EnterSleep \/ LeaveSleep \/ Wake \/ LoopCondition
  BY <1>9 DEF TestSleep, EnterSleep, LeaveSleep, Wake, LoopCondition, SavedInv
<1>10. CASE ExitLoop
  <2>1. CASE SaveOnExit
    <3>1. WriteAllDevStates(TRUE) /\ UNCHANGED << monitored, mem, opts >>
      BY <1>10, <2>1 DEF ExitLoop
    <3>2. QED
      BY <3>1, WriteAllSettles DEF SavedInv
  <2>2. CASE ~SaveOnExit
    BY <1>10, <2>2 DEF ExitLoop, AfterLoop, SavedInv
  <2>3. QED
    BY <2>1, <2>2
<1>11. CASE UnlinkPidFile
  BY <1>11 DEF UnlinkPidFile, SavedInv
<1>12. CASE Signal
  <2>1. UNCHANGED << opts, stateVars, fileVars >> /\ pc' \in {pc, "killed"}
    BY <1>12 DEF Signal, Handle, DefaultAction
  <2>2. QED
    BY <2>1 DEF SavedInv
<1>13. CASE EditConfig \/ Replug \/ Crash \/ Restart
  BY <1>13 DEF EditConfig, Replug, Crash, Restart, SavedInv
<1>14. CASE UNCHANGED vars
  BY <1>14 DEF vars, SavedInv
<1>15. QED
  BY <1>1, <1>2, <1>3, <1>4, <1>5, <1>6, <1>7, <1>8, <1>9, <1>10, <1>11, <1>12, <1>13,
     <1>14 DEF Next, Step, Environment

\* A crash, a kill or a power failure while smartd waits loses no change
\* that a check flagged with must_write, whatever reloads, forced checks and
\* failed writes of other devices came before.
THEOREM CrashLosesNothingImportant == Spec => []ImportantChangesSaved
<1>1. Init => SavedInv
  BY DEF Init, SavedInv
<1>2. SavedInv => ImportantChangesSaved
  BY DEF SavedInv, ImportantChangesSaved, Waiting, Settled
<1>3. QED
  BY <1>1, <1>2, InitTypeOK, NextTypeOK, NextSavedInv, PTL DEF Spec

-----------------------------------------------------------------------------
(***************************************************************************)
(* How smartd ends.                                                        *)
(***************************************************************************)
\* What is left of the first pass: its way into the background, and the modes that end in it.
FirstPassInv ==
    /\ pc \in {"daemon", "pid", "install"} => firstpass
    /\ pc \in {"dosleep", "presleep", "sleep", "wake", "bottom"} => ~firstpass
    /\ opts.quit \in {"onecheck", "showtests"} => firstpass
    /\ opts.quit = "onecheck" => pc \notin {"daemon", "pid", "install"}
    /\ opts.quit = "showtests" => pc \notin {"check", "write", "daemon", "pid", "install"}

LEMMA NextFirstPassInv == FirstPassInv /\ [Next]_vars => FirstPassInv'
<1> SUFFICES ASSUME FirstPassInv, [Next]_vars PROVE FirstPassInv'
  OBVIOUS
<1> USE DEF FirstPassInv, Stopped
<1> USE DEF signalVars, confVars, stateVars, fileVars, pidVars, envVars, ghostVars
<1>1. CASE TopReconfigure \/ TopContinue \/ ReadConfig
  BY <1>1 DEF TopReconfigure, TopContinue, ReadConfig
<1>2. CASE \/ RegisterDevices \/ RegisterBadDevice \/ ReusePreviousConfiguration
           \/ ConfigError \/ NoDevices \/ ShowTests \/ ResetHUP
  BY <1>2 DEF RegisterDevices, RegisterBadDevice, ReusePreviousConfiguration,
              ConfigError, NoDevices, ShowTests, ResetHUP, Break
<1>3. CASE CheckDevicesOnce \/ TestSleep \/ EnterSleep \/ LeaveSleep
  BY <1>3 DEF CheckDevicesOnce, TestSleep, EnterSleep, LeaveSleep
<1>4. CASE WriteStates \/ InstallSignalHandlers
  BY <1>4 DEF WriteStates, InstallSignalHandlers
<1>5. CASE DaemonInit \/ WritePidFile
  BY <1>5 DEF DaemonInit, WritePidFile
<1>6. CASE Wake \/ LoopCondition \/ UnlinkPidFile
  BY <1>6 DEF Wake, LoopCondition, UnlinkPidFile
<1>7. CASE ExitLoop
  BY <1>7 DEF ExitLoop, AfterLoop
<1>8. CASE Signal
  <2>1. UNCHANGED << opts, firstpass >> /\ pc' \in {pc, "killed"}
    BY <1>8 DEF Signal, Handle, DefaultAction
  <2>2. QED
    BY <2>1
<1>9. CASE EditConfig \/ Replug \/ Crash \/ Restart
  BY <1>9 DEF EditConfig, Replug, Crash, Restart
<1>10. CASE UNCHANGED vars
  BY <1>10 DEF vars
<1>11. QED
  BY <1>1, <1>2, <1>3, <1>4, <1>5, <1>6, <1>7, <1>8, <1>9, <1>10 DEF Next, Step, Environment

\* From a registration that went well on there is a device, or the mode does without; a
\* faulty file passes only where it may be ignored.
Populated == monitored # {} \/ MayRunEmpty

\* The reasons for an end are those for leaving the loop, and a process has a PID file
\* of its own only after the first pass, or right before the end of it.
QuitInv ==
    /\ opts \in Options
    /\ pc \in {"check", "write", "daemon", "pid", "install", "dosleep", "presleep", "sleep",
              "wake", "bottom"} => Populated
    /\ pc \in {"top", "read", "register"} /\ ~firstpass => Populated
    /\ pc = "count" /\ Unusable => MayReuse /\ Populated
    /\ pc \in {"count", "check", "write"} /\ opts.quit \in {"onecheck", "showtests"}
         => ~Unusable /\ ~Missing
    /\ pc \notin {"exit", "unlink"} \cup Stopped => status = "none"
    /\ pc = "exit" =>
         /\ QuitAllowed
         /\ status \in {"none", "ok", "BADDEV", "BADCONF", "NOCONF", "READCONF", "NODEV"}
         /\ status = "none" => caughtsigEXIT # "none"
         /\ status = "ok" => SuccessAllowed
    /\ pc \in {"unlink", "end"} =>
         /\ QuitAllowed
         /\ status = "ok" => SuccessAllowed
         /\ status = "SIGNAL" => caughtsigEXIT \in {"INT", "QUIT"}
    /\ firstpass /\ pc \notin {"install", "killed", "crashed"} => pidOwn # "written"
    /\ ~opts.pidPath => pidOwn # "written"
    /\ PidFileRemoved

LEMMA NextQuitInv == TypeOK /\ FirstPassInv /\ QuitInv /\ [Next]_vars => QuitInv'
<1> SUFFICES ASSUME TypeOK, FirstPassInv, QuitInv, [Next]_vars PROVE QuitInv'
  OBVIOUS
<1> USE DEF PidFileRemoved, Stopped
<1> USE DEF QuitAllowed, SuccessAllowed, Unusable, Emptied, Missing, Populated, MayRunEmpty
<1> USE DEF signalVars, confVars, stateVars, fileVars, pidVars, envVars, ghostVars
<1>1. CASE TopReconfigure \/ TopContinue \/ ReadConfig
  <2>1. /\ UNCHANGED << opts, firstpass, status, monitored, pidVars >>
        /\ pc \in {"top", "read"} /\ pc' \in {"read", "register", "check"}
        /\ pc' = "check" => pc = "top" /\ ~firstpass
    BY <1>1 DEF TopReconfigure, TopContinue, ReadConfig
  <2>2. opts.quit \in {"onecheck", "showtests"} => firstpass
    BY DEF FirstPassInv
  <2>3. QED
    BY <2>1, <2>2 DEF QuitInv
<1>2. CASE RegisterDevices
  <2>1. /\ UNCHANGED << opts, firstpass, status, pidVars, confVars >>
        /\ pc = "register" /\ pc' = "count" /\ monitored' = Registrable
        /\ ~Unusable /\ ~MissingMandatory
    BY <1>2 DEF RegisterDevices, EntriesUsable
  <2>2. opts.quit # "never" => confRead.removable \/ confRead.listed \subseteq monitored'
    BY <2>1 DEF MissingMandatory, Registrable
  <2>3. QED
    BY <2>1, <2>2 DEF QuitInv
<1>3. CASE RegisterBadDevice
  <2>1. /\ UNCHANGED << opts, firstpass, caughtsigEXIT, pidVars, confVars >>
        /\ pc = "register" /\ pc' = "exit" /\ status' = "BADDEV"
        /\ monitored' \subseteq confRead.listed \cap present
        /\ ~Unusable /\ MissingMandatory
    BY <1>3 DEF RegisterBadDevice, EntriesUsable, Break
  <2>2. opts.quit # "never" /\ ~confRead.removable
        /\ ~(confRead.listed \subseteq monitored')
    BY <2>1 DEF MissingMandatory
  <2>3. QED
    BY <2>1, <2>2 DEF QuitInv
<1>4. CASE ReusePreviousConfiguration
  BY <1>4 DEF ReusePreviousConfiguration, EntriesUsable, MayReuse, QuitInv, FirstPassInv
<1>5. CASE ConfigError
  <2>1. /\ UNCHANGED << opts, firstpass, caughtsigEXIT, pidVars, confVars, monitored >>
        /\ pc = "register" /\ pc' = "exit"
        /\ status' \in {"READCONF", "NOCONF", "BADCONF"}
        /\ Unusable /\ ~MayReuse
    BY <1>5 DEF ConfigError, EntriesUsable, Break
  <2>2. QED
    BY <2>1 DEF QuitInv, MayReuse
<1>6. CASE NoDevices
  <2>1. /\ UNCHANGED << opts, firstpass, caughtsigEXIT, pidVars, confVars, monitored >>
        /\ pc = "count" /\ pc' = "exit"
        /\ status' = IF opts.nodev0 THEN "ok" ELSE "NODEV"
        /\ ~Populated
    BY <1>6 DEF NoDevices, Break
  <2>2. Emptied
    BY <2>1 DEF QuitInv
  <2>3. QED
    BY <2>1, <2>2 DEF QuitInv
<1>7. CASE ShowTests
  BY <1>7 DEF ShowTests, QuitInv, FirstPassInv
<1>8. CASE ResetHUP
  BY <1>8 DEF ResetHUP, QuitInv
<1>9. CASE CheckDevicesOnce
  BY <1>9 DEF CheckDevicesOnce, QuitInv
<1>10. CASE WriteStates
  BY <1>10 DEF WriteStates, QuitInv, FirstPassInv
<1>11. CASE DaemonInit
  BY <1>11 DEF DaemonInit, QuitInv, FirstPassInv
<1>12. CASE WritePidFile
  BY <1>12 DEF WritePidFile, QuitInv, FirstPassInv
<1>13. CASE InstallSignalHandlers \/ TestSleep \/ EnterSleep \/ LeaveSleep \/ Wake
  BY <1>13 DEF InstallSignalHandlers, TestSleep, EnterSleep, LeaveSleep, Wake, QuitInv
<1>14. CASE LoopCondition
  BY <1>14 DEF LoopCondition, ExitRequested, QuitInv, FirstPassInv
<1>15. CASE ExitLoop
  <2>1. /\ UNCHANGED << opts, firstpass, caughtsigEXIT, monitored, pidVars, confVars >>
        /\ pc = "exit" /\ status' = ExitStatus
        /\ pc' \in {"end", "unlink"} /\ (pc' = "end" => firstpass)
    BY <1>15 DEF ExitLoop, AfterLoop
  <2>2. status # "none" => status' = status
    BY <2>1 DEF ExitStatus
  <2>3. status = "none" =>
          /\ status' \in {"ok", "SIGNAL"}
          /\ status' = "ok" => caughtsigEXIT \in {"none", "TERM"} \/
                                 (opts.debug /\ caughtsigEXIT = "QUIT")
          /\ status' = "SIGNAL" => caughtsigEXIT \in {"INT", "QUIT"}
    BY <2>1 DEF ExitStatus, TypeOK, ExitSignals
  <2>4. QED
    BY <2>1, <2>2, <2>3 DEF QuitInv
<1>16. CASE UnlinkPidFile
  BY <1>16 DEF UnlinkPidFile, QuitInv
<1>17. CASE Signal
  <2>1. /\ UNCHANGED << opts, firstpass, status, monitored, pidVars, confVars >>
        /\ pc \notin Stopped /\ pc' \in {pc, "killed"}
        /\ caughtsigEXIT # "none" => caughtsigEXIT' = caughtsigEXIT
    BY <1>17 DEF Signal, Handle, DefaultAction
  <2>2. CASE pc' = "killed"
    BY <2>1, <2>2 DEF QuitInv
  <2>3. CASE pc' = pc /\ caughtsigEXIT = "none"
    <3>1. QuitAllowed => QuitAllowed'
      BY <2>1, <2>3
    <3>2. SuccessAllowed => SuccessAllowed'
      BY <2>1, <2>3
    <3>3. pc \in {"unlink", "exit"} => status # "SIGNAL"
      BY <2>3 DEF QuitInv
    <3>4. QED
      BY <2>1, <2>3, <3>1, <3>2, <3>3 DEF QuitInv, MayReuse
  <2>4. CASE pc' = pc /\ caughtsigEXIT' = caughtsigEXIT
    BY <2>1, <2>4 DEF QuitInv, MayReuse
  <2>5. QED
    BY <2>1, <2>2, <2>3, <2>4
<1>18. CASE EditConfig \/ Replug \/ UNCHANGED vars
  <2>1. UNCHANGED << opts, pc, firstpass, status, monitored, caughtsigEXIT, pidVars,
                     confVars >>
    BY <1>18 DEF EditConfig, Replug, vars
  <2>2. QED
    BY <2>1 DEF QuitInv, MayReuse
<1>19. CASE Crash \/ Restart
  <2>1. /\ UNCHANGED opts /\ pc' \in {"crashed", "top"}
        /\ pc' = "top" => firstpass' /\ status' = "none" /\ pidOwn' = "no"
        /\ pc' = "crashed" => UNCHANGED pidVars
    BY <1>19 DEF Crash, Restart
  <2>2. QED
    BY <2>1 DEF QuitInv
<1>20. QED
  BY <1>1, <1>2, <1>3, <1>4, <1>5, <1>6, <1>7, <1>8, <1>9, <1>10, <1>11, <1>12, <1>13,
     <1>14, <1>15, <1>16, <1>17, <1>18, <1>19 DEF Next, Step, Environment

\* For every command line and every sequence of edits, signals and missing devices,
\* main_worker() returns only for a reason that the -q mode allows and with its exit
\* status, and no PID file that could be removed is left.
THEOREM EndsInGoodOrder == Spec => []QuitsInGoodOrder
<1>1. Init => FirstPassInv
  BY DEF Init, FirstPassInv
<1>2. Init => QuitInv
  BY DEF Init, QuitInv, PidFileRemoved, Stopped
<1>3. QuitInv => QuitsInGoodOrder
  BY DEF QuitInv, QuitsInGoodOrder, EndsForReason
<1>4. QED
  BY <1>1, <1>2, <1>3, InitTypeOK, NextTypeOK, NextFirstPassInv, NextQuitInv, PTL DEF Spec

-----------------------------------------------------------------------------
(***************************************************************************)
(* When the state files are complete.                                      *)
(***************************************************************************)
Complete == \A d \in monitored \ lost : opts.statePath => file[d] = mem[d]

\* A forced cycle keeps write_states_always until its files are written; smartd.conf is
\* read again, and a daemon exits with 0, with complete files.
CompleteInv ==
    /\ forced /\ pc \in {"bottom", "top", "read", "register", "count", "check", "write"}
         => writeStatesAlways
    /\ forced /\ pc \in Settled => Complete
    /\ firstpass /\ pc \in {"top", "read", "register"} => monitored = {}
    /\ pc \in {"read", "register"} => Complete
    /\ pc = "unlink" => ~firstpass
    /\ pc \in {"unlink", "end"} /\ ~firstpass /\ status = "ok" => Complete

\* All devices whose files could be written have complete ones.
LEMMA WriteAllCompletes ==
    ASSUME TypeOK, WriteAllDevStates(TRUE), UNCHANGED << monitored, mem, opts >>
    PROVE  Complete'
<1>1. PICK failed \in SUBSET ToWrite(TRUE) : \E gone \in SUBSET failed :
        LET written == ToWrite(TRUE) \ failed IN
        /\ file' = [d \in Devices |-> IF d \in written THEN mem[d]
                                      ELSE IF d \in gone THEN Fresh ELSE file[d]]
        /\ lost' = (lost \ written) \cup failed
  BY DEF WriteAllDevStates
<1> SUFFICES ASSUME NEW d \in monitored, d \notin lost', opts.statePath
             PROVE  file'[d] = mem[d]
  BY DEF Complete
<1>2. d \in Devices /\ d \notin failed /\ d \in ToWrite(TRUE)
  BY <1>1 DEF TypeOK, ToWrite
<1>3. QED
  BY <1>1, <1>2

LEMMA NextCompleteInv ==
    TypeOK /\ FirstPassInv /\ CompleteInv /\ [Next]_vars => CompleteInv'
<1> SUFFICES ASSUME TypeOK, FirstPassInv, CompleteInv, [Next]_vars PROVE CompleteInv'
  OBVIOUS
<1> USE DEF Settled, Stopped
<1> USE DEF signalVars, confVars, stateVars, fileVars, pidVars, envVars, ghostVars
<1>1. CASE TopReconfigure
  <2>1. CASE firstpass
    BY <1>1, <2>1 DEF TopReconfigure, CompleteInv, Complete
  <2>2. CASE ~firstpass
    <3>1. WriteAllDevStates(TRUE) /\ UNCHANGED << monitored, mem, opts >>
      BY <1>1, <2>2 DEF TopReconfigure
    <3>2. Complete'
      BY <3>1, WriteAllCompletes
    <3>3. UNCHANGED << firstpass, writeStatesAlways, forced >> /\ pc = "top" /\ pc' = "read"
      BY <1>1 DEF TopReconfigure
    <3>4. QED
      BY <2>2, <3>2, <3>3 DEF CompleteInv
  <2>3. QED
    BY <2>1, <2>2
<1>2. CASE TopContinue \/ ReadConfig
  BY <1>2 DEF TopContinue, ReadConfig, CompleteInv, Complete
<1>3. CASE RegisterDevices \/ RegisterBadDevice
  BY <1>3 DEF RegisterDevices, RegisterBadDevice, Break, CompleteInv
<1>4. CASE ReusePreviousConfiguration \/ ConfigError \/ NoDevices \/ ShowTests \/ ResetHUP
  BY <1>4 DEF ReusePreviousConfiguration, ConfigError, NoDevices, ShowTests, ResetHUP,
              Break, CompleteInv, FirstPassInv
<1>5. CASE CheckDevicesOnce
  BY <1>5 DEF CheckDevicesOnce, CompleteInv
<1>6. CASE WriteStates
  <2>1. /\ WriteAllDevStates(writeStatesAlways)
        /\ UNCHANGED << monitored, mem, opts, firstpass, forced >>
        /\ pc = "write" /\ pc' \in {"end", "dosleep", "install", "daemon"}
        /\ pc' = "end" => opts.quit = "onecheck"
    BY <1>6 DEF WriteStates
  <2>2. forced => writeStatesAlways = TRUE
    BY <2>1 DEF CompleteInv, TypeOK
  <2>3. forced => Complete'
    BY <2>1, <2>2, WriteAllCompletes
  <2>4. QED
    BY <2>1, <2>3 DEF CompleteInv, FirstPassInv
<1>7. CASE DaemonInit \/ WritePidFile \/ InstallSignalHandlers
  <2>1. /\ UNCHANGED << opts, forced, stateVars, fileVars >>
        /\ pc \in {"daemon", "pid", "install"} /\ firstpass
        /\ pc' \in {"pid", "install", "dosleep", "end"}
        /\ pc' = "end" => firstpass'
    BY <1>7 DEF DaemonInit, WritePidFile, InstallSignalHandlers, FirstPassInv
  <2>2. QED
    BY <2>1 DEF CompleteInv, Complete
<1>8. CASE TestSleep \/ EnterSleep \/ LeaveSleep
  BY <1>8 DEF TestSleep, EnterSleep, LeaveSleep, CompleteInv, Complete
<1>9. CASE Wake \/ LoopCondition
  <2>1. /\ UNCHANGED << opts, firstpass, stateVars, fileVars >>
        /\ pc \in {"wake", "bottom"} /\ pc' \in {"bottom", "top", "exit"}
        /\ pc' = "top" => ~firstpass
    BY <1>9 DEF Wake, LoopCondition, FirstPassInv
  <2>2. pc' \in {"bottom", "top"} /\ forced' => writeStatesAlways'
    <3>1. CASE Wake
      BY <3>1 DEF Wake, ForceWrite
    <3>2. CASE LoopCondition
      BY <3>2 DEF LoopCondition, CompleteInv
    <3>3. QED
      BY <1>9, <3>1, <3>2
  <2>3. QED
    BY <2>1, <2>2 DEF CompleteInv
<1>10. CASE ExitLoop
  <2>1. /\ pc = "exit" /\ pc' = AfterLoop /\ status' = ExitStatus
        /\ UNCHANGED << firstpass, monitored, mem, opts >>
    BY <1>10 DEF ExitLoop
  <2>2. pc' = (IF firstpass THEN "end" ELSE "unlink")
    BY <2>1 DEF AfterLoop
  <2>3. ~firstpass /\ status' = "ok" => Complete'
    <3>1. CASE SaveOnExit
      BY <1>10, <2>1, <3>1, WriteAllCompletes DEF ExitLoop
    <3>2. QED
      BY <2>1, <3>1 DEF SaveOnExit
  <2>4. QED
    BY <2>1, <2>2, <2>3 DEF CompleteInv
<1>11. CASE UnlinkPidFile
  BY <1>11 DEF UnlinkPidFile, CompleteInv, Complete
<1>12. CASE Signal
  <2>1. /\ UNCHANGED << opts, firstpass, writeStatesAlways, status, forced >>
        /\ UNCHANGED << stateVars, fileVars >>
        /\ pc' \in {pc, "killed"}
    BY <1>12 DEF Signal, Handle, DefaultAction
  <2>2. QED
    BY <2>1 DEF CompleteInv, Complete
<1>13. CASE EditConfig \/ Replug \/ Crash
  BY <1>13 DEF EditConfig, Replug, Crash, CompleteInv, Complete
<1>14. CASE Restart
  BY <1>14 DEF Restart, CompleteInv
<1>15. CASE UNCHANGED vars
  BY <1>15 DEF vars, CompleteInv, Complete
<1>16. QED
  BY <1>1, <1>2, <1>3, <1>4, <1>5, <1>6, <1>7, <1>8, <1>9, <1>10, <1>11, <1>12, <1>13,
     <1>14, <1>15 DEF Next, Step, Environment

\* After a forced cycle, and after an exit of the daemon with status 0, the minor changes
\* are on disk as well, whatever signals, reloads and failed writes came in between.
THEOREM ForcedAndFinalFilesComplete == Spec => []MinorChangesSaved
<1>1. Init => FirstPassInv
  BY DEF Init, FirstPassInv
<1>2. Init => CompleteInv
  BY DEF Init, CompleteInv, Settled
<1>3. CompleteInv => MinorChangesSaved
  BY DEF CompleteInv, Complete, MinorChangesSaved, ForcedCycleSavesAll,
         StatusZeroMeansSaved, Waiting, Settled
<1>4. QED
  BY <1>1, <1>2, <1>3, InitTypeOK, NextTypeOK, NextFirstPassInv, NextCompleteInv, PTL
  DEF Spec

-----------------------------------------------------------------------------
(***************************************************************************)
(* What a new configuration leaves alone.                                  *)
(***************************************************************************)
\* Only these steps of a running daemon change the set of monitored devices, and with
\* the check they are the only ones that change their states.
LEMMA OnlyRegistrationChanges ==
    ASSUME Next, pc \notin Stopped
    PROVE  \/ RegisterDevices \/ RegisterBadDevice
           \/ UNCHANGED monitored /\ (pc # "check" => UNCHANGED mem)
<1> USE DEF signalVars, confVars, stateVars, fileVars, pidVars, envVars, ghostVars
<1>1. CASE \/ TopReconfigure \/ TopContinue \/ ReadConfig \/ ReusePreviousConfiguration
           \/ ConfigError \/ NoDevices \/ ShowTests \/ ResetHUP
  BY <1>1 DEF TopReconfigure, TopContinue, ReadConfig, ReusePreviousConfiguration,
              ConfigError, NoDevices, ShowTests, ResetHUP
<1>2. CASE \/ CheckDevicesOnce \/ WriteStates \/ DaemonInit \/ WritePidFile
           \/ InstallSignalHandlers \/ TestSleep \/ EnterSleep \/ LeaveSleep
  BY <1>2 DEF CheckDevicesOnce, WriteStates, DaemonInit, WritePidFile,
              InstallSignalHandlers, TestSleep, EnterSleep, LeaveSleep
<1>3. CASE Wake \/ LoopCondition \/ ExitLoop \/ UnlinkPidFile
  BY <1>3 DEF Wake, LoopCondition, ExitLoop, UnlinkPidFile
<1>4. CASE Environment
  BY <1>4 DEF Environment, Signal, EditConfig, Replug, Crash, Restart
<1>5. QED
  BY <1>1, <1>2, <1>3, <1>4 DEF Next, Step

\* A device that stays monitored keeps its state over a reload of smartd.conf, by way of
\* the state file that was written before: no change is lost, and none comes back.
THEOREM ReloadsKeepState == Spec => ReloadKeepsState
<1> DEFINE Kept == pc = "register" /\ opts.statePath =>
                       \A d \in (monitored \cap monitored') \ lost : mem'[d] = mem[d]
<1>1. Init => FirstPassInv
  BY DEF Init, FirstPassInv
<1>2. Init => CompleteInv
  BY DEF Init, CompleteInv, Settled
<1>3. TypeOK /\ CompleteInv /\ [Next]_vars => [Kept]_vars
  <2> SUFFICES ASSUME TypeOK, CompleteInv, Next, pc = "register", opts.statePath,
                      NEW d \in (monitored \cap monitored') \ lost
               PROVE  mem'[d] = mem[d]
    OBVIOUS
  <2>1. file[d] = mem[d] /\ d \in Devices
    BY DEF CompleteInv, Complete, TypeOK
  <2>2. CASE RegisterDevices
    BY <2>1, <2>2 DEF RegisterDevices
  <2>3. CASE RegisterBadDevice
    BY <2>1, <2>3 DEF RegisterBadDevice
  <2>4. CASE UNCHANGED mem
    BY <2>4
  <2>5. RegisterDevices \/ RegisterBadDevice \/ UNCHANGED mem
    BY OnlyRegistrationChanges DEF Stopped
  <2>6. QED
    BY <2>2, <2>3, <2>4, <2>5
<1>4. QED
  BY <1>1, <1>2, <1>3, InitTypeOK, NextTypeOK, NextFirstPassInv, NextCompleteInv, PTL
  DEF Spec, ReloadKeepsState

\* A HUP with a faulty smartd.conf leaves the monitored devices and their states in
\* memory as they are, in every mode and for each of the ways in which reading the file
\* can fail.
THEOREM FaultyReloadsAreIgnored == Spec => FaultyReloadIgnored
<1> DEFINE Ignored == ~firstpass /\ pc \notin Stopped /\ confRead.error # "none" =>
                          /\ monitored' = monitored
                          /\ pc # "check" => mem' = mem
<1>1. [Next]_vars => [Ignored]_vars
  BY OnlyRegistrationChanges DEF RegisterDevices, RegisterBadDevice, EntriesUsable
<1>2. QED
  BY <1>1, PTL DEF Spec, FaultyReloadIgnored

=============================================================================
