----------------------------- MODULE SmartdMain -----------------------------
(***************************************************************************)
(* The life cycle of the smartd daemon: main_worker(), its signal handlers *)
(* and the part of dosleep() that waits for signals (src/smartd.cpp).      *)
(*                                                                         *)
(* One step of the daemon is one stretch of main_worker() between two      *)
(* places where the arrival of a signal can make a difference; `pc' names  *)
(* the stretch that comes next.  Signals, edits of smartd.conf, devices    *)
(* that come and go, crashes and restarts are steps of the environment and *)
(* interleave with the steps of the daemon.                                *)
(*                                                                         *)
(* A device check is abstracted to what it does to the persistent state of *)
(* the device: nothing, a "major" change, after which the check sets       *)
(* must_write, or a "minor" one (a mail counter, a new self-test count)    *)
(* after which it does not.  A state file that does not exist and a state  *)
(* file with nothing in it read the same, so neither needs a value of its  *)
(* own: both are Fresh.                                                    *)
(***************************************************************************)
EXTENDS Integers, FiniteSets

CONSTANTS
    Devices,        \* the disks of the machine
    Confs,          \* the contents smartd.conf can have
    Options,        \* the command lines smartd can be started with
    MaxEdits,       \* bound: edits of smartd.conf, and devices plugged or unplugged
    MaxSignals,     \* bound: signals sent
    MaxChanges,     \* bound: changes of the state of the devices
    MaxWriteFails,  \* bound: state files that cannot be created
    MaxStarts       \* bound: starts of the daemon

QuitModes == {"nodev", "nodevstartup", "never", "onecheck", "showtests", "errors"}
ExitSignals == {"TERM", "QUIT", "INT"}
Signals == ExitSignals \cup {"HUP", "USR1"}

\* How reading smartd.conf can fail: ParseConfigFile() returns -1, -2 or -3.
ConfErrors == {"syntax", "missing", "unreadable"}

ConfType == [error: ConfErrors \cup {"none"},   \* none: the file can be used
             listed: SUBSET Devices,            \* devices with a line of their own
             removable: BOOLEAN,                \* these lines say "-d removable"
             scan: BOOLEAN]                     \* ... and a DEVICESCAN line follows

OptionType == [quit: QuitModes,      \* -q
               nodev0: BOOLEAN,      \* -q nodev0, nodev0startup
               debug: BOOLEAN,       \* -d, implied by onecheck and showtests
               statePath: BOOLEAN,   \* -s: state files are kept
               pidPath: BOOLEAN]     \* -p

ASSUME DevicesAssumption == IsFiniteSet(Devices)

ASSUME ConfsAssumption == Confs \subseteq ConfType

\* parse_options() refuses -p together with debug mode.
ASSUME OptionsAssumption ==
    /\ Options \subseteq OptionType
    /\ \A o \in Options : /\ o.debug => ~o.pidPath
                          /\ o.quit \in {"onecheck", "showtests"} => o.debug

ASSUME BoundsAssumption ==
    /\ MaxEdits \in Nat /\ MaxSignals \in Nat /\ MaxChanges \in Nat
    /\ MaxWriteFails \in Nat /\ MaxStarts \in Nat \ {0}

Fresh == [major |-> 0, minor |-> 0]
StateType == [major: Nat, minor: Nat]

VARIABLES
    opts,               \* the options of this start
    pc,                 \* where main_worker() is
    firstpass,
    writeStatesAlways,
    status,             \* "none" while it is still negative
    caughtsigHUP, caughtsigUSR1, caughtsigEXIT,
    installed,          \* install_signal_handlers() has run
    interrupted,        \* a signal arrived inside sleep()
    due,                \* the wakeup time has passed
    monitored,          \* the devices in configs, states and devices
    mem,                \* their persistent state in memory
    mustWrite,
    confRead,           \* what ParseConfigFile() saw
    readVersion,        \* ... and which version of the file that was
    \* outside the process
    confFile, confVersion,
    present,            \* devices that can be opened
    file,               \* the state files
    pidFile,            \* the PID file exists
    \* bounds
    edits, signals, changes, writeFails, starts,
    \* history, read by no action of the daemon
    told,               \* version of smartd.conf when the last HUP was handled
    toldAt,             \* ... and the pc at that time
    lost,               \* devices whose last state file could not be created
    forced,             \* this cycle follows a (re)configuration or a USR1
    owed,               \* a USR1 was caught and no forced check has started since
    afterExit,          \* checks started after an exit signal was caught, up to 2
    pidOwn              \* the PID file of this process: "no", "written", or "kept" when
                        \* it could not be removed

signalVars == << caughtsigHUP, caughtsigUSR1, caughtsigEXIT, installed, interrupted >>
confVars == << confRead, readVersion >>
stateVars == << monitored, mem, mustWrite >>
fileVars == << file, lost, writeFails >>
pidVars == << pidFile, pidOwn >>
envVars == << confFile, confVersion, present, edits, signals, starts >>
ghostVars == << told, toldAt, forced, owed, afterExit >>
vars == << opts, pc, firstpass, writeStatesAlways, status, due, changes, pidVars,
           signalVars, confVars, stateVars, fileVars, envVars, ghostVars >>

Locations == {"top", "read", "register", "count", "check", "write", "daemon", "pid",
              "install", "dosleep", "presleep", "sleep", "wake", "bottom", "exit",
              "unlink"}
Stopped == {"end", "killed", "crashed"}

Statuses == {"none", "ok", "BADDEV", "BADCONF", "NOCONF", "READCONF", "NODEV",
             "STARTUP", "PID", "SIGNAL"}

-----------------------------------------------------------------------------
(***************************************************************************)
(* A start of the daemon, the first one or one after it has stopped.       *)
(***************************************************************************)
\* The process comes up with no device registered, no handler installed
\* and no signal caught.
Init ==
    /\ opts \in Options
    /\ pc = "top" /\ firstpass = TRUE /\ writeStatesAlways = TRUE /\ status = "none"
    /\ caughtsigHUP = FALSE /\ caughtsigUSR1 = FALSE /\ caughtsigEXIT = "none"
    /\ installed = FALSE /\ interrupted = FALSE /\ due = FALSE
    /\ monitored = {}
    /\ mem = [d \in Devices |-> Fresh]
    /\ mustWrite = [d \in Devices |-> FALSE]
    /\ confFile \in Confs /\ confVersion = 0
    /\ confRead = confFile /\ readVersion = 0
    /\ present \in SUBSET Devices
    /\ file = [d \in Devices |-> Fresh]
    /\ pidFile = FALSE
    /\ edits = 0 /\ signals = 0 /\ changes = 0 /\ writeFails = 0 /\ starts = 1
    /\ told = 0 /\ toldAt = "none" /\ lost = {} /\ forced = TRUE
    /\ owed = FALSE /\ afterExit = 0 /\ pidOwn = "no"

\* The same command line again: the files are what survived.
Restart ==
    /\ pc \in Stopped
    /\ starts < MaxStarts
    /\ starts' = starts + 1
    /\ pc' = "top" /\ firstpass' = TRUE /\ writeStatesAlways' = TRUE /\ status' = "none"
    /\ caughtsigHUP' = FALSE /\ caughtsigUSR1' = FALSE /\ caughtsigEXIT' = "none"
    /\ installed' = FALSE /\ interrupted' = FALSE /\ due' = FALSE
    /\ monitored' = {}
    /\ mem' = [d \in Devices |-> Fresh]
    /\ mustWrite' = [d \in Devices |-> FALSE]
    /\ confRead' = confFile /\ readVersion' = confVersion
    /\ told' = 0 /\ toldAt' = "none" /\ forced' = TRUE /\ owed' = FALSE /\ afterExit' = 0
    /\ pidOwn' = "no"
    /\ UNCHANGED << opts, pidFile, changes, fileVars, confFile, confVersion, present,
                    edits, signals >>

-----------------------------------------------------------------------------
(***************************************************************************)
(* State files.                                                            *)
(***************************************************************************)
\* The devices write_all_dev_states() writes a file for.
ToWrite_IfMust(always) == {d \in monitored : opts.statePath /\ mustWrite[d]}
ToWrite_IfAlways(always) == {d \in monitored : opts.statePath /\ always}
ToWrite(always) == {d \in monitored : opts.statePath /\ (always \/ mustWrite[d])}

\* write_all_dev_states(): the old file is renamed away before the new one
\* is created, so where that fails the file is gone, unless it could not be
\* renamed either; must_write keeps the value it had.
WriteAllDevStates(always) ==
    \E failed \in SUBSET ToWrite(always) : \E gone \in SUBSET failed :
        LET written == ToWrite(always) \ failed IN
        /\ writeFails + Cardinality(failed) <= MaxWriteFails
        /\ writeFails' = writeFails + Cardinality(failed)
        /\ file' = [d \in Devices |-> IF d \in written THEN mem[d]
                                      ELSE IF d \in gone THEN Fresh ELSE file[d]]
        /\ mustWrite' = [d \in Devices |-> mustWrite[d] /\ d \notin written]
        /\ lost' = (lost \ written) \cup failed

-----------------------------------------------------------------------------
(***************************************************************************)
(* (Re)configuration.                                                      *)
(***************************************************************************)
\* "if (firstpass || caughtsigHUP)": the states are saved before smartd.conf
\* is read again.
TopReconfigure ==
    /\ pc = "top"
    /\ firstpass \/ caughtsigHUP
    /\ IF firstpass THEN UNCHANGED << fileVars, mustWrite >> ELSE WriteAllDevStates(TRUE)
    /\ pc' = "read"
    /\ UNCHANGED << opts, firstpass, writeStatesAlways, status, due, pidVars, changes,
                    signalVars, confVars, monitored, mem, envVars, ghostVars >>

TopContinue ==
    /\ pc = "top"
    /\ ~firstpass /\ ~caughtsigHUP
    /\ pc' = "check"
    /\ UNCHANGED << opts, firstpass, writeStatesAlways, status, due, pidVars, changes,
                    signalVars, confVars, stateVars, fileVars, envVars, ghostVars >>

ReadConfig ==
    /\ pc = "read"
    /\ confRead' = confFile
    /\ readVersion' = confVersion
    /\ pc' = "register"
    /\ UNCHANGED << opts, firstpass, writeStatesAlways, status, due, pidVars, changes,
                    signalVars, stateVars, fileVars, envVars, ghostVars >>

\* ReadOrMakeConfigEntries() >= 0
EntriesUsable_OrSyntax == confRead.error \in {"none", "syntax"}
EntriesUsable == confRead.error = "none"

\* Leave the loop with this status.
Break(s) ==
    /\ status' = s
    /\ pc' = "exit"

\* The devices register_devices() can open.
Registrable == (confRead.listed \cup (IF confRead.scan THEN Devices ELSE {})) \cap present

\* A line of its own makes a device mandatory unless "-d removable" or
\* "-q never" is given.
MissingMandatory ==
    /\ ~(confRead.listed \subseteq present)
    /\ ~confRead.removable
    /\ opts.quit # "never"

\* register_devices(): the lists are cleared, and each registered device
\* starts from its state file.
RegisterDevices ==
    /\ pc = "register"
    /\ EntriesUsable
    /\ ~MissingMandatory
    /\ monitored' = Registrable
    /\ mem' = [d \in Devices |-> IF d \in Registrable /\ opts.statePath
                                 THEN file[d] ELSE Fresh]
    /\ mustWrite' = [d \in Devices |-> FALSE]
    /\ pc' = "count"
    /\ UNCHANGED << opts, firstpass, writeStatesAlways, status, due, pidVars, changes,
                    signalVars, confVars, fileVars, envVars, ghostVars >>

\* register_devices() returns false after it has cleared the lists.
RegisterBadDevice ==
    /\ pc = "register"
    /\ EntriesUsable
    /\ MissingMandatory
    /\ monitored' \in SUBSET (confRead.listed \cap present)  \* those that came before it
    /\ mem' = [d \in Devices |-> IF d \in monitored' /\ opts.statePath
                                 THEN file[d] ELSE Fresh]
    /\ mustWrite' = [d \in Devices |-> FALSE]
    /\ Break("BADDEV")
    /\ UNCHANGED << opts, firstpass, writeStatesAlways, due, pidVars, changes,
                    signalVars, confVars, fileVars, envVars, ghostVars >>

\* The former configuration is reused with -q never, or if there was one.
MayReuse == \/ opts.quit = "never"
            \/ opts.quit \in {"nodev", "nodevstartup"} /\ ~firstpass

ReusePreviousConfiguration ==
    /\ pc = "register"
    /\ ~EntriesUsable
    /\ MayReuse
    /\ pc' = "count"
    /\ UNCHANGED << opts, firstpass, writeStatesAlways, status, due, pidVars, changes,
                    signalVars, confVars, stateVars, fileVars, envVars, ghostVars >>

ConfigError ==
    /\ pc = "register"
    /\ ~EntriesUsable
    /\ ~MayReuse
    /\ Break(IF confRead.error = "unreadable" THEN "READCONF"
             ELSE IF confRead.error = "missing" THEN "NOCONF" ELSE "BADCONF")
    /\ UNCHANGED << opts, firstpass, writeStatesAlways, due, pidVars, changes,
                    signalVars, confVars, stateVars, fileVars, envVars, ghostVars >>

MayRunEmpty == opts.quit = "never" \/ (opts.quit = "nodevstartup" /\ ~firstpass)

NoDevices ==
    /\ pc = "count"
    /\ monitored = {} /\ ~MayRunEmpty
    /\ Break(IF opts.nodev0 THEN "ok" ELSE "NODEV")
    /\ UNCHANGED << opts, firstpass, writeStatesAlways, due, pidVars, changes,
                    signalVars, confVars, stateVars, fileVars, envVars, ghostVars >>

\* -q showtests: print the schedule and return 0 from the middle of the loop.
ShowTests ==
    /\ pc = "count"
    /\ monitored # {} \/ MayRunEmpty
    /\ opts.quit = "showtests"
    /\ status' = "ok"
    /\ pc' = "end"
    /\ UNCHANGED << opts, firstpass, writeStatesAlways, due, pidVars, changes,
                    signalVars, confVars, stateVars, fileVars, envVars, ghostVars >>

\* "reset signal": the flag is cleared here, well after the file was read.
ResetHUP ==
    /\ pc = "count"
    /\ monitored # {} \/ MayRunEmpty
    /\ opts.quit # "showtests"
    /\ caughtsigHUP' = FALSE
    /\ writeStatesAlways' = TRUE
    /\ forced' = TRUE
    /\ pc' = "check"
    /\ UNCHANGED << opts, firstpass, status, due, pidVars, changes, caughtsigUSR1,
                    caughtsigEXIT, installed, interrupted, confVars, stateVars,
                    fileVars, envVars, told, toldAt, owed, afterExit >>

-----------------------------------------------------------------------------
(***************************************************************************)
(* The check cycle.                                                        *)
(***************************************************************************)
\* What one device check may do to the state of d.
Change(d) ==
    \/ /\ mem' = [mem EXCEPT ![d] = [major |-> @.major + 1, minor |-> @.minor]]
       /\ mustWrite' = [mustWrite EXCEPT ![d] = TRUE]
    \/ /\ mem' = [mem EXCEPT ![d] = [major |-> @.major, minor |-> @.minor + 1]]
       /\ UNCHANGED mustWrite

CheckDevicesOnce ==
    /\ pc = "check"
    /\ \/ UNCHANGED << mem, mustWrite, changes >>
       \/ /\ changes < MaxChanges
          /\ changes' = changes + 1
          /\ \E d \in monitored : Change(d)
    /\ owed' = (owed /\ ~writeStatesAlways)
    /\ afterExit' = IF caughtsigEXIT # "none" /\ afterExit < 2 THEN afterExit + 1
                    ELSE afterExit
    /\ pc' = "write"
    /\ UNCHANGED << opts, firstpass, writeStatesAlways, status, due, pidVars, signalVars,
                    confVars, monitored, fileVars, envVars, told, toldAt, forced >>

\* The state files, then the way out for "-q onecheck", or on to the
\* background in the first pass, or to dosleep() with a wakeup time that
\* lies ahead.
WriteStates ==
    /\ pc = "write"
    /\ WriteAllDevStates(writeStatesAlways)
    /\ writeStatesAlways' = FALSE
    /\ pc' = IF opts.quit = "onecheck" THEN "end"
             ELSE IF ~firstpass THEN "dosleep"
             ELSE IF opts.debug THEN "install" ELSE "daemon"
    /\ status' = IF opts.quit = "onecheck" THEN "ok" ELSE status
    /\ due' = FALSE
    /\ UNCHANGED << opts, firstpass, pidVars, changes, signalVars, confVars, monitored,
                    mem, envVars, ghostVars >>

\* daemon_init(): from here on the process is the child's child.
DaemonInit ==
    /\ pc = "daemon"
    /\ \/ pc' = "pid" /\ UNCHANGED status
       \/ pc' = "end" /\ status' = "STARTUP"
    /\ UNCHANGED << opts, firstpass, writeStatesAlways, due, pidVars, changes,
                    signalVars, confVars, stateVars, fileVars, envVars, ghostVars >>

\* write_pid_file(): a file that could be opened but not written stays.
WritePidFile ==
    /\ pc = "pid"
    /\ \/ /\ pidFile' = (pidFile \/ opts.pidPath)
          /\ pidOwn' = IF opts.pidPath THEN "written" ELSE "no"
          /\ pc' = "install"
          /\ UNCHANGED status
       \/ /\ opts.pidPath
          /\ pidFile' \in {pidFile, TRUE} /\ UNCHANGED pidOwn
          /\ pc' = "end"
          /\ status' = "PID"
    /\ UNCHANGED << opts, firstpass, writeStatesAlways, due, changes, signalVars,
                    confVars, stateVars, fileVars, envVars, ghostVars >>

InstallSignalHandlers ==
    /\ pc = "install"
    /\ installed' = TRUE
    /\ firstpass' = FALSE
    /\ due' = FALSE
    /\ pc' = "dosleep"
    /\ UNCHANGED << opts, writeStatesAlways, status, pidVars, changes, caughtsigHUP,
                    caughtsigUSR1, caughtsigEXIT, interrupted, confVars, stateVars,
                    fileVars, envVars, ghostVars >>

-----------------------------------------------------------------------------
(***************************************************************************)
(* dosleep(), as far as signals see it.  Testing the flags and entering    *)
(* sleep() are two steps: only a signal that arrives inside sleep() makes  *)
(* it return early.                                                        *)
(***************************************************************************)
SignalCaught == caughtsigUSR1 \/ caughtsigHUP \/ caughtsigEXIT # "none"

TestSleep ==
    /\ pc = "dosleep"
    /\ pc' = IF due \/ SignalCaught THEN "wake" ELSE "presleep"
    /\ UNCHANGED << opts, firstpass, writeStatesAlways, status, due, pidVars, changes,
                    signalVars, confVars, stateVars, fileVars, envVars, ghostVars >>

EnterSleep ==
    /\ pc = "presleep"
    /\ interrupted' = FALSE
    /\ pc' = "sleep"
    /\ UNCHANGED << opts, firstpass, writeStatesAlways, status, due, pidVars, changes,
                    caughtsigHUP, caughtsigUSR1, caughtsigEXIT, installed, confVars,
                    stateVars, fileVars, envVars, ghostVars >>

\* sleep() returns: early after a signal, otherwise when the time is over.
LeaveSleep ==
    /\ pc = "sleep"
    /\ due' = ~interrupted
    /\ pc' = "dosleep"
    /\ UNCHANGED << opts, firstpass, writeStatesAlways, status, pidVars, changes,
                    signalVars, confVars, stateVars, fileVars, envVars, ghostVars >>

\* A USR1 is consumed here, a HUP is left for the top of the loop.
ConsumeSignals_HUPtoo == caughtsigUSR1' = FALSE /\ caughtsigHUP' = FALSE
ConsumeSignals == caughtsigUSR1' = FALSE /\ UNCHANGED caughtsigHUP

\* The state files to be written after a USR1: "bool & sigwakeup".
ForceWrite_Never == FALSE
ForceWrite == caughtsigUSR1

\* The end of dosleep(): a USR1 forces the state files to be written.
Wake ==
    /\ pc = "wake"
    /\ ConsumeSignals
    /\ writeStatesAlways' = (writeStatesAlways \/ ForceWrite)
    /\ forced' = caughtsigUSR1
    /\ pc' = "bottom"
    /\ UNCHANGED << opts, firstpass, status, due, pidVars, changes, caughtsigEXIT,
                    installed, interrupted, confVars, stateVars, fileVars, envVars,
                    told, toldAt, owed, afterExit >>

ExitRequested_ByTerm == caughtsigEXIT = "TERM"
ExitRequested == caughtsigEXIT # "none"

LoopCondition ==
    /\ pc = "bottom"
    /\ pc' = IF ExitRequested THEN "exit" ELSE "top"
    /\ UNCHANGED << opts, firstpass, writeStatesAlways, status, due, pidVars, changes,
                    signalVars, confVars, stateVars, fileVars, envVars, ghostVars >>

-----------------------------------------------------------------------------
(***************************************************************************)
(* After the loop.                                                         *)
(***************************************************************************)
ExitStatus_Raw == IF status # "none" THEN status
                  ELSE IF caughtsigEXIT \in {"none", "TERM"} THEN "ok" ELSE caughtsigEXIT
ExitStatus ==
    IF status # "none" THEN status
    ELSE IF \/ caughtsigEXIT \in {"none", "TERM"}
            \/ opts.debug /\ caughtsigEXIT = "QUIT" THEN "ok"
    ELSE "SIGNAL"

\* The state files are written only if the status is 0, and only by a
\* daemon that got past the first pass.
SaveOnExit_OldStatus == ~firstpass /\ status = "ok"
SaveOnExit == ~firstpass /\ ExitStatus = "ok"

AfterLoop_OnlyNormal == IF firstpass \/ ExitStatus # "ok" THEN "end" ELSE "unlink"
AfterLoop == IF firstpass THEN "end" ELSE "unlink"

ExitLoop ==
    /\ pc = "exit"
    /\ status' = ExitStatus
    /\ IF SaveOnExit THEN WriteAllDevStates(TRUE)
       ELSE UNCHANGED << fileVars, mustWrite >>
    /\ pc' = AfterLoop
    /\ UNCHANGED << opts, firstpass, writeStatesAlways, due, pidVars, changes,
                    signalVars, confVars, monitored, mem, envVars, ghostVars >>

\* A file that unlink() cannot remove is reported and stays.
UnlinkPidFile ==
    /\ pc = "unlink"
    /\ IF opts.pidPath
       THEN \/ pidFile' = FALSE /\ UNCHANGED pidOwn
            \/ pidOwn' = "kept" /\ UNCHANGED pidFile
       ELSE UNCHANGED pidVars
    /\ pc' = "end"
    /\ UNCHANGED << opts, firstpass, writeStatesAlways, status, due, changes,
                    signalVars, confVars, stateVars, fileVars, envVars, ghostVars >>

Step ==
    \/ TopReconfigure \/ TopContinue \/ ReadConfig \/ RegisterDevices
    \/ RegisterBadDevice \/ ReusePreviousConfiguration \/ ConfigError \/ NoDevices
    \/ ShowTests \/ ResetHUP \/ CheckDevicesOnce \/ WriteStates \/ DaemonInit
    \/ WritePidFile \/ InstallSignalHandlers \/ TestSleep \/ EnterSleep \/ LeaveSleep
    \/ Wake \/ LoopCondition \/ ExitLoop \/ UnlinkPidFile

-----------------------------------------------------------------------------
(***************************************************************************)
(* The environment.                                                        *)
(***************************************************************************)
\* In debug mode INT is a second HUP.
IsHUP(s) == s = "HUP" \/ (s = "INT" /\ opts.debug)

\* HUPhandler(), USR1handler() and sighandler(); the first exit signal wins.
Handle(s) ==
    /\ installed
    /\ IF IsHUP(s)
       THEN /\ caughtsigHUP' = TRUE
            /\ told' = confVersion /\ toldAt' = pc
            /\ UNCHANGED << caughtsigUSR1, caughtsigEXIT, owed >>
       ELSE IF s = "USR1"
       THEN /\ caughtsigUSR1' = TRUE
            /\ owed' = TRUE
            /\ UNCHANGED << caughtsigHUP, caughtsigEXIT, told, toldAt >>
       ELSE /\ caughtsigEXIT' = IF caughtsigEXIT = "none" THEN s ELSE caughtsigEXIT
            /\ UNCHANGED << caughtsigHUP, caughtsigUSR1, told, toldAt, owed >>
    /\ interrupted' = (interrupted \/ pc = "sleep")
    /\ UNCHANGED pc

\* Before the handlers are installed every one of these signals ends the
\* process.
DefaultAction(s) ==
    /\ ~installed
    /\ pc' = "killed"
    /\ UNCHANGED << caughtsigHUP, caughtsigUSR1, caughtsigEXIT, interrupted, told, toldAt,
                    owed >>

Signal ==
    /\ pc \notin Stopped
    /\ signals < MaxSignals
    /\ signals' = signals + 1
    /\ \E s \in Signals : Handle(s) \/ DefaultAction(s)
    /\ UNCHANGED << opts, firstpass, writeStatesAlways, status, due, pidVars, changes,
                    installed, confVars, stateVars, fileVars, confFile, confVersion,
                    present, edits, starts, forced, afterExit >>

EditConfig ==
    /\ edits < MaxEdits
    /\ edits' = edits + 1
    /\ confFile' \in Confs
    /\ confVersion' = confVersion + 1
    /\ UNCHANGED << opts, pc, firstpass, writeStatesAlways, status, due, pidVars, changes,
                    signalVars, confVars, stateVars, fileVars, present, signals, starts,
                    ghostVars >>

Replug ==
    /\ edits < MaxEdits
    /\ edits' = edits + 1
    /\ \E d \in Devices : present' \in {present \cup {d}, present \ {d}} \ {present}
    /\ UNCHANGED << opts, pc, firstpass, writeStatesAlways, status, due, pidVars, changes,
                    signalVars, confVars, stateVars, fileVars, confFile, confVersion,
                    signals, starts, ghostVars >>

\* SIGKILL or a power failure.
Crash ==
    /\ pc \notin Stopped
    /\ starts < MaxStarts
    /\ pc' = "crashed"
    /\ UNCHANGED << opts, firstpass, writeStatesAlways, status, due, pidVars, changes,
                    signalVars, confVars, stateVars, fileVars, envVars, ghostVars >>

Environment == Signal \/ EditConfig \/ Replug \/ Crash \/ Restart

Next == Step \/ Environment

Spec == Init /\ [][Next]_vars

(***************************************************************************)
(* The process keeps running and sleep() returns after its time: both are  *)
(* the scheduler's and the timer's promise.  Nothing is assumed of the     *)
(* environment.                                                            *)
(***************************************************************************)
FairSpec == Spec /\ WF_vars(Step)

-----------------------------------------------------------------------------
(***************************************************************************)
(* Correctness.                                                            *)
(***************************************************************************)
\* Every variable of the life cycle stays within its type.
TypeOK ==
    /\ opts \in Options
    /\ pc \in Locations \cup Stopped
    /\ firstpass \in BOOLEAN /\ writeStatesAlways \in BOOLEAN /\ status \in Statuses
    /\ caughtsigHUP \in BOOLEAN /\ caughtsigUSR1 \in BOOLEAN
    /\ caughtsigEXIT \in ExitSignals \cup {"none"}
    /\ installed \in BOOLEAN /\ interrupted \in BOOLEAN /\ due \in BOOLEAN
    /\ monitored \in SUBSET Devices
    /\ mem \in [Devices -> StateType] /\ mustWrite \in [Devices -> BOOLEAN]
    /\ confRead \in ConfType /\ readVersion \in Nat
    /\ confFile \in Confs /\ confVersion \in Nat
    /\ present \in SUBSET Devices
    /\ file \in [Devices -> StateType] /\ pidFile \in BOOLEAN
    /\ edits \in Nat /\ signals \in Nat /\ changes \in Nat /\ starts \in Nat
    /\ writeFails \in Nat
    /\ told \in Nat /\ toldAt \in Locations \cup Stopped \cup {"none"}
    /\ lost \in SUBSET Devices /\ forced \in BOOLEAN /\ owed \in BOOLEAN
    /\ afterExit \in Nat /\ pidOwn \in {"no", "written", "kept"}

\* The daemon is between two check cycles.
Waiting == pc \in {"dosleep", "presleep", "sleep", "wake"}

\* While smartd waits, a crash loses no important change: whatever a check
\* flagged with must_write is in the state file of the device, unless the
\* file could not be created.
ImportantChangesSaved ==
    Waiting /\ opts.statePath =>
        \A d \in monitored \ lost : file[d].major = mem[d].major

\* After a cycle that follows a (re)configuration or a USR1 the state files
\* are complete: they hold the minor changes too (write_states_always).
ForcedCycleSavesAll ==
    Waiting /\ forced /\ opts.statePath => \A d \in monitored \ lost : file[d] = mem[d]

\* Reconfiguration forgets nothing: a device that was monitored before and
\* is monitored after it has the state it had, through the state file that
\* was written at the top of the loop.
ReloadKeepsState ==
    [][ pc = "register" /\ opts.statePath =>
            \A d \in (monitored \cap monitored') \ lost : mem'[d] = mem[d] ]_vars

\* A faulty smartd.conf is ignored "as if the HUP signal had never been
\* received": as long as the file read last could not be used, the monitored
\* devices stay, and so do their states outside a check.
FaultyReloadIgnored ==
    [][ ~firstpass /\ pc \notin Stopped /\ confRead.error # "none" =>
            /\ monitored' = monitored
            /\ pc # "check" => mem' = mem ]_vars

\* A configuration that was announced with a HUP is read, or the HUP is still
\* pending; the one exception is a HUP that arrives after the file has been
\* read and before the flag is reset.
ResetWindow == {"register", "count"}
HupHonoured ==
    pc \in Locations /\ told > readVersion /\ toldAt \notin ResetWindow => caughtsigHUP

\* At most one more check cycle starts after an exit signal was caught.
PromptExit == afterExit <= 1

\* What the file read last is a reason to end for: it cannot be used, it
\* leaves nothing to monitor, or one of its devices is missing.
Unusable == confRead.error # "none"
Emptied == confRead.error = "none" /\ monitored = {}
Missing == /\ confRead.error = "none" /\ ~confRead.removable
           /\ ~(confRead.listed \subseteq monitored)

\* The modes of -q (smartd.8): smartd ends after a signal, when it cannot get
\* into the background, when it was asked for one check only, or for one of
\* the reasons above; with nodev a faulty file ends it at startup only, with
\* nodevstartup an empty list as well, and with never none of them does.
QuitAllowed ==
    \/ caughtsigEXIT # "none"
    \/ firstpass /\ status \in {"STARTUP", "PID"}
    \/ opts.quit \in {"onecheck", "showtests"}
    \/ /\ opts.quit # "never"
       /\ \/ Unusable /\ (opts.quit \in {"nodev", "nodevstartup"} => firstpass)
          \/ Emptied /\ (opts.quit = "nodevstartup" => firstpass)
          \/ Missing

\* Exit status 0: smartd was asked to end, all devices were found and checked
\* or shown, or no device is no error.
SuccessAllowed ==
    \/ caughtsigEXIT = "TERM" \/ (opts.debug /\ caughtsigEXIT = "QUIT")
    \/ opts.nodev0 /\ Emptied
    \/ /\ opts.quit \in {"onecheck", "showtests"}
       /\ ~Unusable /\ ~Emptied /\ ~Missing

\* main_worker() returns only for a reason that the mode allows, with the
\* exit status of that reason.
EndsForReason ==
    pc = "end" =>
        /\ QuitAllowed
        /\ status = "ok" => SuccessAllowed
        /\ status = "SIGNAL" => caughtsigEXIT \in {"INT", "QUIT"}

\* Exit status 0 of a daemon means that nothing is lost.
StatusZeroMeansSaved ==
    pc = "end" /\ status = "ok" /\ ~firstpass /\ opts.statePath =>
        \A d \in monitored \ lost : file[d] = mem[d]

\* A process that has written its PID file and returns from main_worker()
\* removes it, whatever the reason to end: a signal, a bad device, an empty
\* list.  The one exception is in pidOwn: an unlink() that failed.
PidFileRemoved == pc = "end" /\ pidOwn = "written" => ~pidFile

\* What every end of main_worker() promises, by the two parts above.
QuitsInGoodOrder == EndsForReason /\ PidFileRemoved

\* The state files are complete after a forced cycle and after a clean exit: not only
\* the important changes are in them.
MinorChangesSaved == ForcedCycleSavesAll /\ StatusZeroMeansSaved

\* An exit signal that was caught ends the process.
ExitSignalStops == caughtsigEXIT # "none" ~> pc \in Stopped

\* Every USR1 that was caught, however late in a cycle, is followed by the
\* start of a check cycle that writes all state files, unless smartd exits.
Usr1Answered == owed ~> ~owed \/ pc \in Stopped

\* A HUP that arrives outside the window makes smartd read smartd.conf.
HupAnswered == caughtsigHUP /\ pc \notin ResetWindow ~> pc = "read" \/ pc \in Stopped

\* Each signal a handler has caught gets its answer, if smartd is scheduled at all: the
\* handlers only set flags that dosleep() and the loop condition have to look at.
SignalsAnswered == ExitSignalStops /\ Usr1Answered /\ HupAnswered

=============================================================================
