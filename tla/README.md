# smartmontools: TLA+ models

smartmontools has two programs. `smartctl` sends commands to a disk, prints the answers and
exits. `smartd` is a daemon that runs for months: it checks disks at intervals, compares what it
finds with what it found before, keeps the difference in state files, starts self-tests, sends
mails, and is told by signals to check at once, to read its configuration again or to stop.
Nearly all behaviour over time is in `src/src/smartd.cpp` (6678 lines), and so is most of this
project; the rest is the order of commands in `src/src/ataprint.cpp` and the one device driver
that keeps a state outside of its process, `src/lib/dev_jmb39x_raid.cpp`.

All paths below are relative to the repository, and line numbers without a file are those of
`src/src/smartd.cpp`.

| Module | Models | Theorems |
| --- | --- | --- |
| `SmartdMain` | life of the daemon: main loop, signals, reload, exit, PID file | `SmartdMain_proofs` |
| `Dosleep` | which device is checked when: `dosleep()` and the clock | `Sleep_proofs` |
| `MailWarning` | when a warning mail is due: counters of one mail type | `AtaCheck_proofs` |
| `AtaCheck` (extends `MailWarning`) | the check of one ATA disk, across restarts and crashes | `AtaCheck_proofs` |
| `Temperature` | extremes, delay and limits of the temperature | `NvmeCheck_proofs` |
| `NvmeCheck` (extends `Temperature`, `MailWarning`) | the check of one NVMe disk | `NvmeCheck_proofs` |
| `SelfTestSchedule` | scheduled self-tests of one device | `SelfTestSchedule_proofs` |
| `AutoStandby` | automatic standby of the system while disks test themselves | `Sleep_proofs` |
| `StateFile` | the files of one device, system call by system call | `StateFile_proofs` |
| `AtomicFile` | what a reader of a status file may rely on (abstract) | |
| `ConfigFile` | lines of `smartd.conf` and what the parser makes of one | |
| `RegisterDevices` (extends `ConfigFile`) | from the file to the list of monitored devices | `RegisterDevices_proofs` |
| `SmartctlMain` | one run of `smartctl` and its exit status: a device of one of three protocols | `Smartctl_proofs` |
| `Smartctl` | what the protocols share: `failuretest()`, the exit status, the order of parts | `Smartctl_proofs` |
| `SmartctlAta`, `SmartctlScsi`, `SmartctlNvme` | the commands for a disk of the protocol | `Smartctl_proofs` |
| `JmbDevice` | disks behind a JMicron bridge: a sector used as a mailbox | `Smartctl_proofs` |
| `MC...` | instances for TLC, one `.cfg` per run | |

## 1. Inventory

### The system and its parts

```
 signals --> handlers --> flags --+
                                  v
 smartd.conf --> parse --> main_worker() loop --> dosleep() --> (skip flags) --+
                   |          |   ^                                            |
                   v          |   +--------------------------------------------+
            register_devices  |
                   |          v
                   |   CheckDevicesOnce() -> ATA/SCSI/NVMeCheckDevice() -> device layer -> disk
                   v          |                  |            |
             read state   write state     MailWarning()   self-test schedule
                   ^          |                  |
                   +-- state files <-------------+ (must_write)
```

The parts communicate by three vectors (configurations, states, devices), by global flags that
the signal handlers set, and by files.

**Main loop, signals and exit** (6417-6627). State: `firstpass`, `write_states_always`, the
caught signals, the vectors. Operations: read the configuration, register the devices, check
them once, write the state files, fork and write the PID file, sleep, quit. Hard: five signals
may arrive between any two instructions; seven `-q` modes, each with its own reaction to errors,
before and after the first pass; a reload replaces all state. Correct if it quits only when its
mode allows, if no signal is lost, and if what a cycle found out is on disk when the process may
die.

**Sleep and check schedule** (4709-4837, 6391-6410). State: `wakeuptime`, one `wakeuptime` and
`skip` flag per device, the system clock. Hard: checks that take longer than the interval,
suspended machines, a clock that is set back, several intervals. Correct if each device is
checked when it is due, not before, and in a constant phase.

**ATA device check** (3849-4170) with registration (2230-2722). State: the persistent state of
the device (mail log, error count, self-test count and hour, attribute values), and a temporary
part (skipped checks, removed disk). Hard: each command can fail on its own, disks are asleep or
unplugged, a restart replaces half of the state from a file. Correct if each new error is
reported once, if a disk is not left unchecked for ever, and if a problem that returns is
mailed.

**Mail warnings** (1386-1577). State: per type the number of mails and the times of the first
and the last one. Operations: decide, count, reset. Correct if the announced reminder is the one
that comes.

**State files** (761-1201). A file with one line per value, replaced as a whole; written at the
end of a cycle if `must_write` or `write_states_always` is set. Hard: the old file is renamed
away first, so that a failed creation leaves none.

**Self-test schedule** (3338-3695, 4411-4447). State: the time of the next look at the schedule,
capabilities found missing. Hard: hours missed in standby or downtime, offsets for several
disks, priorities, a clock set back, a restart within the hour.

**Temperature and attributes** (3697-3848). State: minimum and maximum, the last reported
temperature, the end of the delay during which the minimum is not tracked. Hard: the first check
after a start, after standby and after a restart with a recorded minimum each take another way
through the same conditions; the warning is reset with a hysteresis. Correct if the minimum and
the maximum are those of the temperatures seen, apart from the delay, and a warning is reset
before it is given again.

**SCSI and NVMe checks** (4172-4591). State: as for ATA, with an error log window that NVMe
counts by entries and a self-test log that wraps. Correct if each new entry is reported once.

**Automatic standby** (4593-4671). State: `standby_disable_state`, and per device whether a test
was started. Hard: the standby of the whole system depends on tests of several disks, and each
request may be refused. Correct if the system may sleep again when no test runs.

**Configuration file and registration** (4839-6411). State: the entry list, `DEFAULT` settings,
the vectors. Hard: `DEVICESCAN`, ignored and duplicate devices, mandatory ones that are missing,
all of it again at each reload. Correct if each disk is monitored once, with the settings of its
own line.

**smartctl** (`src/src/smartctl.cpp:1480-1530`, `1610-1770`, `src/src/ataprint.cpp:3481-4837`,
`src/src/scsiprint.cpp:3512-4037`, `src/src/nvmeprint.cpp:772-973`). `main_worker()` opens a
device and calls the function for its protocol. State: what earlier commands told (SMART
enabled? logs? capabilities?), the number of failures that are still permitted, the exit status.
Hard: some 45 commands in a fixed order, each of them optional and each with its own reaction to
a failure. Correct if every failure and every error record leaves a bit in the exit status, and
if nothing is sent that the options forbid.

**Tunnelled and RAID devices** (`src/lib/dev_*.cpp`). Most translate a command into another.
`jmb39x_device` writes commands into a sector of the volume and reads the answers from it, after
it has made a copy of the sector that it restores at the end. State: the copy, a command number,
a flag that stops further use. Hard: the sector belongs to somebody, other processes may do the
same, any read or write may fail. Correct if the data are restored or the user is told, and if
no answer is taken for that to another command.

**Everything else** (device layer, ATA, SCSI and NVMe commands, drive database, operating
systems, Windows service, scripts, utilities, vendored code) translates bytes, or is a single
pass. It appears in the models as an environment that answers, fails or changes.

### Hazards

`PROJECT.json` lists under "hazards" what can go wrong in this code in an order or a state that
a test hardly reaches, each at its line with the properties that would notice. The main groups
are: signals against the flags of the main loop, what is saved when, time (clock set back, late
wakeups, missed hours), counters that are reset in the wrong place or not at all, values that
were read some commands ago, files that are replaced in several steps, settings and types that
one line of the configuration leaves to the next, failures in the middle of a sequence of
commands, and a sector that several processes use.

## 2. How the project is built

The order was that of importance: the life of the daemon (`SmartdMain`), its schedule
(`Dosleep`), what it does with a disk (`MailWarning`, `AtaCheck`, `SelfTestSchedule`), then the
files (`StateFile`, `AtomicFile`), the other kind of disk (`Temperature`, `NvmeCheck`), the system
around the disks (`AutoStandby`), the configuration (`ConfigFile`, `RegisterDevices`), and
outside of smartd `SmartctlMain` and its parts, and `JmbDevice`.

Each module has its parameters and named assumptions, one action per handler, system call or stage
of a check, and its properties. No module has a RECURSIVE operator. Its theorems are in a module
`..._proofs`, its instances in a module `MC...`. `Sleep_proofs` is about both `Dosleep` and
`AutoStandby`, the sleep of smartd and that of the system, and `Smartctl_proofs` about both
`SmartctlMain` with its protocols and `JmbDevice`, a run of smartctl and the device that such runs
share (whose definitions are `JmbInit`, `JmbNext`, `JmbSpec` for that reason). Modules of
operators only (`MailWarning`, `Temperature`, `ConfigFile`) are extended by the modules that use
them, so that a check of a disk is checked together with its mail counters and its temperatures.
`AtomicFile` is the abstract specification that `StateFile` implements.

The modules meet at what one leaves abstract and another one models: `SmartdMain` takes a check,
a state file and the registration as one step with its possible outcomes, which are those that
`AtaCheck` and `NvmeCheck`, `StateFile` and `RegisterDevices` have; its sleep ends when a device
is due, which `Dosleep` computes; `AtaCheck`, `NvmeCheck` and `SelfTestSchedule` take a state
file as complete or missing, which is what `StateFile` allows short of a crash in the middle of
a write.

What could be added: `SCSICheckDevice()` in the manner of `NvmeCheck` (its parts are
`CheckTemperature()`, the self-test log as in `AtaCheck`, and the mails), the selective self-test
spans, and mappings that show `Dosleep` and `AtaCheck` to implement the abstract steps of
`SmartdMain`.

## 3. The models

`PROJECT.json` maps every definition to its lines. What follows says how to read them.

### SmartdMain

One daemon step is the stretch of `main_worker()` between two places where a signal makes a
difference; `pc` names the next one: the `top` of the loop, `read`, `register`, `count` (are
there devices? then the HUP flag is reset), `check`, `write`, in the first pass `daemon` (fork),
`pid` and `install` (handlers), then `dosleep` ... `wake`, the `bottom` of the loop with its
condition, `exit` and `unlink`. The sleep has three stretches because the code has them: the
test of the flags, the instant before `sleep()`, and `sleep()` itself, which only a signal
handled *inside* it interrupts (`interrupted`).

The environment sends signals (before the handlers are installed each of them ends the process;
in debug mode INT means HUP), edits `smartd.conf`, plugs and unplugs disks, crashes and
restarts. The content of `smartd.conf` is abstracted to what the loop distinguishes: an error of
one of three kinds, or the disks it lists, whether they are removable, and whether it scans. A
state is a pair: `major` changes set `must_write`, `minor` ones do not. A state file that cannot
be written is gone, since it was renamed before, or is as it was if that failed, too. The PID
file may be opened and not written, and its removal may fail.

### Dosleep

Time is counted in seconds from 1. `CheckDevicesOnce` begins a cycle, the clock ticks while it
is busy, and `Dosleep` and `LeaveSleep` are the two ways in which the loop of `dosleep()` is
entered and continued. Checks take any number of seconds. `JumpForward` is a suspended machine
or a clock set forward, `JumpBack` a clock set back; both can also happen during a check.

### MailWarning and AtaCheck

`MailWarning` has operators only. `AtaCheck` walks through `ATACheckDevice()` in the order of
the code (`pc` = `open`, `power`, `health`, `data`, `selftest`, `errors`, `write`, `wait`), with
an action for each outcome of each command. The disk fails and recovers, gets pending sectors,
errors and self-tests, falls asleep and is unplugged between steps; the device's counters only
grow, except for the self-test log, which is a window of its most recent entries. Ghost
variables record what the model knows and smartd does not: errors reported so far, problems
detected. The state file is written at once and can be missing. SMART attributes other than the
pending sectors are left out.

### Temperature and NvmeCheck

`CheckTemperature()` is the operator of that name: a state, the limits, a reading and the time
give the new state, what is reported and whether a mail is due or reset. Temperatures are degrees
of a byte, with the arithmetic of the code (`255` is "unset", differences wrap where the code uses
unsigned char). The delay of 29 minutes is `MinDelay` cycles.

`NvmeCheck` has a step for each of the three logs that `NVMeCheckDevice()` reads, since the disk
may log errors, wear or test itself in between: the number of errors comes from the SMART/Health
log and the entries themselves from another command. Entries have a number and a kind (device
error, failed command); the error log holds the newest `LogSize`, the self-test log the newest
`SelfTestLogSize` with the result that is in progress. State and mail counters survive as in
`AtaCheck`. History variables: values and errors told, extremes seen, overheating.

### SelfTestSchedule

A tick is half an hour, so that an hour has an inside. A regular expression is the set of
`[type, hour, offset]` it matches; `:NNN-LLL` offsets and limits are as in the code. A type is
looked for by priority over all points in time that the loop visits. The clock is read once in a
check, as in the code. State files can fail to be created, in which case the old one is gone. A
test that cannot be started makes smartd drop the capability, which `DoATASelfTest()`,
`DoSCSISelfTest()` and `start_nvme_self_test()` do in different ways. Left out: `-q onecheck` and
`-q showtests`, whose calls work on one pass or on a copy.

### AutoStandby

The specification is `StandbySpec`, with a program counter `phase`, so that names differ from those
of `Dosleep`. A step checks one disk (status of its tests read, a scheduled test perhaps started
after that), and when all are done `do_disable_standby_check()` asks the system, which may refuse.
Ghost variables have what smartd knows of each disk, whether that is `stale` because a later check
failed, and whether the system is `rejected` or `stuck` after a refused request.

### StateFile and AtomicFile

`write_dev_state()` is `UnlinkBackup`, `RenameToBackup`, `CreateFile`, `WriteLines`;
`write_dev_state_json()` is `CreateJson`, `WriteJson`, `ReplaceJson`; `WriteAttrlog` appends. A
crash of the process may come between any two and in the middle of the lines. Each of these
calls may fail, also those whose result the code ignores: `unlink()` and `rename()` of the state
file (816-817), after which `fopen()` empties the file that is still there (`overwritten`), the
removal of the temporary JSON file, and opening the state file for reading. A full disk cuts a
file anywhere, also in the middle of a number. A file is what `read_dev_state()` makes of its
lines. A power failure is left out: nothing calls `fsync()`, so nothing could be said.

`AtomicFile` says what a reader may rely on: no file or one whole document, replaced by newer
ones only. `JsonFile == INSTANCE AtomicFile WITH content <- jfile` is the refinement mapping,
`JsonFileAtomic == JsonFile!Spec` is checked as a property and proved. The state file does not
have this property (between two steps there is none); what it has is `OneCopyLeft`.

### ConfigFile and RegisterDevices

A line is a name and a sequence of directives; text, comments and quoting are left out. Ten
kinds of monitoring, `-d`, and six directives with an argument that replaces an earlier one
stand for all those of the parser. `RegisterDevices` reads line after line, so that the default
configuration, the shared list of scan types and a line that is still continued at the end of
the file are what earlier lines have left; then it scans, and registers entry by entry while
disks are plugged and unplugged. A disk has a real name (links are resolved by
`get_unique_dev_name()`), behind a RAID controller also the type that selects it, and an
identity for `is_duplicate_dev_idinfo()`. Each entry keeps which disk it really is (`DiskOf`), so
that `NamedNotScanned` compares disks and not the unique names that the code compares.

### SmartctlMain, Smartctl, SmartctlAta, SmartctlScsi, SmartctlNvme

`SmartctlMain` gets and opens a device and instantiates a module for each protocol. The three
share the variables of the flow and, through `INSTANCE Smartctl`, the ways a part may end:
`failuretest()` for optional and mandatory commands, a bit, a return.

`SmartctlAta`: the parts of `ataPrintMain()` in their order (the sequence `Parts`), each with
the condition under which it is run and what a failure does: `failuretest()` with the permitted
number of failures, bits of the exit status, or the end of the run. A run has a set of options
and a disk; every command that is sent may fail. Only what decides about later commands or the
exit status is kept of an answer.

`SmartctlScsi`: the parts of `scsiPrintMain()`. Each function it calls is one part, down to its
first command and its result; what a result does is different for nearly each of them (table in
`Wanted`, `FailureBits`, `SilentParts`). The log pages that are known come from two lists, the
second of which may be missing. `gIecMPage` tells whether the mode page for informational
exceptions is there; without it a device that reports no failure is not said to be healthy.
`SmartctlNvme`: the parts of `nvmePrintMain()`, where a failure returns at once; the running
self-test is known from the log read before.

### JmbDevice

Each process has one `jmb39x_device` of the same volume. A step is a read or a write of the
sector: the copy, four wakeup sectors, requests and answers by number, the restoring write; the
destructor does the last if the process ends. A read or a write may fail, a write that fails may
have stored its data, a process may be killed, and the owner of the sector may write to it while
all are closed. A request that is
read back is answered, left alone, damaged, or replaced by the former answer.

## 4. What is checked

Runs that pass:

| Run | Question | Bounds |
| --- | --- | --- |
| `main_modes` | does every `-q` mode quit, stay and clean up as it should, whatever the file and the disks? | 2 disks, 6 kinds of file, 8 command lines, 1 edit or (un)plugging, 1 signal, 1 change |
| `main_state` | are the state files complete where the code means them to be, and is each caught signal answered? | 1 disk, 2 signals, 1 change (major or minor), 1 failing write, 1 edit, 1 crash and restart |
| `sleep_schedule` | is each device checked when it is due, not earlier, in phase? | 2 devices, 5 combinations of intervals, shorter and longer than `-i 5`, 18 seconds, 2 clock adjustments, 1 signal |
| `ata_check` | is each error reported, once, and each returning problem mailed? are skips bounded? | 21 configurations, 3 changes of the disk, 1 failing command, 1 pending sector, 2 errors, log of 2 entries, 2 starts |
| `nvme_check` | is wear told, each error and test result reported once, each overheating mailed, and are the extremes true? | 8 configurations, 5 temperatures, logs of 2 entries, 3 changes, 1 failing command, 3 cycles, 2 starts |
| `schedule` | one test an hour, none forgotten, no stall? | ATA, SCSI and NVMe devices with 4 schedules, 5 hours, missed tests forgotten after 3 hours, 3 starts or reloads, 1 failing write, 1 clock set back |
| `standby` | is the system kept awake for a test that asked for it, and for nothing else? | 2 disks, 2 cycles, 2 changes, 1 refusal or failure, 1 reload |
| `state_file` | is a copy of the state left wherever a write ends, and what may a reader of the other files see? | 2 fields, 3 cycles, 2 failing calls, 1 crash |
| `register` | has each entry the settings written for it, and is each disk registered once? | files of up to 4 of 13 lines, 5 disks of which any may be there, scans that find up to 4, one plugged or unplugged meanwhile |
| `smartctl` | does the exit status tell what happened, and is a disk left alone that should be? | 16 sets of options on 8 ATA disks, 10 on 6 SCSI devices, 6 on 96 NVMe devices, any command may fail |
| `jmb_device` | are the data of the sector restored, and is no answer mistaken? | 2 processes, 3 sessions of 2 commands, 1 failing read or write, 1 kill, 1 change by the owner |

Why the bounds are enough. The disks do not interact in the main loop except through the error
paths of registration, for which the second one is there. A lost signal needs one signal to be
lost and one to be noticed; the properties about state compare the last change with the file, for
which one change, major or minor, one failing write and one crash in any order suffice. The
schedule of 18 seconds has three cycles of the common interval and two of the longest one, each
of which may be late, adjusted or interrupted. In `ata_check` and `nvme_check` the fewest events
that break a property when the code is altered are two or three, and logs of two entries lose
one at the third. In `schedule`, five hours are more than the forgetting time of three plus an
hour before it. A state of two fields can be cut before, in and after the first one. A file of
four lines has two defaults and two entries or an entry between two of either. In `jmb_device`
two processes overlap in every way, and the third session sees what the first ones have left.

What the properties say that are conjunctions of named parts:

* `QuitsInGoodOrder`: smartd quits only for a reason its `-q` mode allows and with the exit status
  of that reason, and a PID file it has written is gone at the end, unless `unlink()` failed.
  `MinorChangesSaved`: a cycle on request saves all, and so does an exit with status 0.
  `SignalsAnswered`: TERM, INT or QUIT end the daemon, USR1 leads to a cycle, HUP outside of the
  window below to a reload.
* `SleepBounded`: no sleep goes beyond the first due device, beyond an interval, or beyond the
  spin-up delay after a late wakeup. `CheckedWhenDue`: a due device is checked in the next
  cycle, all are after USR1.
* `ErrorsTold` (`AtaCheck`, `NvmeCheck`): no new error of a log is missed or reported twice, the
  newest failed self-test is reported; for NVMe also that the result of a test that smartd
  started is logged, and that mail counters survive a crash. `WearTold`: monitored values are
  told, and once. `ExtremesKept`: maximum and minimum are those of the readings that count.
* `EachHourOnce`: with a state file no two tests start in one hour, and no look at the schedule is
  more than an hour ahead. `DisabledOnlyForTests`: automatic standby is disabled for a test that
  was in progress, and enabled when there is none.
* `OutputFilesFresh`: the JSON file has the last check unless publishing it has failed, old data
  get a new time only after such a failure, and each check is in the attribute log once.
* `LinesAsWritten`: an entry has what its line and the last `DEFAULT` before it say, and a scan
  looks for the types of its own line. `NothingSentAfter`: `-T conservative` ends at the first
  failure, and no command wakes a disk that was put to standby.

Every property has a mutant of the code that violates it in its run (`PROJECT.json`,
"mutants"): a dropped reset, a missing `must_write`, a swapped test.

One run shows a disagreement between the code and its documentation, which TLC refutes:

* `ignored_disk` (`IgnoredDisk`): `smartd.conf.5.in:588` says that `-d ignore` "allows one to
  ignore specific devices which are detected by a following DEVICESCAN". `MakeConfigEntries()`
  clears the type of each scanned entry (6170) and `register_devices()` makes its unique name
  without it (6335), while the unique name of the ignored device has the type of its line
  (6337). A disk behind a RAID controller, which needs a type to be named, is registered all the
  same. `NamedNotScanned` holds for all other disks, as `TypeNotKept` leaves out just this case;
  `NothingLost` takes a disk for named by a line if their unique names are the same.

### Exceptions

A property names the exceptions that the code has; they are worth knowing.

* `HupHonoured`, `SignalsAnswered`: `smartd.conf` is parsed (6471), devices are registered, and
  only then `caughtsigHUP` is cleared (6523): a HUP in between is forgotten. A signal between the
  test of the flags (4785) and `sleep()` (4796) waits for the end of the sleep.
* `MinorChangesSaved`: INT and QUIT set an exit status, and the state files are written only if
  it is 0 (6604).
* `QuitsInGoodOrder` speaks of the end of `main_worker()`: a TERM between `write_pid_file()`
  (6564) and the installation of the handlers (6569) leaves the PID file behind. So do an
  `unlink()` that fails at exit (6608-6610) and a PID file that was opened but not written, for
  which smartd ends with `EXIT_PID` and without removing it.
* `FaultyReloadIgnored` is about the monitored devices and their states, not about their settings.
* `SleepBounded`: a clock that is set back during the spin-up delay lengthens it (4787 does not
  count it). `NotCheckedEarly`: if all devices have intervals longer than the one of `-i`, the
  shortest is capped by that of `-i` (6408), `dosleep()` takes their wakeup times for a clock that
  was set back (4786-4787), and they are all checked at the interval of `-i`, in contrast to
  `smartd.conf.5.in:1715-1720`. The property bounds by how much each is early then (`EarlyBy`).
* `ReappearanceMailed`: the mail counters of failed health, of a failed health check and of an
  unreadable error log are never reset (4040), so that with `-M once` a problem that returns is
  not mailed.
* `EachHourOnce`: without a state file, a HUP makes smartd look at the current hour again and
  start a second test in it (2226). `NoTestForgotten` is about hours: a test whose start failed
  is not tried again (4158).
* `OneCopyLeft`: if `rename()` fails while the state file is there (817, the result is ignored),
  `fopen()` empties the only complete copy, and a crash or a full disk then loses it. A failed
  `unlink()` does no harm, since `rename()` replaces the backup. A second write that is cut off
  deletes the backup of the first. `NothingForgotten`: a state file that is there and cannot be
  opened (768-771) counts as none.
* `OverheatMailed`: without `INFO` the warning is reset five degrees below `CRIT`, in an unsigned
  char (3807). For a `CRIT` of 1 to 4 that wraps around, and any temperature below `CRIT` resets
  the warning.
* `OutputFilesFresh`: after a failed publication the JSON file keeps the former document until
  the next check that has something to write.
* `LinesAsWritten`: if the file ends in a continued line, the types collected for the line before
  are still in the list.
* `FailureReported`, `ZeroMeansHealthy` (`smartctl`): `-b warn`, the default, sets no bit for a
  bad checksum, in contrast to `smartctl.8.in:2538`; a prefail attribute below its threshold
  sets bit 5, not bit 4, if the disk says it passed (`smartctl.8.in:2545`); failures of
  CHECK POWER MODE, of the FARM log (`ataprint.cpp:4707`) and of reading SCT features leave no
  bit; `-P show` returns 0 after an overlooked failure of IDENTIFY; and smartctl exits with 0 if
  SMART is disabled and not needed.
  For SCSI devices no bit is left by a failure of REQUEST SENSE for `-n`, of the list of log
  pages, of anything that `-A` or `-l error` reads, of the FARM log, and of TEST UNIT READY if
  it is overlooked (`scsiprint.cpp:3211`); for NVMe devices by a log that could be read in part,
  and by `-t` if the device has no self-tests. `-H` does not ask a tape. With `-i` or a FARM log
  smartctl asks a SCSI device for the mode page for informational exceptions; if that is missing
  (`scsiprint.cpp:3225`) `-H` says nothing of the health (409), and the exit status is 0 as long
  as the device reports no failure.
* `RecordsReported`: of an NVMe device neither error log nor self-test log sets bit 6 or 7, and
  of a SCSI device no error counter sets bit 6, in contrast to `smartctl.8.in:2553-2556`, which
  has no such restriction.
* `NothingSentAfter`: whether a self-test is running is known from an earlier read. `-n sleep`
  skips a SCSI device in STANDBY, too (`scsiprint.cpp:3564`; `smartctl.8.in:949-950` says it is
  checked). If REQUEST SENSE fails the mode is read from memory that was not initialised: any
  mode. A foreground test on a SCSI device does not look for a running one, `-t` on a device
  that is testing returns -1, which is the exit status with all bits.
* `DataKept` (`JmbDevice`): a first wakeup write that fails but is stored is not reported,
  `force` during a session of another process takes protocol data for the original, and a kill
  loses the data (documented). `OwnAnswers`: numbers restart at 1 with every session, so that
  sessions that overlap can take each other's answers.

### Deadlock

`CHECK_DEADLOCK FALSE` is set since the systems really stop: smartd exits, a run of smartctl
ends, or the bounded clock and environment end.

### Fairness

`FairSpec` of `SmartdMain` is weak fairness of the daemon's own steps together: the process is
scheduled, commands return and `sleep()` ends after its time. Nothing is assumed of the
environment, so no signal, edit or recovery is promised. Under it `SignalsAnswered` holds. The
other modules state safety only.

## 5. What is proved

TLAPS proves the following for all values of the constants that satisfy their assumptions. None
of the bounds matters: they occur in guards only.

* `SmartdMain_proofs`: `TypeCorrect`; `HupOutsideWindowHonoured` (the flag is still set, or the
  version that was read is as new as the last one announced, and inside the window it is known
  when the HUP came); `ExitIsPrompt` (a cycle after an exit signal can begin only if the signal
  came after the test of the loop condition); `CrashLosesNothingImportant`. The last is not
  inductive: the invariant `SavedInv` adds that at any point of the loop a difference in the major
  part between memory and file means `must_write` or a file that could not be created.
  `EndsInGoodOrder` needs, for each way to `exit`, which modes go there with which status, and
  that a PID file of this process (`pidOwn`) is there only until it is removed or could not be.
  `ForcedAndFinalFilesComplete`: from a forced or final write to the next change, memory and file
  agree. `ReloadsKeepState` and `FaultyReloadsAreIgnored` are action properties: what a successful
  registration takes over is what was written before it, and a file with an error leaves the
  monitored devices and, outside of a check, their states as they are.
* `Sleep_proofs`, of `Dosleep`: `NextWakeupInRange` (`calc_next_wakeuptime()` returns a time in
  the future, at most one interval ahead), `TypeCorrect`, and from the invariant `SleepInv`:
  `SleepIsBounded` with its three parts and `ChecksAreMade` with its two. `SleepInv` relates the
  rest of the sleep to `wakeuptime` (equal while nobody touches the clock, at most the spin-up
  time longer when extended) and says that a device's wakeup time never moves away during the
  sleep. `WakeupsStayInPhase`: every wakeup time is a multiple of its interval away from the first
  one, as long as no device has had an interval of its own and the clock was not set back; lemmas
  about the remainder carry it through `calc_next_wakeuptime()`, over reloads, and when the clock
  has been set forward. `NoCheckTooEarly` from `EarlyInv`, for any intervals: as long as the clock
  is not set back, no wakeup time is further ahead than its interval, and a sleep lasts until the
  first device is due, or an interval of `-i`, at which no device is early by more than `EarlyBy`.
  Of `AutoStandby`: `SystemIsKeptAwake` and `StandbyDisabledOnlyForTests` from `StandbyInv`, which
  relates `standby_disable_state` to what was last asked of the system and to what is known of
  each disk that has been checked in the running cycle.
* `AtaCheck_proofs`: of `MailWarning`, that the interval announced in a mail is the one applied
  to the next, that intervals grow up to 32 days, and that with `daily` or `diminishing` no two
  mails come within a day. `SkipsAreBounded`, since the ghost count never exceeds `powerskipcnt`,
  stays within the limit; and `ImportantMailsAreSaved`, from: memory and file agree about the
  important mail types, or `must_write` is set. `LoggedErrorsAreTold` from `TellInv`: the error
  count in memory is at most that of the disk, everything up to it has been told, nothing beyond it
  has, and the file has the same count or is behind with `must_write` set (the same for hour and
  number of the failed self-tests). `ReappearingProblemsMailed` from `ReappearInv`: a problem that
  is open has its mail counted, one that was seen to be gone has its counter reset.
* `NvmeCheck_proofs`, for logs of any size: `StateIsSaved`, the invariant `SavedInv` that the
  others rest on (after a cycle the important mail counters and the temperatures of memory and
  file agree; within one they differ only if the file is due to be written). `WearIsToldOnce` from
  `WearInv`: what smartd compares a reading with is what the log has told last, and a file that
  exists has the same values, so that a restart repeats nothing (a message counts as told when its
  check ends: a crash within the check that wrote it makes the next one write it again).
  `LoggedErrorsAreReported` from three invariants. `CountInv`: of the entries of the disk's log,
  those up to the error count have been reported or were dropped, and only they, both for the
  count in memory and for that of the file. `HourInv`: the hour of the newest failed test was
  reported or will be in this check. `ResultInv`: as long as the result of a test that smartd
  started is not logged, `selftest_op` or `selftest_started` remembers it. `OverheatingIsMailed`
  from `HotInv`: the mail counter of memory, that of the file and the true state of the disk agree
  up to what this check adds (unless the lower limit wraps around). `ExtremesAreKept`, two
  invariants and an action property, from `TempInv`, which says for each instant where the
  tracking of the minimum stands: its delay runs until `MinDelay` after the first reading, or it
  is over and there is a minimum.
* `SelfTestSchedule_proofs`: `OneTestAnHour`, `ScheduleNeverStalls` and both as
  `HoursAreLookedAtOnce`, from `HourInv`: the next look at the schedule is not before the end of
  the hour of the last test, in memory and, unless it is still to be written or the file could not
  be created, in the file; and it is at most an hour ahead as long as the clock is not set back.
  `TestsAreCaughtUp` (`NoTestForgotten`) from `ForgetInv`: no hour lies between the last one that
  was looked at and the one from which the next look begins.
* `StateFile_proofs`: `JsonFileIsAtomic`, the refinement of `AtomicFile`: `JInv` says that the
  document about to be put in place is complete, and its data are of a check that is not older
  than those of the published one; every step replaces the document or is a stutter.
  `OneCopyIsLeft` from `FInv`: until the second incomplete write begins, the last complete state
  is in the file or in the backup, depending on the call to come, or the file has been written over
  after a failed `rename()`. `NothingIsForgotten` follows
  from the same. `OutputFilesAreFresh`: what the JSON file and the attribute log lack at each
  point of a cycle is what the calls to come will add.
* `RegisterDevices_proofs`: `NamedAreNotScanned` and `NoDeviceTwice` for any lines, disks, scans
  and identities. They are inductive only with: entries of the file come before those of the scan
  (`ScannedLast`), so that the names of all of them are collected (`NamesCollected`) before the
  first scanned one is looked at. That gives different names (`NamesApart`); that these are
  different disks, if the type was kept, is `NamedInv`. `EntriesAreAsWritten` from `LinesInv`: the
  default configuration, the line being collected and all entries are what folds over the lines
  read so far say. That a fold over a sequence with one more element is one more step, for
  sequences of any length, is shown by induction as the absence of a least counterexample, which
  the provers can follow. `NoEntryIsLost` from `LostInv`: each entry that has been handled is
  registered, ignored, absent where that is permitted, or equal to one that is registered. It uses
  `ControllerAssumption`: two paths to one disk, as `is_duplicate_dev_idinfo()` sees it, agree on
  whether the disk is found by name alone.
* `Smartctl_proofs`, of `SmartctlMain`, for every set of options, every disk and all failures:
  `FailuresAreReported`, `ZeroIsHealthy`, `NothingReadIfDisabled`, `RecordsAreReported` and
  `DisksAreLeftAlone`, the five properties of the run `smartctl`. The argument is below.
* `Smartctl_proofs`, of `JmbDevice`, for any number of processes: `DataIsKept` from `CopiesTrue`
  (what looks like the user's data are the user's data, each device that will write has a true
  copy, and if the data are not in the sector one of them will restore it) and `NobodyIn` (without
  `force` no device gets past data that are not zero); `AnswersAreOwn` from `NumbersTell` (one
  session at a time, the sector has this request or nothing with a checksum, and the last answer
  of the bridge has a smaller number than the next request).

### A run of smartctl

A run goes once through up to 48 parts, and its properties speak of the end: that a failure in
one part is not forgotten in a later one. The inductive invariant, `MainInv`, therefore says what
is known *behind* a part, with the parts numbered in the order of `Parts`
(`AtaPast(pc, "values")`: the SMART data have been asked for). The proof has three layers, for
each protocol.

1. Every action makes an `AtaStep` (`ScsiStep`, `NvmeStep`): it goes to a later part, stays at its
   own, or ends the run, keeps the bits of `returnval` but for the places where the code assigns
   the status anew (`AtaKeepsBits` lists them), and adds its part to `failed` only with the bit
   that `failuretest()` or its caller sets (`AtaBits`). `AtaChanges` says which part may change
   which variable, and `AtaSupportDone`, `AtaValuesDone`, `AtaStatusDone`, `AtaLogsDone` what a
   part has to have done before the run passes it.
2. A part that is behind was there before the step, or was passed by this very step, and neither
   by a return nor by an exception (`AtaPastLemma`). With it each conjunct is kept by all steps of
   layer 1, without a look at the actions.
3. Getting and opening the device and closing it change nothing of that, and the conjuncts imply
   the properties of the stages.

The conjuncts for an ATA disk: `AtaFailures` (nothing has failed before IDENTIFY, where the code
still assigns the status anew, and the bits of later failures are kept); `AtaHealth` (as long
as bit 2 is clear, data and thresholds are there behind their parts, and behind the status an
answer that is good); `AtaEnabled` (identify data that say that SMART is on are right or not used,
the parts "supported" and "enabled" let a run that needs SMART pass only if it is on or
`-T permissive` has been used up by one, and nothing turns SMART off behind them); `AtaRecords` (an
extended log has left its bit or the request for the traditional one). For SCSI `ScsiEarly` is
needed: what may have failed at each of the first four parts, where ends with a status of their
own drop bits that are already set. For NVMe: the bit of a failed start of a test can come from the
last part only, and what is known of a running test is what the device does.

The assumptions are the named ones of `SmartctlMain`: types of options and devices, and
`DiskAssumption`, that identify data which say whether SMART is on are right unless the operating
system has cached them. That the proofs depend on the code was tried: with cached data taken for
the disk's own, or with an optional command that fails without its bit, steps of layer 1 are not
proved.

### Assumptions

Those named in the modules (`ASSUME`), which are types of the constants, what the option parser
enforces, for `RegisterDevices`, that one disk looks the same on all its paths, and for
`SmartctlMain` that identify data that are not cached are right. TLC evaluates them in every run.
No theorem has a hypothesis besides them; what a property leaves out is named in its definition
and under Exceptions.

### Only model-checked

Only `SignalsAnswered`, since fairness is out of the prover's reach. (`HupHonoured`, that no HUP
outside of the window is lost, is proved.) TLC checks all other properties as well, on the
instances of section 4.

## 6. Not modelled

* `SCSICheckDevice()`: its parts are in `NvmeCheck` and `AtaCheck`. `check_attribute()` compares
  two values and logs the difference.
* The printing half of the program: `ataPrintMain()`, `scsiPrintMain()` and `nvmePrintMain()`
  beyond the commands and the exit status, `-d test`, `--scan`, JSON output, attribute names and
  formats. They decode one structure after the other and have no behaviour over time.
* Device layer and operating system layers (`os_*.cpp`, half of the code in number of lines):
  each call opens a handle or fills in an ioctl structure. Their failures are in the models.
* Other tunnels and RAID controllers (`dev_*.cpp` but `dev_jmb39x_raid.cpp`): they wrap a
  command into another one and keep nothing.
* Drive database: 7700 lines of data; the lookup is a match with regular expressions.
* Selective self-test spans, the mail script and its privileges (`popen_as_ugid()`),
  `WaitForPidFile()`, systemd notification, the Windows service, option parsing, and the update
  and init scripts: one pass each, or I/O only.
* Commands (`atacmds.cpp`, `scsicmds.cpp`, `nvmecmds.cpp`) and `utility.cpp`, `json.cpp`: they fill
  in and decode binary structures, and format.
* Vendored code (regular expressions, getopt).

Because of these items the mapped lines are a small share of the repository: of the
87,784 lines that count as implementation, more than 70,000 are in these files. Of
`smartd.cpp`, the program that has a behaviour over time, more than half is mapped.
