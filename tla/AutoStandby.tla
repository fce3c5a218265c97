---------------------------- MODULE AutoStandby -----------------------------
(***************************************************************************)
(* Whether the system may go to standby by itself while disks test         *)
(* themselves: -l offlinests,ns and -l selfteststs,ns, of                  *)
(* init_disable_standby_check() and do_disable_standby_check()             *)
(* (src/smartd.cpp), with the part of ATACheckDevice() that reads the      *)
(* status of the tests and starts them.  The check of one disk is a step,  *)
(* do_disable_standby_check() follows when all have been checked.          *)
(***************************************************************************)
EXTENDS Integers, FiniteSets

CONSTANTS
    Disks,
    MaxEvents,      \* bound: changes of the disks
    MaxFails,       \* bound: refused requests to the system, failed checks
    MaxCycles,      \* bound: check cycles
    MaxReloads      \* bound: HUP

\* Offline data collections and self-tests; one may run on a disk.
Kinds == {"offline", "selftest"}
Statuses == Kinds \cup {"none"}

ASSUME StandbyBounds ==
    MaxEvents \in Nat /\ MaxFails \in Nat /\ MaxCycles \in Nat /\ MaxReloads \in Nat

VARIABLES
    phase,
    ns,         \* the kinds with ',ns' of each disk in smartd.conf
    todo,       \* disks to check in this cycle
    state,      \* standby_disable_state: 0 not used, 1 not disabled, 2 rejected, 3 disabled
    started,    \* offline_started and selftest_started of each disk
    status,     \* what smartval says to be in progress
    disk, gone, \* what is in progress, disks that do not answer
    disabled,   \* the system's auto standby is disabled
    events, fails, cycles, reloads,     \* bounds
    known,      \* history: in progress or started when the disk was last checked
    stale,      \* history: disks whose SMART data could not be read since
    stuck,      \* history: the last request failed and has left auto standby as it was
    rejected    \* history: the last request to disable it failed

diskVars == << started, status, disk, known, stale >>
boundVars == << events, cycles, reloads >>
standbyVars == << phase, ns, todo, state, diskVars, gone, disabled, boundVars, fails, stuck,
                  rejected >>

Configured == \E d \in Disks : ns[d] # {}

StandbyInit ==
    /\ phase = "register" /\ ns = [d \in Disks |-> {}] /\ todo = {} /\ state = 0
    /\ started = [d \in Disks |-> {}] /\ status = [d \in Disks |-> "none"]
    /\ disk = [d \in Disks |-> "none"] /\ gone = {} /\ disabled = FALSE
    /\ events = 0 /\ fails = 0 /\ cycles = 0 /\ reloads = 0
    /\ known = [d \in Disks |-> {}] /\ stale = {} /\ stuck = FALSE /\ rejected = FALSE

\* A test ends, or is started by others; a disk is unplugged or back again.
DiskChanges ==
    /\ events < MaxEvents
    /\ events' = events + 1
    /\ \/ /\ \E d \in Disks : \E s \in Statuses \ {disk[d]} : disk' = [disk EXCEPT ![d] = s]
          /\ UNCHANGED gone
       \/ /\ \E d \in Disks : gone' = (gone \cup {d}) \ (gone \cap {d})
          /\ UNCHANGED disk
    /\ UNCHANGED << phase, ns, todo, state, started, status, known, stale, disabled, fails,
                    cycles, reloads, stuck, rejected >>

\* disable_system_auto_standby() of os_win32.cpp.  On battery, a request to disable
\* auto standby is refused and enables it; any request may fail without effect.
EnableWorks == disabled' = FALSE /\ stuck' = FALSE /\ UNCHANGED << fails, rejected >>
EnableFails ==
    /\ fails < MaxFails /\ fails' = fails + 1
    /\ stuck' = TRUE
    /\ UNCHANGED << disabled, rejected >>
DisableWorks == disabled' = TRUE /\ rejected' = FALSE /\ UNCHANGED << fails, stuck >>
DisableFails ==
    /\ fails < MaxFails /\ fails' = fails + 1
    /\ rejected' = TRUE
    /\ \/ disabled' = FALSE /\ stuck' = FALSE
       \/ stuck' = disabled /\ UNCHANGED disabled
NoRequest == UNCHANGED << disabled, fails, stuck, rejected >>

-----------------------------------------------------------------------------
(***************************************************************************)
(* Registration, at the start and after HUP: new states, and smartval of   *)
(* the disks is read.                                                      *)
(***************************************************************************)
\* Auto standby is enabled again if the former configuration had disabled it;
\* a system that cannot do it does not support ',ns'.
Asks_IfConfigured == Configured'
Asks == Configured' \/ state = 3

init_disable_standby_check ==
    \/ Asks /\ EnableWorks /\ state' = IF Configured' THEN 1 ELSE 0
    \/ Asks /\ EnableFails /\ state' = 0
    \/ ~Asks /\ NoRequest /\ state' = 0

Register ==
    /\ phase = "register"
    /\ \E new \in [Disks -> SUBSET Kinds] :
           ns' = [d \in Disks |-> IF d \in gone THEN {} ELSE new[d]]
    /\ started' = [d \in Disks |-> {}]
    /\ status' = [d \in Disks |-> IF d \in gone THEN "none" ELSE disk[d]]
    /\ known' = [d \in Disks |-> {status'[d]} \cap Kinds] /\ stale' = {}
    /\ init_disable_standby_check
    /\ todo' = Disks \ gone
    /\ phase' = "check"
    /\ UNCHANGED << disk, gone, boundVars >>

-----------------------------------------------------------------------------
(***************************************************************************)
(* The check cycle.                                                        *)
(***************************************************************************)
Checked(d) == phase = "check" /\ d \in todo /\ todo' = todo \ {d}

\* The disk is skipped, sleeps, or cannot be opened: its state is left alone.
NotChecked(d) ==
    /\ Checked(d)
    /\ UNCHANGED << phase, ns, state, diskVars, gone, disabled, boundVars, fails, stuck,
                    rejected >>

\* The schedule may start a test, unless a self-test is running.
MayStart(d) == IF disk[d] = "selftest" THEN {"none"} ELSE Statuses
Start(d, kind) ==
    /\ disk' = [disk EXCEPT ![d] = IF kind = "none" THEN @ ELSE kind]
    /\ started' = [started EXCEPT ![d] = IF kind = "none" THEN {} ELSE {kind}]

CheckDevice(d) ==
    /\ Checked(d)
    /\ d \notin gone
    /\ status' = [status EXCEPT ![d] = disk[d]]
    /\ \E kind \in MayStart(d) : Start(d, kind)
    /\ known' = [known EXCEPT ![d] = {disk[d], disk'[d]} \cap Kinds]
    /\ stale' = stale \ {d}
    /\ UNCHANGED << phase, ns, state, gone, disabled, boundVars, fails, stuck, rejected >>

\* SMART data cannot be read: the tests started by smartd are forgotten.
CheckDeviceFails(d) ==
    /\ Checked(d)
    /\ d \notin gone
    /\ fails < MaxFails /\ fails' = fails + 1
    /\ \E kind \in MayStart(d) :
        /\ Start(d, kind)
        /\ known' = [known EXCEPT ![d] = @ \cup ({kind} \cap Kinds)]
    /\ stale' = stale \cup {d}
    /\ UNCHANGED << phase, ns, state, status, gone, disabled, boundVars, stuck, rejected >>

\* Tests that were just started or are still running.
Running_NotStarted == \E d \in Disks : status[d] \in ns[d]
Running == \E d \in Disks : (started[d] \cup {status[d]}) \cap ns[d] # {}

do_disable_standby_check ==
    \/ state = 0 /\ NoRequest /\ UNCHANGED state
    \/ state = 1 /\ ~Running /\ NoRequest /\ UNCHANGED state
    \/ state > 1 /\ ~Running /\ (EnableWorks \/ EnableFails) /\ state' = 1
    \/ state # 0 /\ Running /\ DisableWorks /\ state' = 3
    \/ state # 0 /\ Running /\ DisableFails /\ state' = 2

EndOfCycle ==
    /\ phase = "check" /\ todo = {}
    /\ do_disable_standby_check
    /\ phase' = "sleep"
    /\ UNCHANGED << ns, todo, diskVars, gone, boundVars >>

Wakeup ==
    /\ phase = "sleep"
    /\ cycles < MaxCycles
    /\ cycles' = cycles + 1
    /\ todo' = Disks
    /\ phase' = "check"
    /\ UNCHANGED << ns, state, diskVars, gone, disabled, fails, events, reloads, stuck,
                    rejected >>

ReloadConfig ==
    /\ phase = "sleep"
    /\ reloads < MaxReloads
    /\ reloads' = reloads + 1
    /\ phase' = "register"
    /\ UNCHANGED << ns, todo, state, diskVars, gone, disabled, fails, events, cycles, stuck,
                    rejected >>

StandbyNext ==
    \/ DiskChanges \/ Register \/ EndOfCycle \/ Wakeup \/ ReloadConfig
    \/ \E d \in Disks : NotChecked(d) \/ CheckDevice(d) \/ CheckDeviceFails(d)

StandbySpec == StandbyInit /\ [][StandbyNext]_standbyVars

-----------------------------------------------------------------------------
(***************************************************************************)
(* Properties.                                                             *)
(***************************************************************************)

\* While smartd sleeps the system does not go to standby if a test of a kind with
\* ',ns' was in progress when its disk was checked, whether smartd or somebody
\* else has started it, unless the system has refused or does not support it, or
\* a later check could not read the disk (do_disable_standby_check()).
KeptAwake ==
    phase = "sleep" /\ state # 0 /\ (\E d \in Disks \ stale : known[d] \cap ns[d] # {})
        => disabled \/ rejected

\* While smartd sleeps auto standby is enabled if no test was in progress when the
\* disks were checked, also after tests, rejected requests and new configurations,
\* unless the system has refused to enable it or a disk could not be read.
EnabledWhenIdle ==
    (\A d \in Disks : ns[d] = {} \/ (d \notin stale /\ known[d] \cap ns[d] = {}))
        => ~disabled \/ stuck

\* Auto standby is disabled only at the end of a cycle, for a disk with ',ns' that
\* had a test in progress when it was last checked.
DisabledForTests ==
    [][disabled' /\ ~disabled =>
           phase = "check" /\ \E d \in Disks : known[d] \cap ns[d] # {}]_standbyVars

\* smartd keeps the system awake for nothing else: it disables auto standby for tests
\* only, and enables it when they are over.
DisabledOnlyForTests == [](phase = "sleep" => EnabledWhenIdle) /\ DisabledForTests
=============================================================================
