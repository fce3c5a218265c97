-------------------------- MODULE SelfTestSchedule --------------------------
(***************************************************************************)
(* The scheduled self-tests of one device ("-s REGEX"): when               *)
(* next_scheduled_test() (src/smartd.cpp) looks at the schedule, which     *)
(* test it selects, and what becomes of the time of the next check when a  *)
(* test cannot be started, smartd is reloaded, restarted or crashes, and   *)
(* the clock is set back.                                                  *)
(*                                                                         *)
(* Time is counted in ticks, `Hour' of them in an hour.  A pattern         *)
(* "T/MM/DD/d/HH" of the schedule becomes the hours it matches.            *)
(***************************************************************************)
EXTENDS Integers, Sequences, FiniteSets

CONSTANTS
    Configs,        \* the settings the device may have
    Hour,           \* ticks of an hour (3600)
    MaxAge,         \* hours after which a missed test is forgotten (90 days)
    MaxTime,        \* bound: the last tick
    MaxStarts,      \* bound: starts of smartd, and reloads
    MaxFails,       \* bound: state files that cannot be created
    MaxBacks        \* bound: the clock is set back

\* Ordered by priority: test_type_chars.
TestTypes == << "L", "n", "c", "r", "S", "C", "O" >>
None == "none"

Class(type) == CASE type = "L" -> "long" [] type = "S" -> "short"
                 [] type = "C" -> "conveyance" [] type = "O" -> "offline"
                 [] OTHER -> "selective"
Classes == {"long", "short", "conveyance", "offline", "selective"}

\* Each :NNN[-LLL] of the expression is an offset, number 0 stands for none.
ConfigType == [test_regex: SUBSET [type: {TestTypes[j] : j \in 1 .. 7}, hour: Int, offset: 0 .. 7],
               offsets: Seq([offset: Nat, limit: Nat]),
               test_offset_factor: Nat,
               protocol: {"ata", "scsi", "nvme"},
               state_file: BOOLEAN]

ASSUME ConfigsAssumption == Configs \subseteq ConfigType
ASSUME HourAssumption == Hour \in Nat \ {0} /\ MaxAge \in Nat \ {0}
ASSUME BoundsAssumption ==
    MaxTime \in Nat /\ MaxStarts \in Nat /\ MaxFails \in Nat /\ MaxBacks \in Nat

VARIABLES
    cfg,
    pc,             \* "down", "check", "start" (a test), "write", "sleep"
    firstpass, always,
    scheduled_test_next_check, must_write, notCap,
    file,           \* scheduled_test_next_check in the state file, 0 if there is none
    testtype,       \* what next_scheduled_test() has returned
    running,        \* the device runs a self-test
    now, starts, fails, backs,
    \* history
    lastHour,       \* start of the last hour whose schedule was looked at
    due,            \* the tests of the hours since then
    busyUntil,      \* end of the hour in which the last test was started, 0 if none
    again,          \* a second test was started in the same hour
    excuse          \* smartd ended or was reloaded with a state that was not saved

stateVars == << scheduled_test_next_check, must_write, notCap >>
boundVars == << starts, fails, backs >>
ghostVars == << lastHour, due, busyUntil, again, excuse >>
vars == << cfg, pc, firstpass, always, stateVars, file, testtype, running, now, boundVars,
           ghostVars >>

-----------------------------------------------------------------------------
(***************************************************************************)
(* The schedule.                                                           *)
(***************************************************************************)
HourStart(t) == t - (t % Hour)

Delay(k) ==
    IF k = 0 THEN 0
    ELSE LET o == cfg.offsets[k]
             d == cfg.test_offset_factor * o.offset
         IN  IF 0 < o.limit /\ o.limit < d THEN d % (o.limit + 1) ELSE d

\* The tests the schedule has at time t, of those the device is capable of.
MatchesAt(t) ==
    {ty \in {TestTypes[j] : j \in 1 .. 7} :
        /\ Class(ty) \notin notCap
        /\ \E k \in 0 .. Len(cfg.offsets) :
               [type |-> ty, hour |-> (t \div Hour) - Delay(k), offset |-> k]
                   \in cfg.test_regex}

\* The points in time the loop visits, from hour to hour.
Visited_Now(from, to) == {to}
Visited(from, to) == {t \in from .. to : (t - from) % Hour = 0 \/ t = to}

\* The first of the types in the order of their priority.
First(types) ==
    IF types = {} THEN None
    ELSE TestTypes[CHOOSE j \in 1 .. 7 : TestTypes[j] \in types
                                         /\ \A i \in 1 .. (j - 1) : TestTypes[i] \notin types]

\* The hour was looked at already, unless the clock was set back by more than one.
TooEarly(t) == now < t /\ t <= now + Hour
From(t) ==
    IF now < t THEN now
    ELSE IF t + MaxAge * Hour < now THEN now - MaxAge * Hour
    ELSE t

\* The next look is at the next full hour.
NextCheck(t) == HourStart(t) + Hour

-----------------------------------------------------------------------------
Init ==
    /\ cfg \in Configs
    /\ pc = "down" /\ firstpass = TRUE /\ always = FALSE
    /\ scheduled_test_next_check = 0 /\ must_write = FALSE /\ notCap = {}
    /\ file = 0 /\ testtype = None /\ running = FALSE
    /\ now \in Hour .. (2 * Hour - 1)
    /\ starts = 0 /\ fails = 0 /\ backs = 0
    /\ lastHour = 0 /\ due = {} /\ busyUntil = 0 /\ again = FALSE /\ excuse = FALSE

\* Registration: what the scan finds out about the capabilities, and the
\* time of the next check from the state file or the current one.
Registered(saved) ==
    /\ starts < MaxStarts
    /\ starts' = starts + 1
    /\ scheduled_test_next_check' = IF cfg.state_file /\ saved # 0 THEN saved ELSE now
    /\ notCap' \in (CASE cfg.protocol = "ata" -> {{}}
                      [] cfg.protocol = "scsi" -> {{"conveyance", "offline", "selective"}}
                      [] OTHER -> {{"conveyance", "offline", "selective"}, Classes})
    /\ must_write' = FALSE /\ always' = TRUE
    /\ pc' = "check"
    /\ lastHour' = IF cfg.state_file /\ saved # 0 THEN lastHour ELSE HourStart(now) - Hour

Start ==
    /\ pc = "down"
    /\ Registered(file)
    /\ firstpass' = TRUE
    /\ UNCHANGED << cfg, file, testtype, running, now, fails, backs, due, busyUntil, again,
                    excuse >>

\* write_dev_state() renames the old file away before it creates the new one.
WriteFile ==
    \/ /\ file' = scheduled_test_next_check
       /\ UNCHANGED fails
    \/ /\ fails < MaxFails
       /\ fails' = fails + 1
       /\ file' = 0
SaveAlways == IF cfg.state_file THEN WriteFile ELSE UNCHANGED << file, fails >>

\* A HUP: the state is written, the device is registered anew.
Reload ==
    /\ pc = "sleep"
    /\ SaveAlways
    /\ Registered(file')
    /\ excuse' = (excuse \/ file' = 0)
    /\ UNCHANGED << cfg, firstpass, testtype, running, now, backs, due, busyUntil, again >>

\* TERM in the sleep: the state is written.
Stop ==
    /\ pc = "sleep"
    /\ pc' = "down"
    /\ SaveAlways
    /\ excuse' = (excuse \/ file' = 0)
    /\ UNCHANGED << cfg, firstpass, always, stateVars, testtype, running, now, starts, backs,
                    lastHour, due, busyUntil, again >>

\* A crash loses what is not saved.
Crash ==
    /\ pc # "down"
    /\ pc' = "down"
    /\ excuse' = (excuse \/ must_write \/ file = 0)
    /\ testtype' = None /\ due' = {}
    /\ UNCHANGED << cfg, firstpass, always, stateVars, file, running, now, boundVars, lastHour,
                    busyUntil, again >>

-----------------------------------------------------------------------------
(***************************************************************************)
(* The device check, as far as scheduled tests are concerned.              *)
(***************************************************************************)

\* No test in the first pass, nor if the check ends early: the disk cannot be
\* opened, or is left in standby.
NoTest ==
    /\ pc = "check"
    /\ pc' = "write"
    /\ UNCHANGED << cfg, firstpass, always, stateVars, file, testtype, running, now, boundVars,
                    ghostVars >>

\* History: the tests of all hours since the last look at the schedule, or of
\* the last 90 days.
DueTests ==
    LET hours == {h \in (lastHour + 1) .. now :
                      h % Hour = 0 /\ h > now - MaxAge * Hour - Hour}
    IN  UNION {MatchesAt(h) : h \in hours}

MustWrite_Never(type) == FALSE
MustWrite(type) == type # None

NextScheduledTest ==
    /\ pc = "check"
    /\ ~firstpass
    /\ IF notCap = Classes \/ TooEarly(scheduled_test_next_check)
       THEN /\ testtype' = None
            /\ UNCHANGED << scheduled_test_next_check, must_write, lastHour >>
       ELSE LET from == From(scheduled_test_next_check)
            IN  /\ testtype' = First(UNION {MatchesAt(t) : t \in Visited(from, now)})
                /\ scheduled_test_next_check' = NextCheck(now)
                /\ must_write' = (must_write \/ MustWrite(testtype'))
                /\ lastHour' = HourStart(now)
    /\ due' = DueTests
    /\ pc' = IF testtype' = None THEN "write" ELSE "start"
    /\ UNCHANGED << cfg, firstpass, always, notCap, file, running, now, boundVars, busyUntil,
                    again, excuse >>

\* What an attempt to start the test may find out the device is not capable of.
DoATASelfTest == {{}, {Class(testtype)}}
DoSCSISelfTest == {{}, {Class(testtype)}, {"short", "long"}}
StartNVMeSelfTest == {{}}

\* A command fails, the device is not capable, or it runs another test.
TestFails ==
    /\ pc = "start"
    /\ pc' = "write"
    /\ \E lost \in (CASE cfg.protocol = "ata" -> DoATASelfTest
                      [] cfg.protocol = "scsi" -> DoSCSISelfTest
                      [] OTHER -> StartNVMeSelfTest) :
           notCap' = notCap \cup lost
    /\ UNCHANGED << cfg, firstpass, always, scheduled_test_next_check, must_write, file,
                    testtype, running, now, boundVars, ghostVars >>

\* An offline data collection is no self-test.
TestStarts ==
    /\ pc = "start"
    /\ ~running
    /\ pc' = "write"
    /\ running' = (testtype # "O")
    /\ busyUntil' = HourStart(now) + Hour
    /\ again' = (again \/ HourStart(now) + Hour = busyUntil)
    /\ UNCHANGED << cfg, firstpass, always, stateVars, file, testtype, now, boundVars,
                    lastHour, due, excuse >>

\* The state files are written at the end of the cycle.
WriteState ==
    /\ pc = "write"
    /\ pc' = "sleep"
    /\ IF cfg.state_file /\ (always \/ must_write)
       THEN /\ WriteFile
            /\ must_write' = (must_write /\ file' = 0)
       ELSE UNCHANGED << file, must_write, fails >>
    /\ always' = FALSE /\ firstpass' = FALSE
    /\ testtype' = None /\ due' = {}
    /\ UNCHANGED << cfg, scheduled_test_next_check, notCap, running, now, starts, backs,
                    lastHour, busyUntil, again, excuse >>

\* The sleep ends; after a USR1 the state is written in any case.
Wakeup ==
    /\ pc = "sleep"
    /\ pc' = "check"
    /\ always' \in BOOLEAN
    /\ UNCHANGED << cfg, firstpass, stateVars, file, testtype, running, now, boundVars,
                    ghostVars >>

-----------------------------------------------------------------------------
(***************************************************************************)
(* The clock and the device.  The clock is read once in a check.           *)
(***************************************************************************)
Tick ==
    /\ pc \in {"sleep", "down"}
    /\ now < MaxTime
    /\ now' = now + 1
    /\ UNCHANGED << cfg, pc, firstpass, always, stateVars, file, testtype, running, boundVars,
                    ghostVars >>

SetBack ==
    /\ pc \in {"sleep", "down"}
    /\ backs < MaxBacks
    /\ backs' = backs + 1
    /\ now' \in Hour .. (now - 1)
    /\ UNCHANGED << cfg, pc, firstpass, always, stateVars, file, testtype, running, starts,
                    fails, ghostVars >>

TestEnds ==
    /\ running
    /\ running' = FALSE
    /\ UNCHANGED << cfg, pc, firstpass, always, stateVars, file, testtype, now, boundVars,
                    ghostVars >>

Check == NoTest \/ NextScheduledTest \/ TestFails \/ TestStarts \/ WriteState
Next == Start \/ Reload \/ Stop \/ Crash \/ Check \/ Wakeup \/ Tick \/ SetBack \/ TestEnds

Spec == Init /\ [][Next]_vars

-----------------------------------------------------------------------------
(***************************************************************************)
(* Correctness.                                                            *)
(***************************************************************************)

\* The time of the next check is kept in a state file, through reloads, restarts
\* and crashes, and smartd has not ended, crashed or been reloaded before the state
\* was saved or after the file could not be created.
Undisturbed == cfg.state_file /\ backs = 0 /\ ~excuse

\* "If any test would have been started during downtime", or while the disk
\* was in standby, "the longest of these tests is run": no test of the hours
\* since the last look at the schedule has a higher priority than the one
\* that is selected.
NoTestForgotten ==
    backs = 0 /\ due # {} =>
        /\ testtype # None
        /\ \A j \in 1 .. 7 : TestTypes[j] = testtype =>
               \A i \in 1 .. (j - 1) : TestTypes[i] \notin due

\* A check of the device looks at the schedule, or has done so within this
\* hour or the last one: a clock set back cannot put it off any longer.
NeverStalls ==
    [][ NextScheduledTest /\ notCap # Classes =>
            scheduled_test_next_check' \in (now + 1) .. (now + Hour) ]_vars

\* "smartd will not attempt to run any type of test if another test was already
\* started or run in the same hour" (smartd.conf.5, -s), if undisturbed; and no hour is
\* waited for in vain.
EachHourOnce == [](Undisturbed => ~again) /\ NeverStalls

=============================================================================
