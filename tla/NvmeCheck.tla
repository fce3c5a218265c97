----------------------------- MODULE NvmeCheck ------------------------------
(***************************************************************************)
(* What smartd finds out about one NVMe disk and what it reports, from one *)
(* check to the next, through restarts with a state file and crashes:      *)
(* NVMeDeviceScan(), NVMeCheckDevice() and the functions they call         *)
(* (src/smartd.cpp).                                                       *)
(*                                                                         *)
(* A check reads three logs of the disk.  Between two of them the disk may *)
(* change, and each command may fail: every stage of the check is a step,  *)
(* `pc' names the next one.  A disk that is not removable and smartd with  *)
(* an address to mail to; the rest of open_device() is in AtaCheck.        *)
(***************************************************************************)
EXTENDS Temperature, MailWarning, Sequences, SequencesExt

CONSTANTS
    Configs,        \* the settings smartd may have for the disk
    Changes,        \* bound: what may change about a disk with these settings
    Thresh,         \* the Available Spare Threshold of the disk
    Kelvins,        \* temperatures of the disk, 0: no sensor
    LogSize,        \* entries of the Error Information log that are read (64 at most)
    SelfTestLogSize,\* entries of the self-test log (20)
    MaxEvents,      \* bound: changes of the disk
    MaxFails,       \* bound: failing commands
    MaxTime,        \* bound: the last cycle (time counts cycles)
    MaxStarts       \* bound: starts of smartd

Types == {"Health", "Usage", "SelfTest", "ErrorCount", "FailedReadSmartData",
          "FailedReadSmartSelfTestLog", "FailedOpenDevice", "Temperature"}

\* -H, -p, -u, -f, -l error or xerror, -l selftest, -l selfteststs, -s
Features == {"smartcheck", "prefail", "usage", "usagefailed", "errorlog",
             "selftest", "selfteststs", "tests"}
SelfTests == {"selftest", "selfteststs", "tests"}

ConfigType == [freq: Freqs, lim: LimitType, features: SUBSET Features, state_file: BOOLEAN]

ASSUME ConfigsAssumption == Configs \subseteq ConfigType
ASSUME BoundsAssumption ==
    /\ Kelvins \subseteq Nat /\ Kelvins # {} /\ Thresh \in Nat
    /\ LogSize \in Nat \ {0} /\ SelfTestLogSize \in Nat \ {0}
    /\ MaxEvents \in Nat /\ MaxFails \in Nat /\ MaxTime \in Nat /\ MaxStarts \in Nat

VARIABLES
    cfg, pc,
    mon, lim,       \* the features and limits left by the capability checks of the scan
    always,         \* write_states_always of this cycle
    st,             \* dev_state
    chk,            \* local variables of NVMeCheckDevice(), and what this check has reported
    file,           \* the state file
    disk, now,
    events, fails, starts,      \* bounds
    h               \* history

bounds == << events, fails, starts >>
vars == << cfg, pc, mon, lim, always, st, chk, file, disk, now, bounds, h >>

-----------------------------------------------------------------------------
(***************************************************************************)
(* The disk.                                                               *)
(***************************************************************************)
Values == {"spare", "used", "media"}
SmartVal == [Values -> Nat]
ErrorKinds == {"device", "command"}
\* A failed test, a successful extended one; all others do not count.
TestKinds == {"error", "long_ok", "other"}

DiskType == [gone: BOOLEAN, warning: BOOLEAN, val: SmartVal, kelvin: Kelvins,
             entries: Nat, errors: Seq([n: Nat, kind: ErrorKinds]),
             running: {"no", "smartd", "other"}, tests: Seq([kind: TestKinds, hour: Nat])]

Newest(log, n) == SubSeq(log, 1, IF Len(log) < n THEN Len(log) ELSE n)

\* Used and media errors never decrease.  The error log is lost in a power cycle,
\* the number of entries is not.  A self-test may be run by others.
DiskChanges ==
    /\ events < MaxEvents
    /\ events' = events + 1
    /\ \/ "gone" \in Changes[cfg] /\ disk' = [disk EXCEPT !.gone = ~@]
       \/ "warning" \in Changes[cfg] /\ disk' = [disk EXCEPT !.warning = ~@]
       \/ /\ "wear" \in Changes[cfg]
          /\ \E v \in {"used", "media"} : disk' = [disk EXCEPT !.val[v] = @ + 1]
       \/ /\ "spare" \in Changes[cfg]
          /\ \E s \in {Thresh - 1, Thresh + 1} \cap Nat : disk' = [disk EXCEPT !.val["spare"] = s]
       \/ /\ "temperature" \in Changes[cfg]
          /\ \E k \in Kelvins : disk' = [disk EXCEPT !.kelvin = k]
       \/ /\ "errors" \in Changes[cfg]
          /\ \/ \E kind \in ErrorKinds :
                    disk' = [disk EXCEPT
                                !.entries = @ + 1,
                                !.errors = << [n |-> disk.entries + 1, kind |-> kind] >> \o @]
             \/ disk' = [disk EXCEPT !.errors = << >>]
       \/ /\ "selftests" \in Changes[cfg]
          /\ \/ disk.running = "no" /\ disk' = [disk EXCEPT !.running = "other"]
             \/ \E kind \in TestKinds :
                    disk' = [disk EXCEPT
                                !.running = "no",
                                !.tests = Newest(<< [kind |-> kind, hour |-> now] >> \o @,
                                                 SelfTestLogSize)]
    /\ h' = [h EXCEPT !.silent = IF disk.running # "no" /\ disk'.running = "no"
                                 THEN disk.running = "smartd" ELSE @]
    /\ UNCHANGED << cfg, pc, mon, lim, always, st, chk, file, now, fails, starts >>

\* A command may fail.
Fails == fails < MaxFails /\ fails' = fails + 1

\* Kelvin to positive degrees Celsius
Celsius(k) == IF k - 273 < 1 THEN 1 ELSE IF k - 273 > 255 THEN 255 ELSE k - 273

-----------------------------------------------------------------------------
(***************************************************************************)
(* Registration and the state file.                                        *)
(***************************************************************************)
NoLimits == [diff |-> 0, info |-> 0, crit |-> 0]
NoFile == [exists |-> FALSE]
Persistent_NoErrorCount ==
    [exists |-> TRUE, maillog |-> st.maillog, val |-> st.val, errcount |-> 0,
     selflogcount |-> st.selflogcount, selfloghour |-> st.selfloghour,
     tempmin |-> st.temp.tempmin, tempmax |-> st.temp.tempmax]
Persistent ==
    [exists |-> TRUE, maillog |-> st.maillog, val |-> st.val, errcount |-> st.errcount,
     selflogcount |-> st.selflogcount, selfloghour |-> st.selfloghour,
     tempmin |-> st.temp.tempmin, tempmax |-> st.temp.tempmax]

NewState ==
    [maillog |-> [type \in Types |-> NoMail], val |-> [v \in Values |-> 0], errcount |-> 0,
     selflogcount |-> 0, selfloghour |-> 0, selftest_op |-> FALSE,
     selftest_started |-> FALSE, must_write |-> FALSE, temp |-> NoTemperature]

StateFromDisk(on) ==
    [NewState EXCEPT !.val = disk.val,
                     !.errcount = IF "errorlog" \in on THEN disk.entries ELSE 0]
StateFromFile ==
    [NewState EXCEPT !.maillog = file.maillog, !.val = file.val, !.errcount = file.errcount,
                     !.selflogcount = file.selflogcount, !.selfloghour = file.selfloghour,
                     !.temp.tempmin = file.tempmin, !.temp.tempmax = file.tempmax]

NoCheck == [c |-> 0, val |-> [v \in Values |-> 0], logged |-> {},
            entries |-> 0, complete |-> FALSE, testtype |-> FALSE, running |-> FALSE,
            new |-> {}, dropped |-> {}, hour |-> 0, hours |-> {}, unsaid |-> FALSE]

NoHistory ==
    [told |-> [v \in Values |-> 0], hi |-> 0, late |-> Unset, first |-> -1, warm |-> FALSE,
     base |-> 0, reported |-> {}, dropped |-> {}, twice |-> FALSE, hours |-> {0},
     hot |-> FALSE, crashed |-> FALSE, silent |-> FALSE, blind |-> FALSE]

Init ==
    /\ cfg \in Configs
    /\ pc = "down" /\ mon = {} /\ lim = NoLimits /\ always = TRUE
    /\ st = NewState /\ chk = NoCheck /\ file = NoFile
    /\ disk \in [gone: {FALSE}, warning: {FALSE}, entries: {0},
                 kelvin: IF "temperature" \in Changes[cfg] THEN Kelvins ELSE {0},
                 val: {[spare |-> Thresh, used |-> 95, media |-> 0]},
                 errors: {<< >>}, running: {"no"}, tests: {<< >>}]
    /\ now = 0 /\ events = 0 /\ fails = 0 /\ starts = 0
    /\ h = NoHistory

\* The error log and the self-test log are read once: a log that cannot be
\* read is not monitored until the next start.
NVMeDeviceScan ==
    /\ pc = "down"
    /\ starts < MaxStarts
    /\ starts' = starts + 1
    /\ ~disk.gone
    /\ \E broken \in SUBSET {{"errorlog"}, SelfTests} :
        /\ \A f \in broken : f \cap cfg.features # {}
        /\ fails + Cardinality(broken) <= MaxFails
        /\ fails' = fails + Cardinality(broken)
        /\ mon' = cfg.features \ UNION broken
    /\ lim' = IF disk.kelvin = 0 THEN NoLimits ELSE cfg.lim
    /\ mon' # {} \/ Monitors(lim')
    /\ st' = IF file.exists THEN StateFromFile ELSE StateFromDisk(mon')
    /\ h' = IF file.exists
            THEN [h EXCEPT !.first = -1, !.warm = FALSE, !.blind = TRUE]
            ELSE [NoHistory EXCEPT !.told = disk.val, !.base = disk.entries,
                                   !.crashed = h.crashed, !.blind = TRUE]
    /\ pc' = "open" /\ always' = TRUE /\ chk' = NoCheck
    /\ UNCHANGED << cfg, file, disk, now, events >>

\* write_all_dev_states() at the end of the cycle; what the check has found
\* and reported becomes history.
Saves == cfg.state_file /\ (always \/ st.must_write)

Record(g) ==
    [g EXCEPT
        !.told = [v \in Values |-> IF v \in chk.logged THEN chk.val[v] ELSE @[v]],
        !.hi = Higher(@, chk.c),
        !.late = IF chk.c # 0 /\ g.first # -1 /\ now >= g.first + MinDelay
                 THEN Lower(@, chk.c) ELSE @,
        !.twice = @ \/ chk.new \cap g.reported # {},
        !.reported = @ \cup chk.new,
        !.dropped = @ \cup chk.dropped,
        !.hours = @ \cup chk.hours,
        !.hot = IF chk.c = 0 \/ lim.crit = 0 THEN @
                ELSE IF chk.c >= lim.crit THEN TRUE
                ELSE @ /\ chk.c >= (IF lim.info # 0 THEN lim.info ELSE lim.crit - 5)]

WriteState ==
    /\ pc = "write"
    /\ file' = IF Saves THEN Persistent ELSE file
    /\ st' = [st EXCEPT !.must_write = @ /\ ~Saves]
    /\ h' = Record(h)
    /\ pc' = "wait"
    /\ UNCHANGED << cfg, mon, lim, always, chk, disk, now, bounds >>

Wakeup ==
    /\ pc = "wait"
    /\ now < MaxTime
    /\ now' = now + 1
    /\ always' \in BOOLEAN
    /\ pc' = "open" /\ chk' = NoCheck
    /\ UNCHANGED << cfg, mon, lim, st, file, disk, bounds, h >>

\* The memory of the process is gone.
Down == /\ pc' = "down" /\ mon' = {} /\ lim' = NoLimits /\ always' = TRUE
        /\ st' = NewState /\ chk' = NoCheck

\* smartd is stopped with TERM.
Stop ==
    /\ pc = "wait"
    /\ file' = IF cfg.state_file THEN Persistent ELSE file
    /\ Down
    /\ UNCHANGED << cfg, disk, now, bounds, h >>

Crash ==
    /\ pc # "down"
    /\ starts < MaxStarts
    /\ Down
    /\ h' = [h EXCEPT !.crashed = TRUE]
    /\ UNCHANGED << cfg, file, disk, now, bounds >>

-----------------------------------------------------------------------------
(***************************************************************************)
(* Mail.                                                                   *)
(***************************************************************************)
Warned(mail, type) == IF IsDue(mail, cfg.freq, type, now) THEN Sent(mail, now) ELSE mail

\* Up to three calls of MailWarning(), one for each of Values
WarnedTimes(mail, type, n) ==
    LET once == Warned(mail, type)
        twice == Warned(once, type)
    IN  IF n = 1 THEN once ELSE IF n = 2 THEN twice ELSE Warned(twice, type)

\* `bad' gives the calls of MailWarning(); reset_warning_mail() for those in `good'.
Mail(bad, good) ==
    [type \in Types |->
        IF type \in good THEN NoMail
        ELSE IF type \in DOMAIN bad THEN WarnedTimes(st.maillog[type], type, bad[type])
        ELSE st.maillog[type]]
WasReset(good) == \E type \in good : st.maillog[type].logged # 0

Once(types) == [type \in types |-> 1]

-----------------------------------------------------------------------------
(***************************************************************************)
(* NVMeCheckDevice(), stage by stage.                                      *)
(***************************************************************************)
OpenFails ==
    /\ pc = "open"
    /\ IF disk.gone THEN UNCHANGED fails ELSE Fails
    /\ st' = [st EXCEPT !.maillog = Mail(Once({"FailedOpenDevice"}), {})]
    /\ pc' = "write"
    /\ UNCHANGED << cfg, mon, lim, always, chk, file, disk, now, events, starts, h >>

OpenDevice ==
    /\ pc = "open"
    /\ ~disk.gone
    /\ st' = [st EXCEPT !.maillog = Mail(<< >>, {"FailedOpenDevice"}),
                        !.must_write = @ \/ WasReset({"FailedOpenDevice"})]
    /\ pc' = "smart"
    /\ UNCHANGED << cfg, mon, lim, always, chk, file, disk, now, bounds, h >>

ReadSmartLogFails ==
    /\ pc = "smart"
    /\ IF disk.gone THEN UNCHANGED fails ELSE Fails
    /\ st' = [st EXCEPT !.maillog = Mail(Once({"FailedReadSmartData"}), {}),
                        !.must_write = TRUE]
    /\ pc' = "write"
    /\ UNCHANGED << cfg, mon, lim, always, chk, file, disk, now, events, starts, h >>

\* log_nvme_smart_change(): a change is logged if it is critical or if all of
\* them are; a critical one is mailed.
Compares(v) == IF v = "spare" THEN "prefail" \in mon
               ELSE {"usage", "usagefailed"} \cap mon # {}
IsBad(v) == IF v = "spare" THEN disk.val[v] < Thresh /\ Thresh <= 100
            ELSE /\ "usagefailed" \in mon
                 /\ IF v = "used" THEN disk.val[v] > 95 ELSE disk.val[v] > st.val[v]
IsInfo(v) == v = "spare" \/ "usage" \in mon
Changed == {v \in Values : Compares(v) /\ disk.val[v] # st.val[v]}
Logged == {v \in Changed : IsBad(v) \/ IsInfo(v)}
MustWrite_IfBad(warning) == warning \/ \E v \in Logged : IsBad(v)
MustWrite(warning) == warning \/ Logged # {}

\* A reading that shows that the recorded minimum is not one of a cold disk.
IsWarm(c) == st.temp.tempmin # 0
             /\ (c > st.temp.tempmin \/ (c = st.temp.tempmin /\ h.first = -1))

\* The SMART/Health log: the critical warning, values that have changed and
\* the temperature.
CheckSmartLog ==
    /\ pc = "smart"
    /\ ~disk.gone
    /\ LET c == Celsius(disk.kelvin)
           warning == disk.warning /\ "smartcheck" \in mon
           usage == Cardinality({v \in Logged : IsBad(v)})
           mails == (IF warning THEN {"Health"} ELSE {}) \cup
                    (IF usage # 0 THEN {"Usage"} ELSE {}) \cup
                    (IF IsCritical(lim, c) THEN {"Temperature"} ELSE {})
           bad == [type \in mails |-> IF type = "Usage" THEN usage ELSE 1]
           good == IF IsNormal(lim, c) THEN {"Temperature"} ELSE {}
       IN  /\ st' = [st EXCEPT
                        !.maillog = Mail(bad, good),
                        !.temp = IF Monitors(lim) THEN CheckTemperature(lim, @, c, now) ELSE @,
                        !.must_write = \/ @
                                       \/ MustWrite(warning)
                                       \/ WasReset(good)
                                       \/ /\ Monitors(lim)
                                          /\ SavesTemperature(lim, st.temp, c, now)]
           /\ chk' = [chk EXCEPT
                        !.c = IF Monitors(lim) /\ IsReading(c) THEN c ELSE 0,
                        !.val = disk.val, !.entries = disk.entries,
                        !.logged = Logged]
           /\ h' = IF ~Monitors(lim) \/ ~IsReading(c) THEN h
                   ELSE [h EXCEPT !.first = IF @ = -1 THEN now ELSE @,
                                  !.warm = @ \/ IsWarm(c)]
    /\ pc' = "selftest"
    /\ UNCHANGED << cfg, mon, lim, always, file, disk, now, bounds >>

\* next_scheduled_test() asks for a test, or not.
Due == IF "tests" \in mon THEN BOOLEAN ELSE {FALSE}
ReadsSelfTestLog(due) == due \/ {"selftest", "selfteststs"} \cap mon # {}

SelfTestLogNotRead ==
    /\ pc = "selftest"
    /\ \E due \in Due : ~ReadsSelfTestLog(due)
    /\ st' = [st EXCEPT !.selftest_started = FALSE]
    /\ pc' = "errors"
    /\ UNCHANGED << cfg, mon, lim, always, chk, file, disk, now, bounds, h >>

ReadSelfTestLogFails ==
    /\ pc = "selftest"
    /\ IF disk.gone THEN UNCHANGED fails ELSE Fails
    /\ \E due \in Due :
        /\ ReadsSelfTestLog(due)
        /\ st' = [st EXCEPT !.maillog = Mail(Once({"FailedReadSmartSelfTestLog"}), {}),
                            !.must_write = @ \/ due,
                            !.selftest_started = FALSE]
    /\ h' = [h EXCEPT !.blind = TRUE]
    /\ pc' = "errors"
    /\ UNCHANGED << cfg, mon, lim, always, chk, file, disk, now, events, starts >>

\* check_nvme_self_test_log(): the errors since the last successful extended test.
Failed ==
    LET ok == {i \in DOMAIN disk.tests : disk.tests[i].kind = "long_ok"}
    IN  {i \in DOMAIN disk.tests : disk.tests[i].kind = "error" /\ \A j \in ok : i < j}
Hour(errors) == IF errors = {} THEN 0
                ELSE disk.tests[CHOOSE i \in errors : \A j \in errors : i <= j].hour

\* More failed tests than before, or another newest one.
Reports == \/ Cardinality(Failed) > st.selflogcount
           \/ Failed # {} /\ Hour(Failed) # st.selfloghour
NoErrors == Failed = {} /\ st.selflogcount > 0

\* The status is logged if it has changed, and after each test smartd has started.
LogsStatus == (disk.running # "no") # st.selftest_op \/ st.selftest_started

ReadSelfTestLog ==
    /\ pc = "selftest"
    /\ ~disk.gone
    /\ \E due \in Due :
        /\ ReadsSelfTestLog(due)
        /\ LET counts == "selftest" \in mon
               good == {"FailedReadSmartSelfTestLog"} \cup
                       (IF counts /\ NoErrors THEN {"SelfTest"} ELSE {})
               bad == IF counts /\ Reports THEN Once({"SelfTest"}) ELSE << >>
           IN  /\ st' = [st EXCEPT
                    !.maillog = Mail(bad, good),
                    !.must_write = @ \/ due \/ bad # << >> \/ WasReset(good),
                    !.selftest_op = IF "selfteststs" \in mon /\ LogsStatus
                                    THEN disk.running # "no" ELSE @,
                    !.selflogcount = IF counts THEN Cardinality(Failed) ELSE @,
                    !.selfloghour = IF counts THEN Hour(Failed) ELSE @,
                    !.selftest_started = FALSE]
               /\ h' = [h EXCEPT !.silent = @ /\ ~("selfteststs" \in mon /\ LogsStatus
                                                   /\ disk.running = "no")]
               /\ chk' = [chk EXCEPT
                    !.testtype = due, !.running = disk.running # "no",
                    !.unsaid = h'.silent /\ disk.running = "no",
                    !.hour = IF counts THEN Hour(Failed) ELSE 0,
                    !.hours = IF bad # << >> THEN {Hour(Failed)} ELSE {}]
    /\ pc' = "errors"
    /\ UNCHANGED << cfg, mon, lim, always, file, disk, now, bounds >>

\* check_nvme_error_log(): the new entries that are still in the log.
NewErrors == {e \in ToSet(Newest(disk.errors, LogSize)) : e.n > st.errcount}
NewCount == LET higher == {e.n : e \in NewErrors} \cup {chk.entries}
            IN  CHOOSE n \in higher : \A m \in higher : m <= n
HasNewErrors == "errorlog" \in mon /\ chk.entries > st.errcount

NoNewErrors ==
    /\ pc = "errors"
    /\ ~HasNewErrors
    /\ pc' = "start"
    /\ UNCHANGED << cfg, mon, lim, always, st, chk, file, disk, now, bounds, h >>

\* The count stays as it is: the next check tries again.
ReadErrorLogFails_Counted ==
    /\ pc = "errors"
    /\ HasNewErrors
    /\ IF disk.gone THEN UNCHANGED fails ELSE Fails
    /\ st' = [st EXCEPT !.errcount = chk.entries]
    /\ pc' = "start"
    /\ UNCHANGED << cfg, mon, lim, always, chk, file, disk, now, events, starts, h >>
ReadErrorLogFails ==
    /\ pc = "errors"
    /\ HasNewErrors
    /\ IF disk.gone THEN UNCHANGED fails ELSE Fails
    /\ pc' = "start"
    /\ UNCHANGED << cfg, mon, lim, always, st, chk, file, disk, now, events, starts, h >>

\* Errors that were added since the SMART/Health log was read count as well.
ReadErrorLog ==
    /\ pc = "errors"
    /\ HasNewErrors
    /\ ~disk.gone
    /\ LET errors == {e.n : e \in {f \in NewErrors : f.kind = "device"}}
           new == {e.n : e \in NewErrors}
       IN  /\ st' = [st EXCEPT
                !.maillog = Mail(IF errors # {} THEN Once({"ErrorCount"}) ELSE << >>, {}),
                !.errcount = NewCount,
                !.must_write = TRUE]
           /\ chk' = [chk EXCEPT
                !.new = errors,
                !.dropped = (st.errcount + 1 .. NewCount) \ new]
    /\ pc' = "start"
    /\ UNCHANGED << cfg, mon, lim, always, file, disk, now, bounds, h >>

\* The values of the SMART/Health log are kept for the next comparison.
Ends == [st EXCEPT !.val = chk.val]

\* Not if one was running when the log was read, and not if the disk refuses.
NoSelfTest ==
    /\ pc = "start"
    /\ IF ~chk.testtype \/ chk.running \/ disk.gone \/ disk.running # "no"
       THEN UNCHANGED fails ELSE Fails
    /\ st' = Ends
    /\ chk' = [chk EXCEPT !.complete = TRUE]
    /\ pc' = "write"
    /\ UNCHANGED << cfg, mon, lim, always, file, disk, now, events, starts, h >>

StartSelfTest ==
    /\ pc = "start"
    /\ chk.testtype /\ ~chk.running /\ ~disk.gone /\ disk.running = "no"
    /\ st' = [Ends EXCEPT !.selftest_started = TRUE]
    /\ disk' = [disk EXCEPT !.running = "smartd"]
    /\ h' = [h EXCEPT !.silent = FALSE, !.blind = FALSE]
    /\ chk' = [chk EXCEPT !.complete = TRUE, !.unsaid = FALSE]
    /\ pc' = "write"
    /\ UNCHANGED << cfg, mon, lim, always, file, now, bounds >>

Next ==
    \/ DiskChanges
    \/ NVMeDeviceScan \/ OpenFails \/ OpenDevice \/ ReadSmartLogFails \/ CheckSmartLog
    \/ SelfTestLogNotRead \/ ReadSelfTestLogFails \/ ReadSelfTestLog
    \/ NoNewErrors \/ ReadErrorLogFails \/ ReadErrorLog \/ NoSelfTest \/ StartSelfTest
    \/ WriteState \/ Wakeup \/ Stop \/ Crash

Spec == Init /\ [][Next]_vars

-----------------------------------------------------------------------------
(***************************************************************************)
(* Properties.                                                             *)
(***************************************************************************)
Monitored == (IF "prefail" \in mon THEN {"spare"} ELSE {}) \cup
             (IF "usage" \in mon THEN {"used", "media"} ELSE {})

\* A monitored value is compared with the one the log has told last, in spite of
\* crashes and restarts: no change is told twice, or from a value never told
\* (log_nvme_smart_change(), must_write and the values in the state file).
ChangesToldOnce == pc = "open" => \A v \in Monitored : st.val[v] = h.told[v]

\* After a complete check the user knows the monitored values the disk had.
ChangesTold == pc = "wait" /\ chk.complete => \A v \in Monitored : h.told[v] = chk.val[v]

\* Wear is told, and only once: the log is a complete history of the monitored values.
WearTold == ChangesTold /\ ChangesToldOnce

\* check_nvme_error_log() counts no device error in two checks, also if errors
\* are added while a check runs, and after a crash.
ErrorReportedOnce == ~h.twice

\* An error that the count of the state includes was found as a device error,
\* or was a failed command, or had already been lost from the log.
NoErrorMissed ==
    pc = "wait" =>
        \A i \in DOMAIN disk.errors :
            LET e == disk.errors[i]
            IN  h.base < e.n /\ e.n <= st.errcount /\ e.kind = "device"
                    => e.n \in h.reported \cup h.dropped

\* The mails whose cause also sets must_write are remembered by the state file
\* as soon as the cycle is over: a crash does not repeat them.
ImportantTypes == {"Health", "Usage", "SelfTest", "ErrorCount", "FailedReadSmartData"}
ImportantMailsSaved ==
    pc = "wait" /\ cfg.state_file =>
        \A type \in ImportantTypes : file.maillog[type] = st.maillog[type]

\* The newest failed self-test a check has read has been reported by its hour.
NoSelfTestErrorMissed == pc = "wait" => chk.hour \in h.hours

\* -l selfteststs: the result of a test that smartd has started is logged by the
\* next check that reads the self-test log, however short the test was, unless
\* reading the log has failed or smartd was started again in between.
ResultLogged == "selfteststs" \in mon /\ chk.unsaid => h.blind

\* Nothing the two logs of the disk tell is missed, told twice or mailed again after a
\* crash: the parts above.
ErrorsTold ==
    NoErrorMissed /\ ErrorReportedOnce /\ NoSelfTestErrorMissed /\ ResultLogged
    /\ ImportantMailsSaved

\* The highest temperature of all checks is in the state, and survives crashes
\* with a state file.
MaxKept == pc = "wait" => st.temp.tempmax = h.hi

\* Every temperature read after the delay counts for the minimum, in spite of
\* crashes (tempmin_delay, must_write).
MinKept == pc = "wait" => \/ h.late = Unset
                          \/ st.temp.tempmin # 0 /\ st.temp.tempmin <= h.late

\* A cold disk after a start does not set the minimum: it is lowered only after
\* the delay, or when a temperature of this run was not below the recorded one.
ColdStartIgnored ==
    [][pc = "smart" /\ pc' # "down" /\ st'.temp.tempmin # st.temp.tempmin
        => h.first # -1 /\ (now >= h.first + MinDelay \/ h.warm)]_vars

\* The recorded extremes are those of the checks that count, over restarts and crashes.
ExtremesKept == [](MaxKept /\ MinKept) /\ ColdStartIgnored

\* Five degrees below a critical limit of 1 to 4 is not a temperature: it wraps around
\* (unsigned char limit), and any reading below the critical limit is normal.
LimitWraps == cfg.lim.info = 0 /\ cfg.lim.crit \in 1 .. 4

\* The counter of the temperature warning tells whether the disk has been at the
\* critical limit since it was last below the lower one, so that each overheating
\* is mailed once, and mailed again after the disk has cooled down; for all limits
\* but those that wrap around.
OverheatMailed ==
    pc = "wait" /\ ~LimitWraps =>
        /\ st.maillog["Temperature"].logged > 0 => h.hot
        /\ h.hot => st.maillog["Temperature"].logged > 0 \/ h.crashed
=============================================================================
