------------------------------ MODULE AtaCheck ------------------------------
(***************************************************************************)
(* What smartd finds out about one ATA disk, when it leaves the disk       *)
(* alone, and what it reports: ATADeviceScan(), open_device(),             *)
(* ATACheckDevice() and the functions it calls (src/smartd.cpp), from one  *)
(* check to the next, through restarts with a state file and crashes.      *)
(*                                                                         *)
(* A check is a sequence of ATA commands.  Between two of them the disk    *)
(* may change, and each of them may fail: every stage of the check is a    *)
(* step of its own, `pc' names the next one.  One step of the model may    *)
(* write several fields of the state, as one stage of the code does.       *)
(***************************************************************************)
EXTENDS MailWarning, Sequences, FiniteSets

CONSTANTS
    Configs,        \* the settings smartd may have for the disk
    MaxPending,     \* bound: pending sectors
    MaxErrors,      \* bound: errors in the error logs, failed self-tests
    LogSize,        \* entries of the self-test log (21)
    Changes,        \* bound: what may change about a disk with these settings
    MaxEvents,      \* bound: changes of the disk
    MaxFails,       \* bound: failing commands
    MaxTime,        \* bound: the last cycle (time counts cycles)
    MaxStarts       \* bound: starts of smartd

PendingTypes == {"CurrentPendingSector", "OfflineUncorrectableSector"}
Types == {"EmailTest", "Health", "SelfTest", "ErrorCount", "FailedHealthCheck",
          "FailedReadSmartData", "FailedReadSmartErrorLog", "FailedReadSmartSelfTestLog",
          "FailedOpenDevice"} \cup PendingTypes

\* -H, -l error, -l xerror, -l selftest, and all that needs the attributes
Features == {"smartcheck", "errorlog", "xerrorlog", "selftest", "attributes"}

PowerModes == {"active", "idle", "standby", "sleep", "unknown"}

ConfigType == [mail: BOOLEAN, freq: Freqs, emailtest: BOOLEAN, removable: BOOLEAN,
               powermode: 0 .. 3,      \* -n never, sleep, standby, idle
               powerskipmax: Nat,
               features: SUBSET Features,
               pending: [PendingTypes -> {"off", "each", "increase"}],
               state_file: BOOLEAN]

ASSUME ConfigsAssumption == Configs \subseteq ConfigType
ASSUME BoundsAssumption ==
    /\ MaxPending \in Nat /\ MaxErrors \in Nat /\ LogSize \in Nat \ {0}
    /\ MaxEvents \in Nat /\ MaxFails \in Nat /\ MaxTime \in Nat /\ MaxStarts \in Nat

VARIABLES
    cfg, pc,
    mon,                \* the features left by the capability checks of the scan
    powermode,          \* cfg.powermode, 0 if the scan has turned it off
    always,             \* write_states_always of this cycle
    \* dev_state
    maillog, smartval, ataerrorcount, selflogcount, selfloghour, must_write,
    ata_attributes,     \* the persistent copy of smartval
    powerskipcnt, powermodefail, removed,
    \* outside the process
    file,               \* the state file
    disk, now,
    \* bounds
    events, fails, starts,
    \* history
    det, detSaved,      \* problems the last check (the last saved check) has found
    mailed,             \* types of the mails of this cycle
    skipped,            \* checks skipped since the last check that was done
    base, reported,     \* the first error count, errors that have been reported
    twice, excuse,      \* an error was reported twice; and there is a reason
    known,              \* hours of self-test errors that are reported or old
    seen                \* what the last complete check has read

stateVars == << maillog, smartval, ataerrorcount, selflogcount, selfloghour, must_write,
                ata_attributes >>
powerVars == << powerskipcnt, powermodefail, removed >>
ghostVars == << det, detSaved, mailed, skipped, base, reported, twice, excuse, known, seen >>
boundVars == << events, starts >>
vars == << cfg, pc, mon, powermode, always, stateVars, powerVars, file, disk, now, fails,
           boundVars, ghostVars >>

-----------------------------------------------------------------------------
(***************************************************************************)
(* The disk.                                                               *)
(***************************************************************************)
Absent == -1                \* no attribute with this ID is known
NoAttributes == [t \in PendingTypes |-> Absent]
NewDisk == [power |-> "active", stopped |-> FALSE, gone |-> FALSE, failing |-> FALSE,
            pending |-> [t \in PendingTypes |-> 0], errors |-> 0, xerrors |-> 0,
            selftests |-> << >>]    \* hours of the failed self-tests, newest first

Newest(log) == IF log = << >> THEN 0 ELSE Head(log)

NewSelfTestError(h) ==
    LET n == IF Len(disk.selftests) < LogSize THEN Len(disk.selftests) ELSE LogSize - 1
    IN  << h >> \o SubSeq(disk.selftests, 1, n)

Monitored == {t \in PendingTypes : cfg.pending[t] # "off"}

\* The disk changes between two commands.  Error counts never decrease; a
\* successful extended self-test hides the failed ones.
DiskChanges ==
    /\ events < MaxEvents
    /\ events' = events + 1
    /\ \/ /\ "power" \in Changes[cfg]
          /\ \/ \E p \in PowerModes \ {disk.power} : disk' = [disk EXCEPT !.power = p]
             \/ disk' = [disk EXCEPT !.stopped = ~disk.stopped]
       \/ /\ "gone" \in Changes[cfg]
          /\ disk' = [disk EXCEPT !.gone = ~disk.gone]
       \/ /\ "failing" \in Changes[cfg]
          /\ disk' = [disk EXCEPT !.failing = ~disk.failing]
       \/ /\ "pending" \in Changes[cfg]
          /\ \E t \in Monitored, n \in 0 .. MaxPending :
                 disk' = [disk EXCEPT !.pending[t] = n]
       \/ /\ "errors" \in Changes[cfg]
          /\ disk.xerrors < MaxErrors
          /\ \E n \in {disk.errors, disk.xerrors + 1} :
                 disk' = [disk EXCEPT !.errors = n, !.xerrors = disk.xerrors + 1]
       \/ /\ "selftests" \in Changes[cfg]
          /\ \E log \in {NewSelfTestError(events + 1), << >>} :
                 disk' = [disk EXCEPT !.selftests = log]
    /\ UNCHANGED << cfg, pc, mon, powermode, always, stateVars, powerVars, file, now, fails,
                    starts, ghostVars >>

\* An ATA command may fail.
Fails == fails < MaxFails /\ fails' = fails + 1
Works == UNCHANGED fails

-----------------------------------------------------------------------------
(***************************************************************************)
(* Registration and the state file.                                        *)
(***************************************************************************)
NoFile == [exists |-> FALSE]
Persistent_NoErrorCount ==
    [exists |-> TRUE,
     maillog |-> [t \in Types |-> IF t = "EmailTest" THEN NoMail ELSE maillog[t]],
     ata_attributes |-> ata_attributes, ataerrorcount |-> 0,
     selflogcount |-> selflogcount, selfloghour |-> selfloghour]
Persistent ==
    [exists |-> TRUE,
     maillog |-> [t \in Types |-> IF t = "EmailTest" THEN NoMail ELSE maillog[t]],
     ata_attributes |-> ata_attributes, ataerrorcount |-> ataerrorcount,
     selflogcount |-> selflogcount, selfloghour |-> selfloghour]

Init ==
    /\ cfg \in Configs
    /\ pc = "down" /\ mon = {} /\ powermode = 0 /\ always = TRUE
    /\ maillog = [t \in Types |-> NoMail]
    /\ smartval = NoAttributes /\ ata_attributes = NoAttributes
    /\ ataerrorcount = 0 /\ selflogcount = 0 /\ selfloghour = 0 /\ must_write = FALSE
    /\ powerskipcnt = 0 /\ powermodefail = FALSE /\ removed = FALSE
    /\ file = NoFile
    /\ disk = NewDisk /\ now = 0
    /\ events = 0 /\ fails = 0 /\ starts = 0
    /\ det = [t \in Types |-> FALSE] /\ detSaved = [t \in Types |-> FALSE]
    /\ mailed = {} /\ skipped = 0 /\ base = 0 /\ reported = {} /\ twice = FALSE
    /\ excuse = FALSE /\ known = {0}
    /\ seen = [errors |-> 0, hour |-> 0]

Max2(a, b) == IF a >= b THEN a ELSE b

ErrorLogs == {"errorlog", "xerrorlog"}

\* The error count: the maximum of the logs that can be read, -1 if none.
ErrorCount(logs) ==
    IF logs = ErrorLogs THEN Max2(disk.errors, disk.xerrors)
    ELSE IF "errorlog" \in logs THEN disk.errors
    ELSE IF "xerrorlog" \in logs THEN disk.xerrors
    ELSE -1

\* A feature whose first command fails is turned off until the next scan.
\* All of them may turn out to be missing, but with none the disk is not
\* monitored at all.
Scanned == {on \in SUBSET cfg.features : on # {}}
Unsupported(on) == Cardinality(cfg.features \ on)

StateFromDisk(on) ==
    /\ maillog' = [t \in Types |-> NoMail]
    /\ smartval' = IF "attributes" \in on THEN disk.pending ELSE NoAttributes
    /\ ata_attributes' = NoAttributes
    /\ ataerrorcount' = Max2(0, ErrorCount(on \cap ErrorLogs))
    /\ selflogcount' = IF "selftest" \in on THEN Len(disk.selftests) ELSE 0
    /\ selfloghour' = IF "selftest" \in on THEN Newest(disk.selftests) ELSE 0

StateFromFile ==
    /\ maillog' = file.maillog
    /\ smartval' = file.ata_attributes
    /\ ata_attributes' = file.ata_attributes
    /\ ataerrorcount' = file.ataerrorcount
    /\ selflogcount' = file.selflogcount
    /\ selfloghour' = file.selfloghour

ATADeviceScan ==
    /\ pc = "down"
    /\ starts < MaxStarts
    /\ starts' = starts + 1
    /\ ~disk.gone
    /\ \E on \in Scanned :
        /\ fails + Unsupported(on) <= MaxFails
        /\ fails' = fails + Unsupported(on)
        /\ mon' = on
        /\ IF file.exists THEN StateFromFile ELSE StateFromDisk(on)
    /\ powermode' = IF disk.power \in {"sleep", "unknown"} THEN 0 ELSE cfg.powermode
    /\ powerskipcnt' = 0 /\ powermodefail' = FALSE /\ removed' = FALSE
    /\ must_write' = FALSE /\ always' = TRUE
    /\ pc' = "open"
    /\ mailed' = {} /\ skipped' = 0
    /\ det' = IF file.exists THEN detSaved
              ELSE [t \in Types |-> t \in PendingTypes /\ cfg.pending[t] = "increase"
                                    /\ disk.pending[t] # 0]
    /\ base' = IF file.exists THEN base ELSE ataerrorcount'
    /\ reported' = IF file.exists THEN reported ELSE {}
    /\ known' = known \cup {selfloghour'}
    /\ seen' = [errors |-> base', hour |-> selfloghour']
    /\ excuse' = (excuse \/ ErrorLogs \cap (cfg.features \ mon') # {})
    /\ UNCHANGED << cfg, file, disk, now, events, detSaved, twice >>

\* write_all_dev_states() at the end of the cycle.
Saves_Always == cfg.state_file /\ always
Saves == cfg.state_file /\ (always \/ must_write)

WriteState ==
    /\ pc = "write"
    /\ file' = IF Saves THEN Persistent ELSE file
    /\ detSaved' = IF Saves THEN det ELSE detSaved
    /\ must_write' = (must_write /\ ~Saves)
    /\ pc' = "wait"
    /\ UNCHANGED << cfg, mon, powermode, always, maillog, smartval, ataerrorcount,
                    selflogcount, selfloghour, ata_attributes, powerVars, disk, now, fails,
                    boundVars, det, mailed, skipped, base, reported, twice, excuse, known,
                    seen >>

\* The next cycle, with all states written afterwards if USR1 has asked for it.
Wakeup ==
    /\ pc = "wait"
    /\ now < MaxTime
    /\ now' = now + 1
    /\ always' \in BOOLEAN
    /\ mailed' = {}
    /\ pc' = "open"
    /\ UNCHANGED << cfg, mon, powermode, stateVars, powerVars, file, disk, fails, boundVars,
                    det, detSaved, skipped, base, reported, twice, excuse, known, seen >>

\* smartd is stopped with TERM.
Stop ==
    /\ pc = "wait"
    /\ file' = IF cfg.state_file THEN Persistent ELSE file
    /\ detSaved' = det
    /\ pc' = "down"
    /\ UNCHANGED << cfg, mon, powermode, always, stateVars, powerVars, disk, now, fails,
                    boundVars, det, mailed, skipped, base, reported, twice, excuse, known,
                    seen >>

Crash ==
    /\ pc # "down"
    /\ starts < MaxStarts
    /\ pc' = "down"
    /\ excuse' = TRUE
    /\ UNCHANGED << cfg, mon, powermode, always, stateVars, powerVars, file, disk, now, fails,
                    boundVars, det, detSaved, mailed, skipped, base, reported, twice, known,
                    seen >>

-----------------------------------------------------------------------------
(***************************************************************************)
(* Mail.                                                                   *)
(***************************************************************************)
Warns(t) == cfg.mail /\ IsDue(maillog[t], cfg.freq, t, now)
Warned(t) == IF Warns(t) THEN Sent(maillog[t], now) ELSE maillog[t]

\* MailWarning() for the types in `bad', reset_warning_mail() for those in `good'.
Mail_NoReset(bad, good) ==
    /\ maillog' = [t \in Types |-> IF t \in bad THEN Warned(t) ELSE maillog[t]]
    /\ mailed' = mailed \cup {t \in bad : Warns(t)}
Mail(bad, good) ==
    /\ maillog' = [t \in Types |-> IF t \in bad THEN Warned(t)
                                   ELSE IF t \in good /\ maillog[t].logged # 0 THEN NoMail
                                   ELSE maillog[t]]
    /\ mailed' = mailed \cup {t \in bad : Warns(t)}
WasReset(good) == \E t \in good : maillog[t].logged # 0

Detects(bad, good) ==
    det' = [t \in Types |-> t \in bad \/ (det[t] /\ t \notin good)]

-----------------------------------------------------------------------------
(***************************************************************************)
(* open_device()                                                           *)
(***************************************************************************)
\* Checks are skipped while the disk is powered down, but not forever.
MaySkip_OffByOne == cfg.powerskipmax = 0 \/ powerskipcnt <= cfg.powerskipmax
MaySkip == cfg.powerskipmax = 0 \/ powerskipcnt < cfg.powerskipmax

Test == IF cfg.emailtest THEN {"EmailTest"} ELSE {}

AsksPower == powermode # 0 /\ ~powermodefail

SkipPoweredDown ==
    /\ pc = "open"
    /\ AsksPower /\ ~removed /\ disk.stopped /\ MaySkip
    /\ Mail(Test, {})
    /\ powerskipcnt' = powerskipcnt + 1
    /\ skipped' = skipped + 1
    /\ pc' = "write"
    /\ UNCHANGED << cfg, mon, powermode, always, smartval, ataerrorcount, selflogcount,
                    selfloghour, must_write, ata_attributes, powermodefail, removed, file,
                    disk, now, fails, boundVars, det, detSaved, base, reported, twice, excuse,
                    known, seen >>

Opens == pc = "open" /\ ~(AsksPower /\ ~removed /\ disk.stopped /\ MaySkip)

\* A removable disk that is gone is no problem.
OpenFails ==
    /\ Opens
    /\ IF disk.gone THEN Works ELSE Fails
    /\ Mail(Test \cup (IF cfg.removable THEN {} ELSE {"FailedOpenDevice"}), {})
    /\ Detects(IF cfg.removable THEN {} ELSE {"FailedOpenDevice"}, {})
    /\ removed' = (removed \/ cfg.removable)
    /\ pc' = "write"
    /\ UNCHANGED << cfg, mon, powermode, always, smartval, ataerrorcount, selflogcount,
                    selfloghour, must_write, ata_attributes, powerskipcnt, powermodefail,
                    file, disk, now, boundVars, detSaved, skipped, base, reported, twice,
                    excuse, known, seen >>

OpenDevice ==
    /\ Opens
    /\ ~disk.gone /\ Works
    /\ LET good == IF cfg.removable THEN {} ELSE {"FailedOpenDevice"}
       IN  /\ Mail(Test, good)
           /\ Detects({}, good)
           /\ must_write' = (must_write \/ WasReset(good))
    /\ removed' = FALSE
    /\ pc' = "power"
    /\ UNCHANGED << cfg, mon, powermode, always, smartval, ataerrorcount, selflogcount,
                    selfloghour, ata_attributes, powerskipcnt, powermodefail, file, disk, now,
                    boundVars, detSaved, skipped, base, reported, twice, excuse, known, seen >>

-----------------------------------------------------------------------------
(***************************************************************************)
(* ATACheckDevice(), stage by stage.                                       *)
(***************************************************************************)
\* -n: the modes that suspend a check.
Suspends(mode) == \/ mode = "sleep" /\ powermode >= 1
                  \/ mode = "standby" /\ powermode >= 2
                  \/ mode = "idle" /\ powermode >= 3

\* CHECK POWER MODE is repeated after five seconds unless the disk is active
\* or asleep: it may have woken up the disk.  A command that fails looks
\* like a disk that sleeps.
ModesRead == {disk.power} \cup (IF disk.power \in {"standby", "idle"} THEN {"active"} ELSE {})

NoPowerCheck ==
    /\ pc = "power"
    /\ ~AsksPower
    /\ pc' = "health"
    /\ skipped' = 0
    /\ UNCHANGED << cfg, mon, powermode, always, stateVars, powerVars, file, disk, now, fails,
                    boundVars, det, detSaved, mailed, base, reported, twice, excuse, known,
                    seen >>

CheckPowerMode ==
    /\ pc = "power"
    /\ AsksPower
    /\ \E mode \in ModesRead \cup {"sleep"} :
        /\ IF mode \in ModesRead THEN Works ELSE Fails
        /\ IF Suspends(mode) /\ MaySkip
           THEN /\ powerskipcnt' = powerskipcnt + 1
                /\ skipped' = skipped + 1
                /\ pc' = "write"
           ELSE /\ powerskipcnt' = 0
                /\ skipped' = 0
                /\ pc' = "health"
        /\ powermodefail' = (mode = "unknown")
        /\ disk' = [disk EXCEPT !.power = IF mode = "active" THEN mode ELSE disk.power,
                                !.stopped = disk.stopped /\ Suspends(mode) /\ MaySkip]
    /\ UNCHANGED << cfg, mon, powermode, always, stateVars, removed, file, now, boundVars,
                    det, detSaved, mailed, base, reported, twice, excuse, known, seen >>

\* SMART status
CheckHealth ==
    /\ pc = "health"
    /\ IF "smartcheck" \in mon
       THEN \E bad \in {{"FailedHealthCheck"}, IF disk.failing THEN {"Health"} ELSE {}} :
                /\ IF bad = {"FailedHealthCheck"} THEN Fails ELSE Works
                /\ Mail(bad, {})
                /\ Detects(bad, {"Health", "FailedHealthCheck"})
                /\ must_write' = (must_write \/ bad # {})
       ELSE Works /\ UNCHANGED << maillog, mailed, det, must_write >>
    /\ pc' = "data"
    /\ UNCHANGED << cfg, mon, powermode, always, smartval, ataerrorcount, selflogcount,
                    selfloghour, ata_attributes, powerVars, file, disk, now, boundVars,
                    detSaved, skipped, base, reported, twice, excuse, known, seen >>

\* check_pending(): the types that are monitored, and whose attribute was
\* known before.
Compared == {t \in Monitored : "attributes" \in mon /\ smartval[t] # Absent}
Pending == {t \in Compared : disk.pending[t] # 0}

\* The warnings of check_pending().
PendingWarnings ==
    {t \in Pending : cfg.pending[t] = "increase" => smartval[t] < disk.pending[t]}

\* The self-test log is only read together with the attributes.
ReadsData == mon \cap {"attributes", "selftest"} # {}

\* With -C ID+ a count that is read without a comparison is not reported.
Baseline == {t \in PendingTypes \ Compared : cfg.pending[t] = "increase"
                                              /\ disk.pending[t] # 0}

ReadSmartData ==
    /\ pc = "data"
    /\ ReadsData
    /\ Works
    /\ LET good == {"FailedReadSmartData"} \cup (Compared \ Pending)
       IN  /\ Mail(PendingWarnings, good)
           /\ Detects(Pending \cup Baseline, good)
           /\ must_write' = (must_write \/ PendingWarnings # {} \/ WasReset(good))
    /\ smartval' = disk.pending
    /\ ata_attributes' = disk.pending
    /\ pc' = "selftest"
    /\ UNCHANGED << cfg, mon, powermode, always, ataerrorcount, selflogcount, selfloghour,
                    powerVars, file, disk, now, boundVars, detSaved, skipped, base, reported,
                    twice, excuse, known, seen >>

ReadSmartDataFails ==
    /\ pc = "data"
    /\ ReadsData
    /\ Fails
    /\ Mail({"FailedReadSmartData"}, {})
    /\ Detects({"FailedReadSmartData"}, {})
    /\ must_write' = TRUE
    /\ pc' = "selftest"
    /\ UNCHANGED << cfg, mon, powermode, always, smartval, ata_attributes, ataerrorcount,
                    selflogcount, selfloghour, powerVars, file, disk, now, boundVars,
                    detSaved, skipped, base, reported, twice, excuse, known, seen >>

NoSmartData ==
    /\ pc = "data"
    /\ ~ReadsData
    /\ pc' = "selftest"
    /\ UNCHANGED << cfg, mon, powermode, always, stateVars, powerVars, file, disk, now, fails,
                    boundVars, ghostVars >>

\* report_self_test_log_changes(): more errors, or a more recent one.
SelfTestError_CountOnly(errcnt, hour) == selflogcount < errcnt
SelfTestError(errcnt, hour) ==
    selflogcount < errcnt \/ (errcnt > 0 /\ selfloghour # hour)

CheckSelfTestLog ==
    /\ pc = "selftest"
    /\ "selftest" \in mon
    /\ Works
    /\ LET errcnt == Len(disk.selftests)
           hour == Newest(disk.selftests)
           new == SelfTestError(errcnt, hour)
           bad == IF new THEN {"SelfTest"} ELSE {}
           good == {"FailedReadSmartSelfTestLog"}
                   \cup (IF selflogcount > 0 /\ errcnt = 0 THEN {"SelfTest"} ELSE {})
       IN  /\ Mail(bad, good)
           /\ Detects(bad, good)
           /\ must_write' = (must_write \/ new \/ WasReset(good))
           /\ selflogcount' = errcnt
           /\ selfloghour' = hour
           /\ known' = IF new THEN known \cup {hour} ELSE known
           /\ seen' = [seen EXCEPT !.hour = hour]
    /\ pc' = "errors"
    /\ UNCHANGED << cfg, mon, powermode, always, smartval, ata_attributes, ataerrorcount,
                    powerVars, file, disk, now, boundVars, detSaved, skipped, base, reported,
                    twice, excuse >>

SelfTestLogFails ==
    /\ pc = "selftest"
    /\ "selftest" \in mon
    /\ Fails
    /\ Mail({"FailedReadSmartSelfTestLog"}, {})
    /\ Detects({"FailedReadSmartSelfTestLog"}, {})
    /\ pc' = "errors"
    /\ UNCHANGED << cfg, mon, powermode, always, smartval, ata_attributes, ataerrorcount,
                    selflogcount, selfloghour, must_write, powerVars, file, disk, now,
                    boundVars, detSaved, skipped, base, reported, twice, excuse, known, seen >>

NoSelfTestLog ==
    /\ pc = "selftest"
    /\ "selftest" \notin mon
    /\ pc' = "errors"
    /\ UNCHANGED << cfg, mon, powermode, always, stateVars, powerVars, file, disk, now, fails,
                    boundVars, ghostVars >>

\* The count is kept if no error log could be read.
NewErrorCount(newc) == IF newc >= 0 THEN newc ELSE ataerrorcount

CheckErrorLogs ==
    /\ pc = "errors"
    /\ \E logs \in SUBSET (mon \cap ErrorLogs) :
        LET failed == (mon \cap ErrorLogs) \ logs
            newc == ErrorCount(logs)
            increased == newc > ataerrorcount
            unread == failed # {} /\ newc < 0
            bad == (IF unread THEN {"FailedReadSmartErrorLog"} ELSE {})
                   \cup (IF increased THEN {"ErrorCount"} ELSE {})
            news == IF increased THEN (ataerrorcount + 1) .. newc ELSE {}
        IN  /\ fails + Cardinality(failed) <= MaxFails
            /\ fails' = fails + Cardinality(failed)
            /\ Mail(bad, {})
            /\ Detects(bad, IF newc >= 0 THEN {"FailedReadSmartErrorLog"} ELSE {})
            /\ ataerrorcount' = NewErrorCount(newc)
            /\ must_write' = (must_write \/ increased)
            /\ twice' = (twice \/ news \cap reported # {})
            /\ reported' = reported \cup news
            /\ excuse' = (excuse \/ (failed # {} /\ newc >= 0))
            /\ seen' = IF newc >= 0 THEN [seen EXCEPT !.errors = newc] ELSE seen
    /\ pc' = "write"
    /\ UNCHANGED << cfg, mon, powermode, always, smartval, ata_attributes, selflogcount,
                    selfloghour, powerVars, file, disk, now, boundVars, detSaved, skipped,
                    base, known >>

Check == \/ SkipPoweredDown \/ OpenFails \/ OpenDevice \/ NoPowerCheck \/ CheckPowerMode
         \/ CheckHealth \/ ReadSmartData \/ ReadSmartDataFails \/ NoSmartData
         \/ CheckSelfTestLog \/ SelfTestLogFails \/ NoSelfTestLog \/ CheckErrorLogs

Next == ATADeviceScan \/ Check \/ WriteState \/ Wakeup \/ Stop \/ Crash \/ DiskChanges

Spec == Init /\ [][Next]_vars

-----------------------------------------------------------------------------
(***************************************************************************)
(* Correctness.                                                            *)
(***************************************************************************)

\* -n MODE,N: at most N checks in a row are skipped, whichever of the two
\* ways of finding the disk powered down skips them and however often the
\* device cannot be opened in between.
SkipsBounded == cfg.powerskipmax # 0 => skipped <= cfg.powerskipmax

\* Every error beyond those that were there when smartd first saw the disk
\* is reported, even if smartd crashes between the report and the next
\* state file (with a state file).
NoErrorMissed ==
    pc = "wait" /\ cfg.state_file => (base + 1) .. seen.errors \subseteq reported

\* ... and only once, unless there was a crash, or one of the error logs could
\* not be read.
ErrorReportedOnce == cfg.state_file /\ ~excuse => ~twice

\* The most recent self-test error is known or reported.
NoSelfTestErrorMissed == pc = "wait" => seen.hour \in known

\* Nothing the two error logs tell is missed or told twice: the three parts above.
ErrorsTold == NoErrorMissed /\ ErrorReportedOnce /\ NoSelfTestErrorMissed

\* "If a disk problem is no longer detected, the internal email counter is
\* reset.  If the problem reappears a new warning email is sent immediately"
\* (smartd.conf.5, -M), for the problems smartd resets.
Resettable == {"SelfTest", "FailedOpenDevice", "FailedReadSmartData",
               "FailedReadSmartSelfTestLog"} \cup PendingTypes
Reappears(t) == det'[t] /\ ~det[t] /\ (t \in PendingTypes => t \in Compared)
ReappearanceMailed ==
    [][ cfg.mail /\ pc # "down" => \A t \in Resettable : Reappears(t) => t \in mailed' ]_vars

\* The mails that smartd regards as important survive a crash between two
\* cycles.
Important == {"Health", "SelfTest", "ErrorCount", "FailedHealthCheck", "FailedReadSmartData"}
             \cup PendingTypes
ImportantMailsSaved ==
    pc = "wait" /\ cfg.state_file =>
        \A t \in Important : file.maillog[t] = maillog[t]

=============================================================================
