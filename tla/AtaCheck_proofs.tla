--------------------------- MODULE AtaCheck_proofs ---------------------------
(* What holds of the check of one ATA disk for every configuration, every    *)
(* history of the disk and every number of failing commands and restarts.    *)
EXTENDS AtaCheck, SequenceTheorems, TLAPS

-----------------------------------------------------------------------------
(* The reminder intervals of MailWarning, for every number of mails.         *)
\* A mail announces when the next one is to be expected (SMARTD_NEXTDAYS, for
\* the warning script).  The interval smartd then waits is the announced one,
\* although it computes it anew from the number of mails.
THEOREM AnnouncedIntervalIsApplied ==
    ASSUME NEW mail \in MailInfo, NEW freq \in Freqs, NEW type \in WarningTypes,
           NEW t \in Nat
    PROVE  Days(Sent(mail, t), freq, type) = NextDays(mail, freq, type)
<1>1. CASE type = "EmailTest" \/ freq # "diminishing"
  BY <1>1 DEF Days, NextDays, Freqs
<1>2. CASE type # "EmailTest" /\ freq = "diminishing"
  <2>1. mail.logged \in Nat /\ Sent(mail, t).logged = mail.logged + 1
    BY DEF MailInfo, Sent
  <2>2. NextDays(mail, freq, type) = Shifted(Capped(mail.logged))
    BY <1>2 DEF NextDays
  <2>3. Days(Sent(mail, t), freq, type) =
            IF mail.logged + 1 <= 5 THEN Shifted(mail.logged + 1) \div 2 ELSE Shifted(5)
    BY <1>2, <2>1 DEF Days
  <2>4. CASE mail.logged >= 5
    BY <2>1, <2>2, <2>3, <2>4 DEF Capped, Shifted
  <2>5. CASE mail.logged \in 0 .. 4
    <3>1. PICK n \in 0 .. 4 : n = mail.logged
      BY <2>5
    <3>2. Shifted(n + 1) \div 2 = Shifted(n)
      <4>1. n = 0 \/ n = 1 \/ n = 2 \/ n = 3 \/ n = 4
        BY <3>1
      <4>2. Shifted(n + 1) = 2 * Shifted(n) /\ Shifted(n) \in Nat
        BY <4>1 DEF Shifted
      <4> QED BY <4>2
    <3>3. n <= 5 /\ n + 1 <= 5
      BY <3>1
    <3> QED BY <2>2, <2>3, <3>1, <3>2, <3>3 DEF Capped
  <2> QED BY <2>1, <2>4, <2>5
<1> QED BY <1>1, <1>2

\* Reminders become rarer but never cease with -M diminishing: the intervals
\* grow from one day to 32.
THEOREM IntervalsGrow ==
    ASSUME NEW mail \in MailInfo, NEW type \in WarningTypes \ {"EmailTest"},
           NEW t \in Nat
    PROVE  LET next == NextDays(mail, "diminishing", type)
           IN  /\ 1 <= next /\ next <= 32
               /\ next <= NextDays(Sent(mail, t), "diminishing", type)
<1>1. mail.logged \in Nat /\ Sent(mail, t).logged = mail.logged + 1
  BY DEF MailInfo, Sent
<1>2. NextDays(mail, "diminishing", type) = Shifted(Capped(mail.logged))
  BY DEF NextDays
<1>3. NextDays(Sent(mail, t), "diminishing", type) = Shifted(Capped(mail.logged + 1))
  BY <1>1 DEF NextDays
<1>4. CASE mail.logged >= 5
  BY <1>1, <1>2, <1>3, <1>4 DEF Capped, Shifted
<1>5. CASE mail.logged \in 0 .. 4
  BY <1>1, <1>2, <1>3, <1>5 DEF Capped, Shifted
<1> QED BY <1>1, <1>4, <1>5

\* A problem that is found by every check does not cause a mail by every check
\* (unless -M always asks for it): after a mail the next one is not due for a
\* day, and never with -M once.
THEOREM NoMailWithinADay ==
    ASSUME NEW mail \in MailInfo, NEW freq \in Freqs \ {"always"}, NEW type \in WarningTypes,
           NEW t \in Nat, NEW later \in Nat, later < t + Day
    PROVE  ~IsDue(Sent(mail, t), freq, type, later)
<1>0. Day \in Nat \ {0}
  BY DayAssumption
<1>1. /\ mail.logged \in Nat
      /\ Sent(mail, t).logged = mail.logged + 1
      /\ Sent(mail, t).lastsent = t
  BY DEF MailInfo, Sent
<1>2. Sent(mail, t).logged # 0
  BY <1>1
<1>3. Days(Sent(mail, t), freq, type) = NextDays(mail, freq, type)
  BY AnnouncedIntervalIsApplied
<1>4. NextDays(mail, freq, type) \in {-1, 1, 2, 4, 8, 16, 32}
  <2>1. Capped(mail.logged) \in 0 .. 5
    BY <1>1 DEF Capped
  <2>2. Shifted(Capped(mail.logged)) \in {1, 2, 4, 8, 16, 32}
    BY <2>1 DEF Shifted
  <2> QED BY <2>2 DEF NextDays, Freqs
<1>5. PICK days \in Int : days = Days(Sent(mail, t), freq, type)
  BY <1>3, <1>4
<1>6. days \in {-1, 1, 2, 4, 8, 16, 32}
  BY <1>3, <1>4, <1>5
<1>7. days > 0 => ~(later >= t + days * Day)
  BY <1>0, <1>6
<1> QED BY <1>1, <1>2, <1>5, <1>6, <1>7 DEF IsDue

-----------------------------------------------------------------------------
(* Skipped checks.  `skipped' is history: the checks that were skipped since *)
(* the last one that was done.  The counter of the code is at least as large *)
(* (it also counts on when the disk answers with an unknown mode), and both  *)
(* ways to skip a check look at it first.                                    *)
SkipInv ==
    /\ cfg \in Configs
    /\ powerskipcnt \in Nat /\ skipped \in Nat
    /\ skipped <= powerskipcnt
    /\ cfg.powerskipmax # 0 => powerskipcnt <= cfg.powerskipmax

LEMMA SkipInit == Init => SkipInv
BY ConfigsAssumption DEF Init, SkipInv, ConfigType

\* A step of either kind of skip: the guard leaves room for one more.
LEMMA OneMoreSkip ==
    ASSUME NEW c \in Nat, NEW s \in Nat, NEW m \in Nat, s <= c, m = 0 \/ c < m
    PROVE  /\ c + 1 \in Nat /\ s + 1 \in Nat /\ s + 1 <= c + 1
           /\ m # 0 => c + 1 <= m
OBVIOUS

LEMMA SkipNext == SkipInv /\ [Next]_vars => SkipInv'
<1> SUFFICES ASSUME SkipInv, [Next]_vars PROVE SkipInv'
  OBVIOUS
<1>0. cfg.powerskipmax \in Nat
  BY ConfigsAssumption DEF SkipInv, ConfigType
<1>a. ASSUME UNCHANGED << cfg, powerskipcnt, skipped >> PROVE SkipInv'
  BY <1>a DEF SkipInv
<1>b. ASSUME cfg' = cfg, powerskipcnt' = 0, skipped' = 0 PROVE SkipInv'
  BY <1>b, <1>0 DEF SkipInv
<1>c. ASSUME cfg' = cfg, MaySkip, powerskipcnt' = powerskipcnt + 1, skipped' = skipped + 1
      PROVE  SkipInv'
  BY <1>c, <1>0, OneMoreSkip DEF SkipInv, MaySkip
<1>1. CASE ATADeviceScan
  BY <1>1, <1>b DEF ATADeviceScan
<1>2. CASE Check
  <2>1. CASE SkipPoweredDown
    BY <2>1, <1>c DEF SkipPoweredDown
  <2>2. CASE NoPowerCheck
    BY <2>2 DEF NoPowerCheck, SkipInv, powerVars
  <2>3. CASE CheckPowerMode
    BY <2>3, <1>b, <1>c DEF CheckPowerMode
  <2>4. CASE OpenFails
    BY <2>4, <1>a DEF OpenFails
  <2>5. CASE OpenDevice
    BY <2>5, <1>a DEF OpenDevice
  <2>6. CASE CheckHealth
    BY <2>6, <1>a DEF CheckHealth, powerVars
  <2>7. CASE ReadSmartData \/ ReadSmartDataFails \/ NoSmartData
    BY <2>7, <1>a DEF ReadSmartData, ReadSmartDataFails, NoSmartData, powerVars, ghostVars
  <2>8. CASE CheckSelfTestLog \/ SelfTestLogFails \/ NoSelfTestLog
    BY <2>8, <1>a DEF CheckSelfTestLog, SelfTestLogFails, NoSelfTestLog, powerVars, ghostVars
  <2>9. CASE CheckErrorLogs
    BY <2>9, <1>a DEF CheckErrorLogs, powerVars
  <2> QED BY <1>2, <2>1, <2>2, <2>3, <2>4, <2>5, <2>6, <2>7, <2>8, <2>9 DEF Check
<1>3. CASE WriteState \/ Wakeup
  BY <1>3, <1>a DEF WriteState, Wakeup, powerVars
<1>4. CASE Stop \/ Crash
  BY <1>4, <1>a DEF Stop, Crash, powerVars
<1>5. CASE DiskChanges
  BY <1>5, <1>a DEF DiskChanges, powerVars, ghostVars
<1>6. CASE UNCHANGED vars
  BY <1>6, <1>a DEF vars, powerVars, ghostVars
<1> QED BY <1>1, <1>2, <1>3, <1>4, <1>5, <1>6 DEF Next

\* -n MODE,N (smartd.conf.5): smartd skips no more than N checks in a row,
\* whatever the disk answers and however the two tests for a disk that is
\* powered down take turns.
THEOREM SkipsAreBounded == Spec => []SkipsBounded
<1>1. SkipInv => SkipsBounded
  <2> SUFFICES ASSUME SkipInv PROVE SkipsBounded
    OBVIOUS
  <2>1. cfg.powerskipmax \in Nat
    BY ConfigsAssumption DEF SkipInv, ConfigType
  <2> QED BY <2>1 DEF SkipInv, SkipsBounded
<1> QED BY <1>1, SkipInit, SkipNext, PTL DEF Spec

-----------------------------------------------------------------------------
(* Mail counters.  Between a change of the counter of an important type of   *)
(* warning and the next state file, must_write is set; nothing but that file *)
(* clears it.                                                                *)
FileCurrent == file.exists /\ \A t \in Important : file.maillog[t] = maillog[t]

Unsaved == always \/ must_write \/ FileCurrent

MailInv ==
    cfg.state_file => /\ pc = "wait" => FileCurrent
                      /\ pc # "down" => Unsaved

\* The counters change only for types that are warned of or were reset.
LEMMA MailKeeps ==
    ASSUME NEW bad, NEW good, Mail(bad, good), bad \cap Important = {}, ~WasReset(good)
    PROVE  \A t \in Important : maillog'[t] = maillog[t]
<1>1. Important \subseteq Types
  BY DEF Important, Types, PendingTypes
<1> QED BY <1>1 DEF Mail, WasReset

LEMMA MailInit == Init => MailInv
BY DEF Init, MailInv

LEMMA MailNext == MailInv /\ [Next]_vars => MailInv'
<1> SUFFICES ASSUME MailInv, [Next]_vars PROVE MailInv'
  OBVIOUS
<1>a. ASSUME UNCHANGED << cfg, always, must_write, file, maillog >>,
             pc # "down", pc' = "wait" => pc = "wait"
      PROVE  MailInv'
  BY <1>a DEF MailInv, Unsaved, FileCurrent
<1>b. ASSUME UNCHANGED << cfg, always, file >>, pc # "down", pc' # "wait",
             must_write => must_write',
             must_write' \/ \A t \in Important : maillog'[t] = maillog[t]
      PROVE  MailInv'
  BY <1>b DEF MailInv, Unsaved, FileCurrent
<1>1. CASE ATADeviceScan
  BY <1>1 DEF ATADeviceScan, MailInv, Unsaved
<1>2. CASE Check
  <2>1. CASE SkipPoweredDown
    <3>1. Mail(Test, {}) /\ Test \cap Important = {} /\ ~WasReset({})
      BY <2>1 DEF SkipPoweredDown, Test, Important, PendingTypes, WasReset
    <3> QED BY <2>1, <3>1, <1>b, MailKeeps DEF SkipPoweredDown
  <2>2. CASE OpenFails
    <3> DEFINE bad == Test \cup (IF cfg.removable THEN {} ELSE {"FailedOpenDevice"})
    <3>1. Mail(bad, {}) /\ bad \cap Important = {} /\ ~WasReset({})
      BY <2>2 DEF OpenFails, Test, Important, PendingTypes, WasReset
    <3>2. \A t \in Important : maillog'[t] = maillog[t]
      BY <3>1, MailKeeps
    <3> QED BY <2>2, <3>2, <1>b DEF OpenFails, Opens
  <2>3. CASE OpenDevice
    <3> DEFINE good == IF cfg.removable THEN {} ELSE {"FailedOpenDevice"}
    <3>1. /\ Mail(Test, good) /\ Test \cap Important = {}
          /\ must_write' = (must_write \/ WasReset(good))
      BY <2>3 DEF OpenDevice, Test, Important, PendingTypes
    <3>2. ~WasReset(good) => \A t \in Important : maillog'[t] = maillog[t]
      BY <3>1, MailKeeps
    <3> QED BY <2>3, <3>1, <3>2, <1>b DEF OpenDevice, Opens
  <2>4. CASE NoPowerCheck \/ CheckPowerMode
    <3>1. CASE NoPowerCheck
      BY <3>1, <1>a DEF NoPowerCheck, stateVars
    <3>2. CASE CheckPowerMode
      BY <3>2, <1>a DEF CheckPowerMode, stateVars
    <3> QED BY <2>4, <3>1, <3>2
  <2>5. CASE CheckHealth
    <3>1. CASE "smartcheck" \in mon
      <4>1. PICK bad : Mail(bad, {}) /\ must_write' = (must_write \/ bad # {})
        BY <2>5, <3>1 DEF CheckHealth
      <4>2. bad = {} => \A t \in Important : maillog'[t] = maillog[t]
        BY <4>1, MailKeeps DEF WasReset
      <4> QED BY <2>5, <4>1, <4>2, <1>b DEF CheckHealth
    <3>2. CASE "smartcheck" \notin mon
      BY <2>5, <3>2, <1>a DEF CheckHealth
    <3> QED BY <3>1, <3>2
  <2>6. CASE ReadSmartData
    <3> DEFINE good == {"FailedReadSmartData"} \cup (Compared \ Pending)
    <3>1. /\ Mail(PendingWarnings, good)
          /\ must_write' = (must_write \/ PendingWarnings # {} \/ WasReset(good))
      BY <2>6 DEF ReadSmartData
    <3>2. PendingWarnings = {} /\ ~WasReset(good) =>
              \A t \in Important : maillog'[t] = maillog[t]
      BY <3>1, MailKeeps
    <3> QED BY <2>6, <3>1, <3>2, <1>b DEF ReadSmartData
  <2>7. CASE ReadSmartDataFails
    BY <2>7, <1>b DEF ReadSmartDataFails
  <2>8. CASE CheckSelfTestLog
    <3>1. PICK bad, good, new :
              /\ bad = IF new THEN {"SelfTest"} ELSE {}
              /\ Mail(bad, good)
              /\ must_write' = (must_write \/ new \/ WasReset(good))
      BY <2>8 DEF CheckSelfTestLog
    <3>2. ~new /\ ~WasReset(good) => \A t \in Important : maillog'[t] = maillog[t]
      BY <3>1, MailKeeps
    <3> QED BY <2>8, <3>1, <3>2, <1>b DEF CheckSelfTestLog
  <2>9. CASE SelfTestLogFails
    <3>1. /\ Mail({"FailedReadSmartSelfTestLog"}, {}) /\ ~WasReset({})
          /\ {"FailedReadSmartSelfTestLog"} \cap Important = {}
      BY <2>9 DEF SelfTestLogFails, Important, PendingTypes, WasReset
    <3>2. \A t \in Important : maillog'[t] = maillog[t]
      BY <3>1, MailKeeps
    <3> QED BY <2>9, <3>2, <1>b DEF SelfTestLogFails
  <2>10. CASE CheckErrorLogs
    <3>1. PICK bad, unread, increased :
              /\ bad = (IF unread THEN {"FailedReadSmartErrorLog"} ELSE {})
                        \cup (IF increased THEN {"ErrorCount"} ELSE {})
              /\ Mail(bad, {})
              /\ must_write' = (must_write \/ increased)
      BY <2>10 DEF CheckErrorLogs
    <3>2. ~increased => bad \cap Important = {}
      BY <3>1 DEF Important, PendingTypes
    <3>3. ~increased => \A t \in Important : maillog'[t] = maillog[t]
      BY <3>1, <3>2, MailKeeps DEF WasReset
    <3> QED BY <2>10, <3>1, <3>3, <1>b DEF CheckErrorLogs
  <2>11. CASE NoSmartData \/ NoSelfTestLog
    BY <2>11, <1>a DEF NoSmartData, NoSelfTestLog, stateVars
  <2> QED BY <1>2, <2>1, <2>2, <2>3, <2>4, <2>5, <2>6, <2>7, <2>8, <2>9, <2>10, <2>11
          DEF Check
<1>3. CASE WriteState
  <2>1. CASE Saves
    <3>1. file' = Persistent /\ UNCHANGED << cfg, always, maillog >> /\ pc' = "wait"
      BY <1>3, <2>1 DEF WriteState
    <3>2. FileCurrent'
      BY <3>1 DEF FileCurrent, Persistent, Important, PendingTypes, Types
    <3> QED BY <3>1, <3>2 DEF MailInv, Unsaved
  <2>2. CASE ~Saves
    <3>1. UNCHANGED << cfg, always, maillog, file >> /\ pc = "write" /\ pc' = "wait"
      BY <1>3, <2>2 DEF WriteState
    <3>2. cfg.state_file => FileCurrent
      BY <2>2, <3>1 DEF Saves, MailInv, Unsaved
    <3> QED BY <3>1, <3>2 DEF MailInv, Unsaved, FileCurrent
  <2> QED BY <2>1, <2>2
<1>4. CASE Wakeup
  BY <1>4 DEF Wakeup, MailInv, Unsaved, FileCurrent, stateVars
<1>5. CASE Stop \/ Crash
  BY <1>5 DEF Stop, Crash, MailInv
<1>6. CASE DiskChanges
  BY <1>6 DEF DiskChanges, MailInv, Unsaved, FileCurrent, stateVars
<1>7. CASE UNCHANGED vars
  BY <1>7 DEF vars, stateVars, MailInv, Unsaved, FileCurrent
<1> QED BY <1>1, <1>2, <1>3, <1>4, <1>5, <1>6, <1>7 DEF Next

\* "-s PREFIX" (smartd.8): after a crash between two cycles smartd goes on
\* with the mail counters it had, for the types of warnings that the code
\* regards as important.
THEOREM ImportantMailsAreSaved == Spec => []ImportantMailsSaved
<1>1. MailInv => ImportantMailsSaved
  BY DEF MailInv, FileCurrent, ImportantMailsSaved
<1> QED BY <1>1, MailInit, MailNext, PTL DEF Spec

-----------------------------------------------------------------------------
(* What the disk tells: counts that never decrease, and the log of its       *)
(* failed self-tests.                                                        *)
DiskType == [power: PowerModes, stopped: BOOLEAN, gone: BOOLEAN, failing: BOOLEAN,
             pending: [PendingTypes -> Nat], errors: Nat, xerrors: Nat,
             selftests: Seq(Nat)]

\* The extended error log has all errors.
DiskInv == disk \in DiskType /\ disk.errors <= disk.xerrors /\ events \in Nat

LEMMA DiskInit == Init => DiskInv
<1> SUFFICES ASSUME Init PROVE DiskInv
  OBVIOUS
<1>1. NewDisk \in DiskType /\ NewDisk.errors <= NewDisk.xerrors
  BY DEF NewDisk, DiskType, PowerModes
<1> QED BY <1>1 DEF Init, DiskInv

LEMMA NewSelfTestErrorType ==
    ASSUME DiskInv, NEW h \in Nat
    PROVE  NewSelfTestError(h) \in Seq(Nat)
<1>1. disk.selftests \in Seq(Nat) /\ LogSize \in Nat \ {0}
  BY BoundsAssumption DEF DiskInv, DiskType
<1> DEFINE n == IF Len(disk.selftests) < LogSize THEN Len(disk.selftests) ELSE LogSize - 1
<1>2. n \in Nat /\ n <= Len(disk.selftests)
  BY <1>1
<1>3. SubSeq(disk.selftests, 1, n) \in Seq(Nat)
  <2> HIDE DEF n
  <2> QED BY <1>1, <1>2
<1> QED BY <1>3 DEF NewSelfTestError

\* What a step of the model does to the disk.
LEMMA DiskSteps ==
    ASSUME DiskInv, [Next]_vars
    PROVE  DiskInv' /\ disk.errors <= disk'.errors /\ disk.xerrors <= disk'.xerrors
<1>0. /\ disk \in DiskType /\ disk.errors <= disk.xerrors /\ events \in Nat
      /\ disk.errors \in Nat /\ disk.xerrors \in Nat
  BY DEF DiskInv, DiskType
<1>1. CASE UNCHANGED << disk, events >>
  BY <1>0, <1>1 DEF DiskInv
<1>2. CASE DiskChanges
  <2>0. events' = events + 1 /\ events' \in Nat
    BY <1>0, <1>2 DEF DiskChanges
  <2>1. ASSUME NEW p \in PowerModes, disk' = [disk EXCEPT !.power = p]
        PROVE  disk' \in DiskType /\ disk'.errors = disk.errors /\ disk'.xerrors = disk.xerrors
    BY <1>0, <2>1 DEF DiskType
  <2>2. ASSUME \/ disk' = [disk EXCEPT !.stopped = ~disk.stopped]
               \/ disk' = [disk EXCEPT !.gone = ~disk.gone]
               \/ disk' = [disk EXCEPT !.failing = ~disk.failing]
        PROVE  disk' \in DiskType /\ disk'.errors = disk.errors /\ disk'.xerrors = disk.xerrors
    BY <1>0, <2>2 DEF DiskType
  <2>3. ASSUME NEW t \in PendingTypes, NEW n \in 0 .. MaxPending,
               disk' = [disk EXCEPT !.pending[t] = n]
        PROVE  disk' \in DiskType /\ disk'.errors = disk.errors /\ disk'.xerrors = disk.xerrors
    <3>1. [disk.pending EXCEPT ![t] = n] \in [PendingTypes -> Nat]
      BY <1>0, <2>3, BoundsAssumption DEF DiskType
    <3> QED BY <1>0, <2>3, <3>1 DEF DiskType
  <2>4. ASSUME NEW n \in {disk.errors, disk.xerrors + 1},
               disk' = [disk EXCEPT !.errors = n, !.xerrors = disk.xerrors + 1]
        PROVE  disk' \in DiskType /\ disk'.errors = n /\ disk'.xerrors = disk.xerrors + 1
    <3>1. n \in Nat /\ disk.xerrors + 1 \in Nat
      BY <1>0
    <3> QED BY <1>0, <2>4, <3>1 DEF DiskType
  <2>5. ASSUME NEW log \in {NewSelfTestError(events + 1), << >>},
               disk' = [disk EXCEPT !.selftests = log]
        PROVE  disk' \in DiskType /\ disk'.errors = disk.errors /\ disk'.xerrors = disk.xerrors
    <3>1. NewSelfTestError(events + 1) \in Seq(Nat) /\ << >> \in Seq(Nat)
      BY <1>0, NewSelfTestErrorType
    <3>2. log \in Seq(Nat)
      BY <2>5, <3>1
    <3> QED BY <1>0, <2>5, <3>2 DEF DiskType
  <2>6. Monitored \subseteq PendingTypes
    BY DEF Monitored
  <2> QED BY <1>0, <1>2, <2>0, <2>1, <2>2, <2>3, <2>4, <2>5, <2>6 DEF DiskChanges, DiskInv
<1>3. CASE CheckPowerMode
  <2>1. PICK mode \in ModesRead \cup {"sleep"} :
            disk' = [disk EXCEPT !.power = IF mode = "active" THEN mode ELSE disk.power,
                                 !.stopped = disk.stopped /\ Suspends(mode) /\ MaySkip]
    BY <1>3 DEF CheckPowerMode
  <2>2. events' = events
    BY <1>3 DEF CheckPowerMode, boundVars
  <2>3. (disk.stopped /\ Suspends(mode) /\ MaySkip) \in BOOLEAN
    OBVIOUS
  <2>4. (IF mode = "active" THEN mode ELSE disk.power) \in PowerModes
    BY <1>0 DEF DiskType, PowerModes
  <2>5. disk' \in DiskType /\ disk'.errors = disk.errors /\ disk'.xerrors = disk.xerrors
    BY <1>0, <2>1, <2>3, <2>4 DEF DiskType
  <2> QED BY <1>0, <2>2, <2>5 DEF DiskInv
<1>4. CASE SkipPoweredDown \/ OpenFails \/ OpenDevice \/ NoPowerCheck \/ CheckHealth
  BY <1>1, <1>4 DEF SkipPoweredDown, OpenFails, OpenDevice, NoPowerCheck, CheckHealth, boundVars
<1>5. CASE ReadSmartData \/ ReadSmartDataFails \/ NoSmartData \/ CheckSelfTestLog
           \/ SelfTestLogFails \/ NoSelfTestLog \/ CheckErrorLogs
  BY <1>1, <1>5 DEF ReadSmartData, ReadSmartDataFails, NoSmartData, CheckSelfTestLog,
                    SelfTestLogFails, NoSelfTestLog, CheckErrorLogs, boundVars
<1>6. CASE ATADeviceScan \/ WriteState \/ Wakeup \/ Stop \/ Crash \/ UNCHANGED vars
  BY <1>1, <1>6 DEF ATADeviceScan, WriteState, Wakeup, Stop, Crash, vars, boundVars
<1> QED BY <1>2, <1>3, <1>4, <1>5, <1>6 DEF Next, Check

-----------------------------------------------------------------------------
(* Error logs.  Three facts make up ErrorsTold; each is an invariant of its  *)
(* own once it also speaks of the state file and of what a restart takes     *)
(* from it.                                                                  *)
TellTypes ==
    /\ ataerrorcount \in Nat /\ base \in Nat /\ selfloghour \in Nat
    /\ seen \in [errors: Nat, hour: Nat]
    /\ mon \subseteq cfg.features
    /\ file.exists \in BOOLEAN
    /\ file.exists => file.ataerrorcount \in Nat /\ file.selfloghour \in Nat

\* Errors that are counted are reported, in the process and in the file.
CountedIsReported ==
    /\ (base + 1) .. ataerrorcount \subseteq reported
    /\ (base + 1) .. seen.errors \subseteq reported
    /\ file.exists => (base + 1) .. file.ataerrorcount \subseteq reported

\* The hour of the last error is one that was reported.
HoursKnown == {0, selfloghour, seen.hour} \subseteq known

\* Without a crash and a log that could not be read, errors that are reported are
\* counted, and no more of them are counted than the logs tell.
NoneAfter(n) == \A r \in reported : r \in Nat /\ r <= n
ReportedIsCounted ==
    cfg.state_file /\ ~excuse =>
        /\ ~twice
        /\ NoneAfter(ataerrorcount)
        /\ ataerrorcount <= Max2(0, ErrorCount(cfg.features \cap ErrorLogs))
        /\ pc # "down" => mon \cap ErrorLogs = cfg.features \cap ErrorLogs
        /\ pc = "down" /\ file.exists => file.ataerrorcount = ataerrorcount

TellInv == DiskInv /\ TellTypes /\ CountedIsReported /\ HoursKnown /\ ReportedIsCounted

\* The steps that read no error log and no self-test log, start or end no process
\* and write no file leave all of it alone.
TellVars == << cfg, mon, ataerrorcount, selfloghour, file, base, reported, twice, excuse,
               known, seen >>
LEMMA TellUnchanged ==
    ASSUME [Next]_vars
    PROVE  \/ UNCHANGED TellVars /\ (pc = "down" <=> pc' = "down")
           \/ ATADeviceScan \/ CheckSelfTestLog \/ CheckErrorLogs \/ WriteState \/ Stop \/ Crash
<1>1. CASE SkipPoweredDown \/ OpenFails \/ OpenDevice
  BY <1>1 DEF SkipPoweredDown, OpenFails, OpenDevice, Opens, TellVars
<1>2. CASE NoPowerCheck \/ CheckPowerMode
  BY <1>2 DEF NoPowerCheck, CheckPowerMode, stateVars, TellVars
<1>3. CASE CheckHealth \/ ReadSmartData \/ ReadSmartDataFails \/ SelfTestLogFails
  BY <1>3 DEF CheckHealth, ReadSmartData, ReadSmartDataFails, SelfTestLogFails, TellVars
<1>4. CASE NoSmartData \/ NoSelfTestLog
  BY <1>4 DEF NoSmartData, NoSelfTestLog, stateVars, ghostVars, TellVars
<1>5. CASE Wakeup \/ DiskChanges \/ UNCHANGED vars
  BY <1>5 DEF Wakeup, DiskChanges, vars, stateVars, ghostVars, TellVars
<1> QED BY <1>1, <1>2, <1>3, <1>4, <1>5 DEF Next, Check

\* The error count of a set of logs grows with the disk's.
LEMMA ErrorCountGrows ==
    ASSUME DiskInv, [Next]_vars, NEW logs
    PROVE  /\ ErrorCount(logs) \in Nat \cup {-1} /\ ErrorCount(logs)' \in Nat \cup {-1}
           /\ ErrorCount(logs) <= ErrorCount(logs)'
           /\ Max2(0, ErrorCount(logs)) <= Max2(0, ErrorCount(logs)')
<1>1. /\ disk.errors \in Nat /\ disk.xerrors \in Nat
      /\ disk'.errors \in Nat /\ disk'.xerrors \in Nat
      /\ disk.errors <= disk'.errors /\ disk.xerrors <= disk'.xerrors
  BY DiskSteps DEF DiskInv, DiskType
<1> QED BY <1>1 DEF ErrorCount, Max2

LEMMA TellInit == Init => TellInv
<1> SUFFICES ASSUME Init PROVE TellInv
  OBVIOUS
<1>1. /\ ataerrorcount = 0 /\ base = 0 /\ selfloghour = 0 /\ seen = [errors |-> 0, hour |-> 0]
      /\ mon = {} /\ file.exists = FALSE /\ reported = {} /\ known = {0} /\ twice = FALSE
      /\ pc = "down"
  BY DEF Init, NoFile
<1>2. TellTypes
  BY <1>1 DEF TellTypes
<1>3. CountedIsReported /\ HoursKnown
  BY <1>1 DEF CountedIsReported, HoursKnown
<1>4. DiskInv
  BY DiskInit
<1>5. 0 <= Max2(0, ErrorCount(cfg.features \cap ErrorLogs))
  BY <1>4 DEF ErrorCount, Max2, DiskInv, DiskType
<1>6. ReportedIsCounted
  BY <1>1, <1>5 DEF ReportedIsCounted, NoneAfter
<1> QED BY <1>2, <1>3, <1>4, <1>6 DEF TellInv

\* smartd starts, with or without a state file.
LEMMA TellScan ==
    ASSUME TellInv, ATADeviceScan
    PROVE  TellInv'
<1>0. DiskInv /\ DiskInv' /\ TellTypes /\ CountedIsReported /\ HoursKnown /\ ReportedIsCounted
  BY DiskSteps DEF TellInv, Next
<1>1. PICK on \in Scanned :
          /\ mon' = on
          /\ IF file.exists THEN StateFromFile ELSE StateFromDisk(on)
  BY DEF ATADeviceScan
<1>2. /\ cfg' = cfg /\ file' = file /\ disk' = disk /\ twice' = twice /\ pc' = "open"
      /\ base' = IF file.exists THEN base ELSE ataerrorcount'
      /\ reported' = IF file.exists THEN reported ELSE {}
      /\ known' = known \cup {selfloghour'}
      /\ seen' = [errors |-> base', hour |-> selfloghour']
      /\ excuse' = (excuse \/ ErrorLogs \cap (cfg.features \ mon') # {})
      /\ pc = "down"
  BY DEF ATADeviceScan
<1>3. on \subseteq cfg.features
  BY DEF Scanned
<1>4. /\ disk.selftests \in Seq(Nat) /\ disk.errors \in Nat /\ disk.xerrors \in Nat
  BY <1>0 DEF DiskInv, DiskType
<1>5. ErrorCount(on \cap ErrorLogs) \in Nat \cup {-1}
  BY <1>4 DEF ErrorCount, Max2
<1>6. /\ ataerrorcount' \in Nat /\ selfloghour' \in Nat
      /\ file.exists => ataerrorcount' = file.ataerrorcount
      /\ ~file.exists => ataerrorcount' = Max2(0, ErrorCount(on \cap ErrorLogs))
  <2>1. CASE file.exists
    BY <1>0, <1>1, <2>1 DEF StateFromFile, TellTypes
  <2>2. CASE ~file.exists
    <3>1. Newest(disk.selftests) \in Nat
      BY <1>4 DEF Newest
    <3>2. /\ selfloghour' \in {Newest(disk.selftests), 0}
          /\ ataerrorcount' = Max2(0, ErrorCount(on \cap ErrorLogs))
      BY <1>1, <2>2 DEF StateFromDisk
    <3>3. Max2(0, ErrorCount(on \cap ErrorLogs)) \in Nat
      BY <1>5 DEF Max2
    <3> QED BY <2>2, <3>1, <3>2, <3>3
  <2> QED BY <2>1, <2>2
<1>7. TellTypes'
  BY <1>0, <1>1, <1>2, <1>3, <1>6 DEF TellTypes
<1>8. CountedIsReported'
  <2>1. CASE file.exists
    <3>1. base' = base /\ reported' = reported /\ seen'.errors = base
      BY <1>2, <2>1
    <3>2. (base + 1) .. base = {}
      BY <1>0 DEF TellTypes
    <3> QED BY <1>0, <1>2, <1>6, <2>1, <3>1, <3>2 DEF CountedIsReported
  <2>2. CASE ~file.exists
    <3>1. base' = ataerrorcount' /\ seen'.errors = ataerrorcount' /\ file' = file
      BY <1>2, <2>2
    <3>2. (ataerrorcount' + 1) .. ataerrorcount' = {}
      <4>1. PICK n \in Nat : n = ataerrorcount'
        BY <1>6
      <4>2. (n + 1) .. n = {}
        OBVIOUS
      <4> QED BY <4>1, <4>2
    <3> QED BY <2>2, <3>1, <3>2 DEF CountedIsReported
  <2> QED BY <2>1, <2>2
<1>9. HoursKnown'
  BY <1>0, <1>2 DEF HoursKnown
<1>10. ReportedIsCounted'
  <2> SUFFICES ASSUME cfg.state_file, ~excuse'
               PROVE  /\ ~twice'
                      /\ NoneAfter(ataerrorcount)'
                      /\ ataerrorcount' <= Max2(0, ErrorCount(cfg.features \cap ErrorLogs))'
                      /\ mon' \cap ErrorLogs = cfg.features \cap ErrorLogs
    BY <1>2 DEF ReportedIsCounted
  <2>1. ~excuse /\ ErrorLogs \cap (cfg.features \ mon') = {}
    BY <1>2
  <2>2. mon' \cap ErrorLogs = cfg.features \cap ErrorLogs
    BY <1>1, <1>3, <2>1
  <2>3. ~twice
    BY <1>0, <2>1 DEF ReportedIsCounted
  <2>4. /\ NoneAfter(ataerrorcount)
        /\ ataerrorcount <= Max2(0, ErrorCount(cfg.features \cap ErrorLogs))
        /\ file.exists => file.ataerrorcount = ataerrorcount
    BY <1>0, <1>2, <2>1 DEF ReportedIsCounted
  <2>5. ErrorCount(cfg.features \cap ErrorLogs)' = ErrorCount(cfg.features \cap ErrorLogs)
    BY <1>2 DEF ErrorCount
  <2>6. CASE file.exists
    BY <1>2, <1>6, <2>2, <2>3, <2>4, <2>5, <2>6 DEF NoneAfter, Max2
  <2>7. CASE ~file.exists
    <3>1. reported' = {} /\ ataerrorcount' = Max2(0, ErrorCount(cfg.features \cap ErrorLogs))
      BY <1>1, <1>2, <1>6, <2>2, <2>7
    <3> QED BY <1>2, <1>6, <2>2, <2>3, <2>5, <3>1 DEF NoneAfter, Max2
  <2> QED BY <2>6, <2>7
<1> QED BY <1>0, <1>7, <1>8, <1>9, <1>10 DEF TellInv

\* The two error logs are read, or fail.
LEMMA TellErrorLogs ==
    ASSUME TellInv, CheckErrorLogs
    PROVE  TellInv'
<1>0. DiskInv /\ DiskInv' /\ TellTypes /\ CountedIsReported /\ HoursKnown /\ ReportedIsCounted
  BY DiskSteps DEF TellInv, Next, Check
<1>1. PICK logs, failed, newc, news :
          /\ logs \in SUBSET (mon \cap ErrorLogs)
          /\ failed = (mon \cap ErrorLogs) \ logs
          /\ newc = ErrorCount(logs)
          /\ news = IF newc > ataerrorcount THEN (ataerrorcount + 1) .. newc ELSE {}
          /\ ataerrorcount' = NewErrorCount(newc)
          /\ twice' = (twice \/ news \cap reported # {})
          /\ reported' = reported \cup news
          /\ excuse' = (excuse \/ (failed # {} /\ newc >= 0))
          /\ seen' = IF newc >= 0 THEN [seen EXCEPT !.errors = newc] ELSE seen
  BY DEF CheckErrorLogs
<1>2. /\ UNCHANGED << cfg, mon, selfloghour, file, disk, base, known >>
      /\ pc # "down" /\ pc' # "down"
  BY DEF CheckErrorLogs
<1>3. newc \in Nat \cup {-1} /\ ataerrorcount \in Nat /\ base \in Nat
  BY <1>0, <1>1 DEF ErrorCount, Max2, DiskInv, DiskType, TellTypes
<1>4. /\ newc >= 0 => ataerrorcount' = newc /\ seen'.errors = newc
      /\ newc < 0 => ataerrorcount' = ataerrorcount /\ seen' = seen
      /\ seen'.hour = seen.hour /\ seen' \in [errors: Nat, hour: Nat]
  BY <1>0, <1>1, <1>3 DEF NewErrorCount, TellTypes
<1>5. TellTypes'
  BY <1>0, <1>2, <1>3, <1>4 DEF TellTypes
<1>6. HoursKnown'
  BY <1>0, <1>2, <1>4 DEF HoursKnown
<1>7. newc >= 0 => (base + 1) .. newc \subseteq reported'
  <2>1. CASE newc > ataerrorcount
    <3>1. (base + 1) .. newc \subseteq ((base + 1) .. ataerrorcount) \cup news
      BY <1>1, <1>3, <2>1
    <3> QED BY <1>0, <1>1, <3>1 DEF CountedIsReported
  <2>2. CASE newc >= 0 /\ newc <= ataerrorcount
    <3>1. (base + 1) .. newc \subseteq (base + 1) .. ataerrorcount
      BY <1>3, <2>2
    <3> QED BY <1>0, <1>1, <3>1 DEF CountedIsReported
  <2> QED BY <1>3, <2>1, <2>2
<1>8. CountedIsReported'
  BY <1>0, <1>1, <1>2, <1>3, <1>4, <1>7 DEF CountedIsReported
<1>9. ReportedIsCounted'
  <2> SUFFICES ASSUME cfg.state_file, ~excuse'
               PROVE  /\ ~twice'
                      /\ NoneAfter(ataerrorcount)'
                      /\ ataerrorcount' <= Max2(0, ErrorCount(cfg.features \cap ErrorLogs)')
                      /\ mon \cap ErrorLogs = cfg.features \cap ErrorLogs
    BY <1>2 DEF ReportedIsCounted
  <2>1. ~excuse /\ (failed = {} \/ ~(newc >= 0))
    BY <1>1
  <2>2. /\ ~twice /\ NoneAfter(ataerrorcount)
        /\ ataerrorcount <= Max2(0, ErrorCount(cfg.features \cap ErrorLogs))
        /\ mon \cap ErrorLogs = cfg.features \cap ErrorLogs
    BY <1>0, <1>2, <2>1 DEF ReportedIsCounted
  <2>3. ErrorCount(cfg.features \cap ErrorLogs)' = ErrorCount(cfg.features \cap ErrorLogs)
    BY <1>2 DEF ErrorCount
  <2>4. news \cap reported = {}
    BY <1>1, <1>3, <2>2 DEF NoneAfter
  <2>5. CASE newc < 0
    <3>1. reported' = reported /\ ataerrorcount' = ataerrorcount
      BY <1>1, <1>3, <1>4, <2>5
    <3> QED BY <1>1, <1>2, <2>2, <2>3, <2>4, <3>1 DEF NoneAfter
  <2>6. CASE newc >= 0
    <3>1. failed = {} /\ logs = mon \cap ErrorLogs
      BY <1>1, <2>1, <2>6
    <3>2. newc = ErrorCount(cfg.features \cap ErrorLogs) /\ Max2(0, newc) = newc
      <4>1. logs = cfg.features \cap ErrorLogs
        BY <2>2, <3>1
      <4>2. Max2(0, newc) = newc
        BY <1>3, <2>6 DEF Max2
      <4> QED BY <1>1, <4>1, <4>2
    <3>3. ataerrorcount' = newc /\ ataerrorcount <= newc
      BY <1>4, <2>2, <2>6, <3>2
    <3>4. \A r \in reported' : r \in Nat /\ r <= newc
      BY <1>1, <1>3, <2>2, <3>3 DEF NoneAfter
    <3>5. ~twice' /\ mon \cap ErrorLogs = cfg.features \cap ErrorLogs
      BY <1>1, <2>2, <2>4
    <3>6. NoneAfter(ataerrorcount)'
      BY <3>3, <3>4 DEF NoneAfter
    <3>7. ataerrorcount' <= Max2(0, ErrorCount(cfg.features \cap ErrorLogs)')
      <4>1. newc <= Max2(0, newc)
        BY <1>3, <2>6, <3>2
      <4> QED BY <2>3, <3>2, <3>3, <4>1
    <3> QED BY <3>5, <3>6, <3>7
  <2> QED BY <1>3, <2>5, <2>6
<1> QED BY <1>0, <1>5, <1>6, <1>8, <1>9 DEF TellInv

\* The self-test log is read.
LEMMA TellSelfTestLog ==
    ASSUME TellInv, CheckSelfTestLog
    PROVE  TellInv'
<1>0. DiskInv /\ DiskInv' /\ TellTypes /\ CountedIsReported /\ HoursKnown /\ ReportedIsCounted
  BY DiskSteps DEF TellInv, Next, Check
<1>1. PICK hour, errcnt :
          /\ errcnt = Len(disk.selftests) /\ hour = Newest(disk.selftests)
          /\ selfloghour' = hour
          /\ known' = IF SelfTestError(errcnt, hour) THEN known \cup {hour} ELSE known
          /\ seen' = [seen EXCEPT !.hour = hour]
  BY DEF CheckSelfTestLog
<1>2. /\ UNCHANGED << cfg, mon, ataerrorcount, file, disk, base, reported, twice, excuse >>
      /\ pc # "down" /\ pc' # "down"
  BY DEF CheckSelfTestLog
<1>3. disk.selftests \in Seq(Nat)
  BY <1>0 DEF DiskInv, DiskType
<1>4. hour \in Nat /\ errcnt \in Nat /\ (errcnt = 0 => hour = 0)
  BY <1>1, <1>3 DEF Newest
<1>5. seen'.hour = hour /\ seen'.errors = seen.errors /\ seen' \in [errors: Nat, hour: Nat]
  BY <1>0, <1>1, <1>4 DEF TellTypes
<1>6. hour \in known'
  <2>1. ~SelfTestError(errcnt, hour) => hour \in {0, selfloghour}
    BY <1>4 DEF SelfTestError
  <2> QED BY <1>0, <1>1, <2>1 DEF HoursKnown
<1>7. HoursKnown'
  BY <1>0, <1>1, <1>5, <1>6 DEF HoursKnown
<1>8. TellTypes'
  BY <1>0, <1>1, <1>2, <1>4, <1>5 DEF TellTypes
<1>9. CountedIsReported'
  BY <1>0, <1>2, <1>5 DEF CountedIsReported
<1>10. ErrorCount(cfg.features \cap ErrorLogs)' = ErrorCount(cfg.features \cap ErrorLogs)
  BY <1>2 DEF ErrorCount
<1>11. ReportedIsCounted'
  BY <1>0, <1>2, <1>10 DEF ReportedIsCounted, NoneAfter, Max2
<1> QED BY <1>0, <1>7, <1>8, <1>9, <1>11 DEF TellInv

\* The state file is written, at the end of a cycle or when smartd stops.
LEMMA FileWritten ==
    ASSUME TellTypes, CountedIsReported, HoursKnown, ReportedIsCounted, DiskInv',
           UNCHANGED << cfg, mon, ataerrorcount, selfloghour, base, reported, twice, excuse,
                        known, seen, disk >>,
           pc # "down", file' \in {file, Persistent},
           pc' = "down" /\ cfg.state_file => file' = Persistent
    PROVE  TellInv'
<1>1. Persistent.exists /\ Persistent.ataerrorcount = ataerrorcount
      /\ Persistent.selfloghour = selfloghour
  BY DEF Persistent
<1>2. TellTypes'
  BY <1>1 DEF TellTypes
<1>3. CountedIsReported' /\ HoursKnown'
  BY <1>1 DEF CountedIsReported, HoursKnown
<1>4. ErrorCount(cfg.features \cap ErrorLogs)' = ErrorCount(cfg.features \cap ErrorLogs)
  BY DEF ErrorCount
<1>5. ReportedIsCounted'
  BY <1>1, <1>4 DEF ReportedIsCounted, NoneAfter, Max2
<1> QED BY <1>2, <1>3, <1>5 DEF TellInv

LEMMA TellNext == TellInv /\ [Next]_vars => TellInv'
<1> SUFFICES ASSUME TellInv, [Next]_vars PROVE TellInv'
  OBVIOUS
<1>0. DiskInv /\ DiskInv' /\ TellTypes /\ CountedIsReported /\ HoursKnown /\ ReportedIsCounted
  BY DiskSteps DEF TellInv
<1>1. CASE UNCHANGED TellVars /\ (pc = "down" <=> pc' = "down")
  <2>1. TellTypes' /\ CountedIsReported' /\ HoursKnown'
    BY <1>0, <1>1 DEF TellVars, TellTypes, CountedIsReported, HoursKnown
  <2>2. PICK m \in Nat, n \in Nat :
            /\ m = Max2(0, ErrorCount(cfg.features \cap ErrorLogs))
            /\ n = Max2(0, ErrorCount(cfg.features \cap ErrorLogs)')
            /\ m <= n
    <3>1. PICK logs : logs = cfg.features \cap ErrorLogs
      OBVIOUS
    <3>2. ErrorCount(logs)' = ErrorCount(cfg.features \cap ErrorLogs)'
      BY <1>1, <3>1 DEF TellVars, ErrorCount
    <3>3. /\ Max2(0, ErrorCount(logs)) <= Max2(0, ErrorCount(logs)')
          /\ ErrorCount(logs) \in Nat \cup {-1} /\ ErrorCount(logs)' \in Nat \cup {-1}
      BY <1>0, ErrorCountGrows
    <3>4. \A i \in Nat \cup {-1} : Max2(0, i) \in Nat
      BY DEF Max2
    <3> QED BY <3>1, <3>2, <3>3, <3>4
  <2>3. Max2(0, ErrorCount(cfg.features \cap ErrorLogs))'
        = Max2(0, ErrorCount(cfg.features \cap ErrorLogs)')
    BY DEF Max2
  <2>4. ReportedIsCounted'
    <3> SUFFICES ASSUME cfg.state_file, ~excuse
                 PROVE  /\ ~twice /\ NoneAfter(ataerrorcount)
                        /\ ataerrorcount <= n
                        /\ pc # "down" => mon \cap ErrorLogs = cfg.features \cap ErrorLogs
                        /\ pc = "down" /\ file.exists => file.ataerrorcount = ataerrorcount
      BY <1>1, <2>2, <2>3 DEF TellVars, ReportedIsCounted, NoneAfter
    <3>1. /\ ataerrorcount <= m
          /\ ~twice /\ NoneAfter(ataerrorcount)
          /\ pc # "down" => mon \cap ErrorLogs = cfg.features \cap ErrorLogs
          /\ pc = "down" /\ file.exists => file.ataerrorcount = ataerrorcount
      BY <1>0, <2>2 DEF ReportedIsCounted
    <3>2. ataerrorcount <= n
      BY <1>0, <2>2, <3>1 DEF TellTypes
    <3> QED BY <3>1, <3>2
  <2> QED BY <1>0, <2>1, <2>4 DEF TellInv
<1>2. CASE WriteState
  <2>1. /\ UNCHANGED << cfg, mon, ataerrorcount, selfloghour, base, reported, twice, excuse,
                        known, seen, disk >>
        /\ pc # "down" /\ pc' # "down" /\ file' \in {file, Persistent}
    BY <1>2 DEF WriteState
  <2> QED BY <1>0, <2>1, FileWritten
<1>3. CASE Stop
  <2>1. /\ UNCHANGED << cfg, mon, ataerrorcount, selfloghour, base, reported, twice, excuse,
                        known, seen, disk >>
        /\ pc # "down" /\ file' \in {file, Persistent}
        /\ cfg.state_file => file' = Persistent
    BY <1>3 DEF Stop, stateVars
  <2> QED BY <1>0, <2>1, FileWritten
<1>4. CASE Crash
  <2>1. /\ UNCHANGED << cfg, mon, ataerrorcount, selfloghour, file, base, reported, known,
                        seen >>
        /\ excuse' = TRUE
    BY <1>4 DEF Crash, stateVars
  <2>2. TellTypes' /\ CountedIsReported' /\ HoursKnown'
    BY <1>0, <2>1 DEF TellTypes, CountedIsReported, HoursKnown
  <2>3. ReportedIsCounted'
    BY <2>1 DEF ReportedIsCounted
  <2> QED BY <1>0, <2>2, <2>3 DEF TellInv
<1> QED BY <1>1, <1>2, <1>3, <1>4, TellUnchanged, TellScan, TellErrorLogs, TellSelfTestLog

\* -l error, -l xerror, -l selftest: for every history of a disk and of its checks, an
\* error in these logs is reported, and it is reported once.
THEOREM LoggedErrorsAreTold == Spec => []ErrorsTold
<1>1. TellInv => ErrorsTold
  BY DEF TellInv, CountedIsReported, HoursKnown, ReportedIsCounted, ErrorsTold, NoErrorMissed,
         ErrorReportedOnce, NoSelfTestErrorMissed
<1> QED BY <1>1, TellInit, TellNext, PTL DEF Spec

-----------------------------------------------------------------------------
(* Problems that reappear.  A mail is due at once for a type of warning      *)
(* whose counter is 0, so the counters must follow what is detected: `det'   *)
(* is history, and so is `detSaved' for what the state file says.            *)
NoneCounted(d, m) == \A t \in Resettable : ~d[t] => m[t].logged = 0

\* With -C ID+ only a larger count is reported: no count is remembered of a
\* problem that is not detected.
NoneRemembered(d, s) ==
    \A t \in PendingTypes : ~d[t] /\ cfg.pending[t] = "increase" => s[t] \in {0, Absent}

CountersFollow ==
    /\ NoneCounted(det, maillog)
    /\ NoneRemembered(det, smartval) /\ NoneRemembered(det, ata_attributes)
FileFollows ==
    file.exists => /\ cfg.state_file
                   /\ NoneCounted(detSaved, file.maillog)
                   /\ NoneRemembered(detSaved, file.ata_attributes)
ReappearInv == DiskInv /\ CountersFollow /\ FileFollows

LEMMA ResettableTypes == Resettable \subseteq Types /\ PendingTypes \subseteq Resettable
BY DEF Resettable, Types, PendingTypes

\* The counters after a stage with warnings and resets, if both go along with
\* what the stage detects.
LEMMA MailFollows ==
    ASSUME NEW warn, NEW reset, Mail(warn, reset),
           NEW bad, NEW good, Detects(bad, good),
           \A t \in Resettable : (t \in warn => t \in bad) /\ (t \in good => t \in reset),
           NoneCounted(det, maillog)
    PROVE  /\ NoneCounted(det', maillog')
           /\ \A t \in Resettable : det'[t] /\ ~det[t] =>
                  t \in bad /\ (t \in warn /\ cfg.mail => t \in mailed')
<1>1. ASSUME NEW t \in Resettable, ~det'[t]
      PROVE  maillog'[t].logged = 0
  <2>1. t \in Types
    BY ResettableTypes
  <2>2. t \notin bad /\ (~det[t] \/ t \in good)
    BY <1>1, <2>1 DEF Detects
  <2>3. t \notin warn /\ (t \in good => t \in reset)
    BY <2>2
  <2>4. maillog'[t] = IF t \in reset /\ maillog[t].logged # 0 THEN NoMail ELSE maillog[t]
    BY <2>1, <2>3 DEF Mail
  <2>5. NoMail.logged = 0
    BY DEF NoMail
  <2>6. ~det[t] => maillog[t].logged = 0
    BY DEF NoneCounted
  <2> QED BY <2>2, <2>3, <2>4, <2>5, <2>6
<1>2. ASSUME NEW t \in Resettable, det'[t], ~det[t]
      PROVE  t \in bad /\ (t \in warn /\ cfg.mail => t \in mailed')
  <2>1. t \in Types
    BY ResettableTypes
  <2>2. t \in bad
    BY <1>2, <2>1 DEF Detects
  <2>3. cfg.mail => Warns(t)
    BY <1>2 DEF NoneCounted, Warns, IsDue
  <2>4. t \in warn /\ Warns(t) => t \in mailed'
    BY DEF Mail
  <2> QED BY <2>2, <2>3, <2>4
<1> QED BY <1>1, <1>2 DEF NoneCounted

\* A stage that has nothing to do with the attributes.
LEMMA OtherDetects ==
    ASSUME CountersFollow, NEW bad, NEW good, Detects(bad, good),
           (bad \cup good) \cap PendingTypes = {},
           UNCHANGED << cfg, smartval, ata_attributes >>, NoneCounted(det', maillog')
    PROVE  CountersFollow'
<1>1. \A t \in PendingTypes : ~det'[t] => ~det[t]
  BY ResettableTypes DEF Detects
<1> QED BY <1>1 DEF CountersFollow, NoneCounted, NoneRemembered

\* What a stage of a check has to show.
StageFollows ==
    /\ CountersFollow'
    /\ cfg.mail => \A t \in Resettable : Reappears(t) => t \in mailed'

LEMMA OtherStage ==
    ASSUME CountersFollow, NEW warn, NEW reset, Mail(warn, reset),
           NEW bad, NEW good, Detects(bad, good),
           \A t \in Resettable : (t \in warn <=> t \in bad) /\ (t \in good => t \in reset),
           (bad \cup good) \cap PendingTypes = {},
           UNCHANGED << cfg, smartval, ata_attributes >>
    PROVE  StageFollows
<1>1. NoneCounted(det', maillog')
  BY MailFollows DEF CountersFollow
<1>2. CountersFollow'
  BY <1>1, OtherDetects
<1>3. \A t \in Resettable :
          det'[t] /\ ~det[t] => t \in bad /\ (t \in warn /\ cfg.mail => t \in mailed')
  BY MailFollows DEF CountersFollow
<1> QED BY <1>2, <1>3 DEF StageFollows, Reappears

\* A stage that detects nothing.
LEMMA QuietStage ==
    ASSUME CountersFollow, UNCHANGED << cfg, smartval, ata_attributes, det, maillog >>
    PROVE  StageFollows
BY DEF StageFollows, CountersFollow, NoneCounted, NoneRemembered, Reappears

LEMMA TestStage ==
    ASSUME CountersFollow, NEW reset, Mail(Test, reset),
           UNCHANGED << cfg, smartval, ata_attributes, det >>
    PROVE  StageFollows
<1>1. \A t \in Resettable : t \notin Test
  BY DEF Test, Resettable, PendingTypes
<1>2. ASSUME NEW t \in Resettable, ~det'[t]
      PROVE  maillog'[t].logged = 0
  <2>1. t \in Types
    BY ResettableTypes
  <2>2. maillog'[t] = IF t \in reset /\ maillog[t].logged # 0 THEN NoMail ELSE maillog[t]
    BY <1>1, <2>1 DEF Mail
  <2>3. NoMail.logged = 0 /\ maillog[t].logged = 0
    BY <1>2 DEF NoMail, CountersFollow, NoneCounted
  <2> QED BY <2>2, <2>3
<1> QED BY <1>2 DEF StageFollows, CountersFollow, NoneCounted, NoneRemembered, Reappears

\* The attributes are read.
LEMMA DataStage ==
    ASSUME DiskInv, CountersFollow, ReadSmartData
    PROVE  StageFollows
<1> DEFINE good == {"FailedReadSmartData"} \cup (Compared \ Pending)
           bad == Pending \cup Baseline
<1>1. Mail(PendingWarnings, good) /\ Detects(bad, good)
  BY DEF ReadSmartData
<1>2. smartval' = disk.pending /\ ata_attributes' = disk.pending /\ cfg' = cfg
  BY DEF ReadSmartData
<1>3. PendingWarnings \subseteq Pending
  BY DEF PendingWarnings
<1>4. NoneCounted(det, maillog) /\ NoneRemembered(det, smartval)
  BY DEF CountersFollow
<1>5. /\ NoneCounted(det', maillog')
      /\ \A t \in Resettable : det'[t] /\ ~det[t] =>
             t \in bad /\ (t \in PendingWarnings /\ cfg.mail => t \in mailed')
  BY <1>1, <1>3, <1>4, MailFollows
<1>6. \A t \in PendingTypes : disk.pending[t] \in Nat
  BY DEF DiskInv, DiskType
<1>7. ASSUME NEW t \in PendingTypes, ~det'[t], cfg.pending[t] = "increase"
      PROVE  disk.pending[t] = 0
  <2>1. t \notin bad
    BY <1>1, <1>7, ResettableTypes DEF Detects
  <2> QED BY <1>7, <2>1 DEF Pending, Baseline
<1>8. ASSUME NEW t \in Resettable, Reappears(t), cfg.mail
      PROVE  t \in mailed'
  <2>1. t \in bad /\ (t \in PendingWarnings => t \in mailed')
    BY <1>5, <1>8 DEF Reappears
  <2>2. t \in PendingTypes
    BY <2>1 DEF Pending, Baseline, Compared, Monitored
  <2>3. t \in Pending
    BY <1>8, <2>1, <2>2 DEF Reappears, Baseline
  <2>4. disk.pending[t] \in Nat \ {0}
    BY <1>6, <2>2, <2>3 DEF Pending
  <2>5. cfg.pending[t] = "increase" => smartval[t] \in {0, -1}
    BY <1>4, <1>8, <2>2 DEF NoneRemembered, Reappears, Absent
  <2>6. t \in PendingWarnings
    BY <2>3, <2>4, <2>5 DEF PendingWarnings
  <2> QED BY <2>1, <2>6
<1>9. CountersFollow'
  BY <1>2, <1>5, <1>7 DEF CountersFollow, NoneCounted, NoneRemembered
<1> QED BY <1>8, <1>9 DEF StageFollows

LEMMA StagesFollow ==
    ASSUME ReappearInv, Check
    PROVE  StageFollows /\ UNCHANGED << cfg, file, detSaved >>
<1>0. DiskInv /\ CountersFollow
  BY DEF ReappearInv
<1>1. UNCHANGED << cfg, file, detSaved >>
  <2>1. CASE SkipPoweredDown \/ OpenFails \/ OpenDevice \/ NoPowerCheck \/ CheckPowerMode
             \/ CheckHealth
    BY <2>1 DEF SkipPoweredDown, OpenFails, OpenDevice, NoPowerCheck, CheckPowerMode,
                CheckHealth
  <2>2. CASE ReadSmartData \/ ReadSmartDataFails \/ NoSmartData \/ CheckSelfTestLog
             \/ SelfTestLogFails \/ NoSelfTestLog \/ CheckErrorLogs
    BY <2>2 DEF ReadSmartData, ReadSmartDataFails, NoSmartData, CheckSelfTestLog,
                SelfTestLogFails, NoSelfTestLog, CheckErrorLogs, ghostVars
  <2> QED BY <2>1, <2>2 DEF Check
<1>2. CASE SkipPoweredDown
  <2>1. Mail(Test, {}) /\ UNCHANGED << cfg, smartval, ata_attributes, det >>
    BY <1>2 DEF SkipPoweredDown
  <2> QED BY <1>0, <1>1, <2>1, TestStage
<1>3. CASE OpenFails
  <2>1. PICK failed :
            /\ failed = IF cfg.removable THEN {} ELSE {"FailedOpenDevice"}
            /\ Mail(Test \cup failed, {}) /\ Detects(failed, {})
            /\ UNCHANGED << cfg, smartval, ata_attributes >>
    BY <1>3 DEF OpenFails
  <2>2. /\ \A t \in Resettable : t \in Test \cup failed <=> t \in failed
        /\ failed \cap PendingTypes = {}
    BY <2>1 DEF Test, Resettable, PendingTypes
  <2> QED BY <1>0, <1>1, <2>1, <2>2, OtherStage
<1>4. CASE OpenDevice
  <2>1. PICK good :
            /\ good = IF cfg.removable THEN {} ELSE {"FailedOpenDevice"}
            /\ Mail(Test, good) /\ Detects({}, good)
            /\ UNCHANGED << cfg, smartval, ata_attributes >>
    BY <1>4 DEF OpenDevice
  <2>2. (\A t \in Resettable : t \notin Test) /\ good \cap PendingTypes = {}
    BY <2>1 DEF Test, Resettable, PendingTypes
  <2> QED BY <1>0, <1>1, <2>1, <2>2, OtherStage
<1>5. CASE NoPowerCheck \/ CheckPowerMode \/ NoSmartData \/ NoSelfTestLog
  <2>1. UNCHANGED << cfg, smartval, ata_attributes, det, maillog >>
    BY <1>5 DEF NoPowerCheck, CheckPowerMode, NoSmartData, NoSelfTestLog, stateVars, ghostVars
  <2> QED BY <1>0, <1>1, <2>1, QuietStage
<1>6. CASE CheckHealth
  <2>1. UNCHANGED << cfg, smartval, ata_attributes >>
    BY <1>6 DEF CheckHealth
  <2>2. CASE "smartcheck" \in mon
    <3>1. PICK bad \in {{"FailedHealthCheck"}, IF disk.failing THEN {"Health"} ELSE {}} :
              Mail(bad, {}) /\ Detects(bad, {"Health", "FailedHealthCheck"})
      BY <1>6, <2>2 DEF CheckHealth
    <3>2. bad \subseteq {"Health", "FailedHealthCheck"}
      BY <3>1
    <3>3. {"Health", "FailedHealthCheck"} \cap Resettable = {}
      BY DEF Resettable, PendingTypes
    <3>4. \A t \in Resettable : t \notin bad /\ t \notin {"Health", "FailedHealthCheck"}
      BY <3>2, <3>3
    <3>5. (bad \cup {"Health", "FailedHealthCheck"}) \cap PendingTypes = {}
      BY <3>2 DEF PendingTypes
    <3> QED BY <1>0, <1>1, <2>1, <3>1, <3>4, <3>5, OtherStage
  <2>3. CASE "smartcheck" \notin mon
    <3>1. UNCHANGED << det, maillog >>
      BY <1>6, <2>3 DEF CheckHealth
    <3> QED BY <1>0, <1>1, <2>1, <3>1, QuietStage
  <2> QED BY <2>2, <2>3
<1>7. CASE ReadSmartData
  BY <1>0, <1>1, <1>7, DataStage
<1>8. CASE ReadSmartDataFails
  <2>1. /\ Mail({"FailedReadSmartData"}, {}) /\ Detects({"FailedReadSmartData"}, {})
        /\ UNCHANGED << cfg, smartval, ata_attributes >>
    BY <1>8 DEF ReadSmartDataFails
  <2>2. {"FailedReadSmartData"} \cap PendingTypes = {}
    BY DEF PendingTypes
  <2> QED BY <1>0, <1>1, <2>1, <2>2, OtherStage
<1>9. CASE CheckSelfTestLog
  <2>1. PICK bad, good :
            /\ bad \subseteq {"SelfTest"}
            /\ good \subseteq {"SelfTest", "FailedReadSmartSelfTestLog"}
            /\ Mail(bad, good) /\ Detects(bad, good)
            /\ UNCHANGED << cfg, smartval, ata_attributes >>
    BY <1>9 DEF CheckSelfTestLog
  <2>2. (bad \cup good) \cap PendingTypes = {}
    BY <2>1 DEF PendingTypes
  <2> QED BY <1>0, <1>1, <2>1, <2>2, OtherStage
<1>10. CASE SelfTestLogFails
  <2>1. /\ Mail({"FailedReadSmartSelfTestLog"}, {})
        /\ Detects({"FailedReadSmartSelfTestLog"}, {})
        /\ UNCHANGED << cfg, smartval, ata_attributes >>
    BY <1>10 DEF SelfTestLogFails
  <2>2. {"FailedReadSmartSelfTestLog"} \cap PendingTypes = {}
    BY DEF PendingTypes
  <2> QED BY <1>0, <1>1, <2>1, <2>2, OtherStage
<1>11. CASE CheckErrorLogs
  <2>1. PICK bad, good :
            /\ bad \subseteq {"FailedReadSmartErrorLog", "ErrorCount"}
            /\ good \subseteq {"FailedReadSmartErrorLog"}
            /\ Mail(bad, {}) /\ Detects(bad, good)
            /\ UNCHANGED << cfg, smartval, ata_attributes >>
    BY <1>11 DEF CheckErrorLogs
  <2>2. \A t \in Resettable : t \notin {"FailedReadSmartErrorLog", "ErrorCount"}
    BY DEF Resettable, PendingTypes
  <2>3. \A t \in Resettable : t \notin bad /\ t \notin good
    BY <2>1, <2>2
  <2>4. (bad \cup good) \cap PendingTypes = {}
    BY <2>3, ResettableTypes
  <2> QED BY <1>0, <1>1, <2>1, <2>3, <2>4, OtherStage
<1> QED BY <1>1, <1>2, <1>3, <1>4, <1>5, <1>6, <1>7, <1>8, <1>9, <1>10, <1>11 DEF Check

LEMMA ReappearInit == Init => ReappearInv
<1> SUFFICES ASSUME Init PROVE ReappearInv
  OBVIOUS
<1>1. \A t \in Types : maillog[t].logged = 0
  BY DEF Init, NoMail
<1>2. \A t \in PendingTypes : smartval[t] = Absent /\ ata_attributes[t] = Absent
  BY DEF Init, NoAttributes
<1>3. ~file.exists
  BY DEF Init, NoFile
<1> QED BY <1>1, <1>2, <1>3, DiskInit, ResettableTypes
        DEF ReappearInv, CountersFollow, FileFollows, NoneCounted, NoneRemembered

LEMMA ReappearNext == ReappearInv /\ [Next]_vars => ReappearInv'
<1> SUFFICES ASSUME ReappearInv, [Next]_vars PROVE ReappearInv'
  OBVIOUS
<1>0. DiskInv /\ DiskInv' /\ CountersFollow /\ FileFollows
  BY DiskSteps DEF ReappearInv
<1>a. ASSUME UNCHANGED << cfg, det, maillog, smartval, ata_attributes >>
      PROVE  CountersFollow'
  BY <1>0, <1>a DEF CountersFollow, NoneCounted, NoneRemembered
<1>b. ASSUME UNCHANGED << cfg, file, detSaved >>
      PROVE  FileFollows'
  BY <1>0, <1>b DEF FileFollows, NoneCounted, NoneRemembered
<1>c. ASSUME UNCHANGED << cfg, det, maillog, ata_attributes >>, cfg.state_file,
             file' = Persistent, detSaved' = det
      PROVE  FileFollows'
  <2>1. /\ Persistent.ata_attributes = ata_attributes
        /\ Persistent.maillog = [t \in Types |-> IF t = "EmailTest" THEN NoMail ELSE maillog[t]]
    BY DEF Persistent
  <2>2. \A t \in Resettable : Persistent.maillog[t] \in {NoMail, maillog[t]}
    BY <2>1, ResettableTypes
  <2>3. NoMail.logged = 0
    BY DEF NoMail
  <2>4. NoneCounted(detSaved, file.maillog)'
    BY <1>0, <1>c, <2>2, <2>3 DEF CountersFollow, NoneCounted
  <2>5. NoneRemembered(detSaved, file.ata_attributes)'
    BY <1>0, <1>c, <2>1 DEF CountersFollow, NoneRemembered
  <2> QED BY <1>c, <2>4, <2>5 DEF FileFollows
<1>1. CASE Check
  <2>1. CountersFollow' /\ UNCHANGED << cfg, file, detSaved >>
    BY <1>1, StagesFollow DEF StageFollows
  <2> QED BY <1>0, <1>b, <2>1 DEF ReappearInv
<1>2. CASE ATADeviceScan
  <2>1. UNCHANGED << cfg, file, detSaved, disk >>
    BY <1>2 DEF ATADeviceScan
  <2>2. CASE file.exists
    <3>1. /\ maillog' = file.maillog /\ smartval' = file.ata_attributes
          /\ ata_attributes' = file.ata_attributes /\ det' = detSaved
      BY <1>2, <2>2 DEF ATADeviceScan, StateFromFile
    <3>2. CountersFollow'
      BY <1>0, <2>1, <2>2, <3>1 DEF CountersFollow, FileFollows, NoneCounted, NoneRemembered
    <3> QED BY <1>0, <1>b, <2>1, <3>2 DEF ReappearInv
  <2>3. CASE ~file.exists
    <3>1. PICK on \in Scanned : StateFromDisk(on)
      BY <1>2, <2>3 DEF ATADeviceScan
    <3>2. det' = [t \in Types |-> t \in PendingTypes /\ cfg.pending[t] = "increase"
                                  /\ disk.pending[t] # 0]
      BY <1>2, <2>3 DEF ATADeviceScan
    <3>3. \A t \in Types : maillog'[t].logged = 0
      BY <3>1 DEF StateFromDisk, NoMail
    <3>4. /\ smartval' \in {disk.pending, NoAttributes} /\ ata_attributes' = NoAttributes
      BY <3>1 DEF StateFromDisk
    <3>5. \A t \in PendingTypes : NoAttributes[t] = Absent
      BY DEF NoAttributes
    <3>6. ASSUME NEW t \in PendingTypes, ~det'[t], cfg.pending[t] = "increase"
          PROVE  smartval'[t] \in {0, Absent} /\ ata_attributes'[t] \in {0, Absent}
      <4>1. disk.pending[t] = 0
        BY <3>2, <3>6, ResettableTypes
      <4> QED BY <3>4, <3>5, <4>1
    <3>7. CountersFollow'
      BY <2>1, <3>3, <3>6, ResettableTypes DEF CountersFollow, NoneCounted, NoneRemembered
    <3> QED BY <1>0, <1>b, <2>1, <3>7 DEF ReappearInv
  <2> QED BY <2>2, <2>3
<1>3. CASE WriteState
  <2>1. /\ UNCHANGED << cfg, det, maillog, smartval, ata_attributes >>
        /\ Saves => cfg.state_file /\ file' = Persistent /\ detSaved' = det
        /\ ~Saves => UNCHANGED << file, detSaved >>
    BY <1>3 DEF WriteState, Saves
  <2> QED BY <1>0, <1>a, <1>b, <1>c, <2>1 DEF ReappearInv
<1>4. CASE Stop
  <2>1. /\ UNCHANGED << cfg, det, maillog, smartval, ata_attributes >>
        /\ file' = IF cfg.state_file THEN Persistent ELSE file
        /\ detSaved' = det
    BY <1>4 DEF Stop, stateVars
  <2>2. ~cfg.state_file => FileFollows'
    BY <1>0, <2>1 DEF FileFollows
  <2> QED BY <1>0, <1>a, <1>c, <2>1, <2>2 DEF ReappearInv
<1>5. CASE Wakeup \/ Crash \/ DiskChanges \/ UNCHANGED vars
  <2>1. UNCHANGED << cfg, det, maillog, smartval, ata_attributes, file, detSaved >>
    BY <1>5 DEF Wakeup, Crash, DiskChanges, vars, stateVars, ghostVars
  <2> QED BY <1>0, <1>a, <1>b, <2>1 DEF ReappearInv
<1> QED BY <1>1, <1>2, <1>3, <1>4, <1>5 DEF Next

\* "If the problem reappears a new warning email is sent immediately" (smartd.conf.5, -M),
\* whatever has happened since, restarts and crashes of smartd included.
THEOREM ReappearingProblemsMailed == Spec => ReappearanceMailed
<1>1. ReappearInv /\ [Next]_vars
      => [cfg.mail /\ pc # "down" => \A t \in Resettable : Reappears(t) => t \in mailed']_vars
  <2> SUFFICES ASSUME ReappearInv, Next, cfg.mail, pc # "down",
                      NEW t \in Resettable, Reappears(t)
               PROVE  t \in mailed'
    BY DEF vars, ghostVars, Reappears
  <2>1. CASE Check
    BY <2>1, StagesFollow DEF StageFollows
  <2>2. ~ATADeviceScan
    BY DEF ATADeviceScan
  <2>3. CASE WriteState \/ Wakeup \/ Stop \/ Crash \/ DiskChanges
    BY <2>3 DEF WriteState, Wakeup, Stop, Crash, DiskChanges, ghostVars, Reappears
  <2> QED BY <2>1, <2>2, <2>3 DEF Next
<1> QED BY <1>1, ReappearInit, ReappearNext, PTL DEF Spec, ReappearanceMailed

=============================================================================
