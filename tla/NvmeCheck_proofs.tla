--------------------------- MODULE NvmeCheck_proofs ---------------------------
(***************************************************************************)
(* Proofs about NvmeCheck, for any settings, disk, logs of any size and    *)
(* any number of checks, restarts and crashes.                             *)
(***************************************************************************)
EXTENDS NvmeCheck, FiniteSetTheorems, SequenceTheorems, WellFoundedInduction, TLAPS

-----------------------------------------------------------------------------
(***************************************************************************)
(* The variables.                                                          *)
(***************************************************************************)
\* A mail counter that has been reset is as new.
Counter == {m \in MailInfo : m.logged = 0 => m = NoMail}

IsState(s) ==
    /\ s = [maillog |-> s.maillog, val |-> s.val, errcount |-> s.errcount,
            selflogcount |-> s.selflogcount, selfloghour |-> s.selfloghour,
            selftest_op |-> s.selftest_op, selftest_started |-> s.selftest_started,
            must_write |-> s.must_write, temp |-> s.temp]
    /\ s.maillog \in [Types -> Counter] /\ s.errcount \in Nat /\ s.temp \in TempType
    /\ s.selftest_op \in BOOLEAN /\ s.selftest_started \in BOOLEAN /\ s.must_write \in BOOLEAN

IsFile(f) ==
    \/ f = NoFile
    \/ /\ f = [exists |-> TRUE, maillog |-> f.maillog, val |-> f.val, errcount |-> f.errcount,
               selflogcount |-> f.selflogcount, selfloghour |-> f.selfloghour,
               tempmin |-> f.tempmin, tempmax |-> f.tempmax]
       /\ f.maillog \in [Types -> Counter] /\ f.errcount \in Nat
       /\ f.tempmin \in Degrees /\ f.tempmax \in Degrees

IsCheck(c) ==
    /\ c = [c |-> c.c, val |-> c.val, logged |-> c.logged, entries |-> c.entries,
            complete |-> c.complete, testtype |-> c.testtype, running |-> c.running,
            new |-> c.new, dropped |-> c.dropped, hour |-> c.hour, hours |-> c.hours,
            unsaid |-> c.unsaid]
    /\ c.c \in Degrees /\ c.logged \in SUBSET Values /\ c.entries \in Nat
    /\ c.complete \in BOOLEAN /\ c.unsaid \in BOOLEAN

IsHistory(g) ==
    /\ g = [told |-> g.told, hi |-> g.hi, late |-> g.late, first |-> g.first, warm |-> g.warm,
            base |-> g.base, reported |-> g.reported, dropped |-> g.dropped,
            twice |-> g.twice, hours |-> g.hours, hot |-> g.hot, crashed |-> g.crashed,
            silent |-> g.silent, blind |-> g.blind]
    /\ g.hi \in Degrees /\ g.late \in Byte /\ g.first \in Nat \cup {-1}
    /\ g.warm \in BOOLEAN /\ g.twice \in BOOLEAN /\ g.hot \in BOOLEAN
    /\ g.crashed \in BOOLEAN /\ g.silent \in BOOLEAN /\ g.blind \in BOOLEAN
    /\ g.base \in Nat

IsDisk(d) ==
    /\ d = [gone |-> d.gone, warning |-> d.warning, val |-> d.val, kelvin |-> d.kelvin,
            entries |-> d.entries, errors |-> d.errors, running |-> d.running,
            tests |-> d.tests]
    /\ d.kelvin \in Nat /\ d.entries \in Nat
    /\ d.running \in {"no", "smartd", "other"}

Stages == {"open", "smart", "selftest", "errors", "start", "write", "wait"}
TypeInv ==
    /\ cfg \in Configs /\ pc \in Stages \cup {"down"} /\ mon \in SUBSET Features
    /\ lim \in {NoLimits, cfg.lim} /\ always \in BOOLEAN
    /\ IsState(st) /\ IsCheck(chk) /\ IsFile(file) /\ IsDisk(disk) /\ IsHistory(h)
    /\ now \in Nat

\* Before the SMART/Health log is read a check has found nothing; without smartd
\* there is no state.
Fresh == /\ pc \in {"open", "smart", "down"} => chk = NoCheck
         /\ pc = "down" => st = NewState /\ mon = {}
         /\ pc \in {"selftest", "errors"} => chk.new = {} /\ chk.dropped = {} /\ ~chk.complete
         /\ pc = "start" => ~chk.complete
         /\ pc = "selftest" => ~chk.unsaid
         /\ file.exists => cfg.state_file

-----------------------------------------------------------------------------
(***************************************************************************)
(* The invariants.                                                         *)
(***************************************************************************)
\* What must not get lost is in the file, or will be there at the end of the cycle.
AgreesWithFile ==
    /\ file.exists
    /\ \A type \in ImportantTypes : file.maillog[type] = st.maillog[type]
    /\ file.tempmin = st.temp.tempmin /\ file.tempmax = st.temp.tempmax
SavedInv ==
    pc # "down" /\ cfg.state_file /\ (pc = "wait" \/ (~always /\ ~st.must_write))
        => AgreesWithFile

\* The values that are told do not depend on the start of smartd.
Watched == (IF "prefail" \in cfg.features THEN {"spare"} ELSE {}) \cup
           (IF "usage" \in cfg.features THEN {"used", "media"} ELSE {})
ToldAfter(v) == IF v \in chk.logged THEN chk.val[v] ELSE h.told[v]

\* What smartd compares with is what the log has told; a check that tells something
\* is saved.
WearInv ==
    /\ pc # "down" => Monitored = Watched
    /\ file.exists => \A v \in Watched : file.val[v] = h.told[v]
    /\ pc \in {"open", "smart", "write", "wait"} => \A v \in Watched : st.val[v] = ToldAfter(v)
    /\ pc \in {"selftest", "errors", "start"} => \A v \in Watched : chk.val[v] = ToldAfter(v)
    /\ pc = "wait" => \A v \in Watched : h.told[v] = ToldAfter(v)
    /\ chk.complete /\ pc \in {"write", "wait"} => st.val = chk.val
    /\ chk.logged # {} => st.must_write \/ pc = "wait"

\* Whether the disk has overheated, with this check.
HotAfter ==
    IF chk.c = 0 \/ lim.crit = 0 THEN h.hot
    ELSE chk.c >= lim.crit \/ (h.hot /\ chk.c >= (IF lim.info # 0 THEN lim.info
                                                  ELSE lim.crit - 5))
Mails(log) == log["Temperature"].logged
HotInv ==
    ~LimitWraps =>
        /\ pc # "down" => /\ Mails(st.maillog) > 0 => HotAfter
                          /\ HotAfter => Mails(st.maillog) > 0 \/ h.crashed
                          /\ file.exists /\ Mails(file.maillog) > 0 =>
                                 Mails(st.maillog) > 0 \/ st.must_write
        /\ pc = "wait" => h.hot = HotAfter
        /\ file.exists => /\ Mails(file.maillog) > 0 => h.hot
                          /\ pc = "down" /\ h.hot => Mails(file.maillog) > 0 \/ h.crashed
                          /\ pc # "down" /\ Mails(file.maillog) > 0 => HotAfter \/ st.must_write

\* The entries of the error log have increasing numbers.
DiskInv ==
    /\ disk.errors \in Seq([n: Nat, kind: ErrorKinds])
    /\ \A i \in DOMAIN disk.errors : disk.errors[i].n \in 1 .. disk.entries
    /\ \A i, j \in DOMAIN disk.errors : disk.errors[i].n = disk.errors[j].n => i = j

\* Errors up to `count' are not forgotten, and only they were reported.
Covered(count, reported, dropped) ==
    /\ count <= disk.entries
    /\ \A i \in DOMAIN disk.errors :
           LET e == disk.errors[i]
           IN  h.base < e.n /\ e.n <= count /\ e.kind = "device" => e.n \in reported \cup dropped
    /\ reported \subseteq 0 .. count
CountInv ==
    /\ ~h.twice
    /\ chk.entries <= disk.entries
    /\ file.exists => Covered(file.errcount, h.reported, h.dropped)
    /\ pc # "down" => Covered(st.errcount, h.reported \cup chk.new, h.dropped \cup chk.dropped)
    /\ pc \in Stages \ {"wait"} => chk.new \cap h.reported = {}
    /\ pc = "wait" => chk.new \subseteq h.reported /\ chk.dropped \subseteq h.dropped
    /\ chk.new # {} => st.must_write \/ pc = "wait"

\* The hour of the newest failed self-test is a reported one.
HourInv ==
    /\ 0 \in h.hours
    /\ file.exists => file.selfloghour \in h.hours
    /\ pc # "down" => st.selfloghour \in h.hours \cup chk.hours
    /\ chk.hour \in h.hours \cup chk.hours
    /\ pc \in {"wait", "down"} => chk.hours \subseteq h.hours
    /\ pc = "selftest" => chk.hours = {}

\* A test that smartd has started and whose end is not yet logged is remembered.
ResultInv ==
    "selfteststs" \in mon =>
        /\ ~h.blind /\ (h.silent \/ disk.running = "smartd") =>
               st.selftest_op \/ st.selftest_started
        /\ chk.unsaid => h.blind

\* Where the tracking of the minimum stands at a time after the reading at `first'.
Tracks(t, first, warm, time) ==
    /\ first = -1 <=> t.temperature = 0
    /\ first = -1 => t.delay = 0
    /\ first # -1 => /\ first <= time
                     /\ \/ t.delay = first + MinDelay
                        \/ /\ t.delay = 0 /\ t.tempmin # 0
                           /\ warm \/ time >= first + MinDelay

\* The extremes, and where the tracking of the minimum stands.
LateAfter == IF chk.c # 0 /\ h.first # -1 /\ now >= h.first + MinDelay
             THEN Lower(h.late, chk.c) ELSE h.late
TrueMin(tempmin, late) == late = Unset \/ (tempmin # 0 /\ tempmin <= late)
TempInv ==
    /\ pc # "down" => /\ st.temp.tempmax = Higher(h.hi, chk.c)
                      /\ TrueMin(st.temp.tempmin, LateAfter)
                      /\ Tracks(st.temp, h.first, h.warm, now)
    /\ pc = "wait" => h.hi = Higher(h.hi, chk.c) /\ h.late = LateAfter
    /\ file.exists => file.tempmax = h.hi /\ TrueMin(file.tempmin, h.late)

-----------------------------------------------------------------------------
(***************************************************************************)
(* Mail counters.                                                          *)
(***************************************************************************)
LEMMA WarnedLemma ==
    ASSUME NEW m \in Counter, NEW type, now \in Nat
    PROVE  Warned(m, type) \in Counter /\ Warned(m, type).logged > 0
<1>1. m \in MailInfo
  BY DEF Counter
<1>2. Sent(m, now) \in Counter /\ Sent(m, now).logged > 0
  BY <1>1 DEF Sent, Counter, MailInfo
<1>3. m.logged > 0 \/ IsDue(m, cfg.freq, type, now)
  BY <1>1 DEF IsDue, MailInfo
<1> QED BY <1>2, <1>3 DEF Warned

LEMMA WarnedTimesLemma ==
    ASSUME NEW m \in Counter, NEW type, NEW n, now \in Nat
    PROVE  WarnedTimes(m, type, n) \in Counter /\ WarnedTimes(m, type, n).logged > 0
<1> DEFINE once == Warned(m, type)
           twice == Warned(once, type)
           thrice == Warned(twice, type)
<1>1. once \in Counter /\ once.logged > 0
  BY WarnedLemma
<1>2. twice \in Counter /\ twice.logged > 0
  BY <1>1, WarnedLemma
<1>3. thrice \in Counter /\ thrice.logged > 0
  BY <1>2, WarnedLemma
<1>4. WarnedTimes(m, type, n) \in {once, twice, thrice}
  BY DEF WarnedTimes
<1> HIDE DEF once, twice, thrice
<1> QED BY <1>1, <1>2, <1>3, <1>4

\* What a check does to the counters: reset, count, or nothing.
LEMMA MailLemma ==
    ASSUME NEW bad, NEW good, IsState(st), now \in Nat
    PROVE  /\ Mail(bad, good) \in [Types -> Counter]
           /\ \A type \in Types :
                  /\ type \notin good /\ type \notin DOMAIN bad =>
                         Mail(bad, good)[type] = st.maillog[type]
                  /\ type \in good => Mail(bad, good)[type] = NoMail
                  /\ type \notin good /\ type \in DOMAIN bad =>
                         Mail(bad, good)[type].logged > 0
<1>1. NoMail \in Counter
  BY DEF NoMail, Counter, MailInfo
<1>2. st.maillog \in [Types -> Counter]
  BY DEF IsState
<1>3. \A type \in Types : /\ WarnedTimes(st.maillog[type], type, bad[type]) \in Counter
                          /\ WarnedTimes(st.maillog[type], type, bad[type]).logged > 0
  BY <1>2, WarnedTimesLemma
<1> QED BY <1>1, <1>2, <1>3 DEF Mail

LEMMA OnceLemma == \A types : DOMAIN Once(types) = types
BY DEF Once

LEMMA ResetLemma ==
    ASSUME NEW good \in SUBSET Types, IsState(st), ~WasReset(good)
    PROVE  \A type \in good : st.maillog[type] = NoMail
<1>1. \A type \in good : st.maillog[type] \in Counter
  BY DEF IsState
<1> QED BY <1>1 DEF WasReset, Counter

-----------------------------------------------------------------------------
(***************************************************************************)
(* What the steps do.                                                      *)
(***************************************************************************)
\* The fields of the state besides the mail counters, must_write and those of `parts'.
Kept(parts) ==
    /\ "val" \notin parts => st'.val = st.val
    /\ "errcount" \notin parts => st'.errcount = st.errcount
    /\ "selftest" \notin parts => /\ st'.selflogcount = st.selflogcount
                                  /\ st'.selfloghour = st.selfloghour
                                  /\ st'.selftest_op = st.selftest_op
    /\ "started" \notin parts => st'.selftest_started = st.selftest_started
    /\ "temp" \notin parts => st'.temp = st.temp
MailsKept(types) == \A type \in Types \ types : st'.maillog[type] = st.maillog[type]

\* The device is opened, or one of the first two commands fails.
Opens == OpenFails \/ OpenDevice \/ ReadSmartLogFails
LEMMA OpenEffects ==
    ASSUME TypeInv, Opens
    PROVE  /\ << pc, pc' >> \in {<< "open", "smart" >>, << "open", "write" >>,
                                 << "smart", "write" >>}
           /\ UNCHANGED << cfg, mon, lim, always, chk, file, disk, now, starts, h >>
           /\ IsState(st)' /\ Kept({}) /\ (st.must_write => st'.must_write)
           /\ MailsKept({"FailedOpenDevice", "FailedReadSmartData"})
           /\ ~st'.must_write => MailsKept({"FailedOpenDevice"})
<1>1. IsState(st) /\ now \in Nat
  BY DEF TypeInv
<1> DEFINE fails1 == Mail(Once({"FailedOpenDevice"}), {})
           opens == Mail(<< >>, {"FailedOpenDevice"})
           fails2 == Mail(Once({"FailedReadSmartData"}), {})
<1>2. /\ fails1 \in [Types -> Counter]
      /\ \A type \in Types \ {"FailedOpenDevice"} : fails1[type] = st.maillog[type]
  BY <1>1, MailLemma, OnceLemma
<1>3. /\ opens \in [Types -> Counter]
      /\ \A type \in Types \ {"FailedOpenDevice"} : opens[type] = st.maillog[type]
  BY <1>1, MailLemma
<1>4. /\ fails2 \in [Types -> Counter]
      /\ \A type \in Types \ {"FailedReadSmartData"} : fails2[type] = st.maillog[type]
  BY <1>1, MailLemma, OnceLemma
<1>5. WasReset({"FailedOpenDevice"}) \in BOOLEAN
  BY DEF WasReset
<1> HIDE DEF fails1, opens, fails2
<1>6. CASE OpenFails
  <2>1. st' = [st EXCEPT !.maillog = fails1]
    BY <1>6 DEF OpenFails, fails1
  <2> QED BY <1>1, <1>2, <1>6, <2>1 DEF OpenFails, IsState, Kept, MailsKept
<1>7. CASE OpenDevice
  <2>1. PICK b \in BOOLEAN : st' = [st EXCEPT !.maillog = opens, !.must_write = @ \/ b]
    BY <1>5, <1>7 DEF OpenDevice, opens
  <2> QED BY <1>1, <1>3, <1>7, <2>1 DEF OpenDevice, IsState, Kept, MailsKept, bounds
<1>8. CASE ReadSmartLogFails
  <2>1. st' = [st EXCEPT !.maillog = fails2, !.must_write = TRUE]
    BY <1>8 DEF ReadSmartLogFails, fails2
  <2> QED BY <1>1, <1>4, <1>8, <2>1 DEF ReadSmartLogFails, IsState, Kept, MailsKept
<1> QED BY <1>6, <1>7, <1>8 DEF Opens

LEMMA TemperatureLemma ==
    ASSUME NEW limits, NEW t \in TempType, NEW c \in 1 .. 255, NEW time \in Nat
    PROVE  CheckTemperature(limits, t, c, time) \in TempType
<1>1. CASE ~IsReading(c)
  BY <1>1 DEF CheckTemperature
<1>2. CASE IsReading(c)
  <2>1. c \in Degrees /\ time + MinDelay \in Nat
    BY <1>2, MinDelayAssumption DEF IsReading, Degrees
  <2>2. t.temperature \in Degrees /\ t.tempmin \in Degrees /\ t.tempmax \in Degrees
        /\ t.delay \in Nat
    BY DEF TempType
  <2>3. First(t, c, time) \in TempType
    BY <2>1, <2>2 DEF First, TempType, Higher
  <2>4. Delay(t, c, time) \in Nat
    BY <2>2 DEF Delay
  <2>5. MinAfter(t, c, time) \in Degrees
    <3>1. MinBefore(t, c, time) = Unset => Delay(t, c, time) = 0
      BY <2>2 DEF MinBefore, Delay, Unset, Degrees
    <3>2. MinBefore(t, c, time) \in Degrees \cup {Unset}
      BY <2>2 DEF MinBefore
    <3> QED BY <2>1, <3>1, <3>2 DEF MinAfter, Lower, Degrees, Unset
  <2>6. Higher(t.tempmax, c) \in Degrees
    BY <2>1, <2>2 DEF Higher
  <2>7. Later(limits, t, c, time) \in TempType
    BY <2>1, <2>2, <2>4, <2>5, <2>6 DEF Later, TempType
  <2> QED BY <2>3, <2>7 DEF CheckTemperature
<1> QED BY <1>1, <1>2

LEMMA CelsiusLemma == \A k \in Nat : Celsius(k) \in 1 .. 255
BY DEF Celsius

\* A temperature that changes neither extreme need not be saved.
LEMMA UnsavedTemperature ==
    ASSUME NEW limits, NEW t \in TempType, NEW c \in 1 .. 255, NEW time \in Nat,
           ~SavesTemperature(limits, t, c, time)
    PROVE  /\ CheckTemperature(limits, t, c, time).tempmin = t.tempmin
           /\ CheckTemperature(limits, t, c, time).tempmax = t.tempmax
<1>1. CASE ~IsReading(c)
  BY <1>1 DEF CheckTemperature
<1>2. CASE IsReading(c)
  <2>1. t.temperature \in Degrees /\ t.tempmin \in Degrees /\ t.tempmax \in Degrees
        /\ t.delay \in Nat /\ c \in Degrees
    BY <1>2 DEF TempType, IsReading, Degrees
  <2>2. ~NewMax(t, c) /\ (t.temperature # 0 => ~NewMin(t, c, time))
    BY <1>2 DEF SavesTemperature
  <2>3. Higher(t.tempmax, c) = t.tempmax
    BY <2>1, <2>2 DEF NewMax, Higher, Degrees
  <2>4. CASE t.temperature = 0
    BY <1>2, <2>3, <2>4 DEF CheckTemperature, First, TempType
  <2>5. CASE t.temperature # 0
    <3>1. MinAfter(t, c, time) = MinBefore(t, c, time)
      BY <2>2, <2>5 DEF NewMin
    <3>2. MinBefore(t, c, time) # Unset
      BY <2>1, <3>1 DEF MinAfter, MinBefore, Delay, Lower, Unset, Degrees
    <3>3. MinBefore(t, c, time) = t.tempmin
      BY <3>2 DEF MinBefore
    <3> QED BY <1>2, <2>3, <2>5, <3>1, <3>3 DEF CheckTemperature, Later
  <2> QED BY <2>4, <2>5
<1> QED BY <1>1, <1>2

LEMMA LimitsLemma == TypeInv => lim \in LimitType
BY ConfigsAssumption DEF TypeInv, ConfigType, NoLimits, LimitType, Byte

Reading == Celsius(disk.kelvin)
Measured == IF Monitors(lim) /\ IsReading(Reading) THEN Reading ELSE 0
LEMMA SmartEffects ==
    ASSUME TypeInv, CheckSmartLog
    PROVE  /\ pc = "smart" /\ pc' = "selftest"
           /\ UNCHANGED << cfg, mon, lim, always, file, disk, now, starts >>
           /\ IsState(st)' /\ Kept({"temp"}) /\ (st.must_write => st'.must_write)
           /\ st'.temp = IF Monitors(lim) THEN CheckTemperature(lim, st.temp, Reading, now)
                                          ELSE st.temp
           /\ Monitors(lim) /\ SavesTemperature(lim, st.temp, Reading, now) => st'.must_write
           /\ Logged # {} => st'.must_write
           /\ MailsKept({"Health", "Usage", "Temperature"})
           /\ ~st'.must_write => MailsKept({"Temperature"})
           /\ IsCritical(lim, Reading) => st'.maillog["Temperature"].logged > 0
           /\ IsNormal(lim, Reading) =>
                  /\ st'.maillog["Temperature"] = NoMail
                  /\ st.maillog["Temperature"] # NoMail => st'.must_write
           /\ ~IsCritical(lim, Reading) /\ ~IsNormal(lim, Reading) =>
                  st'.maillog["Temperature"] = st.maillog["Temperature"]
           /\ chk' = [chk EXCEPT !.c = Measured, !.val = disk.val, !.entries = disk.entries,
                                 !.logged = Logged]
           /\ h' = IF Measured = 0 THEN h
                   ELSE [h EXCEPT !.first = IF @ = -1 THEN now ELSE @,
                                  !.warm = @ \/ IsWarm(Measured)]
<1> DEFINE warning == disk.warning /\ "smartcheck" \in mon
           usage == Cardinality({v \in Logged : IsBad(v)})
           mails == (IF warning THEN {"Health"} ELSE {}) \cup
                    (IF usage # 0 THEN {"Usage"} ELSE {}) \cup
                    (IF IsCritical(lim, Reading) THEN {"Temperature"} ELSE {})
           bad == [type \in mails |-> IF type = "Usage" THEN usage ELSE 1]
           good == IF IsNormal(lim, Reading) THEN {"Temperature"} ELSE {}
           log == Mail(bad, good)
           temp == IF Monitors(lim) THEN CheckTemperature(lim, st.temp, Reading, now)
                                    ELSE st.temp
           save == \/ MustWrite(warning)
                   \/ WasReset(good)
                   \/ Monitors(lim) /\ SavesTemperature(lim, st.temp, Reading, now)
<1>1. IsState(st) /\ now \in Nat /\ disk.kelvin \in Nat /\ st.temp \in TempType
  BY DEF TypeInv, IsDisk, IsState
<1>2. Reading \in 1 .. 255
  BY <1>1, CelsiusLemma DEF Reading
<1>3. temp \in TempType
  BY <1>1, <1>2, TemperatureLemma
<1>4. DOMAIN bad = mails
  OBVIOUS
<1>5. /\ log \in [Types -> Counter]
      /\ \A type \in Types :
             /\ type \notin good /\ type \notin DOMAIN bad => log[type] = st.maillog[type]
             /\ type \in good => log[type] = NoMail
             /\ type \notin good /\ type \in DOMAIN bad => log[type].logged > 0
  <2> HIDE DEF bad, good, mails
  <2> QED BY <1>1, MailLemma
<1>6. save \in BOOLEAN
  BY DEF WasReset, MustWrite, SavesTemperature, NewMax, NewMin, IsReading
<1>7. /\ pc = "smart" /\ pc' = "selftest"
      /\ UNCHANGED << cfg, mon, lim, always, file, disk, now, starts >>
      /\ st' = [st EXCEPT !.maillog = log, !.temp = temp, !.must_write = @ \/ save]
  BY DEF CheckSmartLog, Reading, bounds
<1>8. /\ IsState(st)' /\ Kept({"temp"}) /\ (st.must_write => st'.must_write)
      /\ st'.temp = temp /\ (save => st'.must_write) /\ st'.maillog = log
  <2> HIDE DEF log, temp, save
  <2> QED BY <1>1, <1>3, <1>5, <1>6, <1>7 DEF IsState, Kept
<1>9. Logged # {} => save
  BY DEF MustWrite
<1>10. ~save => ~warning /\ usage = 0
  <2>1. ~save => ~warning /\ Logged = {}
    BY DEF MustWrite
  <2>2. Logged = {} => {v \in Logged : IsBad(v)} = {}
    OBVIOUS
  <2> QED BY <2>1, <2>2, FS_EmptySet
<1>11. MailsKept({"Health", "Usage", "Temperature"}) /\ (~save => MailsKept({"Temperature"}))
  BY <1>4, <1>5, <1>8, <1>10 DEF MailsKept
<1>12. ~(IsCritical(lim, Reading) /\ IsNormal(lim, Reading))
  <2>1. lim.crit \in Nat
    BY LimitsLemma DEF LimitType, Byte
  <2> QED BY <1>2, <2>1 DEF IsCritical, IsNormal
<1>13. /\ IsCritical(lim, Reading) => log["Temperature"].logged > 0
       /\ IsNormal(lim, Reading) => log["Temperature"] = NoMail
       /\ ~IsCritical(lim, Reading) /\ ~IsNormal(lim, Reading) =>
              log["Temperature"] = st.maillog["Temperature"]
  BY <1>4, <1>5, <1>12 DEF Types
<1>14. IsNormal(lim, Reading) /\ st.maillog["Temperature"] # NoMail => save
  BY <1>1, ResetLemma DEF Types
<1>15. chk' = [chk EXCEPT !.c = Measured, !.val = disk.val, !.entries = disk.entries,
                          !.logged = Logged]
  BY DEF CheckSmartLog, Reading, Measured
<1>16. h' = IF Measured = 0 THEN h
            ELSE [h EXCEPT !.first = IF @ = -1 THEN now ELSE @,
                           !.warm = @ \/ IsWarm(Measured)]
  <2>1. Measured = 0 <=> ~Monitors(lim) \/ ~IsReading(Reading)
    BY <1>2 DEF Measured
  <2>2. Measured # 0 => Measured = Reading
    BY DEF Measured
  <2> QED BY <2>1, <2>2 DEF CheckSmartLog, Reading
<1> HIDE DEF log, temp, save
<1>17. ~st'.must_write => MailsKept({"Temperature"})
  BY <1>8, <1>11
<1>18. /\ Monitors(lim) /\ SavesTemperature(lim, st.temp, Reading, now) => st'.must_write
       /\ Logged # {} => st'.must_write
  BY <1>8, <1>9 DEF save
<1> QED BY <1>7, <1>8, <1>11, <1>13, <1>14, <1>15, <1>16, <1>17, <1>18 DEF temp

\* The fields of chk and h besides `parts'.
CheckKept(parts) ==
    \A f \in {"c", "val", "logged", "entries", "complete", "testtype", "running", "new",
              "dropped", "hour", "hours", "unsaid"} \ parts : chk'[f] = chk[f]
HistoryKept(parts) ==
    \A f \in {"told", "hi", "late", "first", "warm", "base", "reported", "dropped", "twice",
              "hours", "hot", "crashed", "silent", "blind"} \ parts : h'[f] = h[f]

ReadsSelfTests == SelfTestLogNotRead \/ ReadSelfTestLogFails \/ ReadSelfTestLog
SelfTestFields == {"testtype", "running", "unsaid", "hour", "hours"}
LEMMA SelfTestEffects ==
    ASSUME TypeInv, ReadsSelfTests
    PROVE  /\ pc = "selftest" /\ pc' = "errors"
           /\ UNCHANGED << cfg, mon, lim, always, file, disk, now, starts >>
           /\ IsState(st)' /\ Kept({"selftest", "started"}) /\ (st.must_write => st'.must_write)
           /\ MailsKept({"FailedReadSmartSelfTestLog", "SelfTest"})
           /\ ~st'.must_write => MailsKept({"FailedReadSmartSelfTestLog"})
           /\ IsCheck(chk)' /\ CheckKept(SelfTestFields)
           /\ IsHistory(h)' /\ HistoryKept({"silent", "blind"})
<1>1. IsState(st) /\ IsCheck(chk) /\ IsHistory(h) /\ now \in Nat
  BY DEF TypeInv
<1>2. CASE SelfTestLogNotRead
  BY <1>1, <1>2 DEF SelfTestLogNotRead, IsState, Kept, MailsKept, CheckKept, HistoryKept, bounds
<1>3. CASE ReadSelfTestLogFails
  <2> DEFINE log == Mail(Once({"FailedReadSmartSelfTestLog"}), {})
  <2>1. /\ log \in [Types -> Counter]
        /\ \A type \in Types \ {"FailedReadSmartSelfTestLog"} : log[type] = st.maillog[type]
    BY <1>1, MailLemma, OnceLemma
  <2>2. PICK due \in BOOLEAN :
            st' = [st EXCEPT !.maillog = log, !.must_write = @ \/ due,
                             !.selftest_started = FALSE]
    BY <1>3 DEF ReadSelfTestLogFails, Due
  <2> HIDE DEF log
  <2>3. /\ IsState(st)' /\ Kept({"selftest", "started"}) /\ (st.must_write => st'.must_write)
        /\ MailsKept({"FailedReadSmartSelfTestLog"})
    BY <1>1, <2>1, <2>2 DEF IsState, Kept, MailsKept
  <2>4. /\ pc = "selftest" /\ pc' = "errors"
        /\ UNCHANGED << cfg, mon, lim, always, chk, file, disk, now, starts >>
        /\ h' = [h EXCEPT !.blind = TRUE]
    BY <1>3 DEF ReadSelfTestLogFails
  <2>5. IsHistory(h)' /\ HistoryKept({"silent", "blind"})
    BY <1>1, <2>4 DEF IsHistory, HistoryKept
  <2>6. IsCheck(chk)' /\ CheckKept(SelfTestFields)
    BY <1>1, <2>4 DEF IsCheck, CheckKept
  <2> QED BY <2>3, <2>4, <2>5, <2>6 DEF MailsKept
<1>4. CASE ReadSelfTestLog
  <2> DEFINE counts == "selftest" \in mon
             good == {"FailedReadSmartSelfTestLog"} \cup
                     (IF counts /\ NoErrors THEN {"SelfTest"} ELSE {})
             bad == IF counts /\ Reports THEN Once({"SelfTest"}) ELSE << >>
             log == Mail(bad, good)
  <2>1. PICK due \in BOOLEAN :
            /\ st' = [st EXCEPT
                    !.maillog = log,
                    !.must_write = @ \/ due \/ bad # << >> \/ WasReset(good),
                    !.selftest_op = IF "selfteststs" \in mon /\ LogsStatus
                                    THEN disk.running # "no" ELSE @,
                    !.selflogcount = IF counts THEN Cardinality(Failed) ELSE @,
                    !.selfloghour = IF counts THEN Hour(Failed) ELSE @,
                    !.selftest_started = FALSE]
            /\ chk' = [chk EXCEPT
                    !.testtype = due, !.running = disk.running # "no",
                    !.unsaid = h'.silent /\ disk.running = "no",
                    !.hour = IF counts THEN Hour(Failed) ELSE 0,
                    !.hours = IF bad # << >> THEN {Hour(Failed)} ELSE {}]
    BY <1>4 DEF ReadSelfTestLog, Due
  <2>2. PICK untold \in BOOLEAN : h' = [h EXCEPT !.silent = @ /\ untold]
    <3>1. (~("selfteststs" \in mon /\ LogsStatus /\ disk.running = "no")) \in BOOLEAN
      BY Zenon
    <3> QED BY <1>4, <3>1 DEF ReadSelfTestLog
  <2>3. /\ pc = "selftest" /\ pc' = "errors"
        /\ UNCHANGED << cfg, mon, lim, always, file, disk, now, starts >>
    BY <1>4 DEF ReadSelfTestLog, bounds
  <2>4. IsHistory(h)' /\ HistoryKept({"silent", "blind"})
    BY <1>1, <2>2 DEF IsHistory, HistoryKept
  <2>5. IsCheck(chk)' /\ CheckKept(SelfTestFields)
    <3>1. h'.silent \in BOOLEAN
      BY <2>4 DEF IsHistory
    <3>2. PICK due2, hour2, hours2 :
              chk' = [chk EXCEPT
                    !.testtype = due2, !.running = disk.running # "no",
                    !.unsaid = h'.silent /\ disk.running = "no",
                    !.hour = hour2, !.hours = hours2]
      BY <2>1, Zenon
    <3> QED BY <1>1, <3>1, <3>2 DEF IsCheck, CheckKept, SelfTestFields
  <2>6. /\ log \in [Types -> Counter]
        /\ \A type \in Types :
               /\ type \notin good /\ type \notin DOMAIN bad => log[type] = st.maillog[type]
               /\ type \in good => log[type] = NoMail
    <3> HIDE DEF bad, good
    <3> QED BY <1>1, MailLemma
  <2>7. \A type \in Types \ {"FailedReadSmartSelfTestLog", "SelfTest"} :
            log[type] = st.maillog[type]
    <3>1. DOMAIN bad \subseteq {"SelfTest"}
      BY OnceLemma
    <3>2. good \subseteq {"FailedReadSmartSelfTestLog", "SelfTest"}
      OBVIOUS
    <3> HIDE DEF log, bad, good
    <3> QED BY <2>6, <3>1, <3>2
  <2>8. bad = << >> /\ ~WasReset(good) => log["SelfTest"] = st.maillog["SelfTest"]
    <3>1. good \in SUBSET Types /\ "SelfTest" \in Types
      BY DEF Types
    <3>2. ~WasReset(good) => \A type \in good : st.maillog[type] = NoMail
      <4> HIDE DEF good
      <4> QED BY <1>1, <3>1, ResetLemma
    <3>3. bad = << >> => "SelfTest" \notin DOMAIN bad
      OBVIOUS
    <3> QED BY <2>6, <3>1, <3>2, <3>3
  <2>9. PICK op, count, hour, b :
            /\ b \in BOOLEAN
            /\ st' = [st EXCEPT !.maillog = log, !.must_write = @ \/ b,
                                !.selftest_op = op, !.selflogcount = count,
                                !.selfloghour = hour, !.selftest_started = FALSE]
            /\ op \in BOOLEAN
            /\ ~b => bad = << >> /\ ~WasReset(good)
    <3> DEFINE save == due \/ bad # << >> \/ WasReset(good)
               newop == IF "selfteststs" \in mon /\ LogsStatus
                        THEN disk.running # "no" ELSE st.selftest_op
               newcount == IF counts THEN Cardinality(Failed) ELSE st.selflogcount
               newhour == IF counts THEN Hour(Failed) ELSE st.selfloghour
    <3>1. save \in BOOLEAN
      BY Zenon
    <3>2. newop \in BOOLEAN
      <4>1. st.selftest_op \in BOOLEAN
        BY <1>1 DEF IsState
      <4>2. CASE "selfteststs" \in mon /\ LogsStatus
        BY <4>2
      <4>3. CASE ~("selfteststs" \in mon /\ LogsStatus)
        BY <4>1, <4>3
      <4> QED BY <4>2, <4>3
    <3>3. st' = [st EXCEPT !.maillog = log, !.must_write = @ \/ save,
                           !.selftest_op = newop, !.selflogcount = newcount,
                           !.selfloghour = newhour, !.selftest_started = FALSE]
      BY <2>1, Zenon
    <3>4. ~save => bad = << >> /\ ~WasReset(good)
      BY Zenon
    <3> HIDE DEF log, good, bad, save, newop, newcount, newhour
    <3> QED BY <3>1, <3>2, <3>3, <3>4
  <2> HIDE DEF log, bad, good
  <2>10. IsState(st)' /\ Kept({"selftest", "started"}) /\ (st.must_write => st'.must_write)
    BY <1>1, <2>6, <2>9 DEF IsState, Kept
  <2>11. /\ MailsKept({"FailedReadSmartSelfTestLog", "SelfTest"})
         /\ ~st'.must_write => MailsKept({"FailedReadSmartSelfTestLog"})
    <3>1. st'.maillog = log /\ (b => st'.must_write)
      BY <1>1, <2>9 DEF IsState
    <3> QED BY <2>7, <2>8, <2>9, <3>1 DEF MailsKept
  <2> QED BY <2>3, <2>4, <2>5, <2>10, <2>11
<1> QED BY <1>2, <1>3, <1>4 DEF ReadsSelfTests

-----------------------------------------------------------------------------
(***************************************************************************)
(* The logs of the disk.                                                   *)
(***************************************************************************)
\* A nonempty set of numbers with a bound has a highest one: the least distance
\* from the bound, first by any well-founded relation that contains "<".
LEMMA LeastFromRelation ==
    ASSUME NEW R, IsWellFoundedOn(R, Nat), \A x, y \in Nat : x < y => <<x, y>> \in R,
           NEW S, S \subseteq Nat, S # {}
    PROVE  \E x \in S : \A y \in S : x <= y
<1>1. PICK x \in S : \A y \in S : ~(<<y, x>> \in R)
  BY WFMin, ZenonT(120)
<1>2. ASSUME NEW y \in S PROVE x <= y
  <2>1. x \in Nat /\ y \in Nat
    OBVIOUS
  <2>2. ~(y < x)
    BY <1>1, <2>1, Zenon
  <2> QED BY <2>1, <2>2
<1> QED BY <1>2

LEMMA HighestExists ==
    ASSUME NEW bound \in Nat, NEW S, S \subseteq 0 .. bound, S # {}
    PROVE  \E x \in S : \A y \in S : y <= x
<1> DEFINE D == {n \in Nat : n <= bound /\ bound - n \in S}
<1>1. \A x, y \in Nat : x < y => <<x, y>> \in OpToRel(<, Nat)
  BY DEF OpToRel
<1>2. D # {}
  <2>1. PICK x \in S : TRUE
    OBVIOUS
  <2>2. x \in 0 .. bound
    BY <2>1
  <2>3. bound - x \in Nat /\ bound - x <= bound /\ bound - (bound - x) = x
    BY <2>2
  <2>4. bound - x \in D
    BY <2>1, <2>3
  <2> QED BY <2>4
<1>3. PICK d \in D : \A e \in D : d <= e
  <2> HIDE DEF D
  <2>1. D \subseteq Nat
    BY DEF D
  <2> QED BY <1>1, <1>2, <2>1, NatLessThanWellFounded, LeastFromRelation
<1>4. bound - d \in S /\ d \in Nat
  BY <1>3
<1>5. ASSUME NEW y \in S PROVE y <= bound - d
  <2>1. y \in 0 .. bound
    OBVIOUS
  <2>2. bound - y \in Nat /\ bound - y <= bound /\ bound - (bound - y) = y
    BY <2>1
  <2>3. bound - y \in D
    BY <2>2
  <2>4. d <= bound - y
    BY <1>3, <2>3
  <2> QED BY <1>4, <2>1, <2>4
<1> QED BY <1>4, <1>5

\* What is read of the error log are entries of it.
LEMMA NewestLemma ==
    ASSUME NEW T, NEW s \in Seq(T), NEW n \in Nat
    PROVE  \A e \in ToSet(Newest(s, n)) : \E i \in DOMAIN s : s[i] = e
<1> DEFINE m == IF Len(s) < n THEN Len(s) ELSE n
<1>1. m \in 0 .. Len(s)
  OBVIOUS
<1>2. Newest(s, n) = SubSeq(s, 1, m)
  BY DEF Newest
<1> HIDE DEF m
<1>3. \A i \in 1 .. m : SubSeq(s, 1, m)[i] = s[i] /\ i \in DOMAIN s
  BY <1>1
<1>4. DOMAIN SubSeq(s, 1, m) = 1 .. m
  BY <1>1
<1> QED BY <1>2, <1>3, <1>4 DEF ToSet

LEMMA NewErrorsLemma ==
    ASSUME DiskInv
    PROVE  \A e \in NewErrors : /\ e.n > st.errcount
                                /\ \E i \in DOMAIN disk.errors : disk.errors[i] = e
<1>1. disk.errors \in Seq([n: Nat, kind: ErrorKinds]) /\ LogSize \in Nat
  BY BoundsAssumption DEF DiskInv
<1> QED BY <1>1, NewestLemma DEF NewErrors

\* The new count is the highest number that was read.
LEMMA NewCountLemma ==
    ASSUME TypeInv, DiskInv
    PROVE  /\ NewCount \in {e.n : e \in NewErrors} \cup {chk.entries}
           /\ NewCount \in Nat /\ chk.entries <= NewCount
           /\ \A e \in NewErrors : e.n <= NewCount
<1> DEFINE higher == {e.n : e \in NewErrors} \cup {chk.entries}
<1>1. PICK bound \in Nat : disk.entries <= bound /\ chk.entries <= bound
  <2>1. disk.entries \in Nat /\ chk.entries \in Nat
    BY DEF TypeInv, IsDisk, IsCheck
  <2>2. disk.entries + chk.entries \in Nat
    BY <2>1
  <2> QED BY <2>1, <2>2
<1>2. higher \subseteq 0 .. bound
  <2>1. chk.entries \in 0 .. bound
    BY <1>1 DEF TypeInv, IsCheck
  <2>2. \A e \in NewErrors : e.n \in 0 .. bound
    <3>1. \A i \in DOMAIN disk.errors : disk.errors[i].n \in 1 .. disk.entries
      BY DEF DiskInv
    <3>2. disk.entries \in Nat
      BY DEF TypeInv, IsDisk
    <3>3. \A i \in 1 .. disk.entries : i \in 0 .. bound
      BY <1>1, <3>2
    <3> QED BY <3>1, <3>3, NewErrorsLemma
  <2> QED BY <2>1, <2>2
<1>3. \E x \in higher : \A y \in higher : y <= x
  <2>1. higher # {}
    OBVIOUS
  <2> HIDE DEF higher
  <2> QED BY <1>2, <2>1, HighestExists
<1>4. NewCount \in higher /\ \A y \in higher : y <= NewCount
  <2>1. NewCount = CHOOSE n \in higher : \A m \in higher : m <= n
    BY DEF NewCount
  <2> HIDE DEF higher
  <2> QED BY <1>3, <2>1
<1>5. higher \subseteq Nat
  BY <1>2
<1> QED BY <1>4, <1>5

ReadsErrors == NoNewErrors \/ ReadErrorLogFails \/ ReadErrorLog
LEMMA ErrorEffects ==
    ASSUME TypeInv, DiskInv, ReadsErrors
    PROVE  /\ pc = "errors" /\ pc' = "start"
           /\ UNCHANGED << cfg, mon, lim, always, file, disk, now, starts, h >>
           /\ IsState(st)' /\ Kept({"errcount"}) /\ (st.must_write => st'.must_write)
           /\ MailsKept({"ErrorCount"}) /\ (~st'.must_write => MailsKept({}))
           /\ IsCheck(chk)' /\ CheckKept({"new", "dropped"})
           /\ \/ st' = st /\ chk' = chk
              \/ ReadErrorLog /\ st'.errcount = NewCount /\ st'.must_write
<1>1. IsState(st) /\ IsCheck(chk) /\ now \in Nat
  BY DEF TypeInv
<1>2. CASE NoNewErrors \/ ReadErrorLogFails
  <2>1. /\ pc = "errors" /\ pc' = "start" /\ st' = st /\ chk' = chk
        /\ UNCHANGED << cfg, mon, lim, always, file, disk, now, starts, h >>
    BY <1>2 DEF NoNewErrors, ReadErrorLogFails, bounds
  <2> QED BY <1>1, <2>1 DEF IsState, IsCheck, Kept, MailsKept, CheckKept
<1>3. CASE ReadErrorLog
  <2>1. PICK bad, errors, dropped :
            /\ DOMAIN bad \subseteq {"ErrorCount"}
            /\ st' = [st EXCEPT !.maillog = Mail(bad, {}), !.errcount = NewCount,
                                !.must_write = TRUE]
            /\ chk' = [chk EXCEPT !.new = errors, !.dropped = dropped]
    <3> DEFINE errors == {e.n : e \in {f \in NewErrors : f.kind = "device"}}
               new == {e.n : e \in NewErrors}
               bad == IF errors # {} THEN Once({"ErrorCount"}) ELSE << >>
               dropped == (st.errcount + 1 .. NewCount) \ new
    <3>1. DOMAIN bad \subseteq {"ErrorCount"}
      BY OnceLemma
    <3>2. /\ st' = [st EXCEPT !.maillog = Mail(bad, {}), !.errcount = NewCount,
                              !.must_write = TRUE]
          /\ chk' = [chk EXCEPT !.new = errors, !.dropped = dropped]
      BY <1>3 DEF ReadErrorLog
    <3> HIDE DEF errors, dropped, bad
    <3> QED BY <3>1, <3>2
  <2>2. /\ Mail(bad, {}) \in [Types -> Counter]
        /\ \A type \in Types \ {"ErrorCount"} : Mail(bad, {})[type] = st.maillog[type]
    BY <1>1, <2>1, MailLemma
  <2>3. /\ pc = "errors" /\ pc' = "start"
        /\ UNCHANGED << cfg, mon, lim, always, file, disk, now, starts, h >>
    BY <1>3 DEF ReadErrorLog, bounds
  <2>4. /\ IsState(st)' /\ Kept({"errcount"}) /\ st'.must_write /\ MailsKept({"ErrorCount"})
        /\ st'.errcount = NewCount
    <3>1. NewCount \in Nat
      BY NewCountLemma
    <3> QED BY <1>1, <2>1, <2>2, <3>1 DEF IsState, Kept, MailsKept
  <2>5. IsCheck(chk)' /\ CheckKept({"new", "dropped"})
    BY <1>1, <2>1 DEF IsCheck, CheckKept
  <2> QED BY <1>3, <2>3, <2>4, <2>5
<1> QED BY <1>2, <1>3 DEF ReadsErrors

StartsTest == NoSelfTest \/ StartSelfTest
LEMMA StartEffects ==
    ASSUME TypeInv, StartsTest
    PROVE  /\ pc = "start" /\ pc' = "write"
           /\ UNCHANGED << cfg, mon, lim, always, file, now, starts >>
           /\ IsState(st)' /\ Kept({"val", "started"}) /\ st'.val = chk.val
           /\ st'.must_write = st.must_write /\ st'.maillog = st.maillog
           /\ IsCheck(chk)' /\ CheckKept({"complete", "unsaid"}) /\ chk'.complete
           /\ IsHistory(h)' /\ HistoryKept({"silent", "blind"})
           /\ IsDisk(disk)' /\ disk'.entries = disk.entries /\ disk'.errors = disk.errors
<1>1. IsState(st) /\ IsCheck(chk) /\ IsHistory(h) /\ IsDisk(disk)
  BY DEF TypeInv
<1>2. CASE NoSelfTest
  <2>1. /\ pc = "start" /\ pc' = "write" /\ disk' = disk /\ h' = h
        /\ UNCHANGED << cfg, mon, lim, always, file, now, starts >>
        /\ st' = [st EXCEPT !.val = chk.val] /\ chk' = [chk EXCEPT !.complete = TRUE]
    BY <1>2 DEF NoSelfTest, Ends
  <2>2. /\ IsState(st)' /\ Kept({"val", "started"}) /\ st'.val = chk.val
        /\ st'.must_write = st.must_write /\ st'.maillog = st.maillog
    BY <1>1, <2>1 DEF IsState, Kept
  <2>3. IsCheck(chk)' /\ CheckKept({"complete", "unsaid"}) /\ chk'.complete
    BY <1>1, <2>1 DEF IsCheck, CheckKept
  <2> QED BY <1>1, <2>1, <2>2, <2>3 DEF IsHistory, HistoryKept, IsDisk
<1>3. CASE StartSelfTest
  <2>1. /\ pc = "start" /\ pc' = "write"
        /\ UNCHANGED << cfg, mon, lim, always, file, now, starts >>
        /\ st' = [st EXCEPT !.val = chk.val, !.selftest_started = TRUE]
        /\ chk' = [chk EXCEPT !.complete = TRUE, !.unsaid = FALSE]
        /\ h' = [h EXCEPT !.silent = FALSE, !.blind = FALSE]
        /\ disk' = [disk EXCEPT !.running = "smartd"]
    BY <1>1, <1>3 DEF StartSelfTest, Ends, bounds, IsState
  <2>2. /\ IsState(st)' /\ Kept({"val", "started"}) /\ st'.val = chk.val
        /\ st'.must_write = st.must_write /\ st'.maillog = st.maillog
    BY <1>1, <2>1 DEF IsState, Kept
  <2>3. IsCheck(chk)' /\ CheckKept({"complete", "unsaid"}) /\ chk'.complete
    BY <1>1, <2>1 DEF IsCheck, CheckKept
  <2>4. IsHistory(h)' /\ HistoryKept({"silent", "blind"})
    BY <1>1, <2>1 DEF IsHistory, HistoryKept
  <2>5. IsDisk(disk)' /\ disk'.entries = disk.entries /\ disk'.errors = disk.errors
    BY <1>1, <2>1 DEF IsDisk
  <2> QED BY <2>1, <2>2, <2>3, <2>4, <2>5
<1> QED BY <1>2, <1>3 DEF StartsTest

\* The disk changes: the number of entries never decreases, new ones have new numbers.
LEMMA DiskEffects ==
    ASSUME TypeInv, DiskInv, DiskChanges
    PROVE  /\ UNCHANGED << cfg, pc, mon, lim, always, st, chk, file, now, starts >>
           /\ IsDisk(disk)' /\ DiskInv' /\ disk.entries <= disk'.entries
           /\ \A i \in DOMAIN disk'.errors :
                  \/ disk'.errors[i].n > disk.entries
                  \/ \E j \in DOMAIN disk.errors : disk.errors[j] = disk'.errors[i]
           /\ IsHistory(h)' /\ HistoryKept({"silent"})
           /\ h'.silent = IF disk.running # "no" /\ disk'.running = "no"
                          THEN disk.running = "smartd" ELSE h.silent
<1>1. IsDisk(disk) /\ IsHistory(h)
  BY DEF TypeInv
<1>2. /\ UNCHANGED << cfg, pc, mon, lim, always, st, chk, file, now, starts >>
      /\ h' = [h EXCEPT !.silent = IF disk.running # "no" /\ disk'.running = "no"
                                   THEN disk.running = "smartd" ELSE @]
  BY DEF DiskChanges
<1>3. IsHistory(h)' /\ HistoryKept({"silent"})
      /\ h'.silent = IF disk.running # "no" /\ disk'.running = "no"
                     THEN disk.running = "smartd" ELSE h.silent
  <2>1. PICK b \in BOOLEAN : b = IF disk.running # "no" /\ disk'.running = "no"
                                 THEN disk.running = "smartd" ELSE h.silent
    BY <1>1 DEF IsHistory
  <2> QED BY <1>1, <1>2, <2>1 DEF IsHistory, HistoryKept
<1> DEFINE Result == /\ IsDisk(disk)' /\ DiskInv' /\ disk.entries <= disk'.entries
                     /\ \A i \in DOMAIN disk'.errors :
                            \/ disk'.errors[i].n > disk.entries
                            \/ \E j \in DOMAIN disk.errors : disk.errors[j] = disk'.errors[i]
<1>4. ASSUME IsDisk(disk)', disk'.entries = disk.entries, disk'.errors = disk.errors
      PROVE  Result
  BY <1>1, <1>4 DEF DiskInv, IsDisk
<1> DEFINE Same == IsDisk(disk)' /\ disk'.entries = disk.entries /\ disk'.errors = disk.errors
<1> HIDE DEF Result
<1>5. ASSUME disk' = [disk EXCEPT !.gone = ~@] \/ disk' = [disk EXCEPT !.warning = ~@]
      PROVE  Result
  <2>1. Same
    BY <1>1, <1>5 DEF IsDisk
  <2> QED BY <1>4, <2>1
<1>6. ASSUME \E v \in Values : \E n : disk' = [disk EXCEPT !.val[v] = n]
      PROVE  Result
  <2>1. PICK val : disk' = [disk EXCEPT !.val = val]
    <3>1. PICK v \in Values : \E n : disk' = [disk EXCEPT !.val[v] = n]
      BY <1>6
    <3>2. PICK n : disk' = [disk EXCEPT !.val[v] = n]
      BY <3>1
    <3>3. disk' = [disk EXCEPT !.val = [disk.val EXCEPT ![v] = n]]
      BY <3>2
    <3> QED BY <3>3
  <2>2. Same
    BY <1>1, <2>1 DEF IsDisk
  <2> QED BY <1>4, <2>2
<1>7. ASSUME \E k \in Kelvins : disk' = [disk EXCEPT !.kelvin = k]
      PROVE  Result
  <2>1. Kelvins \subseteq Nat
    BY BoundsAssumption
  <2>2. Same
    BY <1>1, <1>7, <2>1 DEF IsDisk
  <2> QED BY <1>4, <2>2
<1>8. ASSUME NEW kind \in ErrorKinds,
             disk' = [disk EXCEPT
                        !.entries = @ + 1,
                        !.errors = << [n |-> disk.entries + 1, kind |-> kind] >> \o @]
      PROVE  Result
  <2> DEFINE old == disk.errors
             e == [n |-> disk.entries + 1, kind |-> kind]
             new == << e >> \o old
  <2>1. /\ IsDisk(disk)' /\ disk'.entries = disk.entries + 1 /\ disk'.errors = new
        /\ disk.entries \in Nat
    <3>1. disk' = [disk EXCEPT !.entries = @ + 1, !.errors = new]
      BY <1>8
    <3> HIDE DEF new
    <3>2. disk.entries \in Nat /\ disk.entries + 1 \in Nat
      BY <1>1 DEF IsDisk
    <3>3. disk'.entries = disk.entries + 1 /\ disk'.errors = new
      BY <1>1, <3>1, <3>2 DEF IsDisk
    <3>4. IsDisk(disk)'
      BY <1>1, <3>1, <3>2 DEF IsDisk
    <3> QED BY <3>2, <3>3, <3>4
  <2>2. /\ old \in Seq([n: Nat, kind: ErrorKinds])
        /\ \A i \in DOMAIN old : old[i].n \in 1 .. disk.entries
        /\ \A i, j \in DOMAIN old : old[i].n = old[j].n => i = j
    BY DEF DiskInv
  <2>3. e \in [n: Nat, kind: ErrorKinds] /\ e.n = disk.entries + 1
    BY <2>1
  <2> HIDE DEF e, old
  <2>4. new \in Seq([n: Nat, kind: ErrorKinds])
    BY <2>2, <2>3
  <2>5. /\ new[1] = e /\ DOMAIN new = 1 .. Len(old) + 1 /\ DOMAIN old = 1 .. Len(old)
        /\ \A i \in DOMAIN new \ {1} : i - 1 \in DOMAIN old /\ new[i] = old[i - 1]
        /\ Len(old) \in Nat
    BY <2>2, <2>3
  <2> HIDE DEF new
  <2>6. \A i \in DOMAIN new : new[i].n \in 1 .. disk.entries + 1
    <3> SUFFICES ASSUME NEW i \in DOMAIN new PROVE new[i].n \in 1 .. disk.entries + 1
      OBVIOUS
    <3>1. CASE i = 1
      BY <2>1, <2>3, <2>5, <3>1
    <3>2. CASE i # 1
      <4>1. i - 1 \in DOMAIN old /\ new[i] = old[i - 1]
        BY <2>5, <3>2
      <4>2. old[i - 1].n \in 1 .. disk.entries
        BY <2>2, <4>1
      <4> QED BY <2>1, <4>1, <4>2
    <3> QED BY <3>1, <3>2
  <2>7. \A i \in DOMAIN new \ {1} : new[i].n # new[1].n
    BY <2>1, <2>2, <2>3, <2>5
  <2>8. \A i, j \in DOMAIN new \ {1} : new[i].n = new[j].n => i = j
    <3> SUFFICES ASSUME NEW i \in DOMAIN new \ {1}, NEW j \in DOMAIN new \ {1},
                        new[i].n = new[j].n
                 PROVE  i = j
      OBVIOUS
    <3>1. i - 1 = j - 1
      BY <2>2, <2>5
    <3> QED BY <2>5, <3>1
  <2>9. \A i, j \in DOMAIN new : new[i].n = new[j].n => i = j
    BY <2>7, <2>8
  <2>10. DiskInv'
    BY <2>1, <2>4, <2>6, <2>9 DEF DiskInv
  <2>11. \A i \in DOMAIN new : \/ new[i].n > disk.entries
                               \/ \E j \in DOMAIN old : old[j] = new[i]
    BY <2>1, <2>3, <2>5
  <2> QED BY <2>1, <2>10, <2>11 DEF old, Result
<1>9. ASSUME disk' = [disk EXCEPT !.errors = << >>]
      PROVE  Result
  <2>1. IsDisk(disk)' /\ disk'.entries = disk.entries /\ disk'.errors = << >>
        /\ disk.entries \in Nat
    BY <1>1, <1>9 DEF IsDisk
  <2> QED BY <2>1 DEF DiskInv, Result
<1>10. ASSUME disk' = [disk EXCEPT !.running = "other"]
      PROVE  Result
  <2>1. Same
    BY <1>1, <1>10 DEF IsDisk
  <2> QED BY <1>4, <2>1
<1>11. ASSUME \E t : disk' = [disk EXCEPT !.running = "no", !.tests = t]
      PROVE  Result
  <2>1. Same
    BY <1>1, <1>11 DEF IsDisk
  <2> QED BY <1>4, <2>1
<1>12. Result
  <2>1. \/ disk' = [disk EXCEPT !.gone = ~@] \/ disk' = [disk EXCEPT !.warning = ~@]
        \/ \E v \in Values : \E n : disk' = [disk EXCEPT !.val[v] = n]
        \/ \E k \in Kelvins : disk' = [disk EXCEPT !.kelvin = k]
        \/ \E kind \in ErrorKinds :
               disk' = [disk EXCEPT
                            !.entries = @ + 1,
                            !.errors = << [n |-> disk.entries + 1, kind |-> kind] >> \o @]
        \/ disk' = [disk EXCEPT !.errors = << >>]
        \/ disk' = [disk EXCEPT !.running = "other"]
        \/ \E t : disk' = [disk EXCEPT !.running = "no", !.tests = t]
    BY DEF DiskChanges, Values
  <2> QED BY <1>5, <1>6, <1>7, <1>8, <1>9, <1>10, <1>11, <2>1
<1> QED BY <1>2, <1>3, <1>12 DEF Result

LEMMA NewStateLemma ==
    /\ IsState(NewState) /\ NewState.temp = NoTemperature /\ ~NewState.must_write
    /\ NewState.errcount = 0 /\ NewState.selfloghour = 0
    /\ ~NewState.selftest_op /\ ~NewState.selftest_started
    /\ \A type \in Types : NewState.maillog[type] = NoMail
<1>1. NoMail \in Counter
  BY DEF NoMail, Counter, MailInfo
<1>2. [type \in Types |-> NoMail] \in [Types -> Counter]
  BY <1>1
<1>3. NoTemperature \in TempType
  BY DEF NoTemperature, TempType, Degrees
<1> QED BY <1>2, <1>3 DEF NewState, IsState

LEMMA NoCheckLemma ==
    /\ IsCheck(NoCheck) /\ NoCheck.c = 0 /\ NoCheck.logged = {} /\ NoCheck.new = {}
    /\ NoCheck.dropped = {} /\ ~NoCheck.complete /\ ~NoCheck.unsaid /\ NoCheck.hour = 0
    /\ NoCheck.hours = {} /\ NoCheck.entries = 0
BY DEF NoCheck, IsCheck, Degrees

LEMMA NoHistoryLemma ==
    /\ IsHistory(NoHistory) /\ NoHistory.first = -1 /\ NoHistory.hi = 0
    /\ NoHistory.late = Unset /\ NoHistory.reported = {} /\ NoHistory.dropped = {}
    /\ ~NoHistory.twice /\ NoHistory.hours = {0} /\ ~NoHistory.hot /\ ~NoHistory.silent
<1>1. 0 \in Degrees /\ 255 \in Byte /\ -1 \in Nat \cup {-1} /\ 0 \in Nat
  BY DEF Degrees, Byte
<1> QED BY <1>1 DEF NoHistory, IsHistory, Unset

\* smartd starts, with a state file or without.
LEMMA ScanEffects ==
    ASSUME TypeInv, NVMeDeviceScan
    PROVE  /\ pc = "down" /\ pc' = "open" /\ always' /\ chk' = NoCheck
           /\ UNCHANGED << cfg, file, disk, now >>
           /\ mon' \in SUBSET Features /\ lim' \in {NoLimits, cfg.lim}
           /\ \A f \in {"prefail", "usage"} : f \in mon' <=> f \in cfg.features
           /\ IsState(st)' /\ IsHistory(h)' /\ h'.blind /\ h'.first = -1
           /\ h'.crashed = h.crashed
           /\ st'.temp.temperature = 0 /\ st'.temp.delay = 0
           /\ ~st'.must_write /\ ~st'.selftest_op /\ ~st'.selftest_started
           /\ file.exists =>
                  /\ st'.maillog = file.maillog /\ st'.val = file.val
                  /\ st'.errcount = file.errcount /\ st'.selfloghour = file.selfloghour
                  /\ st'.temp.tempmin = file.tempmin /\ st'.temp.tempmax = file.tempmax
                  /\ HistoryKept({"first", "warm", "blind"})
           /\ ~file.exists =>
                  /\ \A type \in Types : st'.maillog[type] = NoMail
                  /\ st'.val = disk.val /\ st'.errcount \in {0, disk.entries}
                  /\ st'.selfloghour = 0 /\ st'.temp = NoTemperature
                  /\ h'.told = disk.val /\ h'.base = disk.entries /\ h'.reported = {}
                  /\ h'.dropped = {} /\ ~h'.twice /\ h'.hours = {0} /\ ~h'.hot
                  /\ ~h'.silent /\ h'.hi = 0 /\ h'.late = Unset
<1>1. IsDisk(disk) /\ IsFile(file) /\ IsHistory(h) /\ disk.entries \in Nat
  BY DEF TypeInv, IsDisk
<1>2. /\ pc = "down" /\ pc' = "open" /\ always' /\ chk' = NoCheck
      /\ UNCHANGED << cfg, file, disk, now >>
      /\ st' = IF file.exists THEN StateFromFile ELSE StateFromDisk(mon')
      /\ h' = IF file.exists
              THEN [h EXCEPT !.first = -1, !.warm = FALSE, !.blind = TRUE]
              ELSE [NoHistory EXCEPT !.told = disk.val, !.base = disk.entries,
                                     !.crashed = h.crashed, !.blind = TRUE]
      /\ lim' \in {NoLimits, cfg.lim}
  BY DEF NVMeDeviceScan
<1>3. /\ mon' \in SUBSET Features
      /\ \A f \in {"prefail", "usage"} : f \in mon' <=> f \in cfg.features
  <2>1. PICK broken \in SUBSET {{"errorlog"}, SelfTests} : mon' = cfg.features \ UNION broken
    BY DEF NVMeDeviceScan
  <2>2. cfg.features \in SUBSET Features
    BY ConfigsAssumption DEF TypeInv, ConfigType
  <2>3. "prefail" \notin UNION broken /\ "usage" \notin UNION broken
    BY <2>1 DEF SelfTests
  <2> QED BY <2>1, <2>2, <2>3
<1>4. CASE file.exists
  <2>1. /\ file.maillog \in [Types -> Counter] /\ file.errcount \in Nat
        /\ file.tempmin \in Degrees /\ file.tempmax \in Degrees
    BY <1>1, <1>4 DEF IsFile, NoFile
  <2>2. IsState(NewState) /\ NewState.temp = NoTemperature /\ ~NewState.must_write
        /\ ~NewState.selftest_op /\ ~NewState.selftest_started
    BY NewStateLemma
  <2>3. st' = [NewState EXCEPT !.maillog = file.maillog, !.val = file.val,
                               !.errcount = file.errcount,
                               !.selflogcount = file.selflogcount,
                               !.selfloghour = file.selfloghour,
                               !.temp = [NoTemperature EXCEPT !.tempmin = file.tempmin,
                                                              !.tempmax = file.tempmax]]
    <3>1. st' = StateFromFile
      BY <1>2, <1>4
    <3> QED BY <2>2, <3>1 DEF StateFromFile
  <2>4. PICK t : /\ t = [NoTemperature EXCEPT !.tempmin = file.tempmin,
                                               !.tempmax = file.tempmax]
                 /\ t \in TempType /\ t.temperature = 0 /\ t.delay = 0
                 /\ t.tempmin = file.tempmin /\ t.tempmax = file.tempmax
    <3>1. PICK low, high : low = file.tempmin /\ high = file.tempmax
      OBVIOUS
    <3>2. PICK t : t = [NoTemperature EXCEPT !.tempmin = low, !.tempmax = high]
      OBVIOUS
    <3>3. t = [temperature |-> 0, tempmin |-> low, tempmax |-> high, delay |-> 0]
      BY <3>2 DEF NoTemperature
    <3>4. low \in 0 .. 254 /\ high \in 0 .. 254
      BY <2>1, <3>1 DEF Degrees
    <3>5. t \in TempType
      BY <3>3, <3>4 DEF TempType, Degrees
    <3>6. t = [NoTemperature EXCEPT !.tempmin = file.tempmin, !.tempmax = file.tempmax]
      BY <3>1, <3>2
    <3>7. /\ t.temperature = 0 /\ t.delay = 0
          /\ t.tempmin = file.tempmin /\ t.tempmax = file.tempmax
      BY <3>1, <3>3
    <3> QED BY ONLY <3>5, <3>6, <3>7
  <2>5. /\ IsState(st)' /\ ~st'.must_write /\ ~st'.selftest_op /\ ~st'.selftest_started
        /\ st'.maillog = file.maillog /\ st'.val = file.val /\ st'.temp = t
        /\ st'.errcount = file.errcount /\ st'.selfloghour = file.selfloghour
    <3>1. st' = [NewState EXCEPT !.maillog = file.maillog, !.val = file.val,
                                 !.errcount = file.errcount,
                                 !.selflogcount = file.selflogcount,
                                 !.selfloghour = file.selfloghour, !.temp = t]
      BY <2>3, <2>4
    <3> QED BY <2>1, <2>2, <2>4, <3>1 DEF IsState
  <2>6. /\ IsHistory(h)' /\ h'.blind /\ h'.first = -1 /\ HistoryKept({"first", "warm", "blind"})
        /\ h'.crashed = h.crashed
    BY <1>1, <1>2, <1>4 DEF IsHistory, HistoryKept
  <2> QED BY <1>2, <1>3, <1>4, <2>4, <2>5, <2>6
<1>5. CASE ~file.exists
  <2>1. PICK n \in {0, disk.entries} :
            st' = [NewState EXCEPT !.val = disk.val, !.errcount = n]
    BY <1>2, <1>5 DEF StateFromDisk
  <2>2. /\ IsState(st)' /\ ~st'.must_write /\ ~st'.selftest_op /\ ~st'.selftest_started
        /\ \A type \in Types : st'.maillog[type] = NoMail
        /\ st'.val = disk.val /\ st'.errcount \in {0, disk.entries}
        /\ st'.selfloghour = 0 /\ st'.temp = NoTemperature
    BY <1>1, <2>1, NewStateLemma DEF IsState
  <2>3. /\ IsHistory(h)' /\ h'.blind /\ h'.first = -1 /\ h'.crashed = h.crashed
        /\ h'.told = disk.val /\ h'.base = disk.entries /\ h'.reported = {}
        /\ h'.dropped = {} /\ ~h'.twice /\ h'.hours = {0} /\ ~h'.hot
        /\ ~h'.silent /\ h'.hi = 0 /\ h'.late = Unset
    <3>1. h.crashed \in BOOLEAN
      BY <1>1 DEF IsHistory
    <3>2. h' = [NoHistory EXCEPT !.told = disk.val, !.base = disk.entries,
                                 !.crashed = h.crashed, !.blind = TRUE]
      BY <1>2, <1>5
    <3> QED BY <1>1, <3>1, <3>2, NoHistoryLemma DEF IsHistory
  <2>4. st'.temp.temperature = 0 /\ st'.temp.delay = 0
    BY <2>2 DEF NoTemperature
  <2> QED BY <1>2, <1>3, <1>5, <2>2, <2>3, <2>4
<1> QED BY <1>4, <1>5

LEMMA PersistentLemma ==
    ASSUME IsState(st)
    PROVE  /\ IsFile(Persistent) /\ Persistent.exists
           /\ Persistent.maillog = st.maillog /\ Persistent.val = st.val
           /\ Persistent.errcount = st.errcount /\ Persistent.selfloghour = st.selfloghour
           /\ Persistent.tempmin = st.temp.tempmin /\ Persistent.tempmax = st.temp.tempmax
<1>1. /\ st.maillog \in [Types -> Counter] /\ st.errcount \in Nat
      /\ st.temp.tempmin \in Degrees /\ st.temp.tempmax \in Degrees
  BY DEF IsState, TempType
<1> QED BY <1>1 DEF Persistent, IsFile

\* The end of a cycle.
LEMMA WriteEffects ==
    ASSUME TypeInv, WriteState
    PROVE  /\ pc = "write" /\ pc' = "wait"
           /\ UNCHANGED << cfg, mon, lim, always, chk, disk, now, starts >>
           /\ IsState(st)' /\ Kept({}) /\ st'.maillog = st.maillog
           /\ st'.must_write = (st.must_write /\ ~Saves)
           /\ file' = IF Saves THEN Persistent ELSE file
           /\ IsHistory(h)'
           /\ HistoryKept({"told", "hi", "late", "twice", "reported", "dropped", "hours", "hot"})
           /\ \A v \in Values : h'.told[v] = ToldAfter(v)
           /\ h'.hi = Higher(h.hi, chk.c) /\ h'.late = LateAfter
           /\ h'.twice = (h.twice \/ chk.new \cap h.reported # {})
           /\ h'.reported = h.reported \cup chk.new
           /\ h'.dropped = h.dropped \cup chk.dropped
           /\ h'.hours = h.hours \cup chk.hours /\ h'.hot = HotAfter
<1>1. IsState(st) /\ IsHistory(h) /\ chk.c \in Degrees
  BY DEF TypeInv, IsCheck
<1>2. /\ pc = "write" /\ pc' = "wait"
      /\ UNCHANGED << cfg, mon, lim, always, chk, disk, now, starts >>
      /\ file' = IF Saves THEN Persistent ELSE file
      /\ st' = [st EXCEPT !.must_write = @ /\ ~Saves] /\ h' = Record(h)
  BY DEF WriteState, bounds
<1>3. /\ IsState(st)' /\ Kept({}) /\ st'.maillog = st.maillog
      /\ st'.must_write = (st.must_write /\ ~Saves)
  <2>1. PICK b \in BOOLEAN : b = (st.must_write /\ ~Saves)
    BY <1>1 DEF IsState
  <2>2. st' = [st EXCEPT !.must_write = b]
    BY <1>2, <2>1
  <2> QED BY <1>1, <2>1, <2>2 DEF IsState, Kept
<1>4. PICK told, hi, late, twice, hot :
          /\ told = [v \in Values |-> IF v \in chk.logged THEN chk.val[v] ELSE h.told[v]]
          /\ hi = Higher(h.hi, chk.c) /\ late = LateAfter
          /\ twice = (h.twice \/ chk.new \cap h.reported # {})
          /\ hot = HotAfter
          /\ h' = [h EXCEPT !.told = told, !.hi = hi, !.late = late, !.twice = twice,
                            !.reported = @ \cup chk.new, !.dropped = @ \cup chk.dropped,
                            !.hours = @ \cup chk.hours, !.hot = hot]
  <2>1. HotAfter = IF chk.c = 0 \/ lim.crit = 0 THEN h.hot
                   ELSE IF chk.c >= lim.crit THEN TRUE
                   ELSE h.hot /\ chk.c >= (IF lim.info # 0 THEN lim.info ELSE lim.crit - 5)
    <3>1. h.hot \in BOOLEAN
      BY <1>1 DEF IsHistory
    <3> QED BY <3>1 DEF HotAfter
  <2> DEFINE told == [v \in Values |-> IF v \in chk.logged THEN chk.val[v] ELSE h.told[v]]
             hi == Higher(h.hi, chk.c)
             late == IF chk.c # 0 /\ h.first # -1 /\ now >= h.first + MinDelay
                     THEN Lower(h.late, chk.c) ELSE h.late
             twice == h.twice \/ chk.new \cap h.reported # {}
             hot == IF chk.c = 0 \/ lim.crit = 0 THEN h.hot
                    ELSE IF chk.c >= lim.crit THEN TRUE
                    ELSE h.hot /\ chk.c >= (IF lim.info # 0 THEN lim.info ELSE lim.crit - 5)
  <2>2. h' = [h EXCEPT !.told = told, !.hi = hi, !.late = late, !.twice = twice,
                       !.reported = @ \cup chk.new, !.dropped = @ \cup chk.dropped,
                       !.hours = @ \cup chk.hours, !.hot = hot]
    BY <1>2, Zenon DEF Record
  <2>3. late = LateAfter /\ hot = HotAfter
    BY <2>1 DEF LateAfter
  <2>4. /\ told = [v \in Values |-> IF v \in chk.logged THEN chk.val[v] ELSE h.told[v]]
        /\ hi = Higher(h.hi, chk.c) /\ twice = (h.twice \/ chk.new \cap h.reported # {})
    OBVIOUS
  <2> HIDE DEF told, hi, late, twice, hot
  <2> QED BY <2>2, <2>3, <2>4, Zenon
<1>5. \A v \in Values : told[v] = ToldAfter(v)
  BY <1>4 DEF ToldAfter
<1>6. /\ hi \in Degrees /\ late \in Byte /\ twice \in BOOLEAN /\ hot \in BOOLEAN
  <2>1. h.hi \in Degrees /\ h.late \in Byte /\ h.hot \in BOOLEAN /\ h.twice \in BOOLEAN
    BY <1>1 DEF IsHistory
  <2>2. Degrees \subseteq Byte
    BY DEF Degrees, Byte
  <2>3. hi \in Degrees
    BY <1>1, <1>4, <2>1 DEF Higher
  <2>4. late \in Byte
    BY <1>1, <1>4, <2>1, <2>2 DEF LateAfter, Lower
  <2>5. twice \in BOOLEAN
    BY <1>4, <2>1
  <2>6. hot \in BOOLEAN
    BY <1>4, <2>1 DEF HotAfter
  <2> QED BY <2>3, <2>4, <2>5, <2>6
<1>7. /\ IsHistory(h)'
      /\ HistoryKept({"told", "hi", "late", "twice", "reported", "dropped", "hours", "hot"})
      /\ h'.told = told /\ h'.hi = hi /\ h'.late = late /\ h'.twice = twice /\ h'.hot = hot
      /\ h'.reported = h.reported \cup chk.new /\ h'.dropped = h.dropped \cup chk.dropped
      /\ h'.hours = h.hours \cup chk.hours
  <2>1. PICK reported, dropped, hours :
            /\ reported = h.reported \cup chk.new /\ dropped = h.dropped \cup chk.dropped
            /\ hours = h.hours \cup chk.hours
            /\ h' = [h EXCEPT !.told = told, !.hi = hi, !.late = late, !.twice = twice,
                              !.reported = reported, !.dropped = dropped,
                              !.hours = hours, !.hot = hot]
    BY <1>4
  <2> QED BY <1>1, <1>6, <2>1 DEF IsHistory, HistoryKept
<1> QED BY <1>2, <1>3, <1>4, <1>5, <1>7

\* smartd stops, or is killed.
Ends_Stopped == Stop \/ Crash
LEMMA DownEffects ==
    ASSUME TypeInv, Ends_Stopped
    PROVE  /\ pc # "down" /\ pc' = "down" /\ mon' = {} /\ lim' = NoLimits /\ always' = TRUE
           /\ st' = NewState /\ chk' = NoCheck
           /\ UNCHANGED << cfg, disk, now >>
           /\ \/ pc = "wait" /\ file' = (IF cfg.state_file THEN Persistent ELSE file) /\ h' = h
              \/ file' = file /\ h'.crashed
           /\ IsHistory(h)' /\ HistoryKept({"crashed"}) /\ (h.crashed => h'.crashed)
<1>1. IsHistory(h)
  BY DEF TypeInv
<1>2. CASE Stop
  BY <1>1, <1>2 DEF Stop, Down, bounds, HistoryKept
<1>3. CASE Crash
  <2>1. IsHistory(h)' /\ HistoryKept({"crashed"}) /\ h'.crashed
    <3>1. h' = [h EXCEPT !.crashed = TRUE]
      BY <1>3 DEF Crash
    <3> QED BY <1>1, <3>1 DEF IsHistory, HistoryKept
  <2> QED BY <1>3, <2>1 DEF Crash, Down
<1> QED BY <1>2, <1>3 DEF Ends_Stopped

-----------------------------------------------------------------------------
(***************************************************************************)
(* Types, and what a check has found at its beginning.                     *)
(***************************************************************************)
\* One case for each group of steps.
LEMMA NextCases ==
    ASSUME [Next]_vars
    PROVE  \/ UNCHANGED vars \/ DiskChanges \/ NVMeDeviceScan \/ Opens \/ CheckSmartLog
           \/ ReadsSelfTests \/ ReadsErrors \/ StartsTest \/ WriteState \/ Wakeup
           \/ Ends_Stopped
BY DEF Next, Opens, ReadsSelfTests, ReadsErrors, StartsTest, Ends_Stopped


Basics == TypeInv /\ DiskInv /\ Fresh

LEMMA WakeupEffects ==
    ASSUME TypeInv, Wakeup
    PROVE  /\ pc = "wait" /\ pc' = "open" /\ chk' = NoCheck /\ now' = now + 1
           /\ always' \in BOOLEAN
           /\ UNCHANGED << cfg, mon, lim, st, file, disk, h >>
BY DEF Wakeup

LEMMA InitBasics == Init => Basics
<1> SUFFICES ASSUME Init PROVE Basics
  OBVIOUS
<1>1. /\ cfg \in Configs /\ pc = "down" /\ mon = {} /\ lim = NoLimits /\ always
      /\ st = NewState /\ chk = NoCheck /\ file = NoFile /\ now = 0 /\ h = NoHistory
  BY DEF Init
<1>2. /\ disk = [gone |-> disk.gone, warning |-> disk.warning, val |-> disk.val,
                 kelvin |-> disk.kelvin, entries |-> disk.entries, errors |-> disk.errors,
                 running |-> disk.running, tests |-> disk.tests]
      /\ disk.kelvin \in Nat /\ disk.entries = 0 /\ disk.errors = << >> /\ disk.running = "no"
  <2>1. PICK kelvins : /\ kelvins \subseteq Nat
                       /\ disk \in [gone: {FALSE}, warning: {FALSE}, entries: {0},
                                    kelvin: kelvins,
                                    val: {[spare |-> Thresh, used |-> 95, media |-> 0]},
                                    errors: {<< >>}, running: {"no"}, tests: {<< >>}]
    <3>1. (IF "temperature" \in Changes[cfg] THEN Kelvins ELSE {0}) \subseteq Nat
      BY BoundsAssumption
    <3> QED BY <3>1 DEF Init
  <2> QED BY <2>1
<1>3. IsDisk(disk) /\ DiskInv
  BY <1>2 DEF IsDisk, DiskInv
<1>4. TypeInv
  BY <1>1, <1>3, NewStateLemma, NoCheckLemma, NoHistoryLemma DEF TypeInv, IsFile
<1>5. Fresh
  BY <1>1 DEF Fresh, NoFile
<1> QED BY <1>3, <1>4, <1>5 DEF Basics

\* The local variables and the history after the SMART/Health log was read.
LEMMA SmartRecords ==
    ASSUME TypeInv, CheckSmartLog
    PROVE  /\ IsCheck(chk)' /\ CheckKept({"c", "val", "logged", "entries"})
           /\ chk'.c = Measured /\ chk'.val = disk.val /\ chk'.logged = Logged
           /\ chk'.entries = disk.entries
           /\ IsHistory(h)' /\ HistoryKept({"first", "warm"})
           /\ Measured = 0 => h' = h
           /\ Measured # 0 => /\ h'.first = (IF h.first = -1 THEN now ELSE h.first)
                              /\ h'.warm = (h.warm \/ IsWarm(Measured))
<1>1. IsCheck(chk) /\ IsHistory(h) /\ now \in Nat /\ disk.entries \in Nat /\ disk.kelvin \in Nat
  BY DEF TypeInv, IsDisk
<1>2. /\ chk' = [chk EXCEPT !.c = Measured, !.val = disk.val, !.entries = disk.entries,
                            !.logged = Logged]
      /\ h' = IF Measured = 0 THEN h
              ELSE [h EXCEPT !.first = IF @ = -1 THEN now ELSE @,
                             !.warm = @ \/ IsWarm(Measured)]
  BY SmartEffects
<1>3. Measured \in Degrees /\ Logged \in SUBSET Values
  <2>1. Reading \in 1 .. 255
    BY <1>1, CelsiusLemma DEF Reading
  <2> QED BY <2>1 DEF Measured, IsReading, Degrees, Logged, Changed
<1>4. /\ IsCheck(chk)' /\ CheckKept({"c", "val", "logged", "entries"})
      /\ chk'.c = Measured /\ chk'.val = disk.val /\ chk'.logged = Logged
      /\ chk'.entries = disk.entries
  <2>1. PICK logged \in SUBSET Values, c \in Degrees : logged = Logged /\ c = Measured
    BY <1>3
  <2> QED BY <1>1, <1>2, <2>1 DEF IsCheck, CheckKept
<1>5. CASE Measured = 0
  BY <1>1, <1>2, <1>4, <1>5 DEF HistoryKept
<1>6. CASE Measured # 0
  <2>1. PICK first \in Nat \cup {-1} : first = IF h.first = -1 THEN now ELSE h.first
    BY <1>1 DEF IsHistory
  <2>2. PICK warm \in BOOLEAN : warm = (h.warm \/ IsWarm(Measured))
    BY <1>1 DEF IsHistory
  <2>3. h' = [h EXCEPT !.first = first, !.warm = warm]
    BY <1>2, <1>6, <2>1, <2>2
  <2>4. IsHistory(h)' /\ HistoryKept({"first", "warm"}) /\ h'.first = first /\ h'.warm = warm
    BY <1>1, <2>3 DEF IsHistory, HistoryKept
  <2> QED BY <1>4, <1>6, <2>1, <2>2, <2>4
<1> QED BY <1>5, <1>6

LEMMA BasicsNext == Basics /\ [Next]_vars => Basics'
<1> SUFFICES ASSUME Basics, [Next]_vars PROVE Basics'
  OBVIOUS
<1>1. TypeInv /\ DiskInv /\ Fresh
  BY DEF Basics
<1>2. /\ cfg \in Configs /\ pc \in Stages \cup {"down"} /\ mon \in SUBSET Features
      /\ lim \in {NoLimits, cfg.lim} /\ always \in BOOLEAN
      /\ IsState(st) /\ IsCheck(chk) /\ IsFile(file) /\ IsDisk(disk) /\ IsHistory(h)
      /\ now \in Nat
  BY <1>1 DEF TypeInv
<1>3. ASSUME disk' = disk PROVE DiskInv'
  BY <1>1, <1>3 DEF DiskInv
<1>4. CASE UNCHANGED vars
  <2>1. UNCHANGED << cfg, pc, mon, lim, always, st, chk, file, disk, now, h >>
    BY <1>4 DEF vars
  <2>2. TypeInv'
    BY <1>2, <2>1 DEF TypeInv, IsState, IsCheck, IsFile, IsDisk, IsHistory
  <2>3. Fresh'
    BY <1>1, <2>1 DEF Fresh
  <2> QED BY <1>3, <2>1, <2>2, <2>3 DEF Basics
<1>5. CASE DiskChanges
  <2>1. /\ UNCHANGED << cfg, pc, mon, lim, always, st, chk, file, now, starts >>
        /\ IsDisk(disk)' /\ DiskInv' /\ IsHistory(h)'
    BY <1>1, <1>5, DiskEffects
  <2>2. TypeInv'
    BY <1>2, <2>1 DEF TypeInv, IsState, IsCheck, IsFile
  <2>3. Fresh'
    BY <1>1, <2>1 DEF Fresh
  <2> QED BY <2>1, <2>2, <2>3 DEF Basics
<1>6. CASE NVMeDeviceScan
  <2>1. /\ pc' = "open" /\ always' /\ chk' = NoCheck
        /\ UNCHANGED << cfg, file, disk, now >>
        /\ mon' \in SUBSET Features /\ lim' \in {NoLimits, cfg.lim}
        /\ IsState(st)' /\ IsHistory(h)'
    BY <1>1, <1>6, ScanEffects
  <2>2. always' \in BOOLEAN
    BY <1>6 DEF NVMeDeviceScan
  <2>3. TypeInv'
    BY <1>2, <2>1, <2>2, NoCheckLemma DEF TypeInv, IsFile, IsDisk, IsCheck, Stages
  <2>4. Fresh'
    BY <1>1, <2>1 DEF Fresh
  <2> QED BY <1>3, <2>1, <2>3, <2>4 DEF Basics
<1>7. CASE Opens
  <2>1. /\ pc \in {"open", "smart"} /\ pc' \in {"smart", "write"}
        /\ UNCHANGED << cfg, mon, lim, always, chk, file, disk, now, starts, h >>
        /\ IsState(st)'
    BY <1>1, <1>7, OpenEffects
  <2>2. TypeInv'
    BY <1>2, <2>1 DEF TypeInv, IsFile, IsDisk, IsCheck, IsHistory, Stages
  <2>3. Fresh'
    BY <1>1, <2>1 DEF Fresh
  <2> QED BY <1>3, <2>1, <2>2, <2>3 DEF Basics
<1>8. CASE CheckSmartLog
  <2>1. /\ pc = "smart" /\ pc' = "selftest"
        /\ UNCHANGED << cfg, mon, lim, always, file, disk, now, starts >>
        /\ IsState(st)'
    BY <1>1, <1>8, SmartEffects
  <2>2. /\ IsCheck(chk)' /\ CheckKept({"c", "val", "logged", "entries"})
        /\ IsHistory(h)'
    BY <1>1, <1>8, SmartRecords
  <2>3. TypeInv'
    BY <1>2, <2>1, <2>2 DEF TypeInv, IsFile, IsDisk, Stages
  <2>4. chk = NoCheck
    BY <1>1, <2>1 DEF Fresh
  <2>5. chk'.new = {} /\ chk'.dropped = {} /\ ~chk'.complete /\ ~chk'.unsaid
    BY <2>2, <2>4, NoCheckLemma DEF CheckKept
  <2>6. Fresh'
    BY <1>1, <2>1, <2>5 DEF Fresh
  <2> QED BY <1>3, <2>1, <2>3, <2>6 DEF Basics
<1>9. CASE ReadsSelfTests
  <2>1. /\ pc = "selftest" /\ pc' = "errors"
        /\ UNCHANGED << cfg, mon, lim, always, file, disk, now, starts >>
        /\ IsState(st)' /\ IsCheck(chk)' /\ CheckKept(SelfTestFields) /\ IsHistory(h)'
    BY <1>1, <1>9, SelfTestEffects
  <2>2. TypeInv'
    BY <1>2, <2>1 DEF TypeInv, IsFile, IsDisk, Stages
  <2>3. chk'.new = chk.new /\ chk'.dropped = chk.dropped /\ chk'.complete = chk.complete
    BY <2>1 DEF CheckKept, SelfTestFields
  <2>4. Fresh'
    BY <1>1, <2>1, <2>3 DEF Fresh
  <2> QED BY <1>3, <2>1, <2>2, <2>4 DEF Basics
<1>10. CASE ReadsErrors
  <2>1. /\ pc = "errors" /\ pc' = "start"
        /\ UNCHANGED << cfg, mon, lim, always, file, disk, now, starts, h >>
        /\ IsState(st)' /\ IsCheck(chk)' /\ CheckKept({"new", "dropped"})
    BY <1>1, <1>10, ErrorEffects
  <2>2. TypeInv'
    BY <1>2, <2>1 DEF TypeInv, IsFile, IsDisk, IsHistory, Stages
  <2>3. chk'.complete = chk.complete
    BY <2>1 DEF CheckKept
  <2>4. Fresh'
    BY <1>1, <2>1, <2>3 DEF Fresh
  <2> QED BY <1>3, <2>1, <2>2, <2>4 DEF Basics
<1>11. CASE StartsTest
  <2>1. /\ pc = "start" /\ pc' = "write"
        /\ UNCHANGED << cfg, mon, lim, always, file, now, starts >>
        /\ IsState(st)' /\ IsCheck(chk)' /\ IsHistory(h)'
        /\ IsDisk(disk)' /\ disk'.entries = disk.entries /\ disk'.errors = disk.errors
    BY <1>1, <1>11, StartEffects
  <2>2. TypeInv'
    BY <1>2, <2>1 DEF TypeInv, IsFile, Stages
  <2>3. Fresh'
    BY <1>1, <2>1 DEF Fresh
  <2>4. DiskInv'
    BY <1>1, <2>1 DEF DiskInv
  <2> QED BY <2>2, <2>3, <2>4 DEF Basics
<1>12. CASE WriteState
  <2>1. /\ pc = "write" /\ pc' = "wait"
        /\ UNCHANGED << cfg, mon, lim, always, chk, disk, now, starts >>
        /\ IsState(st)' /\ file' = (IF Saves THEN Persistent ELSE file) /\ IsHistory(h)'
    BY <1>1, <1>12, WriteEffects
  <2>2. IsFile(file)' /\ (file'.exists => cfg.state_file)
    <3>1. CASE Saves
      <4>1. file' = Persistent /\ IsFile(Persistent)
        BY <1>2, <2>1, <3>1, PersistentLemma
      <4> QED BY <3>1, <4>1 DEF IsFile, Saves
    <3>2. CASE ~Saves
      <4>1. file' = file
        BY <2>1, <3>2
      <4> QED BY <1>1, <1>2, <4>1 DEF IsFile, Fresh
    <3> QED BY <3>1, <3>2
  <2>3. TypeInv'
    BY <1>2, <2>1, <2>2 DEF TypeInv, IsDisk, IsCheck, Stages
  <2>4. Fresh'
    BY <1>1, <2>1, <2>2 DEF Fresh
  <2> QED BY <1>3, <2>1, <2>3, <2>4 DEF Basics
<1>13. CASE Wakeup
  <2>1. /\ pc' = "open" /\ chk' = NoCheck /\ now' = now + 1 /\ always' \in BOOLEAN
        /\ UNCHANGED << cfg, mon, lim, st, file, disk, h >>
    BY <1>1, <1>13, WakeupEffects
  <2>2. TypeInv'
    BY <1>2, <2>1, NoCheckLemma
    DEF TypeInv, IsState, IsFile, IsDisk, IsCheck, IsHistory, Stages
  <2>3. Fresh'
    BY <1>1, <2>1 DEF Fresh
  <2> QED BY <1>3, <2>1, <2>2, <2>3 DEF Basics
<1>14. CASE Ends_Stopped
  <2>1. /\ pc' = "down" /\ mon' = {} /\ lim' = NoLimits /\ always' = TRUE
        /\ st' = NewState /\ chk' = NoCheck
        /\ UNCHANGED << cfg, disk, now >>
        /\ file' \in {file, Persistent} /\ (file' # file => cfg.state_file)
        /\ IsHistory(h)'
    BY <1>1, <1>14, DownEffects
  <2>2. IsFile(file)'
    <3>1. IsFile(Persistent)
      BY <1>2, PersistentLemma
    <3> QED BY <1>2, <2>1, <3>1 DEF IsFile
  <2>3. TypeInv'
    BY <1>2, <2>1, <2>2, NoCheckLemma, NewStateLemma DEF TypeInv, IsDisk, IsState, IsCheck
  <2>4. Fresh'
    BY <1>1, <2>1 DEF Fresh
  <2> QED BY <1>3, <2>1, <2>3, <2>4 DEF Basics
<1> QED
  BY <1>4, <1>5, <1>6, <1>7, <1>8, <1>9, <1>10, <1>11, <1>12, <1>13, <1>14, NextCases

-----------------------------------------------------------------------------
(***************************************************************************)
(* What is saved, and what is told of wear.                                *)
(***************************************************************************)
\* A step within a cycle that leaves must_write alone changes nothing important.
LEMMA SavedFrame ==
    ASSUME SavedInv, pc # "down", pc # "wait", pc' # "wait",
           UNCHANGED << cfg, always, file >>, st.must_write => st'.must_write,
           ~st'.must_write => /\ \A type \in ImportantTypes :
                                     st'.maillog[type] = st.maillog[type]
                              /\ st'.temp.tempmin = st.temp.tempmin
                              /\ st'.temp.tempmax = st.temp.tempmax
    PROVE  SavedInv'
<1> SUFFICES ASSUME cfg.state_file, ~always, ~st'.must_write
             PROVE  AgreesWithFile'
  BY DEF SavedInv
<1>1. AgreesWithFile
  BY DEF SavedInv
<1> QED BY <1>1 DEF AgreesWithFile

LEMMA SavedNext == Basics /\ SavedInv /\ [Next]_vars => SavedInv'
<1> SUFFICES ASSUME Basics, SavedInv, [Next]_vars PROVE SavedInv'
  OBVIOUS
<1>1. TypeInv /\ DiskInv /\ Fresh /\ IsState(st) /\ now \in Nat
  BY DEF Basics, TypeInv
<1>2. ImportantTypes \subseteq Types
  BY DEF ImportantTypes, Types
<1>3. CASE UNCHANGED vars
  BY <1>3 DEF vars, SavedInv, AgreesWithFile
<1>4. CASE DiskChanges
  <2>1. UNCHANGED << cfg, pc, always, st, file >>
    BY <1>1, <1>4, DiskEffects
  <2> QED BY <2>1 DEF SavedInv, AgreesWithFile
<1>5. CASE NVMeDeviceScan
  <2>1. pc' = "open" /\ always'
    BY <1>1, <1>5, ScanEffects
  <2> QED BY <2>1 DEF SavedInv
<1>6. CASE Opens
  <2>1. /\ pc \in {"open", "smart"} /\ pc' \in {"smart", "write"}
        /\ UNCHANGED << cfg, always, file >> /\ (st.must_write => st'.must_write)
        /\ st'.temp = st.temp
        /\ ~st'.must_write => MailsKept({"FailedOpenDevice"})
    BY <1>1, <1>6, OpenEffects DEF Kept
  <2>2. "FailedOpenDevice" \notin ImportantTypes
    BY DEF ImportantTypes
  <2>3. ~st'.must_write => \A type \in ImportantTypes : st'.maillog[type] = st.maillog[type]
    BY <1>2, <2>1, <2>2 DEF MailsKept
  <2> QED BY <2>1, <2>3, SavedFrame
<1>7. CASE CheckSmartLog
  <2>1. /\ pc = "smart" /\ pc' = "selftest"
        /\ UNCHANGED << cfg, always, file >> /\ (st.must_write => st'.must_write)
        /\ st'.temp = (IF Monitors(lim) THEN CheckTemperature(lim, st.temp, Reading, now)
                                        ELSE st.temp)
        /\ Monitors(lim) /\ SavesTemperature(lim, st.temp, Reading, now) => st'.must_write
        /\ ~st'.must_write => MailsKept({"Temperature"})
    BY <1>1, <1>7, SmartEffects
  <2>2. "Temperature" \notin ImportantTypes
    BY DEF ImportantTypes
  <2>3. ~st'.must_write => \A type \in ImportantTypes : st'.maillog[type] = st.maillog[type]
    BY <1>2, <2>1, <2>2 DEF MailsKept
  <2>4. ASSUME ~st'.must_write
        PROVE  st'.temp.tempmin = st.temp.tempmin /\ st'.temp.tempmax = st.temp.tempmax
    <3>1. CASE ~Monitors(lim)
      BY <2>1, <3>1
    <3>2. CASE Monitors(lim)
      <4>1. st.temp \in TempType /\ disk.kelvin \in Nat
        BY <1>1 DEF IsState, TypeInv, IsDisk
      <4>2. Reading \in 1 .. 255
        BY <4>1, CelsiusLemma DEF Reading
      <4>3. ~SavesTemperature(lim, st.temp, Reading, now)
        BY <2>1, <2>4, <3>2
      <4>4. st'.temp = CheckTemperature(lim, st.temp, Reading, now)
        BY <2>1, <3>2
      <4>5. PICK t, c, limits : t = st.temp /\ c = Reading /\ limits = lim
        OBVIOUS
      <4>6. /\ CheckTemperature(limits, t, c, now).tempmin = t.tempmin
            /\ CheckTemperature(limits, t, c, now).tempmax = t.tempmax
        <5>1. /\ t \in TempType /\ c \in 1 .. 255 /\ now \in Nat
              /\ ~SavesTemperature(limits, t, c, now)
          BY <1>1, <4>1, <4>2, <4>3, <4>5
        <5> QED BY ONLY <5>1, UnsavedTemperature
      <4> QED BY <4>4, <4>5, <4>6
    <3> QED BY <3>1, <3>2
  <2> QED BY <2>1, <2>3, <2>4, SavedFrame
<1>8. CASE ReadsSelfTests
  <2>1. /\ pc = "selftest" /\ pc' = "errors"
        /\ UNCHANGED << cfg, always, file >> /\ (st.must_write => st'.must_write)
        /\ st'.temp = st.temp
        /\ ~st'.must_write => MailsKept({"FailedReadSmartSelfTestLog"})
    BY <1>1, <1>8, SelfTestEffects DEF Kept
  <2>2. "FailedReadSmartSelfTestLog" \notin ImportantTypes
    BY DEF ImportantTypes
  <2>3. ~st'.must_write => \A type \in ImportantTypes : st'.maillog[type] = st.maillog[type]
    BY <1>2, <2>1, <2>2 DEF MailsKept
  <2> QED BY <2>1, <2>3, SavedFrame
<1>9. CASE ReadsErrors
  <2>1. /\ pc = "errors" /\ pc' = "start"
        /\ UNCHANGED << cfg, always, file >> /\ (st.must_write => st'.must_write)
        /\ st'.temp = st.temp /\ (~st'.must_write => MailsKept({}))
    BY <1>1, <1>9, ErrorEffects DEF Kept
  <2>2. ~st'.must_write => \A type \in ImportantTypes : st'.maillog[type] = st.maillog[type]
    BY <1>2, <2>1 DEF MailsKept
  <2> QED BY <2>1, <2>2, SavedFrame
<1>10. CASE StartsTest
  <2>1. /\ pc = "start" /\ pc' = "write"
        /\ UNCHANGED << cfg, always, file >> /\ st'.must_write = st.must_write
        /\ st'.temp = st.temp /\ st'.maillog = st.maillog
    BY <1>1, <1>10, StartEffects DEF Kept
  <2> QED BY <2>1, SavedFrame
<1>11. CASE WriteState
  <2>1. /\ pc = "write" /\ pc' = "wait" /\ UNCHANGED << cfg, always >>
        /\ st'.maillog = st.maillog /\ st'.temp = st.temp
        /\ file' = (IF Saves THEN Persistent ELSE file)
    BY <1>1, <1>11, WriteEffects DEF Kept
  <2> SUFFICES ASSUME cfg.state_file PROVE AgreesWithFile'
    BY <2>1 DEF SavedInv
  <2>2. CASE Saves
    BY <1>1, <2>1, <2>2, PersistentLemma DEF AgreesWithFile
  <2>3. CASE ~Saves
    <3>1. ~always /\ ~st.must_write
      BY <2>3 DEF Saves
    <3>2. AgreesWithFile
      BY <2>1, <3>1 DEF SavedInv
    <3> QED BY <2>1, <2>3, <3>2 DEF AgreesWithFile
  <2> QED BY <2>2, <2>3
<1>12. CASE Wakeup
  <2>1. pc = "wait" /\ UNCHANGED << cfg, st, file >>
    BY <1>1, <1>12, WakeupEffects
  <2> QED BY <2>1 DEF SavedInv, AgreesWithFile
<1>13. CASE Ends_Stopped
  <2>1. pc' = "down"
    BY <1>1, <1>13, DownEffects
  <2> QED BY <2>1 DEF SavedInv
<1> QED
  BY <1>3, <1>4, <1>5, <1>6, <1>7, <1>8, <1>9, <1>10, <1>11, <1>12, <1>13, NextCases

LEMMA WatchedLemma ==
    /\ Watched \subseteq Values /\ Monitored \subseteq Values
    /\ \A v \in Monitored : Compares(v) /\ IsInfo(v)
BY DEF Watched, Monitored, Values, Compares, IsInfo

LEMMA WearNext == Basics /\ WearInv /\ [Next]_vars => WearInv'
<1> SUFFICES ASSUME Basics, WearInv, [Next]_vars PROVE WearInv'
  OBVIOUS
<1>1. TypeInv /\ DiskInv /\ Fresh /\ IsState(st)
  BY DEF Basics, TypeInv
<1>2. /\ pc # "down" => Monitored = Watched
      /\ file.exists => \A v \in Watched : file.val[v] = h.told[v]
      /\ pc \in {"open", "smart", "write", "wait"} =>
             \A v \in Watched : st.val[v] = ToldAfter(v)
      /\ pc \in {"selftest", "errors", "start"} =>
             \A v \in Watched : chk.val[v] = ToldAfter(v)
      /\ pc = "wait" => \A v \in Watched : h.told[v] = ToldAfter(v)
      /\ chk.complete /\ pc \in {"write", "wait"} => st.val = chk.val
      /\ chk.logged # {} => st.must_write \/ pc = "wait"
  BY DEF WearInv
<1>3. UNCHANGED cfg => Watched' = Watched
  BY DEF Watched
<1>4. ASSUME UNCHANGED mon PROVE Monitored' = Monitored
  BY <1>4 DEF Monitored
\* A step that keeps what these values depend on.
<1>5. ASSUME UNCHANGED << cfg, mon, file >>, pc # "down", pc' # "down", pc' # "wait",
             h'.told = h.told, chk'.logged = chk.logged, chk'.val = chk.val,
             st.must_write => st'.must_write, pc # "wait",
             pc' \in {"open", "smart", "write"} =>
                 \A v \in Watched : st'.val[v] = ToldAfter(v),
             pc' \in {"selftest", "errors", "start"} =>
                 pc \in {"selftest", "errors", "start"},
             chk'.complete /\ pc' = "write" => st'.val = chk.val
      PROVE  WearInv'
  <2>1. /\ Watched' = Watched /\ Monitored' = Watched
        /\ \A v \in Watched : ToldAfter(v)' = ToldAfter(v)
    BY <1>2, <1>3, <1>4, <1>5 DEF ToldAfter
  <2>2. file'.exists => \A v \in Watched : file'.val[v] = h'.told[v]
    BY <1>2, <1>5
  <2>3. pc' \in {"open", "smart", "write", "wait"} =>
             \A v \in Watched : st'.val[v] = ToldAfter(v)'
    BY <1>5, <2>1
  <2>4. pc' \in {"selftest", "errors", "start"} =>
             \A v \in Watched : chk'.val[v] = ToldAfter(v)'
    BY <1>2, <1>5, <2>1
  <2>5. chk'.logged # {} => st'.must_write
    BY <1>2, <1>5
  <2> QED BY <1>5, <2>1, <2>2, <2>3, <2>4, <2>5 DEF WearInv
<1>6. CASE UNCHANGED vars
  <2>1. UNCHANGED << cfg, pc, mon, st, chk, file, h >>
    BY <1>6 DEF vars
  <2> QED BY <1>2, <2>1 DEF WearInv, ToldAfter, Watched, Monitored
<1>7. CASE DiskChanges
  <2>1. /\ UNCHANGED << cfg, pc, mon, st, chk, file >> /\ h'.told = h.told
    BY <1>1, <1>7, DiskEffects DEF HistoryKept
  <2> QED BY <1>2, <2>1 DEF WearInv, ToldAfter, Watched, Monitored
<1>8. CASE NVMeDeviceScan
  <2>1. /\ pc' = "open" /\ chk' = NoCheck /\ UNCHANGED << cfg, file >>
        /\ \A f \in {"prefail", "usage"} : f \in mon' <=> f \in cfg.features
        /\ file.exists => st'.val = file.val /\ h'.told = h.told
        /\ ~file.exists => st'.val = disk.val /\ h'.told = disk.val
    BY <1>1, <1>8, ScanEffects DEF HistoryKept
  <2>2. Watched' = Watched /\ Monitored' = Watched
    BY <1>3, <2>1 DEF Watched, Monitored
  <2>3. chk'.logged = {} /\ ~chk'.complete
    BY <2>1, NoCheckLemma
  <2>4. \A v \in Watched : ToldAfter(v)' = h'.told[v]
    BY <2>3 DEF ToldAfter
  <2>5. \A v \in Watched : st'.val[v] = h'.told[v]
    BY <1>2, <2>1
  <2> QED BY <1>2, <2>1, <2>2, <2>3, <2>4, <2>5 DEF WearInv
<1>9. CASE Opens
  <2>1. /\ << pc, pc' >> \in {<< "open", "smart" >>, << "open", "write" >>,
                              << "smart", "write" >>}
        /\ UNCHANGED << cfg, mon, chk, file, h >>
        /\ st'.val = st.val /\ (st.must_write => st'.must_write)
    BY <1>1, <1>9, OpenEffects DEF Kept
  <2>2. pc \in {"open", "smart"} /\ pc' \in {"smart", "write"}
    BY <2>1
  <2>3. ~chk.complete
    BY <1>1, <2>2, NoCheckLemma DEF Fresh
  <2> QED BY <1>2, <1>5, <2>1, <2>2, <2>3
<1>10. CASE CheckSmartLog
  <2>1. /\ pc = "smart" /\ pc' = "selftest" /\ UNCHANGED << cfg, mon, file >>
        /\ (Logged # {} => st'.must_write)
    BY <1>1, <1>10, SmartEffects
  <2>2. /\ chk'.val = disk.val /\ chk'.logged = Logged /\ h'.told = h.told
        /\ chk'.complete = chk.complete
    BY <1>1, <1>10, SmartRecords DEF CheckKept, HistoryKept
  <2>3. chk.logged = {} /\ ~chk.complete
    BY <1>1, <2>1, NoCheckLemma DEF Fresh
  <2>4. Watched' = Watched /\ Monitored' = Watched /\ Monitored = Watched
    BY <1>2, <1>3, <1>4, <2>1
  <2>5. \A v \in Watched : disk.val[v] = ToldAfter(v)'
    <3> SUFFICES ASSUME NEW v \in Watched PROVE disk.val[v] = ToldAfter(v)'
      OBVIOUS
    <3>1. ToldAfter(v)' = IF v \in Logged THEN disk.val[v] ELSE h.told[v]
      BY <2>2 DEF ToldAfter
    <3>2. st.val[v] = h.told[v]
      BY <1>2, <2>1, <2>3 DEF ToldAfter
    <3>3. v \notin Logged => disk.val[v] = st.val[v]
      BY <2>4, WatchedLemma DEF Logged, Changed
    <3> QED BY <3>1, <3>2, <3>3
  <2> QED BY <1>2, <2>1, <2>2, <2>3, <2>4, <2>5 DEF WearInv
<1>11. CASE ReadsSelfTests
  <2>1. /\ pc = "selftest" /\ pc' = "errors" /\ UNCHANGED << cfg, mon, file >>
        /\ (st.must_write => st'.must_write)
    BY <1>1, <1>11, SelfTestEffects
  <2>2. chk'.val = chk.val /\ chk'.logged = chk.logged /\ h'.told = h.told
    BY <1>1, <1>11, SelfTestEffects DEF CheckKept, HistoryKept, SelfTestFields
  <2> QED BY <1>5, <2>1, <2>2
<1>12. CASE ReadsErrors
  <2>1. /\ pc = "errors" /\ pc' = "start" /\ UNCHANGED << cfg, mon, file, h >>
        /\ (st.must_write => st'.must_write)
    BY <1>1, <1>12, ErrorEffects
  <2>2. chk'.val = chk.val /\ chk'.logged = chk.logged
    BY <1>1, <1>12, ErrorEffects DEF CheckKept
  <2> QED BY <1>5, <2>1, <2>2
<1>13. CASE StartsTest
  <2>1. /\ pc = "start" /\ pc' = "write" /\ UNCHANGED << cfg, mon, file >>
        /\ st'.must_write = st.must_write /\ st'.val = chk.val
    BY <1>1, <1>13, StartEffects
  <2>2. chk'.val = chk.val /\ chk'.logged = chk.logged /\ h'.told = h.told
    BY <1>1, <1>13, StartEffects DEF CheckKept, HistoryKept
  <2>3. \A v \in Watched : chk.val[v] = ToldAfter(v)
    BY <1>2, <2>1
  <2> QED BY <1>5, <2>1, <2>2, <2>3
<1>14. CASE WriteState
  <2>1. /\ pc = "write" /\ pc' = "wait" /\ UNCHANGED << cfg, mon, chk >>
        /\ st'.val = st.val /\ file' = (IF Saves THEN Persistent ELSE file)
        /\ \A v \in Values : h'.told[v] = ToldAfter(v)
    BY <1>1, <1>14, WriteEffects DEF Kept
  <2>2. Watched' = Watched /\ Monitored' = Watched
    BY <1>2, <1>3, <1>4, <2>1
  <2>3. \A v \in Watched : h'.told[v] = ToldAfter(v) /\ ToldAfter(v)' = ToldAfter(v)
    BY <2>1, WatchedLemma DEF ToldAfter
  <2>4. ASSUME file'.exists PROVE \A v \in Watched : file'.val[v] = h'.told[v]
    <3>1. CASE Saves
      <4>1. file'.val = st.val
        BY <1>1, <2>1, <3>1, PersistentLemma
      <4> QED BY <1>2, <2>1, <2>3, <4>1
    <3>2. CASE ~Saves
      <4>1. file' = file /\ cfg.state_file
        BY <1>1, <2>1, <2>4, <3>2 DEF Fresh
      <4>2. ~st.must_write
        BY <3>2, <4>1 DEF Saves
      <4>3. chk.logged = {}
        BY <1>2, <2>1, <4>2
      <4>4. \A v \in Watched : ToldAfter(v) = h.told[v]
        BY <4>3 DEF ToldAfter
      <4> QED BY <1>2, <2>3, <2>4, <4>1, <4>4
    <3> QED BY <3>1, <3>2
  <2>5. \A v \in Watched : st'.val[v] = ToldAfter(v)'
    BY <1>2, <2>1, <2>3
  <2>6. chk'.complete => st'.val = chk'.val
    BY <1>2, <2>1
  <2> QED BY <2>1, <2>2, <2>3, <2>4, <2>5, <2>6 DEF WearInv
<1>15. CASE Wakeup
  <2>1. pc = "wait" /\ pc' = "open" /\ chk' = NoCheck /\ UNCHANGED << cfg, mon, st, file, h >>
    BY <1>1, <1>15, WakeupEffects
  <2>2. chk'.logged = {} /\ ~chk'.complete
    BY <2>1, NoCheckLemma
  <2>3. \A v \in Watched : ToldAfter(v)' = h.told[v]
    BY <2>1, <2>2 DEF ToldAfter
  <2>4. Watched' = Watched /\ Monitored' = Watched
    BY <1>2, <1>3, <1>4, <2>1
  <2>5. \A v \in Watched : st'.val[v] = ToldAfter(v)'
    BY <1>2, <2>1, <2>3
  <2> QED BY <1>2, <2>1, <2>2, <2>4, <2>5 DEF WearInv
<1>16. CASE Ends_Stopped
  <2>1. /\ pc' = "down" /\ chk' = NoCheck /\ UNCHANGED cfg /\ h'.told = h.told
        /\ \/ pc = "wait" /\ file' = (IF cfg.state_file THEN Persistent ELSE file)
           \/ file' = file
    BY <1>1, <1>16, DownEffects DEF HistoryKept
  <2>2. chk'.logged = {}
    BY <2>1, NoCheckLemma
  <2>3. file'.exists => \A v \in Watched : file'.val[v] = h'.told[v]
    <3>1. CASE file' = file
      BY <1>2, <2>1, <3>1
    <3>2. CASE pc = "wait" /\ file' = Persistent
      <4>1. file'.val = st.val
        BY <1>1, <3>2, PersistentLemma
      <4> QED BY <1>2, <2>1, <3>2, <4>1
    <3> QED BY <2>1, <3>1, <3>2
  <2> QED BY <1>3, <2>1, <2>2, <2>3 DEF WearInv
<1> QED
  BY <1>6, <1>7, <1>8, <1>9, <1>10, <1>11, <1>12, <1>13, <1>14, <1>15, <1>16, NextCases

-----------------------------------------------------------------------------
(***************************************************************************)
(* The warning of high temperatures.                                       *)
(***************************************************************************)
LEMMA HotFrame ==
    ASSUME HotInv, UNCHANGED << cfg, lim, file >>, h'.hot = h.hot, chk'.c = chk.c,
           h.crashed => h'.crashed, pc = "down" <=> pc' = "down", pc' = "wait" => pc = "wait",
           pc # "down" => /\ Mails(st'.maillog) = Mails(st.maillog)
                          /\ st.must_write => st'.must_write
    PROVE  HotInv'
<1>1. HotAfter' = HotAfter
  BY DEF HotAfter
<1>2. LimitWraps' = LimitWraps
  BY DEF LimitWraps
<1> QED BY <1>1, <1>2 DEF HotInv, Mails

\* What a reading does to the warning and to what it tells.
LEMMA HotReading ==
    ASSUME TypeInv, CheckSmartLog, HotInv, Fresh, ~LimitWraps
    PROVE  /\ Mails(st'.maillog) > 0 => HotAfter'
           /\ HotAfter' => Mails(st'.maillog) > 0 \/ h'.crashed
           /\ file.exists /\ Mails(file.maillog) > 0 =>
                  /\ Mails(st'.maillog) > 0 \/ st'.must_write
                  /\ HotAfter' \/ st'.must_write
<1>1. /\ pc = "smart" /\ UNCHANGED << lim, file >> /\ (st.must_write => st'.must_write)
      /\ IsCritical(lim, Reading) => st'.maillog["Temperature"].logged > 0
      /\ IsNormal(lim, Reading) =>
             /\ st'.maillog["Temperature"] = NoMail
             /\ st.maillog["Temperature"] # NoMail => st'.must_write
      /\ ~IsCritical(lim, Reading) /\ ~IsNormal(lim, Reading) =>
             st'.maillog["Temperature"] = st.maillog["Temperature"]
  BY SmartEffects
<1>2. h'.hot = h.hot /\ h'.crashed = h.crashed /\ chk'.c = Measured
  BY SmartRecords DEF HistoryKept
<1>3. chk.c = 0
  BY <1>1, NoCheckLemma DEF Fresh
<1>4. /\ Mails(st.maillog) > 0 => h.hot
      /\ h.hot => Mails(st.maillog) > 0 \/ h.crashed
      /\ file.exists /\ Mails(file.maillog) > 0 => /\ Mails(st.maillog) > 0 \/ st.must_write
                                                   /\ h.hot
  <2>1. HotAfter = h.hot
    BY <1>3 DEF HotAfter
  <2> QED BY <1>1, <2>1 DEF HotInv
<1>5. lim \in {NoLimits, cfg.lim} /\ lim \in LimitType /\ disk.kelvin \in Nat
  BY LimitsLemma DEF TypeInv, IsDisk
<1>6. Reading \in 1 .. 255
  BY <1>5, CelsiusLemma DEF Reading
<1>7. st.maillog["Temperature"] # NoMail \/ ~(Mails(st.maillog) > 0)
  BY DEF Mails, NoMail
<1>8. PICK hot \in BOOLEAN : hot = h.hot
  BY DEF TypeInv, IsHistory
<1>9. PICK crit \in Nat, info \in Nat : crit = lim.crit /\ info = lim.info /\ crit <= 255
  <2>1. lim.crit \in 0 .. 255 /\ lim.info \in 0 .. 255
    BY <1>5 DEF LimitType, Byte
  <2>2. lim.crit \in Nat /\ lim.info \in Nat /\ lim.crit <= 255
    BY <2>1
  <2> QED BY ONLY <2>2
<1>10. CASE crit = 0 \/ Measured = 0
  <2>1. ~IsCritical(lim, Reading) /\ ~IsNormal(lim, Reading)
    <3>1. CASE crit = 0
      BY <1>9, <3>1 DEF IsCritical, IsNormal
    <3>2. CASE crit # 0 /\ Measured = 0
      <4>1. Monitors(lim)
        BY <1>9, <3>2 DEF Monitors
      <4>2. ~IsReading(Reading)
        BY <1>6, <3>2, <4>1 DEF Measured
      <4> QED BY <4>2 DEF IsCritical, IsNormal
    <3> QED BY <1>10, <3>1, <3>2
  <2>2. HotAfter' = h.hot
    BY <1>1, <1>2, <1>9, <1>10 DEF HotAfter
  <2> QED BY <1>1, <1>2, <1>4, <2>1, <2>2 DEF Mails
<1>11. CASE crit # 0 /\ Measured # 0
  <2>1. (info # 0 \/ crit >= 5) /\ Measured = Reading /\ IsReading(Reading)
    BY <1>5, <1>9, <1>11 DEF NoLimits, Measured, LimitWraps
  <2>2. PICK c \in 1 .. 254 : c = Reading
    BY <1>6, <2>1 DEF IsReading
  <2>3. PICK limit \in Nat : limit = IF info # 0 THEN info ELSE crit - 5
    BY <1>9, <2>1
  <2>4. HotAfter' <=> c >= crit \/ (hot /\ c >= limit)
    BY <1>1, <1>2, <1>8, <1>9, <1>11, <2>1, <2>2, <2>3 DEF HotAfter
  <2>5. IsCritical(lim, Reading) <=> c >= crit
    BY <1>9, <1>11, <2>1, <2>2 DEF IsCritical
  <2>6. IsNormal(lim, Reading) <=> c < crit /\ c < limit
    <3>1. ResetLimit(lim) = limit
      BY <1>9, <2>1, <2>3 DEF ResetLimit
    <3> QED BY <1>9, <1>11, <2>1, <2>2, <2>3, <3>1 DEF IsNormal
  <2>7. CASE c >= crit
    <3>1. HotAfter' /\ Mails(st'.maillog) > 0
      BY <1>1, <2>4, <2>5, <2>7 DEF Mails
    <3> QED BY <3>1
  <2>8. CASE IsNormal(lim, Reading)
    <3>1. ~HotAfter'
      BY <2>2, <2>3, <2>4, <2>6, <2>8
    <3>2. ~(Mails(st'.maillog) > 0)
      BY <1>1, <2>8 DEF Mails, NoMail
    <3>3. file.exists /\ Mails(file.maillog) > 0 => st'.must_write
      BY <1>1, <1>4, <1>7, <2>8
    <3> QED BY <3>1, <3>2, <3>3
  <2>9. CASE c < crit /\ ~IsNormal(lim, Reading)
    <3>1. HotAfter' <=> hot
      BY <2>2, <2>3, <2>4, <2>6, <2>9
    <3>2. Mails(st'.maillog) = Mails(st.maillog)
      <4>1. ~IsCritical(lim, Reading)
        BY <1>9, <2>2, <2>5, <2>9
      <4> QED BY <1>1, <2>9, <4>1 DEF Mails
    <3> QED BY <1>1, <1>2, <1>4, <1>8, <3>1, <3>2
  <2> QED BY <1>9, <2>2, <2>7, <2>8, <2>9
<1> QED BY <1>10, <1>11

LEMMA HotNext == Basics /\ HotInv /\ [Next]_vars => HotInv'
<1> SUFFICES ASSUME Basics, HotInv, [Next]_vars PROVE HotInv'
  OBVIOUS
<1>1. TypeInv /\ DiskInv /\ Fresh /\ IsState(st)
  BY DEF Basics, TypeInv
<1>2. "Temperature" \in Types
  BY DEF Types
<1>3. CASE UNCHANGED vars
  BY <1>3, HotFrame DEF vars
<1>4. CASE DiskChanges
  <2>1. UNCHANGED << cfg, pc, lim, st, chk, file >> /\ h'.hot = h.hot /\ h'.crashed = h.crashed
    BY <1>1, <1>4, DiskEffects DEF HistoryKept
  <2> QED BY <2>1, HotFrame
<1>5. CASE Opens
  <2>1. /\ << pc, pc' >> \in {<< "open", "smart" >>, << "open", "write" >>,
                              << "smart", "write" >>}
        /\ UNCHANGED << cfg, lim, chk, file, h >> /\ (st.must_write => st'.must_write)
        /\ Mails(st'.maillog) = Mails(st.maillog)
    BY <1>1, <1>2, <1>5, OpenEffects DEF MailsKept, Mails
  <2>2. pc # "down" /\ pc' # "down" /\ pc' # "wait"
    BY <2>1
  <2> QED BY <2>1, <2>2, HotFrame
<1>6. CASE ReadsSelfTests
  <2>1. /\ pc = "selftest" /\ pc' = "errors"
        /\ UNCHANGED << cfg, lim, file >> /\ (st.must_write => st'.must_write)
        /\ Mails(st'.maillog) = Mails(st.maillog)
    BY <1>1, <1>2, <1>6, SelfTestEffects DEF MailsKept, Mails
  <2>2. chk'.c = chk.c /\ h'.hot = h.hot /\ h'.crashed = h.crashed
    BY <1>1, <1>6, SelfTestEffects DEF CheckKept, HistoryKept, SelfTestFields
  <2> QED BY <2>1, <2>2, HotFrame
<1>7. CASE ReadsErrors
  <2>1. /\ pc = "errors" /\ pc' = "start"
        /\ UNCHANGED << cfg, lim, file, h >> /\ (st.must_write => st'.must_write)
        /\ Mails(st'.maillog) = Mails(st.maillog)
    BY <1>1, <1>2, <1>7, ErrorEffects DEF MailsKept, Mails
  <2>2. chk'.c = chk.c
    BY <1>1, <1>7, ErrorEffects DEF CheckKept
  <2> QED BY <2>1, <2>2, HotFrame
<1>8. CASE StartsTest
  <2>1. /\ pc = "start" /\ pc' = "write"
        /\ UNCHANGED << cfg, lim, file >> /\ st'.must_write = st.must_write
        /\ st'.maillog = st.maillog
    BY <1>1, <1>8, StartEffects
  <2>2. chk'.c = chk.c /\ h'.hot = h.hot /\ h'.crashed = h.crashed
    BY <1>1, <1>8, StartEffects DEF CheckKept, HistoryKept
  <2> QED BY <2>1, <2>2, HotFrame
<1> SUFFICES ASSUME ~LimitWraps,
                    \/ NVMeDeviceScan \/ CheckSmartLog \/ WriteState \/ Wakeup \/ Ends_Stopped
             PROVE  HotInv'
  <2>1. ASSUME LimitWraps PROVE HotInv'
    <3>1. cfg' = cfg
      BY <1>1, ScanEffects, SmartEffects, WriteEffects, WakeupEffects, DownEffects, <1>3, <1>4,
         <1>5, <1>6, <1>7, <1>8, NextCases, DiskEffects, OpenEffects, SelfTestEffects,
         ErrorEffects, StartEffects DEF vars
    <3> QED BY <2>1, <3>1 DEF HotInv, LimitWraps
  <2> QED BY <1>3, <1>4, <1>5, <1>6, <1>7, <1>8, <2>1, NextCases
<1>9. /\ pc # "down" => /\ Mails(st.maillog) > 0 => HotAfter
                        /\ HotAfter => Mails(st.maillog) > 0 \/ h.crashed
                        /\ file.exists /\ Mails(file.maillog) > 0 =>
                               Mails(st.maillog) > 0 \/ st.must_write
      /\ pc = "wait" => h.hot = HotAfter
      /\ file.exists => /\ Mails(file.maillog) > 0 => h.hot
                        /\ pc = "down" /\ h.hot => Mails(file.maillog) > 0 \/ h.crashed
                        /\ pc # "down" /\ Mails(file.maillog) > 0 => HotAfter \/ st.must_write
  BY DEF HotInv
<1>10. NoCheck.c = 0
  BY NoCheckLemma
<1>11. CASE NVMeDeviceScan
  <2>1. /\ pc = "down" /\ pc' = "open" /\ chk' = NoCheck /\ UNCHANGED << cfg, file >>
        /\ file.exists => st'.maillog = file.maillog /\ h'.hot = h.hot
        /\ h'.crashed = h.crashed
        /\ ~file.exists => st'.maillog["Temperature"] = NoMail /\ ~h'.hot
    BY <1>1, <1>2, <1>11, ScanEffects DEF HistoryKept
  <2>2. HotAfter' = h'.hot
    BY <1>10, <2>1 DEF HotAfter
  <2>3. CASE file.exists
    BY <1>9, <2>1, <2>2, <2>3 DEF HotInv, Mails, LimitWraps
  <2>4. CASE ~file.exists
    <3>1. ~(Mails(st'.maillog) > 0) /\ ~HotAfter'
      BY <2>1, <2>2, <2>4 DEF Mails, NoMail
    <3> QED BY <2>1, <2>4, <3>1 DEF HotInv, Mails, LimitWraps
  <2> QED BY <2>3, <2>4
<1>12. CASE CheckSmartLog
  <2>1. pc' = "selftest" /\ UNCHANGED << cfg, file >>
    BY <1>1, <1>12, SmartEffects
  <2>2. h'.hot = h.hot
    BY <1>1, <1>12, SmartRecords DEF HistoryKept
  <2>3. /\ Mails(st'.maillog) > 0 => HotAfter'
        /\ HotAfter' => Mails(st'.maillog) > 0 \/ h'.crashed
        /\ file.exists /\ Mails(file.maillog) > 0 =>
               /\ Mails(st'.maillog) > 0 \/ st'.must_write
               /\ HotAfter' \/ st'.must_write
    BY <1>1, <1>12, HotReading
  <2> QED BY <1>9, <2>1, <2>2, <2>3 DEF HotInv, Mails, LimitWraps
<1>13. CASE WriteState
  <2>1. /\ pc = "write" /\ pc' = "wait" /\ UNCHANGED << cfg, lim, chk >>
        /\ st'.maillog = st.maillog /\ st'.must_write = (st.must_write /\ ~Saves)
        /\ file' = (IF Saves THEN Persistent ELSE file)
        /\ h'.hot = HotAfter /\ h'.crashed = h.crashed
    BY <1>1, <1>13, WriteEffects DEF HistoryKept
  <2>2. HotAfter' = HotAfter
    <3>1. PICK hot \in BOOLEAN : hot = h.hot
      BY <1>1 DEF TypeInv, IsHistory
    <3>2. PICK limit : limit = IF lim.info # 0 THEN lim.info ELSE lim.crit - 5
      OBVIOUS
    <3>3. HotAfter = IF chk.c = 0 \/ lim.crit = 0 THEN hot
                     ELSE chk.c >= lim.crit \/ (hot /\ chk.c >= limit)
      BY <3>1, <3>2 DEF HotAfter
    <3>4. HotAfter' = IF chk.c = 0 \/ lim.crit = 0 THEN HotAfter
                      ELSE chk.c >= lim.crit \/ (HotAfter /\ chk.c >= limit)
      BY <2>1, <3>2 DEF HotAfter
    <3> HIDE DEF HotAfter
    <3> QED BY <3>3, <3>4
  <2>3. CASE Saves
    <3>1. Mails(file'.maillog) = Mails(st.maillog)
      BY <1>1, <2>1, <2>3, PersistentLemma DEF Mails
    <3> QED BY <1>9, <2>1, <2>2, <3>1 DEF HotInv, Mails, LimitWraps
  <2>4. CASE ~Saves
    <3>1. file' = file /\ (file.exists => ~st.must_write)
      BY <1>1, <2>1, <2>4 DEF Fresh, Saves
    <3> QED BY <1>9, <2>1, <2>2, <3>1 DEF HotInv, Mails, LimitWraps
  <2> QED BY <2>3, <2>4
<1>14. CASE Wakeup
  <2>1. pc = "wait" /\ pc' = "open" /\ chk' = NoCheck /\ UNCHANGED << cfg, lim, st, file, h >>
    BY <1>1, <1>14, WakeupEffects
  <2>2. HotAfter' = HotAfter
    BY <1>9, <1>10, <2>1 DEF HotAfter
  <2> QED BY <1>9, <2>1, <2>2 DEF HotInv, Mails, LimitWraps
<1>15. CASE Ends_Stopped
  <2>1. /\ pc # "down" /\ pc' = "down" /\ UNCHANGED cfg
        /\ \/ pc = "wait" /\ file' = (IF cfg.state_file THEN Persistent ELSE file) /\ h' = h
           \/ file' = file /\ h'.crashed
        /\ h'.hot = h.hot
    BY <1>1, <1>15, DownEffects DEF HistoryKept
  <2>2. CASE file' = file /\ h'.crashed
    BY <1>9, <2>1, <2>2 DEF HotInv, Mails, LimitWraps
  <2>3. CASE pc = "wait" /\ file' = (IF cfg.state_file THEN Persistent ELSE file) /\ h' = h
    <3>1. CASE cfg.state_file
      <4>1. Mails(file'.maillog) = Mails(st.maillog)
        BY <1>1, <2>3, <3>1, PersistentLemma DEF Mails
      <4> QED BY <1>9, <2>1, <2>3, <4>1 DEF HotInv, LimitWraps
    <3>2. CASE ~cfg.state_file
      <4>1. file' = file /\ ~file.exists
        BY <1>1, <2>3, <3>2 DEF Fresh
      <4> QED BY <2>1, <4>1 DEF HotInv, LimitWraps
    <3> QED BY <3>1, <3>2
  <2> QED BY <2>1, <2>2, <2>3
<1> QED BY <1>11, <1>12, <1>13, <1>14, <1>15

-----------------------------------------------------------------------------
(***************************************************************************)
(* The error log.                                                          *)
(***************************************************************************)
LEMMA CoveredFrame ==
    ASSUME NEW count, NEW reported, NEW dropped, UNCHANGED disk, h'.base = h.base,
           Covered(count, reported, dropped)
    PROVE  Covered(count, reported, dropped)'
BY DEF Covered

\* What the disk adds to its log is not yet counted.
LEMMA CoveredDisk ==
    ASSUME TypeInv, DiskInv, DiskChanges,
           NEW count \in Nat, NEW reported, NEW dropped, Covered(count, reported, dropped)
    PROVE  count <= disk'.entries
           /\ \A i \in DOMAIN disk'.errors :
                  LET e == disk'.errors[i]
                  IN  h'.base < e.n /\ e.n <= count /\ e.kind = "device"
                          => e.n \in reported \cup dropped
<1>1. /\ IsDisk(disk)' /\ DiskInv' /\ disk.entries <= disk'.entries
      /\ \A i \in DOMAIN disk'.errors :
             \/ disk'.errors[i].n > disk.entries
             \/ \E j \in DOMAIN disk.errors : disk.errors[j] = disk'.errors[i]
      /\ h'.base = h.base
  BY DiskEffects DEF HistoryKept
<1>2. /\ count <= disk.entries
      /\ \A i \in DOMAIN disk.errors :
             LET e == disk.errors[i]
             IN  h.base < e.n /\ e.n <= count /\ e.kind = "device"
                     => e.n \in reported \cup dropped
  BY DEF Covered
<1>3. disk.entries \in Nat /\ disk'.entries \in Nat
  BY <1>1 DEF TypeInv, IsDisk
<1>4. ASSUME NEW i \in DOMAIN disk'.errors,
             h'.base < disk'.errors[i].n, disk'.errors[i].n <= count,
             disk'.errors[i].kind = "device"
      PROVE  disk'.errors[i].n \in reported \cup dropped
  <2>1. disk'.errors[i].n \in 1 .. disk'.entries
    BY <1>1 DEF DiskInv
  <2>2. ~(disk'.errors[i].n > disk.entries)
    BY <1>2, <1>3, <1>4, <2>1
  <2>3. PICK j \in DOMAIN disk.errors : disk.errors[j] = disk'.errors[i]
    BY <1>1, <2>2
  <2> QED BY <1>1, <1>2, <1>4, <2>3
<1> QED BY <1>1, <1>2, <1>3, <1>4

\* Reading the log covers everything up to the new count.
LEMMA CoveredRead ==
    ASSUME Basics, CountInv, ReadErrorLog
    PROVE  /\ Covered(NewCount, h.reported \cup chk'.new, h.dropped \cup chk'.dropped)
           /\ chk'.new \cap h.reported = {}
<1>1. TypeInv /\ DiskInv /\ Fresh /\ pc = "errors"
  BY DEF Basics, ReadErrorLog
<1>2. /\ st.errcount \in Nat /\ chk.entries \in Nat /\ disk.entries \in Nat /\ h.base \in Nat
      /\ IsCheck(chk)
  BY <1>1 DEF TypeInv, IsState, IsCheck, IsDisk, IsHistory
<1>3. chk.new = {} /\ chk.dropped = {} /\ chk.entries <= disk.entries
      /\ Covered(st.errcount, h.reported, h.dropped)
  BY <1>1 DEF Fresh, CountInv
<1>4. /\ NewCount \in {e.n : e \in NewErrors} \cup {chk.entries}
      /\ NewCount \in Nat /\ chk.entries <= NewCount
      /\ \A e \in NewErrors : e.n <= NewCount
  BY <1>1, NewCountLemma
<1>5. \A e \in NewErrors : /\ e.n > st.errcount
                           /\ \E i \in DOMAIN disk.errors : disk.errors[i] = e
  BY <1>1, NewErrorsLemma
<1>6. \A i \in DOMAIN disk.errors : disk.errors[i].n \in 1 .. disk.entries
  BY <1>1 DEF DiskInv
<1> DEFINE errors == {e.n : e \in {f \in NewErrors : f.kind = "device"}}
           new == {e.n : e \in NewErrors}
           dropped == (st.errcount + 1 .. NewCount) \ new
<1>7. chk'.new = errors /\ chk'.dropped = dropped
  <2> HIDE DEF errors, dropped
  <2>1. chk' = [chk EXCEPT !.new = errors, !.dropped = dropped]
    BY DEF ReadErrorLog, errors, dropped
  <2> QED BY <1>2, <2>1 DEF IsCheck
<1>8. NewCount <= disk.entries
  <2>1. \A e \in NewErrors : e.n <= disk.entries
    BY <1>2, <1>5, <1>6
  <2> QED BY <1>3, <1>4, <2>1
<1>9. st.errcount <= NewCount
  <2>1. chk.entries > st.errcount
    BY DEF ReadErrorLog, HasNewErrors
  <2> QED BY <1>2, <1>4, <2>1
<1>10. ASSUME NEW i \in DOMAIN disk.errors,
              h.base < disk.errors[i].n, disk.errors[i].n <= NewCount,
              disk.errors[i].kind = "device"
       PROVE  disk.errors[i].n \in (h.reported \cup errors) \cup (h.dropped \cup dropped)
  <2>1. PICK n \in Nat : n = disk.errors[i].n
    BY <1>6
  <2>2. CASE n <= st.errcount
    <3>1. n \in h.reported \cup h.dropped
      BY <1>3, <1>10, <2>1, <2>2 DEF Covered
    <3> QED BY <2>1, <3>1
  <2>3. CASE n > st.errcount /\ n \notin new
    <3>1. n \in st.errcount + 1 .. NewCount
      BY <1>2, <1>4, <1>10, <2>1, <2>3
    <3> QED BY <2>1, <2>3, <3>1
  <2>4. CASE n \in new
    <3>1. PICK f \in NewErrors : f.n = n
      BY <2>4
    <3>2. PICK j \in DOMAIN disk.errors : disk.errors[j] = f
      BY <1>5, <3>1
    <3>3. i = j
      BY <1>1, <2>1, <3>1, <3>2 DEF DiskInv
    <3>4. f.kind = "device"
      BY <1>10, <3>2, <3>3
    <3>5. n \in errors
      BY <3>1, <3>4
    <3> QED BY <2>1, <3>5
  <2> QED BY <1>2, <2>1, <2>2, <2>3, <2>4
<1>11. h.reported \cup errors \subseteq 0 .. NewCount
  <2>1. h.reported \subseteq 0 .. st.errcount
    BY <1>3 DEF Covered
  <2>2. \A n \in errors : n <= NewCount /\ n \in Nat
    BY <1>4, <1>5, <1>6
  <2> HIDE DEF errors
  <2> QED BY <1>2, <1>4, <1>9, <2>1, <2>2
<1>12. errors \cap h.reported = {}
  <2>1. h.reported \subseteq 0 .. st.errcount
    BY <1>3 DEF Covered
  <2>2. \A n \in errors : n > st.errcount /\ n \in Nat
    BY <1>5, <1>6
  <2> HIDE DEF errors
  <2> QED BY <1>2, <2>1, <2>2
<1> HIDE DEF errors, dropped
<1> QED BY <1>7, <1>8, <1>10, <1>11, <1>12 DEF Covered

LEMMA CountNext == Basics /\ CountInv /\ [Next]_vars => CountInv'
<1> SUFFICES ASSUME Basics, CountInv, [Next]_vars PROVE CountInv'
  OBVIOUS
<1>1. /\ TypeInv /\ DiskInv /\ Fresh /\ IsState(st) /\ IsFile(file) /\ IsCheck(chk)
      /\ disk.entries \in Nat /\ chk.entries \in Nat /\ st.errcount \in Nat /\ h.base \in Nat
  BY DEF Basics, TypeInv, IsDisk, IsCheck, IsState, IsHistory
<1>2. /\ ~h.twice /\ chk.entries <= disk.entries
      /\ file.exists => Covered(file.errcount, h.reported, h.dropped)
      /\ pc # "down" =>
             Covered(st.errcount, h.reported \cup chk.new, h.dropped \cup chk.dropped)
      /\ pc \in Stages \ {"wait"} => chk.new \cap h.reported = {}
      /\ pc = "wait" => chk.new \subseteq h.reported /\ chk.dropped \subseteq h.dropped
      /\ chk.new # {} => st.must_write \/ pc = "wait"
  BY DEF CountInv
<1>3. file.exists => file.errcount \in Nat
  BY <1>1 DEF IsFile, NoFile
<1>4. NoCheck.entries = 0 /\ NoCheck.new = {} /\ NoCheck.dropped = {}
  BY NoCheckLemma
\* A step that does not touch what was counted.
<1>5. ASSUME UNCHANGED << file >>, disk'.errors = disk.errors, disk'.entries = disk.entries,
             h'.base = h.base, h'.reported = h.reported, h'.dropped = h.dropped,
             h'.twice = h.twice,
             st'.errcount = st.errcount, chk'.new = chk.new, chk'.dropped = chk.dropped,
             chk'.entries \in {chk.entries, disk.entries},
             st.must_write => st'.must_write,
             pc = "down" <=> pc' = "down", pc = "wait" <=> pc' = "wait",
             pc' \in Stages => pc \in Stages
      PROVE  CountInv'
  <2>1. file.exists => Covered(file.errcount, h.reported, h.dropped)'
    BY <1>2, <1>5 DEF Covered
  <2>2. pc # "down" =>
            Covered(st.errcount, h.reported \cup chk.new, h.dropped \cup chk.dropped)'
    BY <1>2, <1>5 DEF Covered
  <2> QED BY <1>1, <1>2, <1>5, <2>1, <2>2 DEF CountInv
<1>6. CASE UNCHANGED vars
  BY <1>5, <1>6 DEF vars
<1>7. CASE DiskChanges
  <2>1. /\ UNCHANGED << cfg, pc, st, chk, file >>
        /\ disk.entries <= disk'.entries /\ disk'.entries \in Nat
        /\ h'.base = h.base /\ h'.reported = h.reported /\ h'.dropped = h.dropped
        /\ h'.twice = h.twice
    BY <1>1, <1>7, DiskEffects DEF HistoryKept, IsDisk
  <2>2. ASSUME NEW count \in Nat, NEW reported, NEW dropped,
               Covered(count, reported, dropped), reported' = reported, dropped' = dropped
        PROVE  Covered(count, reported, dropped)'
    <3>1. /\ count <= disk'.entries
          /\ \A i \in DOMAIN disk'.errors :
                 LET e == disk'.errors[i]
                 IN  h'.base < e.n /\ e.n <= count /\ e.kind = "device"
                         => e.n \in reported \cup dropped
      BY <1>1, <1>7, <2>2, CoveredDisk
    <3> QED BY <2>2, <3>1 DEF Covered
  <2> QED BY <1>1, <1>2, <1>3, <2>1, <2>2 DEF CountInv
<1>8. CASE NVMeDeviceScan
  <2>1. /\ pc = "down" /\ pc' = "open" /\ chk' = NoCheck
        /\ UNCHANGED << cfg, file, disk, now >>
        /\ file.exists =>
               /\ st'.errcount = file.errcount /\ h'.base = h.base
               /\ h'.reported = h.reported /\ h'.dropped = h.dropped /\ h'.twice = h.twice
        /\ ~file.exists =>
               /\ st'.errcount \in {0, disk.entries} /\ h'.base = disk.entries
               /\ h'.reported = {} /\ h'.dropped = {} /\ ~h'.twice
    BY <1>1, <1>8, ScanEffects DEF HistoryKept
  <2>2. CASE file.exists
    <3>1. Covered(file.errcount, h.reported, h.dropped)'
      BY <1>2, <2>1, <2>2 DEF Covered
    <3>2. Covered(st.errcount, h.reported \cup chk.new, h.dropped \cup chk.dropped)'
      <4>1. h'.reported \cup chk'.new = h'.reported /\ h'.dropped \cup chk'.dropped = h'.dropped
        BY <1>4, <2>1
      <4> QED BY <1>2, <2>1, <2>2, <4>1 DEF Covered
    <3> QED BY <1>1, <1>2, <1>4, <2>1, <2>2, <3>1, <3>2 DEF CountInv
  <2>3. CASE ~file.exists
    <3>1. \A i \in DOMAIN disk.errors : disk.errors[i].n \in 1 .. disk.entries
      BY <1>1 DEF DiskInv
    <3>2. Covered(st.errcount, h.reported \cup chk.new, h.dropped \cup chk.dropped)'
      BY <1>1, <1>4, <2>1, <2>3, <3>1 DEF Covered
    <3> QED BY <1>1, <1>4, <2>1, <2>3, <3>2 DEF CountInv
  <2> QED BY <2>2, <2>3
<1>9. CASE Opens
  <2>1. /\ << pc, pc' >> \in {<< "open", "smart" >>, << "open", "write" >>,
                              << "smart", "write" >>}
        /\ UNCHANGED << chk, file, disk, h >> /\ (st.must_write => st'.must_write)
        /\ st'.errcount = st.errcount
    BY <1>1, <1>9, OpenEffects DEF Kept
  <2>2. pc \in {"open", "smart"} /\ pc' \in {"smart", "write"}
    BY <2>1
  <2> QED BY <1>5, <2>1, <2>2 DEF Stages
<1>10. CASE CheckSmartLog
  <2>1. /\ pc = "smart" /\ pc' = "selftest" /\ UNCHANGED << file, disk >>
        /\ (st.must_write => st'.must_write) /\ st'.errcount = st.errcount
    BY <1>1, <1>10, SmartEffects DEF Kept
  <2>2. /\ chk'.entries = disk.entries /\ chk'.new = chk.new /\ chk'.dropped = chk.dropped
        /\ h'.base = h.base /\ h'.reported = h.reported /\ h'.dropped = h.dropped
        /\ h'.twice = h.twice
    BY <1>1, <1>10, SmartRecords DEF CheckKept, HistoryKept
  <2> QED BY <1>5, <2>1, <2>2 DEF Stages
<1>11. CASE ReadsSelfTests
  <2>1. /\ pc = "selftest" /\ pc' = "errors" /\ UNCHANGED << file, disk >>
        /\ (st.must_write => st'.must_write) /\ st'.errcount = st.errcount
    BY <1>1, <1>11, SelfTestEffects DEF Kept
  <2>2. /\ chk'.entries = chk.entries /\ chk'.new = chk.new /\ chk'.dropped = chk.dropped
        /\ h'.base = h.base /\ h'.reported = h.reported /\ h'.dropped = h.dropped
        /\ h'.twice = h.twice
    BY <1>1, <1>11, SelfTestEffects DEF CheckKept, HistoryKept, SelfTestFields
  <2> QED BY <1>5, <2>1, <2>2 DEF Stages
<1>12. CASE ReadsErrors
  <2>1. /\ pc = "errors" /\ pc' = "start" /\ UNCHANGED << file, disk, h >>
        /\ (st.must_write => st'.must_write)
        /\ \/ st' = st /\ chk' = chk
           \/ ReadErrorLog /\ st'.errcount = NewCount /\ st'.must_write
    BY <1>1, <1>12, ErrorEffects
  <2>2. CASE st' = st /\ chk' = chk
    BY <1>5, <2>1, <2>2 DEF Stages
  <2>3. CASE ReadErrorLog /\ st'.errcount = NewCount /\ st'.must_write
    <3>1. /\ Covered(NewCount, h.reported \cup chk'.new, h.dropped \cup chk'.dropped)
          /\ chk'.new \cap h.reported = {}
      BY <2>3, CoveredRead
    <3>2. Covered(st.errcount, h.reported \cup chk.new, h.dropped \cup chk.dropped)'
      BY <2>1, <2>3, <3>1 DEF Covered
    <3>3. chk'.entries = chk.entries
      BY <1>1, <1>12, ErrorEffects DEF CheckKept
    <3>4. file'.exists => Covered(file.errcount, h.reported, h.dropped)'
      BY <1>2, <2>1 DEF Covered
    <3> QED BY <1>2, <2>1, <2>3, <3>1, <3>2, <3>3, <3>4 DEF CountInv
  <2> QED BY <2>1, <2>2, <2>3
<1>13. CASE StartsTest
  <2>1. /\ pc = "start" /\ pc' = "write" /\ UNCHANGED << file >>
        /\ st'.must_write = st.must_write /\ st'.errcount = st.errcount
        /\ disk'.errors = disk.errors /\ disk'.entries = disk.entries
    BY <1>1, <1>13, StartEffects DEF Kept
  <2>2. /\ chk'.entries = chk.entries /\ chk'.new = chk.new /\ chk'.dropped = chk.dropped
        /\ h'.base = h.base /\ h'.reported = h.reported /\ h'.dropped = h.dropped
        /\ h'.twice = h.twice
    BY <1>1, <1>13, StartEffects DEF CheckKept, HistoryKept
  <2> QED BY <1>5, <2>1, <2>2 DEF Stages
<1>14. CASE WriteState
  <2>1. /\ pc = "write" /\ pc' = "wait" /\ UNCHANGED << cfg, chk, disk >>
        /\ st'.errcount = st.errcount /\ st'.must_write = (st.must_write /\ ~Saves)
        /\ file' = (IF Saves THEN Persistent ELSE file)
        /\ h'.base = h.base
        /\ h'.twice = (h.twice \/ chk.new \cap h.reported # {})
        /\ h'.reported = h.reported \cup chk.new /\ h'.dropped = h.dropped \cup chk.dropped
    BY <1>1, <1>14, WriteEffects DEF Kept, HistoryKept
  <2>2. ~h'.twice
    BY <1>2, <2>1 DEF Stages
  <2>3. Covered(st.errcount, h.reported \cup chk.new, h.dropped \cup chk.dropped)
    BY <1>2, <2>1
  <2>4. Covered(st.errcount, h.reported \cup chk.new, h.dropped \cup chk.dropped)'
    <3>1. /\ h'.reported \cup chk'.new = h.reported \cup chk.new
          /\ h'.dropped \cup chk'.dropped = h.dropped \cup chk.dropped
      BY <2>1
    <3> QED BY <2>1, <2>3, <3>1 DEF Covered
  <2>5. ASSUME file'.exists PROVE Covered(file.errcount, h.reported, h.dropped)'
    <3>1. CASE Saves
      <4>1. file'.errcount = st.errcount
        BY <1>1, <2>1, <3>1, PersistentLemma
      <4> QED BY <2>1, <2>3, <4>1 DEF Covered
    <3>2. CASE ~Saves
      <4>1. file' = file /\ cfg.state_file /\ ~st.must_write
        BY <1>1, <2>1, <2>5, <3>2 DEF Fresh, Saves
      <4>2. chk.new = {} /\ Covered(file.errcount, h.reported, h.dropped)
        BY <1>2, <2>1, <2>5, <4>1
      <4>3. h'.reported = h.reported /\ h.dropped \subseteq h'.dropped
        BY <2>1, <4>2
      <4> QED BY <2>1, <4>1, <4>2, <4>3 DEF Covered
    <3> QED BY <3>1, <3>2
  <2> QED BY <1>2, <2>1, <2>2, <2>4, <2>5 DEF CountInv
<1>15. CASE Wakeup
  <2>1. pc = "wait" /\ pc' = "open" /\ chk' = NoCheck /\ UNCHANGED << st, file, disk, h >>
    BY <1>1, <1>15, WakeupEffects
  <2>2. Covered(st.errcount, h.reported \cup chk.new, h.dropped \cup chk.dropped)'
    <3>1. /\ h'.reported \cup chk'.new = h.reported \cup chk.new
          /\ h'.dropped \cup chk'.dropped = h.dropped \cup chk.dropped
      BY <1>2, <1>4, <2>1
    <3> QED BY <1>2, <2>1, <3>1 DEF Covered
  <2>3. file'.exists => Covered(file.errcount, h.reported, h.dropped)'
    BY <1>2, <2>1 DEF Covered
  <2> QED BY <1>1, <1>2, <1>4, <2>1, <2>2, <2>3 DEF CountInv
<1>16. CASE Ends_Stopped
  <2>1. /\ pc' = "down" /\ chk' = NoCheck /\ UNCHANGED << disk >>
        /\ \/ pc = "wait" /\ file' = (IF cfg.state_file THEN Persistent ELSE file)
           \/ file' = file
        /\ h'.base = h.base /\ h'.reported = h.reported /\ h'.dropped = h.dropped
        /\ h'.twice = h.twice
    BY <1>1, <1>16, DownEffects DEF HistoryKept
  <2>2. file'.exists => Covered(file.errcount, h.reported, h.dropped)'
    <3>1. CASE file' = file
      BY <1>2, <2>1, <3>1 DEF Covered
    <3>2. CASE pc = "wait" /\ file' = Persistent
      <4>1. file'.errcount = st.errcount
        BY <1>1, <3>2, PersistentLemma
      <4>2. h.reported \cup chk.new = h.reported /\ h.dropped \cup chk.dropped = h.dropped
        BY <1>2, <3>2
      <4>3. Covered(st.errcount, h.reported, h.dropped)
        BY <1>2, <3>2, <4>2
      <4> QED BY <2>1, <4>1, <4>3 DEF Covered
    <3> QED BY <2>1, <3>1, <3>2
  <2> QED BY <1>1, <1>2, <1>4, <2>1, <2>2 DEF CountInv, Stages
<1> QED
  BY <1>6, <1>7, <1>8, <1>9, <1>10, <1>11, <1>12, <1>13, <1>14, <1>15, <1>16, NextCases

-----------------------------------------------------------------------------
(***************************************************************************)
(* The hour of the newest failed self-test.                                *)
(***************************************************************************)
\* A failed test the log told before is still the newest one, or is told now.
LEMMA HourRead ==
    ASSUME Basics, HourInv, ReadSelfTestLog
    PROVE  /\ st'.selfloghour \in h.hours \cup chk'.hours
           /\ chk'.hour \in h.hours \cup chk'.hours
<1>1. pc = "selftest" /\ 0 \in h.hours /\ st.selfloghour \in h.hours /\ IsState(st) /\ IsCheck(chk)
  BY DEF ReadSelfTestLog, HourInv, Basics, TypeInv
<1> DEFINE counts == "selftest" \in mon
           told == IF counts /\ Reports THEN {Hour(Failed)} ELSE {}
<1>2. /\ st'.selfloghour = IF counts THEN Hour(Failed) ELSE st.selfloghour
      /\ chk'.hour = IF counts THEN Hour(Failed) ELSE 0
      /\ chk'.hours = told
  <2> DEFINE bad == IF counts /\ Reports THEN Once({"SelfTest"}) ELSE << >>
  <2>1. PICK due \in BOOLEAN :
            /\ st' = [st EXCEPT
                    !.maillog = Mail(bad, {"FailedReadSmartSelfTestLog"} \cup
                                          (IF counts /\ NoErrors THEN {"SelfTest"} ELSE {})),
                    !.must_write = \/ @ \/ due \/ bad # << >>
                                   \/ WasReset({"FailedReadSmartSelfTestLog"} \cup
                                               (IF counts /\ NoErrors THEN {"SelfTest"} ELSE {})),
                    !.selftest_op = IF "selfteststs" \in mon /\ LogsStatus
                                    THEN disk.running # "no" ELSE @,
                    !.selflogcount = IF counts THEN Cardinality(Failed) ELSE @,
                    !.selfloghour = IF counts THEN Hour(Failed) ELSE @,
                    !.selftest_started = FALSE]
            /\ chk' = [chk EXCEPT
                    !.testtype = due, !.running = disk.running # "no",
                    !.unsaid = h'.silent /\ disk.running = "no",
                    !.hour = IF counts THEN Hour(Failed) ELSE 0,
                    !.hours = IF bad # << >> THEN {Hour(Failed)} ELSE {}]
    BY DEF ReadSelfTestLog, Due
  <2>2. /\ st'.selfloghour = IF counts THEN Hour(Failed) ELSE st.selfloghour
        /\ chk'.hour = IF counts THEN Hour(Failed) ELSE 0
        /\ chk'.hours = IF bad # << >> THEN {Hour(Failed)} ELSE {}
    <3> HIDE DEF bad
    <3> QED BY <1>1, <2>1 DEF IsState, IsCheck
  <2>3. Once({"SelfTest"}) # << >>
    <3>1. "SelfTest" \in DOMAIN Once({"SelfTest"})
      BY OnceLemma
    <3> QED BY <3>1
  <2>4. bad # << >> <=> counts /\ Reports
    BY <2>3
  <2> QED BY <2>1, <2>2, <2>4
<1>3. ~Reports => Hour(Failed) = 0 \/ Hour(Failed) = st.selfloghour
  BY DEF Reports, Hour
<1>4. CASE counts /\ Reports
  BY <1>2, <1>4
<1>5. CASE counts /\ ~Reports
  BY <1>1, <1>2, <1>3, <1>5
<1>6. CASE ~counts
  BY <1>1, <1>2, <1>6
<1> QED BY <1>4, <1>5, <1>6

LEMMA HourNext == Basics /\ HourInv /\ [Next]_vars => HourInv'
<1> SUFFICES ASSUME Basics, HourInv, [Next]_vars PROVE HourInv'
  OBVIOUS
<1>1. TypeInv /\ DiskInv /\ Fresh /\ IsState(st) /\ IsCheck(chk)
  BY DEF Basics, TypeInv
<1>2. /\ 0 \in h.hours
      /\ file.exists => file.selfloghour \in h.hours
      /\ pc # "down" => st.selfloghour \in h.hours \cup chk.hours
      /\ chk.hour \in h.hours \cup chk.hours
      /\ pc \in {"wait", "down"} => chk.hours \subseteq h.hours
      /\ pc = "selftest" => chk.hours = {}
  BY DEF HourInv
<1>3. NoCheck.hour = 0 /\ NoCheck.hours = {}
  BY NoCheckLemma
\* A step that does not touch the hours.
<1>4. ASSUME UNCHANGED file, h'.hours = h.hours, st'.selfloghour = st.selfloghour,
             chk'.hour = chk.hour, chk'.hours = chk.hours, pc # "down",
             pc' = pc \/ pc' \notin {"wait", "down", "selftest"}
                      \/ (pc' = "selftest" /\ chk = NoCheck)
      PROVE  HourInv'
  BY <1>2, <1>3, <1>4 DEF HourInv
<1>5. CASE UNCHANGED vars
  BY <1>2, <1>5 DEF vars, HourInv
<1>6. CASE DiskChanges
  <2>1. UNCHANGED << pc, st, chk, file >> /\ h'.hours = h.hours
    BY <1>1, <1>6, DiskEffects DEF HistoryKept
  <2> QED BY <1>2, <2>1 DEF HourInv
<1>7. CASE NVMeDeviceScan
  <2>1. /\ pc' = "open" /\ chk' = NoCheck /\ UNCHANGED file
        /\ file.exists => st'.selfloghour = file.selfloghour /\ h'.hours = h.hours
        /\ ~file.exists => st'.selfloghour = 0 /\ h'.hours = {0}
    BY <1>1, <1>7, ScanEffects DEF HistoryKept
  <2>2. CASE file.exists
    BY <1>2, <1>3, <2>1, <2>2 DEF HourInv
  <2>3. CASE ~file.exists
    BY <1>3, <2>1, <2>3 DEF HourInv
  <2> QED BY <2>2, <2>3
<1>8. CASE Opens
  BY <1>1, <1>4, <1>8, OpenEffects DEF Kept
<1>9. CASE CheckSmartLog
  <2>1. /\ pc = "smart" /\ pc' = "selftest" /\ UNCHANGED file
        /\ st'.selfloghour = st.selfloghour /\ chk = NoCheck
    BY <1>1, <1>9, SmartEffects DEF Kept, Fresh
  <2>2. chk'.hour = chk.hour /\ chk'.hours = chk.hours /\ h'.hours = h.hours
    BY <1>1, <1>9, SmartRecords DEF CheckKept, HistoryKept
  <2> QED BY <1>4, <2>1, <2>2
<1>10. CASE ReadsSelfTests
  <2>1. /\ pc = "selftest" /\ pc' = "errors" /\ UNCHANGED file /\ h'.hours = h.hours
    BY <1>1, <1>10, SelfTestEffects DEF HistoryKept
  <2>2. CASE SelfTestLogNotRead \/ ReadSelfTestLogFails
    <3>1. chk' = chk /\ st'.selfloghour = st.selfloghour
      BY <1>1, <2>2 DEF SelfTestLogNotRead, ReadSelfTestLogFails, IsState
    <3> QED BY <1>4, <2>1, <3>1
  <2>3. CASE ReadSelfTestLog
    <3>1. /\ st'.selfloghour \in h.hours \cup chk'.hours
          /\ chk'.hour \in h.hours \cup chk'.hours
      BY <2>3, HourRead
    <3> QED BY <1>2, <2>1, <3>1 DEF HourInv
  <2> QED BY <1>10, <2>2, <2>3 DEF ReadsSelfTests
<1>11. CASE ReadsErrors
  <2>1. /\ pc = "errors" /\ pc' = "start" /\ UNCHANGED << file, h >>
        /\ st'.selfloghour = st.selfloghour
        /\ chk'.hour = chk.hour /\ chk'.hours = chk.hours
    BY <1>1, <1>11, ErrorEffects DEF Kept, CheckKept
  <2> QED BY <1>4, <2>1
<1>12. CASE StartsTest
  <2>1. /\ pc = "start" /\ pc' = "write" /\ UNCHANGED file /\ h'.hours = h.hours
        /\ st'.selfloghour = st.selfloghour
        /\ chk'.hour = chk.hour /\ chk'.hours = chk.hours
    BY <1>1, <1>12, StartEffects DEF Kept, CheckKept, HistoryKept
  <2> QED BY <1>4, <2>1
<1>13. CASE WriteState
  <2>1. /\ pc = "write" /\ pc' = "wait" /\ UNCHANGED chk
        /\ st'.selfloghour = st.selfloghour
        /\ file' \in {file, Persistent} /\ h'.hours = h.hours \cup chk.hours
    BY <1>1, <1>13, WriteEffects DEF Kept
  <2>2. Persistent.selfloghour = st.selfloghour
    BY <1>1, PersistentLemma
  <2>3. file'.exists => file'.selfloghour \in h'.hours
    BY <1>2, <2>1, <2>2
  <2> QED BY <1>2, <2>1, <2>3 DEF HourInv
<1>14. CASE Wakeup
  <2>1. pc = "wait" /\ pc' = "open" /\ chk' = NoCheck /\ UNCHANGED << st, file, h >>
    BY <1>1, <1>14, WakeupEffects
  <2> QED BY <1>2, <1>3, <2>1 DEF HourInv
<1>15. CASE Ends_Stopped
  <2>1. /\ pc' = "down" /\ chk' = NoCheck /\ h'.hours = h.hours
        /\ \/ pc = "wait" /\ file' = Persistent
           \/ file' = file
    BY <1>1, <1>15, DownEffects DEF HistoryKept
  <2>2. Persistent.selfloghour = st.selfloghour
    BY <1>1, PersistentLemma
  <2>3. file'.exists => file'.selfloghour \in h'.hours
    BY <1>2, <2>1, <2>2
  <2> QED BY <1>2, <1>3, <2>1, <2>3 DEF HourInv
<1> QED
  BY <1>5, <1>6, <1>7, <1>8, <1>9, <1>10, <1>11, <1>12, <1>13, <1>14, <1>15, NextCases

-----------------------------------------------------------------------------
(***************************************************************************)
(* The results of the self-tests smartd has started.                       *)
(***************************************************************************)
\* No test of smartd starts by itself.
LEMMA RunningLemma ==
    ASSUME TypeInv, DiskChanges
    PROVE  disk'.running \in {disk.running, "other", "no"}
<1>1. IsDisk(disk)
  BY DEF TypeInv
<1>2. CASE \/ disk' = [disk EXCEPT !.gone = ~@] \/ disk' = [disk EXCEPT !.warning = ~@]
           \/ \E k \in Kelvins : disk' = [disk EXCEPT !.kelvin = k]
           \/ disk' = [disk EXCEPT !.errors = << >>]
  BY <1>1, <1>2 DEF IsDisk
<1>3. CASE \E v \in Values : \E n : disk' = [disk EXCEPT !.val[v] = n]
  <2>1. PICK v \in Values : \E n : disk' = [disk EXCEPT !.val[v] = n]
    BY <1>3
  <2>2. PICK n : disk' = [disk EXCEPT !.val = [disk.val EXCEPT ![v] = n]]
    BY <2>1
  <2>3. PICK val : disk' = [disk EXCEPT !.val = val]
    BY <2>2
  <2> QED BY <1>1, <2>3 DEF IsDisk
<1>4. CASE \E entries, errors : disk' = [disk EXCEPT !.entries = entries, !.errors = errors]
  BY <1>1, <1>4 DEF IsDisk
<1>5. CASE \/ disk' = [disk EXCEPT !.running = "other"]
           \/ \E t : disk' = [disk EXCEPT !.running = "no", !.tests = t]
  BY <1>1, <1>5 DEF IsDisk
<1>6. \/ disk' = [disk EXCEPT !.gone = ~@] \/ disk' = [disk EXCEPT !.warning = ~@]
      \/ \E v \in Values : \E n : disk' = [disk EXCEPT !.val[v] = n]
      \/ \E k \in Kelvins : disk' = [disk EXCEPT !.kelvin = k]
      \/ \E entries, errors : disk' = [disk EXCEPT !.entries = entries, !.errors = errors]
      \/ disk' = [disk EXCEPT !.errors = << >>]
      \/ disk' = [disk EXCEPT !.running = "other"]
      \/ \E t : disk' = [disk EXCEPT !.running = "no", !.tests = t]
  BY DEF DiskChanges, Values
<1> QED BY <1>2, <1>3, <1>4, <1>5, <1>6

\* What the self-test log tells about a running test.
LEMMA StatusRead ==
    ASSUME Basics, ReadSelfTestLog, "selfteststs" \in mon
    PROVE  /\ st'.selftest_op = (IF LogsStatus THEN disk.running # "no" ELSE st.selftest_op)
           /\ h'.silent = (h.silent /\ ~(LogsStatus /\ disk.running = "no"))
           /\ h'.blind = h.blind
           /\ chk'.unsaid = (h'.silent /\ disk.running = "no")
           /\ ~st'.selftest_started
<1>1. IsState(st) /\ IsCheck(chk) /\ IsHistory(h)
  BY DEF Basics, TypeInv
<1> DEFINE counts == "selftest" \in mon
           bad == IF counts /\ Reports THEN Once({"SelfTest"}) ELSE << >>
           good == {"FailedReadSmartSelfTestLog"} \cup
                   (IF counts /\ NoErrors THEN {"SelfTest"} ELSE {})
<1>2. PICK due \in BOOLEAN :
          /\ st' = [st EXCEPT
                    !.maillog = Mail(bad, good),
                    !.must_write = @ \/ due \/ bad # << >> \/ WasReset(good),
                    !.selftest_op = IF "selfteststs" \in mon /\ LogsStatus
                                    THEN disk.running # "no" ELSE @,
                    !.selflogcount = IF counts THEN Cardinality(Failed) ELSE @,
                    !.selfloghour = IF counts THEN Hour(Failed) ELSE @,
                    !.selftest_started = FALSE]
          /\ chk' = [chk EXCEPT
                    !.testtype = due, !.running = disk.running # "no",
                    !.unsaid = h'.silent /\ disk.running = "no",
                    !.hour = IF counts THEN Hour(Failed) ELSE 0,
                    !.hours = IF bad # << >> THEN {Hour(Failed)} ELSE {}]
  BY DEF ReadSelfTestLog, Due
<1>3. /\ st'.selftest_op = (IF LogsStatus THEN disk.running # "no" ELSE st.selftest_op)
      /\ ~st'.selftest_started
      /\ chk'.unsaid = (h'.silent /\ disk.running = "no")
  <2> HIDE DEF bad, good, counts
  <2> QED BY <1>1, <1>2 DEF IsState, IsCheck
<1>4. PICK silent : /\ h' = [h EXCEPT !.silent = silent]
                    /\ silent = (h.silent /\ ~(LogsStatus /\ disk.running = "no"))
  BY SMTT(30) DEF ReadSelfTestLog
<1>5. h'.silent = silent /\ h'.blind = h.blind
  BY <1>1, <1>4 DEF IsHistory
<1> QED BY <1>3, <1>4, <1>5

LEMMA ResultNext == Basics /\ ResultInv /\ [Next]_vars => ResultInv'
<1> SUFFICES ASSUME Basics, ResultInv, [Next]_vars, "selfteststs" \in mon'
             PROVE  /\ ~h'.blind /\ (h'.silent \/ disk'.running = "smartd") =>
                           st'.selftest_op \/ st'.selftest_started
                    /\ chk'.unsaid => h'.blind
  BY DEF ResultInv
<1>1. TypeInv /\ DiskInv /\ Fresh /\ IsState(st) /\ IsCheck(chk) /\ IsHistory(h) /\ IsDisk(disk)
  BY DEF Basics, TypeInv
<1>2. "selfteststs" \in mon =>
          /\ ~h.blind /\ (h.silent \/ disk.running = "smartd") =>
                 st.selftest_op \/ st.selftest_started
          /\ chk.unsaid => h.blind
  BY DEF ResultInv
<1>3. ~NoCheck.unsaid
  BY NoCheckLemma
<1> DEFINE Goal == /\ ~h'.blind /\ (h'.silent \/ disk'.running = "smartd") =>
                          st'.selftest_op \/ st'.selftest_started
                   /\ chk'.unsaid => h'.blind
\* A step that does not touch the status.
<1>4. ASSUME mon' = mon, h'.blind = h.blind, h'.silent = h.silent,
             disk'.running = disk.running, chk'.unsaid = chk.unsaid \/ ~chk'.unsaid,
             st'.selftest_op = st.selftest_op, st'.selftest_started = st.selftest_started
      PROVE  Goal
  BY <1>2, <1>4, Zenon
<1>5. CASE UNCHANGED vars
  BY <1>2, <1>5 DEF vars
<1>6. CASE DiskChanges
  <2>1. /\ UNCHANGED << mon, st, chk >> /\ h'.blind = h.blind
        /\ h'.silent = IF disk.running # "no" /\ disk'.running = "no"
                       THEN disk.running = "smartd" ELSE h.silent
    BY <1>1, <1>6, DiskEffects DEF HistoryKept
  <2>2. disk'.running \in {disk.running, "other", "no"}
    BY <1>1, <1>6, RunningLemma
  <2>3. h'.silent \/ disk'.running = "smartd" => h.silent \/ disk.running = "smartd"
    BY <2>1, <2>2
  <2> QED BY <1>2, <2>1, <2>3
<1>7. CASE NVMeDeviceScan
  <2>1. h'.blind /\ chk' = NoCheck
    BY <1>1, <1>7, ScanEffects
  <2> QED BY <1>3, <2>1
<1>8. CASE Opens
  <2>1. /\ UNCHANGED << mon, chk, disk, h >> /\ st'.selftest_op = st.selftest_op
        /\ st'.selftest_started = st.selftest_started
    BY <1>1, <1>8, OpenEffects DEF Kept
  <2> QED BY <1>4, <2>1
<1>9. CASE CheckSmartLog
  <2>1. /\ UNCHANGED << mon, disk >> /\ st'.selftest_op = st.selftest_op
        /\ st'.selftest_started = st.selftest_started
    BY <1>1, <1>9, SmartEffects DEF Kept
  <2>2. chk'.unsaid = chk.unsaid /\ h'.silent = h.silent /\ h'.blind = h.blind
    BY <1>1, <1>9, SmartRecords DEF CheckKept, HistoryKept
  <2> QED BY <1>4, <2>1, <2>2
<1>10. CASE SelfTestLogNotRead
  <2>1. mon' = mon /\ \E due \in Due : ~ReadsSelfTestLog(due)
    BY <1>10 DEF SelfTestLogNotRead
  <2> QED BY <2>1 DEF ReadsSelfTestLog
<1>11. CASE ReadSelfTestLogFails
  <2>1. chk' = chk /\ h' = [h EXCEPT !.blind = TRUE]
    BY <1>11 DEF ReadSelfTestLogFails
  <2>2. h'.blind
    BY <1>1, <2>1 DEF IsHistory
  <2> QED BY <2>2
<1>12. CASE ReadSelfTestLog
  <2>1. mon' = mon /\ disk' = disk
    BY <1>12 DEF ReadSelfTestLog
  <2>2. /\ st'.selftest_op = (IF LogsStatus THEN disk.running # "no" ELSE st.selftest_op)
        /\ h'.silent = (h.silent /\ ~(LogsStatus /\ disk.running = "no"))
        /\ h'.blind = h.blind
        /\ chk'.unsaid = (h'.silent /\ disk.running = "no")
    BY <1>12, <2>1, StatusRead
  <2>3. CASE LogsStatus
    <3>1. /\ st'.selftest_op = (disk.running # "no")
          /\ h'.silent => disk.running # "no"
      BY <2>2, <2>3
    <3>2. disk.running = "smartd" => disk.running # "no"
      OBVIOUS
    <3>3. ~chk'.unsaid
      BY <2>2, <3>1
    <3> QED BY <2>1, <3>1, <3>2, <3>3
  <2>4. CASE ~LogsStatus
    <3>1. ~st.selftest_started /\ st.selftest_op = (disk.running # "no")
      <4>1. st.selftest_op \in BOOLEAN
        BY <1>1 DEF IsState
      <4> QED BY <2>4, <4>1 DEF LogsStatus
    <3>2. st'.selftest_op = st.selftest_op /\ (h'.silent => h.silent)
      BY <2>2, <2>4
    <3>3. ~h.blind /\ (h.silent \/ disk.running = "smartd") => st.selftest_op
      BY <1>2, <2>1, <3>1
    <3>4. chk'.unsaid => h'.blind
      BY <2>2, <3>1, <3>2, <3>3
    <3> QED BY <2>1, <2>2, <3>2, <3>3, <3>4
  <2> QED BY <2>3, <2>4
<1>13. CASE ReadsErrors
  <2>1. /\ UNCHANGED << mon, disk, h >> /\ st'.selftest_op = st.selftest_op
        /\ st'.selftest_started = st.selftest_started /\ chk'.unsaid = chk.unsaid
    BY <1>1, <1>13, ErrorEffects DEF Kept, CheckKept
  <2> QED BY <1>4, <2>1
<1>14. CASE NoSelfTest
  <2>1. /\ UNCHANGED << mon, disk, h >> /\ st' = [st EXCEPT !.val = chk.val]
        /\ chk' = [chk EXCEPT !.complete = TRUE]
    BY <1>14 DEF NoSelfTest, Ends
  <2>2. /\ st'.selftest_op = st.selftest_op /\ st'.selftest_started = st.selftest_started
        /\ chk'.unsaid = chk.unsaid
    BY <1>1, <2>1 DEF IsState, IsCheck
  <2> QED BY <1>4, <2>1, <2>2
<1>15. CASE StartSelfTest
  <2>1. /\ st' = [[st EXCEPT !.val = chk.val] EXCEPT !.selftest_started = TRUE]
        /\ chk' = [chk EXCEPT !.complete = TRUE, !.unsaid = FALSE]
    BY <1>15 DEF StartSelfTest, Ends
  <2>2. st'.selftest_started /\ ~chk'.unsaid
    BY <1>1, <2>1 DEF IsState, IsCheck
  <2> QED BY <2>2
<1>16. CASE WriteState
  <2>1. /\ UNCHANGED << mon, chk, disk >> /\ st'.selftest_op = st.selftest_op
        /\ st'.selftest_started = st.selftest_started
        /\ h'.silent = h.silent /\ h'.blind = h.blind
    BY <1>1, <1>16, WriteEffects DEF Kept, HistoryKept
  <2> QED BY <1>4, <2>1
<1>17. CASE Wakeup
  <2>1. chk' = NoCheck /\ UNCHANGED << mon, st, disk, h >>
    BY <1>1, <1>17, WakeupEffects
  <2> QED BY <1>3, <1>4, <2>1
<1>18. CASE Ends_Stopped
  BY <1>1, <1>18, DownEffects
<1> QED
  BY <1>5, <1>6, <1>7, <1>8, <1>9, <1>10, <1>11, <1>12, <1>13, <1>14, <1>15, <1>16, <1>17,
     <1>18, NextCases DEF ReadsSelfTests, StartsTest

-----------------------------------------------------------------------------
(***************************************************************************)
(* The extremes of the temperature.                                        *)
(***************************************************************************)
\* A reading is taken for the minimum in time, and not before.
LEMMA TrackedReading ==
    ASSUME st.temp \in TempType, now \in Nat, h.first \in Nat \cup {-1},
           h.warm \in BOOLEAN, h.late \in Byte, NEW c \in Degrees, c # 0,
           Tracks(st.temp, h.first, h.warm, now), TrueMin(st.temp.tempmin, h.late),
           st'.temp = CheckTemperature(lim, st.temp, c, now),
           h'.first = IF h.first = -1 THEN now ELSE h.first,
           h'.warm = (h.warm \/ IsWarm(c))
    PROVE  /\ st'.temp.tempmax = Higher(st.temp.tempmax, c)
           /\ TrueMin(st'.temp.tempmin,
                      IF now >= h'.first + MinDelay THEN Lower(h.late, c) ELSE h.late)
           /\ Tracks(st'.temp, h'.first, h'.warm, now)
           /\ st'.temp.tempmin # st.temp.tempmin =>
                  h.first # -1 /\ (now >= h.first + MinDelay \/ h.warm)
<1> DEFINE t == st.temp
           s == st'.temp
           LateNow == IF now >= h'.first + MinDelay THEN Lower(h.late, c) ELSE h.late
<1>1. /\ c \in Nat /\ 0 < c /\ c < 255 /\ IsReading(c) /\ h.late \in Nat /\ h.late <= 255
      /\ MinDelay \in Nat /\ MinDelay > 0
      /\ t.temperature \in Nat /\ t.delay \in Nat
      /\ t.tempmin \in Nat /\ t.tempmin < 255
  BY MinDelayAssumption DEF Degrees, Byte, IsReading, TempType
<1>2. /\ h.warm => h'.warm
      /\ t.tempmin # 0 /\ c > t.tempmin => h'.warm
      /\ t.tempmin # 0 /\ c = t.tempmin /\ h.first = -1 => h'.warm
  BY DEF IsWarm
<1>3. CASE h.first = -1
  <2>1. t.temperature = 0 /\ t.delay = 0
    BY <1>3 DEF Tracks
  <2>2. s = First(t, c, now)
    BY <1>1, <2>1 DEF CheckTemperature
  <2>3. /\ s.temperature = c /\ s.tempmin = t.tempmin /\ s.tempmax = Higher(t.tempmax, c)
        /\ s.delay = IF t.tempmin = 0 \/ c < t.tempmin THEN now + MinDelay ELSE 0
    BY <2>1, <2>2 DEF First, TempType
  <2>4. h'.first = now /\ LateNow = h.late
    BY <1>1, <1>3
  <2>5. Tracks(s, h'.first, h'.warm, now)
    BY <1>1, <1>2, <1>3, <2>3, <2>4 DEF Tracks
  <2> QED BY <2>3, <2>4, <2>5
<1>4. CASE h.first # -1
  <2>1. h.first \in Nat /\ t.temperature # 0 /\ h.first <= now /\ h'.first = h.first
    BY <1>4 DEF Tracks
  <2>2. s = Later(lim, t, c, now)
    BY <1>1, <2>1 DEF CheckTemperature
  <2>3. /\ s.temperature # 0 /\ s.tempmax = Higher(t.tempmax, c)
        /\ s.tempmin = MinAfter(t, c, now) /\ s.delay = Delay(t, c, now)
    BY <1>1, <2>1, <2>2 DEF Later
  <2>4. CASE t.delay = 0
    <3>1. t.tempmin # 0 /\ (h.warm \/ now >= h.first + MinDelay)
      BY <1>1, <1>4, <2>1, <2>4 DEF Tracks
    <3>2. s.delay = 0 /\ s.tempmin = Lower(c, t.tempmin)
      BY <2>3, <2>4 DEF Delay, MinAfter, MinBefore
    <3>3. s.tempmin \in Nat \ {0} /\ s.tempmin <= c /\ s.tempmin <= t.tempmin
      BY <1>1, <3>1, <3>2 DEF Lower
    <3>4. TrueMin(s.tempmin, LateNow)
      BY <1>1, <3>3 DEF TrueMin, Lower, Unset
    <3> QED BY <1>2, <1>4, <2>1, <2>3, <3>1, <3>2, <3>3, <3>4 DEF Tracks
  <2>5. CASE t.delay # 0 /\ ~DelayIsOver(t, c, now)
    <3>1. t.delay = h.first + MinDelay /\ ~(now >= h.first + MinDelay)
      BY <1>1, <1>4, <2>1, <2>5 DEF Tracks, DelayIsOver
    <3>2. s.delay = t.delay /\ s.tempmin = t.tempmin
      BY <2>3, <2>5 DEF Delay, MinAfter, MinBefore
    <3> QED BY <1>4, <2>1, <2>3, <3>1, <3>2 DEF Tracks
  <2>6. CASE t.delay # 0 /\ DelayIsOver(t, c, now)
    <3>1. \/ t.tempmin # 0 /\ c > t.tempmin
          \/ now >= h.first + MinDelay
      BY <1>1, <1>4, <2>1, <2>6 DEF Tracks, DelayIsOver
    <3>2. s.delay = 0 /\ s.tempmin = Lower(c, IF t.tempmin = 0 THEN Unset ELSE t.tempmin)
      BY <2>3, <2>6 DEF Delay, MinAfter, MinBefore
    <3>3. s.tempmin \in Nat \ {0} /\ s.tempmin <= c /\ (t.tempmin # 0 => s.tempmin <= t.tempmin)
      BY <1>1, <3>2 DEF Lower, Unset
    <3>4. TrueMin(s.tempmin, LateNow)
      BY <1>1, <3>3 DEF TrueMin, Lower, Unset
    <3>5. s.tempmin # t.tempmin => now >= h.first + MinDelay
      BY <1>1, <3>1, <3>2 DEF Lower
    <3>6. h'.warm \/ now >= h.first + MinDelay
      BY <1>2, <3>1
    <3> QED BY <1>4, <2>1, <2>3, <3>2, <3>3, <3>4, <3>5, <3>6 DEF Tracks
  <2> QED BY <2>4, <2>5, <2>6
<1> QED BY <1>3, <1>4

\* What the SMART/Health log adds to the extremes.
LEMMA TempRead ==
    ASSUME Basics, TempInv, CheckSmartLog
    PROVE  /\ st'.temp.tempmax = Higher(h'.hi, chk'.c)
           /\ TrueMin(st.temp.tempmin, LateAfter)'
           /\ Tracks(st'.temp, h'.first, h'.warm, now)
           /\ st'.temp.tempmin # st.temp.tempmin =>
                  h.first # -1 /\ (now >= h.first + MinDelay \/ h.warm)
<1>1. /\ TypeInv /\ IsState(st) /\ IsHistory(h) /\ pc = "smart" /\ now' = now /\ chk = NoCheck
      /\ now \in Nat /\ disk.kelvin \in Nat
  BY DEF Basics, TypeInv, CheckSmartLog, Fresh, IsDisk
<1>2. /\ st.temp \in TempType /\ h.hi \in Degrees /\ h.late \in Byte /\ h.warm \in BOOLEAN
      /\ h.first \in Nat \cup {-1}
  BY <1>1 DEF IsState, IsHistory
<1>3. /\ st.temp.tempmax = h.hi /\ TrueMin(st.temp.tempmin, h.late)
      /\ Tracks(st.temp, h.first, h.warm, now)
  <2>1. chk.c = 0
    BY <1>1, NoCheckLemma
  <2>2. Higher(h.hi, 0) = h.hi
    BY <1>2 DEF Higher, Degrees
  <2> QED BY <1>1, <2>1, <2>2 DEF TempInv, LateAfter
<1>4. Reading \in 1 .. 255
  BY <1>1, CelsiusLemma DEF Reading
<1>5. /\ chk'.c = Measured /\ h'.hi = h.hi /\ h'.late = h.late
      /\ Measured = 0 => h' = h
      /\ Measured # 0 => /\ h'.first = (IF h.first = -1 THEN now ELSE h.first)
                         /\ h'.warm = (h.warm \/ IsWarm(Measured))
      /\ st'.temp = IF Monitors(lim) THEN CheckTemperature(lim, st.temp, Reading, now)
                                     ELSE st.temp
  BY <1>1, SmartRecords, SmartEffects DEF HistoryKept
<1>6. CASE Measured = 0
  <2>1. st'.temp = st.temp
    BY <1>4, <1>5, <1>6 DEF Measured, CheckTemperature
  <2>2. Higher(h.hi, 0) = h.hi
    BY <1>2 DEF Higher, Degrees
  <2> QED BY <1>1, <1>3, <1>5, <1>6, <2>1, <2>2 DEF LateAfter
<1>7. CASE Measured # 0
  <2>1. Measured = Reading /\ Measured \in Degrees /\ Monitors(lim)
    BY <1>4, <1>7 DEF Measured, IsReading, Degrees
  <2>2. /\ st'.temp = CheckTemperature(lim, st.temp, Measured, now)
        /\ h'.first = (IF h.first = -1 THEN now ELSE h.first) /\ h'.first # -1
        /\ h'.warm = (h.warm \/ IsWarm(Measured))
    BY <1>1, <1>5, <1>7, <2>1
  <2>3. /\ st'.temp.tempmax = Higher(st.temp.tempmax, Measured)
        /\ TrueMin(st'.temp.tempmin,
                   IF now >= h'.first + MinDelay THEN Lower(h.late, Measured) ELSE h.late)
        /\ Tracks(st'.temp, h'.first, h'.warm, now)
        /\ st'.temp.tempmin # st.temp.tempmin =>
               h.first # -1 /\ (now >= h.first + MinDelay \/ h.warm)
    BY <1>1, <1>2, <1>3, <1>7, <2>1, <2>2, TrackedReading
  <2>4. LateAfter' = IF now >= h'.first + MinDelay THEN Lower(h.late, Measured) ELSE h.late
    BY <1>1, <1>5, <1>7, <2>2 DEF LateAfter
  <2> QED BY <1>3, <1>5, <2>3, <2>4
<1> QED BY <1>6, <1>7

LEMMA TempNext == Basics /\ SavedInv' /\ TempInv /\ [Next]_vars => TempInv'
<1> SUFFICES ASSUME Basics, SavedInv', TempInv, [Next]_vars PROVE TempInv'
  OBVIOUS
<1>1. /\ TypeInv /\ DiskInv /\ Fresh /\ IsState(st) /\ IsHistory(h) /\ IsCheck(chk)
      /\ now \in Nat /\ h.hi \in Degrees /\ chk.c \in Degrees /\ h.first \in Nat \cup {-1}
      /\ MinDelay \in Nat /\ h.late \in Byte
  BY MinDelayAssumption DEF Basics, TypeInv, IsHistory, IsCheck
<1>2. /\ pc # "down" => /\ st.temp.tempmax = Higher(h.hi, chk.c)
                        /\ TrueMin(st.temp.tempmin, LateAfter)
                        /\ Tracks(st.temp, h.first, h.warm, now)
      /\ pc = "wait" => h.hi = Higher(h.hi, chk.c) /\ h.late = LateAfter
      /\ file.exists => file.tempmax = h.hi /\ TrueMin(file.tempmin, h.late)
  BY DEF TempInv
<1>3. NoCheck.c = 0 /\ Higher(h.hi, 0) = h.hi
  BY <1>1, NoCheckLemma DEF Higher, Degrees
\* A step that does not touch the temperatures.
<1>4. ASSUME UNCHANGED << file, now >>, st'.temp = st.temp, chk'.c = chk.c,
             h'.hi = h.hi, h'.late = h.late, h'.first = h.first, h'.warm = h.warm,
             pc # "down", pc' # "down", pc' = "wait" => pc = "wait"
      PROVE  TempInv'
  <2>1. LateAfter' = LateAfter
    BY <1>4 DEF LateAfter
  <2> QED BY <1>2, <1>4, <2>1 DEF TempInv
<1>5. CASE UNCHANGED vars
  <2>1. LateAfter' = LateAfter
    BY <1>5 DEF LateAfter, vars
  <2> QED BY <1>2, <1>5, <2>1 DEF TempInv, vars
<1>6. CASE DiskChanges
  <2>1. /\ UNCHANGED << pc, st, chk, file, now >>
        /\ h'.hi = h.hi /\ h'.late = h.late /\ h'.first = h.first /\ h'.warm = h.warm
    BY <1>1, <1>6, DiskEffects DEF HistoryKept
  <2>2. LateAfter' = LateAfter
    BY <2>1 DEF LateAfter
  <2> QED BY <1>2, <2>1, <2>2 DEF TempInv
<1>7. CASE NVMeDeviceScan
  <2>1. /\ pc' = "open" /\ chk' = NoCheck /\ UNCHANGED << file, now >> /\ h'.first = -1
        /\ st'.temp.temperature = 0 /\ st'.temp.delay = 0
        /\ file.exists =>
               /\ st'.temp.tempmin = file.tempmin /\ st'.temp.tempmax = file.tempmax
               /\ h'.hi = h.hi /\ h'.late = h.late
        /\ ~file.exists => st'.temp = NoTemperature /\ h'.hi = 0 /\ h'.late = Unset
    BY <1>1, <1>7, ScanEffects DEF HistoryKept
  <2>2. LateAfter' = h'.late
    BY <1>3, <2>1 DEF LateAfter
  <2>3. Tracks(st.temp, h.first, h.warm, now)'
    BY <2>1 DEF Tracks
  <2>4. st'.temp.tempmax = Higher(h'.hi, chk'.c) /\ TrueMin(st'.temp.tempmin, h'.late)
    <3>1. CASE file.exists
      BY <1>2, <1>3, <2>1, <3>1
    <3>2. CASE ~file.exists
      BY <1>3, <2>1, <3>2 DEF NoTemperature, Higher, TrueMin
    <3> QED BY <3>1, <3>2
  <2> QED BY <1>2, <2>1, <2>2, <2>3, <2>4 DEF TempInv
<1>8. CASE Opens
  <2>1. /\ << pc, pc' >> \in {<< "open", "smart" >>, << "open", "write" >>,
                              << "smart", "write" >>}
        /\ UNCHANGED << chk, file, now, h >> /\ st'.temp = st.temp
    BY <1>1, <1>8, OpenEffects DEF Kept
  <2> QED BY <1>4, <2>1
<1>9. CASE CheckSmartLog
  <2>1. /\ pc' = "selftest" /\ UNCHANGED << file, now >>
    BY <1>1, <1>9, SmartEffects
  <2>2. h'.hi = h.hi /\ h'.late = h.late
    BY <1>1, <1>9, SmartRecords DEF HistoryKept
  <2>3. /\ st'.temp.tempmax = Higher(h'.hi, chk'.c)
        /\ TrueMin(st.temp.tempmin, LateAfter)'
        /\ Tracks(st'.temp, h'.first, h'.warm, now)
    BY <1>9, TempRead
  <2> QED BY <1>2, <2>1, <2>2, <2>3 DEF TempInv
<1>10. CASE ReadsSelfTests
  <2>1. pc = "selftest" /\ pc' = "errors" /\ UNCHANGED << file, now >> /\ st'.temp = st.temp
    BY <1>1, <1>10, SelfTestEffects DEF Kept
  <2>2. /\ chk'.c = chk.c
        /\ h'.hi = h.hi /\ h'.late = h.late /\ h'.first = h.first /\ h'.warm = h.warm
    BY <1>1, <1>10, SelfTestEffects DEF CheckKept, HistoryKept, SelfTestFields
  <2> QED BY <1>4, <2>1, <2>2
<1>11. CASE ReadsErrors
  <2>1. /\ pc = "errors" /\ pc' = "start" /\ UNCHANGED << file, now, h >>
        /\ st'.temp = st.temp /\ chk'.c = chk.c
    BY <1>1, <1>11, ErrorEffects DEF Kept, CheckKept
  <2> QED BY <1>4, <2>1
<1>12. CASE StartsTest
  <2>1. pc = "start" /\ pc' = "write" /\ UNCHANGED << file, now >> /\ st'.temp = st.temp
    BY <1>1, <1>12, StartEffects DEF Kept
  <2>2. /\ chk'.c = chk.c
        /\ h'.hi = h.hi /\ h'.late = h.late /\ h'.first = h.first /\ h'.warm = h.warm
    BY <1>1, <1>12, StartEffects DEF CheckKept, HistoryKept
  <2> QED BY <1>4, <2>1, <2>2
<1>13. CASE WriteState
  <2>1. /\ pc = "write" /\ pc' = "wait" /\ UNCHANGED << cfg, chk, now >> /\ st'.temp = st.temp
        /\ file' \in {file, Persistent}
        /\ h'.hi = Higher(h.hi, chk.c) /\ h'.late = LateAfter
        /\ h'.first = h.first /\ h'.warm = h.warm
    BY <1>1, <1>13, WriteEffects DEF Kept, HistoryKept
  <2>2. h'.hi = Higher(h'.hi, chk'.c) /\ h'.late = LateAfter'
    <3>1. h'.hi = Higher(h'.hi, chk'.c)
      BY <1>1, <2>1 DEF Higher, Degrees
    <3>2. LateAfter' = LateAfter
      BY <1>1, <2>1 DEF LateAfter, Lower, Byte, Degrees
    <3> QED BY <2>1, <3>1, <3>2
  <2>3. /\ st'.temp.tempmax = h'.hi /\ TrueMin(st'.temp.tempmin, h'.late)
        /\ Tracks(st'.temp, h'.first, h'.warm, now')
    BY <1>2, <2>1
  <2>4. file'.exists => file'.tempmin = st'.temp.tempmin /\ file'.tempmax = st'.temp.tempmax
    <3>1. file'.exists => cfg'.state_file
      <4>1. Basics'
        BY BasicsNext
      <4> QED BY <4>1 DEF Basics, Fresh
    <3> QED BY <2>1, <3>1 DEF SavedInv, AgreesWithFile
  <2> QED BY <2>1, <2>2, <2>3, <2>4 DEF TempInv
<1>14. CASE Wakeup
  <2>1. /\ pc = "wait" /\ pc' = "open" /\ chk' = NoCheck /\ now' = now + 1
        /\ UNCHANGED << st, file, h >>
    BY <1>1, <1>14, WakeupEffects
  <2>2. LateAfter' = h.late
    BY <1>3, <2>1 DEF LateAfter
  <2>3. Tracks(st.temp, h.first, h.warm, now)'
    BY <1>1, <1>2, <2>1 DEF Tracks
  <2> QED BY <1>2, <1>3, <2>1, <2>2, <2>3 DEF TempInv
<1>15. CASE Ends_Stopped
  <2>1. /\ pc' = "down" /\ h'.hi = h.hi /\ h'.late = h.late
        /\ \/ pc = "wait" /\ file' = Persistent
           \/ file' = file
    BY <1>1, <1>15, DownEffects DEF HistoryKept
  <2>2. Persistent.tempmin = st.temp.tempmin /\ Persistent.tempmax = st.temp.tempmax
    BY <1>1, PersistentLemma
  <2> QED BY <1>2, <2>1, <2>2 DEF TempInv
<1> QED
  BY <1>5, <1>6, <1>7, <1>8, <1>9, <1>10, <1>11, <1>12, <1>13, <1>14, <1>15, NextCases

-----------------------------------------------------------------------------
(***************************************************************************)
(* The theorems.                                                           *)
(***************************************************************************)
LEMMA InitInvariants ==
    Init => SavedInv /\ WearInv /\ HotInv /\ CountInv /\ HourInv /\ ResultInv /\ TempInv
<1> SUFFICES ASSUME Init
             PROVE SavedInv /\ WearInv /\ HotInv /\ CountInv /\ HourInv /\ ResultInv /\ TempInv
  OBVIOUS
<1>1. /\ pc = "down" /\ mon = {} /\ chk = NoCheck /\ ~file.exists /\ h = NoHistory
  BY DEF Init, NoFile
<1>2. /\ NoCheck.logged = {} /\ NoCheck.new = {} /\ ~NoCheck.complete /\ NoCheck.hours = {}
      /\ NoCheck.hour = 0 /\ NoCheck.entries = 0 /\ ~NoCheck.unsaid
  BY NoCheckLemma
<1>3. ~h.twice /\ h.hours = {0}
  BY <1>1, NoHistoryLemma
<1>4. disk.entries \in Nat
  BY InitBasics DEF Basics, TypeInv, IsDisk
<1>5. SavedInv /\ HotInv /\ ResultInv /\ TempInv
  BY <1>1 DEF SavedInv, HotInv, ResultInv, TempInv
<1>6. WearInv
  BY <1>1, <1>2 DEF WearInv
<1>7. CountInv /\ HourInv
  BY <1>1, <1>2, <1>3, <1>4 DEF CountInv, HourInv, Stages
<1> QED BY <1>5, <1>6, <1>7

\* In every state of every behaviour the variables have the values smartd gives them,
\* and what must survive a crash is in the state file or due to be written
\* (must_write, write_all_dev_states()).
THEOREM StateIsSaved == Spec => [](Basics /\ SavedInv)
<1>1. Init => Basics /\ SavedInv
  BY InitBasics, InitInvariants
<1>2. Basics /\ SavedInv /\ [Next]_vars => (Basics /\ SavedInv)'
  BY BasicsNext, SavedNext
<1> QED BY <1>1, <1>2, PTL DEF Spec

\* Wear is told once and never missed: log_nvme_smart_change() compares with the
\* value the log has told last, for any sequence of checks, restarts and crashes.
THEOREM WearIsToldOnce == Spec => []WearTold
<1>1. Init => WearInv
  BY InitInvariants
<1>2. Basics /\ WearInv /\ [Next]_vars => WearInv'
  BY WearNext
<1>3. Basics /\ WearInv => WearTold
  <2> SUFFICES ASSUME Basics, WearInv PROVE WearTold
    OBVIOUS
  <2>1. pc # "down" => Monitored = Watched
    BY DEF WearInv
  <2>2. ChangesTold
    BY <2>1 DEF WearInv, ChangesTold
  <2>3. ChangesToldOnce
    <3>1. pc = "open" => chk.logged = {}
      BY NoCheckLemma DEF Basics, Fresh
    <3> QED BY <2>1, <3>1 DEF WearInv, ChangesToldOnce, ToldAfter
  <2> QED BY <2>2, <2>3 DEF WearTold
<1> QED BY <1>1, <1>2, <1>3, StateIsSaved, PTL DEF Spec

\* check_nvme_error_log() and check_nvme_self_test_log() report each error once and
\* miss none that the logs still have, the result of a self-test smartd has started is
\* logged, and no crash makes smartd forget an important mail.
THEOREM LoggedErrorsAreReported == Spec => []ErrorsTold
<1> DEFINE Inv == CountInv /\ HourInv /\ ResultInv
<1>1. Init => Inv
  BY InitInvariants
<1>2. Basics /\ Inv /\ [Next]_vars => Inv'
  BY CountNext, HourNext, ResultNext
<1>3. Basics /\ SavedInv /\ Inv => ErrorsTold
  <2> SUFFICES ASSUME Basics, SavedInv, Inv PROVE ErrorsTold
    OBVIOUS
  <2>1. NoErrorMissed
    <3> SUFFICES ASSUME pc = "wait" PROVE NoErrorMissed
      BY DEF NoErrorMissed
    <3>1. /\ Covered(st.errcount, h.reported \cup chk.new, h.dropped \cup chk.dropped)
          /\ h.reported \cup chk.new = h.reported /\ h.dropped \cup chk.dropped = h.dropped
      BY DEF CountInv
    <3> QED BY <3>1 DEF Covered, NoErrorMissed
  <2>2. ErrorReportedOnce
    BY DEF CountInv, ErrorReportedOnce
  <2>3. NoSelfTestErrorMissed
    BY DEF HourInv, NoSelfTestErrorMissed
  <2>4. ResultLogged
    BY DEF ResultInv, ResultLogged
  <2>5. ImportantMailsSaved
    BY DEF SavedInv, AgreesWithFile, ImportantMailsSaved
  <2> QED BY <2>1, <2>2, <2>3, <2>4, <2>5 DEF ErrorsTold
<1> HIDE DEF Inv
<1> QED BY <1>1, <1>2, <1>3, StateIsSaved, PTL DEF Spec

\* MailWarning() and reset_warning_mail() in CheckTemperature(): each overheating is
\* mailed, and once only, whatever the limits, in spite of restarts.
THEOREM OverheatingIsMailed == Spec => []OverheatMailed
<1>1. Init => HotInv
  BY InitInvariants
<1>2. Basics /\ HotInv /\ [Next]_vars => HotInv'
  BY HotNext
<1>3. HotInv => OverheatMailed
  BY DEF HotInv, Mails, OverheatMailed
<1> QED BY <1>1, <1>2, <1>3, StateIsSaved, PTL DEF Spec

\* The recorded temperatures are the extremes of all checks, over restarts and crashes
\* with a state file, but for those of a disk that was not yet warm
\* (CheckTemperature(), tempmin_delay).
THEOREM ExtremesAreKept == Spec => ExtremesKept
<1>1. Init => TempInv
  BY InitInvariants
<1>2. Basics /\ SavedInv' /\ TempInv /\ [Next]_vars => TempInv'
  BY TempNext
<1>3. TempInv => MaxKept /\ MinKept
  BY DEF TempInv, MaxKept, MinKept, TrueMin
<1> DEFINE IsCold == pc = "smart" /\ pc' # "down" /\ st'.temp.tempmin # st.temp.tempmin
                     => h.first # -1 /\ (now >= h.first + MinDelay \/ h.warm)
<1>4. Basics /\ TempInv /\ [Next]_vars => [IsCold]_vars
  <2> SUFFICES ASSUME Basics, TempInv, [Next]_vars,
                      pc = "smart", pc' # "down", st'.temp.tempmin # st.temp.tempmin
               PROVE  h.first # -1 /\ (now >= h.first + MinDelay \/ h.warm)
    OBVIOUS
  <2>1. CASE CheckSmartLog
    BY <2>1, TempRead
  <2>2. CASE Opens
    BY <2>2, OpenEffects DEF Basics, Kept
  <2>3. ~(UNCHANGED vars)
    BY DEF vars
  <2>4. ~DiskChanges
    BY DEF DiskChanges
  <2>5. /\ ~NVMeDeviceScan /\ ~ReadsSelfTests /\ ~ReadsErrors /\ ~StartsTest /\ ~WriteState
        /\ ~Wakeup
    BY DEF NVMeDeviceScan, ReadsSelfTests, SelfTestLogNotRead, ReadSelfTestLogFails,
           ReadSelfTestLog, ReadsErrors, NoNewErrors, ReadErrorLogFails, ReadErrorLog,
           StartsTest, NoSelfTest, StartSelfTest, WriteState, Wakeup
  <2>6. ~Ends_Stopped
    BY DownEffects DEF Basics
  <2> QED BY <2>1, <2>2, <2>3, <2>4, <2>5, <2>6, NextCases
<1>5. Spec => []TempInv
  BY <1>1, <1>2, StateIsSaved, PTL DEF Spec
<1>6. Spec => [](MaxKept /\ MinKept)
  BY <1>3, <1>5, PTL
<1>7. Spec => ColdStartIgnored
  BY <1>4, <1>5, StateIsSaved, PTL DEF Spec, ColdStartIgnored
<1> QED BY <1>6, <1>7, PTL DEF ExtremesKept
=============================================================================
