----------------------- MODULE SelfTestSchedule_proofs -----------------------
(***************************************************************************)
(* Theorems about SelfTestSchedule, for every schedule, every length of    *)
(* the hour in ticks and any number of restarts, crashes and failures.     *)
(***************************************************************************)
EXTENDS SelfTestSchedule, TLAPS

\* The start of an hour is at most an hour ago, the next one lies ahead.
LEMMA HourLemma ==
    ASSUME NEW t \in Nat
    PROVE  /\ HourStart(t) \in Int /\ HourStart(t) <= t /\ t < HourStart(t) + Hour
           /\ NextCheck(t) = HourStart(t) + Hour
           /\ NextCheck(t) \in (t + 1) .. (t + Hour)
<1>1. t % Hour \in 0 .. (Hour - 1)
  BY HourAssumption
<1>2. QED
  BY <1>1, HourAssumption DEF HourStart, NextCheck

-----------------------------------------------------------------------------
(***************************************************************************)
(* The inductive invariant.  The time of the next check is at most an hour *)
(* ahead while the clock is not set back; it lies beyond the hour of the   *)
(* last test, in memory and, unless it is still to be written, in the      *)
(* state file.                                                             *)
(***************************************************************************)
Times ==
    /\ now \in Nat /\ Hour <= now /\ backs \in Nat
    /\ scheduled_test_next_check \in Nat /\ file \in Nat /\ busyUntil \in Nat
    /\ must_write \in BOOLEAN /\ excuse \in BOOLEAN /\ again \in BOOLEAN

WithinHour(t, n) == t <= n + Hour
NotFarAhead ==
    backs = 0 => WithinHour(scheduled_test_next_check, now) /\ WithinHour(file, now)

Saved ==
    IF pc = "down" THEN busyUntil <= file
    ELSE busyUntil <= scheduled_test_next_check /\ (must_write \/ file = 0 \/ busyUntil <= file)

Selected ==
    pc = "start" =>
        /\ scheduled_test_next_check = NextCheck(now)
        /\ busyUntil # NextCheck(now)
        /\ must_write

HourInv ==
    /\ Times
    /\ NotFarAhead
    /\ Undisturbed => ~again /\ Saved /\ Selected

LEMMA WithinHourLemma ==
    ASSUME NEW n \in Nat, NEW t \in Nat, WithinHour(t, n)
    PROVE  WithinHour(t, n + 1)
BY HourAssumption DEF WithinHour

LEMMA NowIsWithinHour ==
    ASSUME NEW n \in Nat
    PROVE  WithinHour(n, n) /\ WithinHour(NextCheck(n), n) /\ WithinHour(0, n)
BY HourLemma, HourAssumption DEF WithinHour

LEMMA InitHourInv == Init => HourInv
<1> SUFFICES ASSUME Init PROVE HourInv
  OBVIOUS
<1>1. Times
  <2>1. now \in Nat /\ Hour <= now
    BY HourAssumption DEF Init
  <2>2. /\ scheduled_test_next_check \in Nat /\ file \in Nat
        /\ busyUntil \in Nat /\ backs \in Nat
    BY DEF Init
  <2>3. must_write \in BOOLEAN /\ excuse \in BOOLEAN /\ again \in BOOLEAN
    BY Zenon DEF Init
  <2>4. QED
    BY <2>1, <2>2, <2>3, Zenon DEF Times
<1>2. scheduled_test_next_check = 0 /\ file = 0
  BY DEF Init
<1>3. NotFarAhead
  BY <1>1, <1>2, NowIsWithinHour DEF Times, NotFarAhead
<1>4. pc = "down" /\ busyUntil = 0
  BY DEF Init
<1>5. ~again
  BY Zenon DEF Init
<1>6. Saved /\ Selected
  BY <1>2, <1>4 DEF Saved, Selected
<1>7. QED
  BY <1>1, <1>3, <1>5, <1>6, Zenon DEF HourInv

\* Registration, with the time the state file has afterwards.
LEMMA RegisteredLemma ==
    ASSUME HourInv, Registered(file'), UNCHANGED << cfg, now, backs, busyUntil, again >>,
           file' \in Nat, backs = 0 => WithinHour(file', now),
           excuse' \in BOOLEAN, Undisturbed' => Undisturbed,
           Undisturbed' => busyUntil <= file'
    PROVE  HourInv'
<1>1. Times'
  BY HourAssumption DEF HourInv, Times, Registered
<1>2. NotFarAhead'
  BY NowIsWithinHour DEF HourInv, Times, Registered, NotFarAhead
<1>3. Undisturbed' => Saved' /\ Selected'
  <2> SUFFICES ASSUME Undisturbed' PROVE Saved' /\ Selected'
    OBVIOUS
  <2>1. pc' = "check" /\ busyUntil' <= file'
    BY DEF Registered
  <2>2. busyUntil' <= scheduled_test_next_check'
    BY <2>1 DEF HourInv, Times, Registered, Undisturbed
  <2>3. QED
    BY <2>1, <2>2 DEF Saved, Selected
<1>4. Undisturbed' => ~again'
  BY DEF HourInv
<1>5. QED
  BY <1>1, <1>2, <1>3, <1>4, Zenon DEF HourInv

\* What is in the state file after an attempt to write it.
LEMMA WriteFileLemma ==
    ASSUME Times, NotFarAhead, WriteFile
    PROVE  /\ file' \in Nat
           /\ backs = 0 => WithinHour(file', now)
           /\ file' = scheduled_test_next_check \/ file' = 0
BY NowIsWithinHour DEF Times, NotFarAhead, WriteFile

LEMMA SaveAlwaysLemma ==
    ASSUME Times, NotFarAhead, SaveAlways
    PROVE  /\ file' \in Nat
           /\ backs = 0 => WithinHour(file', now)
           /\ cfg.state_file => file' = scheduled_test_next_check \/ file' = 0
BY WriteFileLemma DEF SaveAlways, Times, NotFarAhead

LEMMA StepHourInv == HourInv /\ [Next]_vars => HourInv'
<1> SUFFICES ASSUME HourInv, [Next]_vars PROVE HourInv'
  OBVIOUS
<1>a. Times /\ NotFarAhead /\ (Undisturbed => ~again /\ Saved /\ Selected)
  BY DEF HourInv
<1>1. CASE Start
  <2>1. pc = "down" /\ Registered(file')
    BY <1>1 DEF Start
  <2>2. UNCHANGED << cfg, file, now, backs, busyUntil, again, excuse >>
    BY <1>1 DEF Start
  <2>3. excuse' \in BOOLEAN
    BY <1>a, <2>2, Zenon DEF Times
  <2>4. Undisturbed' => Undisturbed /\ busyUntil <= file'
    BY <1>a, <2>1, <2>2 DEF Saved, Undisturbed
  <2>5. file' \in Nat /\ (backs = 0 => WithinHour(file', now))
    BY <1>a, <2>2 DEF Times, NotFarAhead
  <2>6. QED
    BY <1>a, <2>1, <2>2, <2>3, <2>4, <2>5, RegisteredLemma
<1>2. CASE Reload
  <2>1. SaveAlways /\ Registered(file') /\ UNCHANGED << cfg, now, backs, busyUntil, again >>
    BY <1>2 DEF Reload
  <2>2. excuse' = (excuse \/ file' = 0)
    BY <1>2, Zenon DEF Reload
  <2>3. excuse' \in BOOLEAN
    BY <2>2, Zenon
  <2>4. ~excuse' => ~excuse /\ file' # 0
    BY <2>2, Zenon
  <2>5. Undisturbed' => Undisturbed
    BY <2>1, <2>4 DEF Undisturbed
  <2>6. Undisturbed' => busyUntil <= file'
    BY <1>2, <1>a, <2>1, <2>4, <2>5, SaveAlwaysLemma DEF Reload, Saved, Undisturbed
  <2>7. QED
    BY <1>a, <2>1, <2>3, <2>5, <2>6, SaveAlwaysLemma, RegisteredLemma
<1>3. CASE Stop
  <2>1. SaveAlways /\ pc' = "down" /\ UNCHANGED << cfg, now, backs, busyUntil, again,
                                                    scheduled_test_next_check, must_write >>
    BY <1>3 DEF Stop, stateVars
  <2>2. excuse' = (excuse \/ file' = 0)
    BY <1>3, Zenon DEF Stop
  <2>3. excuse' \in BOOLEAN
    BY <2>2, Zenon
  <2>4. ~excuse' => ~excuse /\ file' # 0
    BY <2>2, Zenon
  <2>5. Times' /\ NotFarAhead'
    BY <1>a, <2>1, <2>3, SaveAlwaysLemma DEF Times, NotFarAhead
  <2>6. Undisturbed' => Undisturbed
    BY <2>1, <2>4 DEF Undisturbed
  <2>7. Undisturbed' => busyUntil <= file'
    BY <1>3, <1>a, <2>1, <2>4, <2>6, SaveAlwaysLemma DEF Stop, Saved, Undisturbed
  <2>8. Undisturbed' => ~again' /\ Saved' /\ Selected'
    BY <1>a, <2>1, <2>6, <2>7 DEF Saved, Selected
  <2>9. QED
    BY <2>5, <2>8, Zenon DEF HourInv
<1>4. CASE Crash
  <2>1. excuse' = (excuse \/ must_write \/ file = 0)
    BY <1>4, Zenon DEF Crash
  <2>2. excuse' \in BOOLEAN
    BY <2>1, Zenon
  <2>3. ~excuse' => ~excuse /\ ~must_write /\ file # 0
    BY <2>1, Zenon
  <2>4. pc # "down" /\ pc' = "down" /\ UNCHANGED << cfg, scheduled_test_next_check, must_write,
                                                     file, now, backs, busyUntil, again >>
    BY <1>4 DEF Crash, stateVars, boundVars
  <2>5. Times' /\ NotFarAhead'
    BY <1>a, <2>2, <2>4 DEF Times, NotFarAhead
  <2>6. Undisturbed' => Undisturbed /\ ~must_write /\ file # 0
    BY <2>3, <2>4 DEF Undisturbed
  <2>7. Undisturbed' => ~again' /\ Saved' /\ Selected'
    BY <1>a, <2>4, <2>6 DEF Saved, Selected
  <2>8. QED
    BY <2>5, <2>7, Zenon DEF HourInv
<1>5. CASE NoTest
  BY <1>5, <1>a DEF NoTest, HourInv, Times, NotFarAhead, Saved, Selected, Undisturbed,
     stateVars, ghostVars, boundVars
<1>6. CASE NextScheduledTest
  <2>u. UNCHANGED << cfg, now, file, backs, busyUntil, again, excuse >>
    BY <1>6 DEF NextScheduledTest, boundVars
  <2>1. CASE UNCHANGED << scheduled_test_next_check, must_write >> /\ testtype' = None
    <3>1. pc' = "write"
      BY <1>6, <2>1 DEF NextScheduledTest
    <3>2. QED
      BY <1>6, <1>a, <2>u, <2>1, <3>1 DEF NextScheduledTest, HourInv, Times, NotFarAhead, Saved,
         Selected, Undisturbed
  <2>2. CASE /\ ~TooEarly(scheduled_test_next_check)
             /\ scheduled_test_next_check' = NextCheck(now)
             /\ must_write' = (must_write \/ MustWrite(testtype'))
    <3>1. NextCheck(now) \in Nat /\ now < NextCheck(now)
      BY <1>a, HourLemma, HourAssumption DEF Times
    <3>2. Times'
      <4>1. must_write' \in BOOLEAN
        BY <2>2, Zenon
      <4>2. QED
        BY <1>a, <2>u, <2>2, <3>1, <4>1 DEF Times
    <3>3. NotFarAhead'
      BY <1>a, <2>u, <2>2, NowIsWithinHour DEF Times, NotFarAhead
    <3>4. Undisturbed => busyUntil < NextCheck(now)
      <4>1. backs = 0 => scheduled_test_next_check <= now
        BY <1>a, <2>2, HourAssumption DEF TooEarly, NotFarAhead, WithinHour, Times
      <4>2. Undisturbed => busyUntil <= scheduled_test_next_check
        BY <1>6, <1>a DEF NextScheduledTest, Saved
      <4>3. QED
        BY <1>a, <4>1, <4>2, <3>1 DEF Undisturbed, Times
    <3>5. must_write => must_write'
      BY <2>2, Zenon
    <3>6. pc' = "start" => must_write'
      BY <1>6, <2>2, Zenon DEF NextScheduledTest, MustWrite
    <3>7. pc' # "down"
      BY <1>6 DEF NextScheduledTest
    <3>8. Undisturbed => Saved' /\ Selected'
      <4> SUFFICES ASSUME Undisturbed PROVE Saved' /\ Selected'
        OBVIOUS
      <4>1. busyUntil < NextCheck(now) /\ Saved /\ pc # "down"
        BY <1>a, <1>6, <3>4 DEF NextScheduledTest
      <4>2. busyUntil' <= scheduled_test_next_check' /\ busyUntil' # NextCheck(now')
        BY <4>1, <2>u, <2>2, <3>1, <1>a DEF Times
      <4>3. must_write' \/ file' = 0 \/ busyUntil' <= file'
        BY <4>1, <2>u, <3>5 DEF Saved
      <4>4. QED
        BY <4>2, <4>3, <3>6, <3>7, <2>u, <2>2 DEF Saved, Selected
    <3>9. QED
      BY <1>a, <2>u, <3>2, <3>3, <3>8 DEF HourInv, Undisturbed
  <2>3. QED
    BY <1>6, <2>1, <2>2 DEF NextScheduledTest
<1>7. CASE TestFails
  BY <1>7, <1>a DEF TestFails, HourInv, Times, NotFarAhead, Saved, Selected, Undisturbed,
     ghostVars, boundVars
<1>8. CASE TestStarts
  <2>1. busyUntil' = NextCheck(now) /\ NextCheck(now) \in Nat
    BY <1>8, <1>a, HourLemma, HourAssumption DEF TestStarts, Times
  <2>2. UNCHANGED << cfg, now, file, scheduled_test_next_check, must_write, backs, excuse >>
    BY <1>8 DEF TestStarts, stateVars, boundVars
  <2>3. again' = (again \/ NextCheck(now) = busyUntil)
    BY <1>8, <1>a, HourLemma DEF TestStarts, Times
  <2>4. Times'
    <3>1. again' \in BOOLEAN
      BY <2>3, Zenon
    <3>2. QED
      BY <1>a, <2>1, <2>2, <3>1 DEF Times
  <2>5. Undisturbed => Selected /\ pc = "start" /\ ~again
    BY <1>8, <1>a DEF TestStarts
  <2>6. Undisturbed => ~again'
    BY <2>3, <2>5, Zenon DEF Selected
  <2>7. Undisturbed => Saved' /\ Selected'
    <3>1. pc' = "write"
      BY <1>8 DEF TestStarts
    <3>2. QED
      BY <2>1, <2>2, <2>5, <3>1, <1>a DEF Saved, Selected, Times
  <2>8. QED
    BY <1>a, <2>2, <2>4, <2>6, <2>7 DEF HourInv, Undisturbed, NotFarAhead
<1>9. CASE WriteState
  <2>1. pc = "write" /\ pc' = "sleep" /\ UNCHANGED << cfg, scheduled_test_next_check, now,
                                          backs, busyUntil, again, excuse >>
    BY <1>9 DEF WriteState
  <2>2. CASE UNCHANGED << file, must_write >>
    BY <1>a, <2>1, <2>2 DEF HourInv, Times, NotFarAhead, Saved, Selected, Undisturbed
  <2>3. CASE WriteFile /\ must_write' = (must_write /\ file' = 0)
    <3>1. must_write' \in BOOLEAN
      BY <2>3, Zenon
    <3>2. Times' /\ NotFarAhead'
      BY <1>a, <2>1, <2>3, <3>1, WriteFileLemma DEF Times, NotFarAhead
    <3>3. Undisturbed' => Saved' /\ Selected'
      BY <1>a, <2>1, <2>3, WriteFileLemma DEF Saved, Selected, Undisturbed, Times
    <3>4. QED
      BY <1>a, <2>1, <3>2, <3>3 DEF HourInv, Undisturbed
  <2>4. QED
    BY <1>9, <2>2, <2>3 DEF WriteState
<1>10. CASE Wakeup
  BY <1>10, <1>a DEF Wakeup, HourInv, Times, NotFarAhead, Saved, Selected, Undisturbed,
     stateVars, ghostVars, boundVars
<1>11. CASE Tick
  <2>1. UNCHANGED << cfg, pc, file, scheduled_test_next_check, must_write, backs, busyUntil,
                     again, excuse >> /\ now' = now + 1 /\ pc # "start"
    BY <1>11 DEF Tick, stateVars, boundVars, ghostVars
  <2>2. Times'
    BY <1>a, <2>1, HourAssumption DEF Times
  <2>3. NotFarAhead'
    BY <1>a, <2>1, WithinHourLemma DEF Times, NotFarAhead
  <2>4. QED
    BY <1>a, <2>1, <2>2, <2>3 DEF HourInv, Saved, Selected, Undisturbed
<1>12. CASE SetBack
  <2>1. backs' \in Nat /\ backs' # 0
    BY <1>12, <1>a DEF SetBack, Times
  <2>2. Times'
    BY <1>12, <1>a, <2>1, HourAssumption DEF SetBack, Times, stateVars, ghostVars
  <2>3. QED
    BY <2>1, <2>2 DEF HourInv, NotFarAhead, Undisturbed
<1>13. CASE TestEnds
  BY <1>13, <1>a DEF TestEnds, HourInv, Times, NotFarAhead, Saved, Selected, Undisturbed,
     stateVars, ghostVars, boundVars
<1>14. CASE UNCHANGED vars
  BY <1>14, <1>a DEF vars, HourInv, Times, NotFarAhead, Saved, Selected, Undisturbed,
     stateVars, ghostVars, boundVars
<1>15. QED
  BY <1>1, <1>2, <1>3, <1>4, <1>5, <1>6, <1>7, <1>8, <1>9, <1>10, <1>11, <1>12, <1>13, <1>14
     DEF Next, Check

-----------------------------------------------------------------------------
\* With a state file and a clock that is not set back, no two tests of the
\* device are started in the same hour, through any number of reloads,
\* restarts and crashes; only a state that is not saved when smartd ends or
\* is reloaded can make next_scheduled_test() forget the first one.
THEOREM OneTestAnHour == Spec => [](Undisturbed => ~again)
<1>1. Init => HourInv
  BY InitHourInv
<1>2. HourInv /\ [Next]_vars => HourInv'
  BY StepHourInv
<1>3. HourInv => (Undisturbed => ~again)
  BY DEF HourInv
<1>4. QED
  BY <1>1, <1>2, <1>3, PTL DEF Spec

\* After every look at the schedule the next one is due within an hour,
\* wherever the clock and the state file have put the time of the check.
THEOREM ScheduleNeverStalls == Spec => NeverStalls
<1>1. HourInv /\ [Next]_vars =>
          [NextScheduledTest /\ notCap # Classes =>
               scheduled_test_next_check' \in (now + 1) .. (now + Hour)]_vars
  <2> SUFFICES ASSUME HourInv, NextScheduledTest, notCap # Classes
               PROVE  scheduled_test_next_check' \in (now + 1) .. (now + Hour)
    OBVIOUS
  <2>a. now \in Nat /\ scheduled_test_next_check \in Nat
    BY DEF HourInv, Times
  <2>1. CASE TooEarly(scheduled_test_next_check)
    <3>1. scheduled_test_next_check' = scheduled_test_next_check
      BY <2>1 DEF NextScheduledTest
    <3>2. scheduled_test_next_check \in (now + 1) .. (now + Hour)
      BY <2>1, <2>a, HourAssumption DEF TooEarly
    <3>3. QED
      BY <3>1, <3>2
  <2>2. CASE ~TooEarly(scheduled_test_next_check)
    <3>1. scheduled_test_next_check' = NextCheck(now)
      BY <2>2 DEF NextScheduledTest
    <3>2. NextCheck(now) \in (now + 1) .. (now + Hour)
      BY <2>a, HourLemma
    <3>3. QED
      BY <3>1, <3>2
  <2>3. QED
    BY <2>1, <2>2
<1>2. QED
  BY <1>1, InitHourInv, StepHourInv, PTL DEF Spec, NeverStalls

\* Both parts of EachHourOnce: no hour is looked at twice with a state file, and none is
\* waited for in vain.
THEOREM HoursAreLookedAtOnce == Spec => EachHourOnce
BY OneTestAnHour, ScheduleNeverStalls DEF EachHourOnce

-----------------------------------------------------------------------------
(***************************************************************************)
(* No test is forgotten.  Every full hour since the last look is an hour   *)
(* of one of the points in time the loop of next_scheduled_test() visits,  *)
(* since the first of them lies at most an hour after the last look, in    *)
(* memory and in the state file that may take its place.                   *)
(***************************************************************************)
FullHour(h) == h \in Int /\ h % Hour = 0

\* A tick is in the hour that began last.
LEMMA SameHour ==
    ASSUME NEW h \in Int, NEW t \in Int, h % Hour = 0, h <= t, t < h + Hour
    PROVE  t \div Hour = h \div Hour
BY HourAssumption, SMT

LEMMA FullHourIsMultiple ==
    ASSUME NEW h, FullHour(h)
    PROVE  h \in Int /\ h = Hour * (h \div Hour) /\ h \div Hour \in Int
BY HourAssumption, SMT DEF FullHour

LEMMA MultiplesApart ==
    ASSUME NEW c \in Nat \ {0}, NEW p \in Int, NEW q \in Int, c * p < c * q
    PROVE  c * p + c <= c * q
<1>1. p + 1 <= q
  BY SMT
<1>2. c * (p + 1) <= c * q
  BY <1>1, SMT
<1>3. QED
  BY <1>2, SMT

LEMMA MultipleHasNoRest ==
    ASSUME NEW c \in Nat \ {0}, NEW p \in Int
    PROVE  (c * p) % c = 0
OBVIOUS

\* Between two full hours there is at least one hour.
LEMMA FullHoursApart ==
    ASSUME NEW g, NEW h, FullHour(g), FullHour(h), g < h
    PROVE  g + Hour <= h
<1>1. /\ g \in Int /\ g = Hour * (g \div Hour) /\ g \div Hour \in Int
      /\ h \in Int /\ h = Hour * (h \div Hour) /\ h \div Hour \in Int
  BY FullHourIsMultiple
<1>2. PICK p \in Int, q \in Int : g = Hour * p /\ h = Hour * q
  BY <1>1
<1>3. QED
  BY <1>2, HourAssumption, MultiplesApart

LEMMA HourStartIsFull ==
    ASSUME NEW t \in Nat
    PROVE  FullHour(HourStart(t)) /\ FullHour(HourStart(t) - Hour)
<1>1. t = Hour * (t \div Hour) + (t % Hour) /\ t \div Hour \in Int /\ t % Hour \in Int
  BY HourAssumption, SMT
<1>2. PICK q \in Int : HourStart(t) = Hour * q
  <2>1. PICK q \in Int, r \in Int : t = Hour * q + r /\ t % Hour = r
    BY <1>1
  <2>2. HourStart(t) = t - r
    BY <2>1 DEF HourStart
  <2>3. HourStart(t) = Hour * q
    BY <2>1, <2>2, HourAssumption
  <2>4. QED
    BY <2>3
<1>3. Hour * q - Hour = Hour * (q - 1)
  BY HourAssumption
<1>4. (Hour * q) % Hour = 0 /\ (Hour * (q - 1)) % Hour = 0
  BY HourAssumption, MultipleHasNoRest
<1>5. QED
  BY <1>2, <1>3, <1>4, HourAssumption DEF FullHour

\* The last full hour is the latest of them.
LEMMA HourStartIsLast ==
    ASSUME NEW h, FullHour(h), NEW t \in Nat, h <= t
    PROVE  h <= HourStart(t)
<1>1. FullHour(HourStart(t)) /\ HourStart(t) \in Int /\ t < HourStart(t) + Hour
  BY HourLemma, HourStartIsFull
<1>2. h \in Int
  BY DEF FullHour
<1>3. HourStart(t) < h => HourStart(t) + Hour <= h
  BY <1>1, FullHoursApart
<1>4. QED
  BY <1>1, <1>2, <1>3, HourAssumption

\* Steps of an hour from `from' reach the hour h, unless the loop ends within it.
LEMMA HourIsVisited ==
    ASSUME NEW h, FullHour(h), NEW from \in Int, NEW n \in Int,
           h <= n, from <= n, from < h + Hour
    PROVE  \E t \in Visited(from, n) : t \div Hour = h \div Hour
<1>h. h \in Int /\ h % Hour = 0
  BY DEF FullHour
<1>1. CASE h <= from
  <2>1. from \in Visited(from, n)
    BY HourAssumption, SMT DEF Visited
  <2>2. QED
    BY <1>h, <1>1, <2>1, SameHour
<1>2. CASE from < h
  <2> DEFINE late == (from - h) % Hour
  <2>1. late \in Int /\ 0 <= late /\ late < Hour
    BY <1>h, HourAssumption, SMT
  <2>2. (h + late - from) % Hour = 0
    <3> DEFINE a == from - h
    <3>1. a = Hour * (a \div Hour) + (a % Hour) /\ a \div Hour \in Int /\ a \in Int
      BY <1>h, HourAssumption, SMT
    <3>2. PICK q \in Int : a = Hour * q + late
      BY <3>1
    <3>3. h + late - from = Hour * (0 - q)
      BY <1>h, <2>1, <3>2, HourAssumption
    <3>4. QED
      BY <3>3, HourAssumption, MultipleHasNoRest
  <2>3. h + late >= from /\ h + late \in Int
    BY <1>h, <1>2, <2>1
  <2> HIDE DEF late
  <2>4. (h + late) \div Hour = h \div Hour
    BY <1>h, <2>1, <2>3, HourAssumption, SameHour
  <2>5. CASE h + late <= n
    <3>1. h + late \in Visited(from, n)
      <4>1. PICK t \in Int : t = h + late
        BY <2>3
      <4>2. t \in from .. n /\ (t - from) % Hour = 0
        BY <1>h, <2>1, <2>2, <2>3, <2>5, <4>1
      <4>3. QED
        BY <4>1, <4>2, Zenon DEF Visited
    <3>2. QED
      BY <2>4, <3>1
  <2>6. CASE n < h + late
    <3>1. n \in Visited(from, n)
      BY DEF Visited
    <3>2. n \div Hour = h \div Hour
      BY <1>h, <2>1, <2>6, HourAssumption, SameHour
    <3>3. QED
      BY <3>1, <3>2
  <2>7. QED
    BY <1>h, <2>1, <2>5, <2>6
<1>3. QED
  BY <1>h, <1>1, <1>2

\* The test that is selected is one of the types, and none of higher priority is.
LEMMA FirstIsFirst ==
    ASSUME NEW types, types \subseteq {TestTypes[j] : j \in 1 .. 7}, types # {}
    PROVE  \E j \in 1 .. 7 : /\ First(types) = TestTypes[j] /\ TestTypes[j] \in types
                             /\ \A i \in 1 .. (j - 1) : TestTypes[i] \notin types
<1> DEFINE IsFirst(j) == /\ TestTypes[j] \in types
                         /\ \A i \in 1 .. (j - 1) : TestTypes[i] \notin types
<1>1. \E j \in 1 .. 7 : TestTypes[j] \in types
  BY Zenon
<1>2. \E j \in 1 .. 7 : IsFirst(j)
  <2>1. 1 .. 7 = {1, 2, 3, 4, 5, 6, 7}
    OBVIOUS
  <2> DEFINE In(j) == TestTypes[j] \in types
  <2> HIDE DEF In
  <2>2. \E j \in {1, 2, 3, 4, 5, 6, 7} : In(j)
    BY <1>1, <2>1, Zenon DEF In
  <2>3. \E j \in {1, 2, 3, 4, 5, 6, 7} : In(j) /\ \A i \in 1 .. (j - 1) : ~In(i)
    BY <2>2
  <2>4. QED
    BY <2>1, <2>3, Zenon DEF In
<1>3. First(types) = TestTypes[CHOOSE j \in 1 .. 7 : IsFirst(j)]
  BY Zenon DEF First
<1> HIDE DEF IsFirst
<1>4. IsFirst(CHOOSE j \in 1 .. 7 : IsFirst(j)) /\ (CHOOSE j \in 1 .. 7 : IsFirst(j)) \in 1 .. 7
  BY <1>2, Zenon
<1>5. QED
  BY <1>3, <1>4, Zenon DEF IsFirst

\* Each letter has one priority.
LEMMA PrioritiesDiffer ==
    ASSUME NEW i \in 1 .. 7, NEW j \in 1 .. 7, TestTypes[i] = TestTypes[j]
    PROVE  i = j
BY DEF TestTypes

\* The time t of the next look follows the last full hour that was looked at: it is the
\* next full hour, or any time of the hour before smartd was started.
Follows(t, last, n) == t <= last + Hour \/ (t < last + 2 * Hour /\ t <= n)

LooksInTime ==
    backs = 0 =>
        /\ lastHour <= now
        /\ Follows(scheduled_test_next_check, lastHour, now)
        /\ cfg.state_file /\ file # 0 => Follows(file, lastHour, now)

ForgetInv ==
    /\ FullHour(lastHour)
    /\ LooksInTime
    /\ pc \notin {"start", "write"} => due = {}
    /\ NoTestForgotten

LEMMA FollowsLater ==
    ASSUME NEW t \in Nat, NEW g \in Int, NEW h \in Int, NEW n \in Nat, NEW m \in Nat,
           Follows(t, g, n), g <= h, n <= m
    PROVE  Follows(t, h, m)
BY HourAssumption DEF Follows

LEMMA FollowsNow ==
    ASSUME NEW n \in Nat
    PROVE  Follows(n, HourStart(n) - Hour, n) /\ Follows(NextCheck(n), HourStart(n), n)
BY HourLemma, HourAssumption DEF Follows

\* As long as the time of the next look lies ahead, no full hour has begun.
LEMMA NothingDueEarly ==
    ASSUME HourInv, ForgetInv, backs = 0, TooEarly(scheduled_test_next_check)
    PROVE  DueTests = {}
<1>1. now < scheduled_test_next_check /\ now \in Nat /\ scheduled_test_next_check \in Nat
  BY DEF TooEarly, HourInv, Times
<1>2. scheduled_test_next_check <= lastHour + Hour /\ FullHour(lastHour) /\ lastHour \in Int
  BY <1>1, HourAssumption DEF ForgetInv, LooksInTime, Follows, FullHour
<1>3. ASSUME NEW h \in (lastHour + 1) .. now, h % Hour = 0
      PROVE  FALSE
  <2>1. FullHour(h) /\ h \in Int /\ lastHour < h /\ h <= now
    BY <1>1, <1>2, <1>3 DEF FullHour
  <2>2. lastHour + Hour <= h
    BY <1>2, <2>1, FullHoursApart
  <2>3. QED
    BY <1>1, <1>2, <2>1, <2>2, HourAssumption
<1>4. QED
  BY <1>3, Zenon DEF DueTests

\* The disk is not capable of any test.
LEMMA NothingDueIncapable ==
    ASSUME notCap = Classes
    PROVE  DueTests = {}
<1>1. ASSUME NEW ty PROVE Class(ty) \in Classes
  BY DEF Class, Classes
<1>2. ASSUME NEW t PROVE MatchesAt(t) = {}
  BY <1>1, Zenon DEF MatchesAt
<1>3. QED
  BY <1>2, Zenon DEF DueTests

\* What was due since the last look matches at one of the points visited.
LEMMA DueIsVisited ==
    ASSUME HourInv, ForgetInv, backs = 0, ~TooEarly(scheduled_test_next_check)
    PROVE  DueTests \subseteq
               UNION {MatchesAt(t) : t \in Visited(From(scheduled_test_next_check), now)}
<1> DEFINE from == From(scheduled_test_next_check)
<1>1. /\ now \in Nat /\ scheduled_test_next_check \in Nat
      /\ lastHour \in Int /\ FullHour(lastHour)
      /\ WithinHour(scheduled_test_next_check, now)
  BY DEF HourInv, Times, NotFarAhead, ForgetInv, FullHour
<1>2. scheduled_test_next_check <= now /\ scheduled_test_next_check < lastHour + 2 * Hour
  BY <1>1, HourAssumption DEF WithinHour, TooEarly, ForgetInv, LooksInTime, Follows
<1>3. PICK age \in Nat : age = MaxAge * Hour
  BY HourAssumption
<1>4. /\ from \in Int /\ from <= now
      /\ from = scheduled_test_next_check \/ from = now - age
  BY <1>1, <1>2, <1>3 DEF From
<1> HIDE DEF from
<1>5. ASSUME NEW h \in (lastHour + 1) .. now, h % Hour = 0, h > now - age - Hour
      PROVE  \E t \in Visited(from, now) : MatchesAt(h) = MatchesAt(t)
  <2>1. FullHour(h) /\ h \in Int /\ lastHour < h /\ h <= now
    BY <1>1, <1>5 DEF FullHour
  <2>2. lastHour + Hour <= h
    BY <1>1, <2>1, FullHoursApart
  <2>3. from < h + Hour
    BY <1>1, <1>2, <1>4, <1>5, <2>1, <2>2, HourAssumption
  <2>4. PICK t \in Visited(from, now) : t \div Hour = h \div Hour
    BY <1>1, <1>4, <2>1, <2>3, HourIsVisited
  <2>5. QED
    BY <2>4, Zenon DEF MatchesAt
<1>6. QED
  BY <1>3, <1>5, Zenon DEF DueTests, from

LEMMA MatchesAreTypes ==
    ASSUME NEW S
    PROVE  UNION {MatchesAt(t) : t \in S} \subseteq {TestTypes[j] : j \in 1 .. 7}
BY Zenon DEF MatchesAt

\* The look at the schedule.
LEMMA LookForgetsNothing ==
    ASSUME HourInv, ForgetInv, NextScheduledTest
    PROVE  NoTestForgotten'
<1> SUFFICES ASSUME backs = 0, DueTests # {}
             PROVE  /\ testtype' # None
                    /\ \A j \in 1 .. 7 : TestTypes[j] = testtype' =>
                           \A i \in 1 .. (j - 1) : TestTypes[i] \notin DueTests
  BY DEF NextScheduledTest, NoTestForgotten, boundVars
<1> DEFINE types == UNION {MatchesAt(t) : t \in Visited(From(scheduled_test_next_check), now)}
<1>1. ~TooEarly(scheduled_test_next_check) /\ notCap # Classes
  BY NothingDueEarly, NothingDueIncapable
<1>2. testtype' = First(types)
  BY <1>1, Zenon DEF NextScheduledTest
<1>3. DueTests \subseteq types /\ types \subseteq {TestTypes[j] : j \in 1 .. 7}
  BY <1>1, DueIsVisited, MatchesAreTypes
<1> HIDE DEF types
<1>4. types # {}
  BY <1>3
<1>5. PICK j \in 1 .. 7 : /\ testtype' = TestTypes[j]
                          /\ \A i \in 1 .. (j - 1) : TestTypes[i] \notin types
  BY <1>2, <1>3, <1>4, FirstIsFirst, Zenon
<1>6. testtype' # None
  BY <1>5 DEF TestTypes, None
<1>7. ASSUME NEW k \in 1 .. 7, TestTypes[k] = testtype'
      PROVE  \A i \in 1 .. (k - 1) : TestTypes[i] \notin DueTests
  BY <1>3, <1>5, <1>7, PrioritiesDiffer, Zenon
<1>8. QED
  BY <1>6, <1>7, Zenon

LEMMA InitForgetInv == Init => ForgetInv
<1> SUFFICES ASSUME Init PROVE ForgetInv
  OBVIOUS
<1>1. lastHour = 0 /\ scheduled_test_next_check = 0 /\ file = 0 /\ due = {} /\ now \in Nat
  BY HourAssumption DEF Init
<1>2. FullHour(lastHour)
  BY <1>1, HourAssumption, MultipleHasNoRest DEF FullHour
<1>3. LooksInTime
  BY <1>1, HourAssumption DEF LooksInTime, Follows
<1>4. QED
  BY <1>1, <1>2, <1>3 DEF ForgetInv, NoTestForgotten

\* Registration goes on where the file was written, or begins with the current hour.
LEMMA RegisteredForgetsNothing ==
    ASSUME HourInv, ForgetInv, Registered(file'), file' \in Nat, due = {},
           UNCHANGED << cfg, now, backs, due >>,
           backs = 0 /\ cfg.state_file /\ file' # 0 => Follows(file', lastHour, now)
    PROVE  ForgetInv'
<1>1. now \in Nat /\ FullHour(lastHour) /\ LooksInTime
  BY DEF HourInv, Times, ForgetInv
<1>2. CASE cfg.state_file /\ file' # 0
  <2>1. scheduled_test_next_check' = file' /\ lastHour' = lastHour
    BY <1>2 DEF Registered
  <2>2. LooksInTime'
    BY <1>1, <1>2, <2>1 DEF LooksInTime
  <2>3. QED
    BY <1>1, <2>1, <2>2 DEF ForgetInv, FullHour, NoTestForgotten
<1>3. CASE ~(cfg.state_file /\ file' # 0)
  <2>1. scheduled_test_next_check' = now /\ lastHour' = HourStart(now) - Hour
    BY <1>3, Zenon DEF Registered
  <2>2. FullHour(lastHour')
    BY <1>1, <2>1, HourStartIsFull
  <2>3. lastHour' <= now'
    BY <1>1, <2>1, HourLemma, HourAssumption
  <2>4. Follows(scheduled_test_next_check', lastHour', now')
    BY <1>1, <2>1, FollowsNow
  <2>5. LooksInTime'
    BY <1>3, <2>3, <2>4, Zenon DEF LooksInTime
  <2>6. QED
    BY <2>2, <2>5 DEF ForgetInv, NoTestForgotten, FullHour
<1>4. QED
  BY <1>2, <1>3

\* A file that was written in the sleep has the time of the next look.
LEMMA SavedFollows ==
    ASSUME HourInv, ForgetInv, WriteFile
    PROVE  backs = 0 /\ file' # 0 => Follows(file', lastHour, now)
BY DEF ForgetInv, LooksInTime, WriteFile

LEMMA StepForgetInv == HourInv /\ HourInv' /\ ForgetInv /\ [Next]_vars => ForgetInv'
<1> SUFFICES ASSUME HourInv, HourInv', ForgetInv, [Next]_vars PROVE ForgetInv'
  OBVIOUS
<1>a. /\ FullHour(lastHour) /\ LooksInTime /\ NoTestForgotten
      /\ pc \notin {"start", "write"} => due = {}
  BY DEF ForgetInv
<1>b. /\ now \in Nat /\ now' \in Nat /\ backs \in Nat /\ lastHour \in Int
      /\ scheduled_test_next_check \in Nat /\ file \in Nat /\ file' \in Nat
  BY DEF HourInv, Times, ForgetInv, FullHour
<1>1. CASE Start
  <2>1. Registered(file') /\ UNCHANGED << cfg, now, backs, due, file >> /\ due = {}
    BY <1>1, <1>a DEF Start
  <2>2. backs = 0 /\ cfg.state_file /\ file' # 0 => Follows(file', lastHour, now)
    BY <1>a, <2>1 DEF LooksInTime
  <2>3. QED
    BY <1>b, <2>1, <2>2, RegisteredForgetsNothing
<1>2. CASE Reload
  <2>1. Registered(file') /\ UNCHANGED << cfg, now, backs, due >> /\ due = {} /\ SaveAlways
    BY <1>2, <1>a DEF Reload
  <2>2. backs = 0 /\ cfg.state_file /\ file' # 0 => Follows(file', lastHour, now)
    BY <2>1, SavedFollows, Zenon DEF SaveAlways
  <2>3. QED
    BY <1>b, <2>1, <2>2, RegisteredForgetsNothing
<1>3. CASE Stop
  <2>1. /\ UNCHANGED << cfg, now, backs, due, lastHour, scheduled_test_next_check >>
        /\ due = {} /\ SaveAlways
    BY <1>3, <1>a DEF Stop, stateVars
  <2>2. backs = 0 /\ cfg.state_file /\ file' # 0 => Follows(file', lastHour, now)
    BY <2>1, SavedFollows, Zenon DEF SaveAlways
  <2>3. LooksInTime'
    BY <1>a, <2>1, <2>2 DEF LooksInTime
  <2>4. QED
    BY <1>a, <2>1, <2>3 DEF ForgetInv, NoTestForgotten, FullHour
<1>4. CASE Crash
  <2>1. /\ UNCHANGED << cfg, now, backs, lastHour, scheduled_test_next_check, file >>
        /\ due' = {}
    BY <1>4 DEF Crash, stateVars, boundVars
  <2>2. QED
    BY <1>a, <2>1 DEF ForgetInv, NoTestForgotten, FullHour, LooksInTime
<1>5. CASE NoTest
  BY <1>5, <1>a DEF NoTest, ForgetInv, NoTestForgotten, FullHour, LooksInTime,
     stateVars, ghostVars, boundVars
<1>6. CASE NextScheduledTest
  <2>1. NoTestForgotten'
    BY <1>6, LookForgetsNothing
  <2>2. pc' \in {"start", "write"} /\ UNCHANGED << cfg, now, backs, file >>
    BY <1>6 DEF NextScheduledTest, boundVars
  <2>3. CASE UNCHANGED << scheduled_test_next_check, lastHour >>
    BY <1>a, <2>1, <2>2, <2>3 DEF ForgetInv, FullHour, LooksInTime
  <2>4. CASE /\ scheduled_test_next_check' = NextCheck(now)
             /\ lastHour' = HourStart(now)
    <3>1. FullHour(lastHour') /\ lastHour' \in Int /\ lastHour' <= now
      BY <1>b, <2>4, HourLemma, HourStartIsFull
    <3>2. Follows(scheduled_test_next_check', lastHour', now)
      BY <1>b, <2>4, FollowsNow
    <3>3. backs = 0 => lastHour <= lastHour'
      BY <1>a, <1>b, <2>4, HourStartIsLast DEF LooksInTime
    <3>4. backs = 0 /\ cfg.state_file /\ file # 0 => Follows(file, lastHour', now)
      BY <1>a, <1>b, <3>1, <3>3, FollowsLater DEF LooksInTime
    <3>5. LooksInTime'
      BY <2>2, <3>1, <3>2, <3>4 DEF LooksInTime
    <3>6. QED
      BY <2>1, <2>2, <3>1, <3>5 DEF ForgetInv, FullHour
  <2>5. QED
    BY <1>6, <2>3, <2>4, Zenon DEF NextScheduledTest
<1>7. CASE TestFails
  BY <1>7, <1>a DEF TestFails, ForgetInv, NoTestForgotten, FullHour, LooksInTime,
     ghostVars, boundVars
<1>8. CASE TestStarts
  BY <1>8, <1>a DEF TestStarts, ForgetInv, NoTestForgotten, FullHour, LooksInTime,
     stateVars, boundVars
<1>9. CASE WriteState
  <2>1. /\ UNCHANGED << cfg, now, backs, lastHour, scheduled_test_next_check >>
        /\ due' = {} /\ (file' = file \/ WriteFile)
    BY <1>9 DEF WriteState
  <2>2. backs = 0 /\ cfg.state_file /\ file' # 0 => Follows(file', lastHour, now)
    BY <1>a, <2>1, SavedFollows DEF LooksInTime
  <2>3. LooksInTime'
    BY <1>a, <2>1, <2>2 DEF LooksInTime
  <2>4. QED
    BY <1>a, <2>1, <2>3 DEF ForgetInv, NoTestForgotten, FullHour
<1>10. CASE Wakeup
  BY <1>10, <1>a DEF Wakeup, ForgetInv, NoTestForgotten, FullHour, LooksInTime,
     stateVars, ghostVars, boundVars
<1>11. CASE Tick
  <2>1. /\ UNCHANGED << cfg, backs, due, lastHour, scheduled_test_next_check, file >>
        /\ due = {} /\ now' = now + 1
    BY <1>11, <1>a DEF Tick, stateVars, boundVars, ghostVars
  <2>2. ASSUME NEW t \in Nat, Follows(t, lastHour, now) PROVE Follows(t, lastHour, now')
    BY <1>b, <2>1, <2>2, FollowsLater
  <2>3. backs = 0 => lastHour <= now'
    BY <1>a, <1>b, <2>1 DEF LooksInTime
  <2>4. LooksInTime'
    BY <1>a, <1>b, <2>1, <2>2, <2>3 DEF LooksInTime
  <2>5. QED
    BY <1>a, <2>1, <2>4 DEF ForgetInv, NoTestForgotten, FullHour
<1>12. CASE SetBack
  <2>1. backs' # 0 /\ due = {} /\ UNCHANGED << lastHour, due >>
    BY <1>12, <1>a, <1>b DEF SetBack, ghostVars
  <2>2. QED
    BY <1>a, <2>1 DEF ForgetInv, NoTestForgotten, FullHour, LooksInTime
<1>13. CASE TestEnds
  BY <1>13, <1>a DEF TestEnds, ForgetInv, NoTestForgotten, FullHour, LooksInTime,
     stateVars, ghostVars, boundVars
<1>14. CASE UNCHANGED vars
  BY <1>14, <1>a DEF vars, ForgetInv, NoTestForgotten, FullHour, LooksInTime,
     stateVars, ghostVars, boundVars
<1>15. QED
  BY <1>1, <1>2, <1>3, <1>4, <1>5, <1>6, <1>7, <1>8, <1>9, <1>10, <1>11, <1>12, <1>13, <1>14
     DEF Next, Check

\* Of the tests that were due since the last look at the schedule, through downtime,
\* standby, crashes and lost state files, next_scheduled_test() selects the one of the
\* highest priority, as long as the clock is not set back.
THEOREM TestsAreCaughtUp == Spec => []NoTestForgotten
<1>1. Init => HourInv /\ ForgetInv
  BY InitHourInv, InitForgetInv
<1>2. HourInv /\ ForgetInv /\ [Next]_vars => HourInv' /\ ForgetInv'
  BY StepHourInv, StepForgetInv
<1>3. ForgetInv => NoTestForgotten
  BY DEF ForgetInv
<1>4. QED
  BY <1>1, <1>2, <1>3, PTL DEF Spec

=============================================================================
