---------------------------- MODULE Sleep_proofs ----------------------------
(***************************************************************************)
(* Theorems about smartd between two check cycles, for every set of        *)
(* devices: how long it sleeps (Dosleep), for all intervals and every      *)
(* behaviour of the clock, and whether the system may sleep meanwhile      *)
(* (AutoStandby), for all changes of the tests, of the configuration and   *)
(* of the answers of the system.                                           *)
(***************************************************************************)
EXTENDS Dosleep, AutoStandby, WellFoundedInduction, TLAPS

\* Every nonempty set of times has an earliest one: first from any
\* well-founded relation that contains "<", then from "<" itself.
LEMMA LeastFromRelation ==
    ASSUME NEW R, IsWellFoundedOn(R, Nat), \A x, y \in Nat : x < y => <<x, y>> \in R,
           NEW S, S \subseteq Nat, S # {}
    PROVE  Least(S) \in S /\ \A y \in S : Least(S) <= y
<1>1. PICK x \in S : \A y \in S : ~(<<y, x>> \in R)
  BY WFMin, ZenonT(120)
<1>2. ASSUME NEW y \in S PROVE x <= y
  <2>1. x \in Nat /\ y \in Nat
    OBVIOUS
  <2>2. ~(y < x)
    BY <1>1, <2>1, Zenon
  <2>3. QED
    BY <2>1, <2>2
<1>3. QED
  BY <1>2 DEF Least

LEMMA LeastLemma ==
    ASSUME NEW S, S \subseteq Nat, S # {}
    PROVE  Least(S) \in S /\ \A y \in S : Least(S) <= y
<1>1. \A x, y \in Nat : x < y => <<x, y>> \in OpToRel(<, Nat)
  BY DEF OpToRel
<1>2. QED
  BY <1>1, NatLessThanWellFounded, LeastFromRelation

\* The next wakeup time lies ahead, by at most one interval if the last one
\* has passed.
THEOREM NextWakeupInRange ==
    ASSUME NEW w \in Nat, NEW now \in Nat, NEW ct \in Nat \ {0}
    PROVE  LET next == CalcNextWakeuptime(w, now, ct)
           IN  /\ next \in Nat
               /\ now < next
               /\ w <= now => next <= now + ct
BY DEF CalcNextWakeuptime

LEMMA IntervalType ==
    ASSUME TypeOK
    PROVE  /\ \A d \in Devices : Interval(d) \in Nat \ {0}
           /\ CheckTimeMin \in Nat
           /\ Ct \in Nat \ {0}
<1>1. cfg \in [Devices -> Nat]
  BY ConfigsAssumption DEF TypeOK
<1>2. \A d \in Devices : Interval(d) \in Nat \ {0}
  BY <1>1, TimesAssumption DEF Interval
<1>3. Own \subseteq Nat
  BY <1>1 DEF Own
<1>4. Least(Own \cup {checktime}) \in Nat
  BY <1>3, LeastLemma, TimesAssumption
<1>5. QED
  BY <1>2, <1>4, TimesAssumption DEF CheckTimeMin, Ct

\* The wakeup times of the devices are times, and so is the first of them.
LEMMA NextStWakeupType ==
    ASSUME TypeOK
    PROVE  LET st == NextStWakeup(clock)
               first == Least({st[d] : d \in Devices})
           IN  /\ st \in [Devices -> Nat]
               /\ first \in Nat
               /\ \A d \in Devices : first <= st[d]
<1> DEFINE st == NextStWakeup(clock)
           S == {st[d] : d \in Devices}
<1>1. ASSUME NEW d \in Devices PROVE st[d] \in Nat
  <2>1. Interval(d) \in Nat \ {0} /\ stWakeup[d] \in Nat /\ clock \in Nat
    BY IntervalType DEF TypeOK
  <2>2. CalcNextWakeuptime(IF stWakeup[d] # 0 THEN stWakeup[d] ELSE clock,
                           clock, Interval(d)) \in Nat
    BY <2>1, NextWakeupInRange
  <2>3. QED
    BY <2>1, <2>2 DEF NextStWakeup
<1>2. st \in [Devices -> Nat]
  BY <1>1 DEF NextStWakeup
<1>3. S \subseteq Nat /\ S # {}
  BY <1>1, ConfigsAssumption
<1>4. Least(S) \in S /\ \A y \in S : Least(S) <= y
  BY <1>3, LeastLemma
<1>5. QED
  BY <1>2, <1>3, <1>4

-----------------------------------------------------------------------------
\* How long the while loop sleeps, if it does: until wakeuptime, which a
\* clock that was set back may have made earlier, plus addtime.
LEMMA LoopSleeps ==
    ASSUME TypeOK, NEW w \in Nat, NEW st \in [Devices -> Nat], NEW add \in Nat,
           NEW noskip \in BOOLEAN, NEW now \in Nat, Loop(w, st, add, noskip, now),
           pc' = "sleep"
    PROVE  /\ addtime' = add
           /\ \E w1, r1 \in Nat : /\ wakeuptime' = w1 /\ remaining' = r1
                                  /\ now + r1 = w1 + add
                                  /\ w1 <= w /\ w1 <= now + Ct
<1>1. Ct \in Nat \ {0}
  BY IntervalType
<1>2. StaysAsleep(w, add, now) /\ SleepOn(w, st, add, noskip, now, Ct)
  BY DEF Loop, Leave
<1> DEFINE w1 == IF SetBack(w, now, Ct) THEN now + Ct ELSE w
           r1 == w1 + add - now
<1>3. wakeuptime' = w1 /\ remaining' = r1 /\ addtime' = add
  BY <1>2 DEF SleepOn
<1>4. now < w + add
  BY <1>2 DEF StaysAsleep
<1>5. w1 \in Nat /\ r1 \in Nat /\ now + r1 = w1 + add /\ w1 <= w /\ w1 <= now + Ct
  BY <1>1, <1>4 DEF SetBack
<1> HIDE DEF w1, r1
<1>6. QED
  BY <1>3, <1>5

\* Where the while loop leaves the variables.
LEMMA LoopType ==
    ASSUME TypeOK, NEW w \in Nat, NEW st \in [Devices -> Nat], NEW add \in Nat,
           NEW noskip \in BOOLEAN, NEW now \in Nat, Loop(w, st, add, noskip, now)
    PROVE  /\ pc' \in {"check", "sleep"}
           /\ stWakeup' \in [Devices -> Nat] /\ skip' \in [Devices -> BOOLEAN]
           /\ wakeuptime' \in Nat /\ addtime' = add /\ noSkip' \in BOOLEAN
           /\ caught' \in SUBSET {"USR1", "HUP"}
           /\ remaining' \in Nat
<1>1. CASE StaysAsleep(w, add, now) /\ SleepOn(w, st, add, noskip, now, Ct)
  <2>1. pc' = "sleep" /\ UNCHANGED << skip, caught >>
    BY <1>1 DEF SleepOn
  <2>2. wakeuptime' \in Nat /\ remaining' \in Nat /\ addtime' = add
    BY <2>1, LoopSleeps
  <2>3. stWakeup' \in [Devices -> Nat] /\ noSkip' \in BOOLEAN
    BY <1>1 DEF SleepOn
  <2>4. QED
    BY <2>1, <2>2, <2>3 DEF TypeOK
<1>2. CASE Leave(w, st, add, noskip, now)
  <2>1. skip' \in [Devices -> BOOLEAN]
    BY <1>2 DEF Leave, Skips, TypeOK
  <2>2. noSkip' \in BOOLEAN /\ caught' \in SUBSET {"USR1", "HUP"}
    BY <1>2 DEF Leave, AllForced, TypeOK
  <2>3. QED
    BY <1>2, <2>1, <2>2 DEF Leave
<1>3. QED
  BY <1>1, <1>2 DEF Loop

\* The way into the loop, for both kinds of intervals: no sleep that ends by w and within
\* an interval goes beyond the time a device is due.
LEMMA DosleepLoop ==
    ASSUME TypeOK, Dosleep
    PROVE  \E w \in Nat, st \in [Devices -> Nat] :
               /\ Loop(w, st, 0, FALSE, clock)
               /\ due' \in [Devices -> Nat]
               /\ \A d \in Devices, n \in Nat : n <= w /\ n <= clock + Ct => n <= due'[d]
               /\ CheckTimeMin # 0 => due' = st
<1>1. CASE CheckTimeMin = 0
  <2> DEFINE w == CalcNextWakeuptime(wakeuptime, clock, checktime)
             m == Least({w, clock + checktime})
  <2>1. w \in Nat /\ clock + checktime \in Nat
    BY NextWakeupInRange, TimesAssumption DEF TypeOK
  <2>2. Loop(w, stWakeup, 0, FALSE, clock) /\ due' = [d \in Devices |-> m]
    BY <1>1 DEF Dosleep
  <2>3. stWakeup \in [Devices -> Nat] /\ Ct = checktime
    BY <1>1 DEF TypeOK, Ct
  <2>4. m \in {w, clock + checktime}
    BY <2>1, LeastLemma
  <2> HIDE DEF w, m
  <2>5. /\ due' \in [Devices -> Nat]
        /\ \A d \in Devices, n \in Nat : n <= w /\ n <= clock + Ct => n <= due'[d]
    BY <2>1, <2>2, <2>3, <2>4
  <2>6. QED
    BY <1>1, <2>1, <2>2, <2>3, <2>5
<1>2. CASE CheckTimeMin # 0
  <2> DEFINE st == NextStWakeup(clock)
             w == Least({st[d] : d \in Devices})
  <2>1. Loop(w, st, 0, FALSE, clock) /\ due' = st
    BY <1>2 DEF Dosleep
  <2>2. w \in Nat /\ st \in [Devices -> Nat] /\ \A d \in Devices : w <= st[d]
    BY NextStWakeupType
  <2> HIDE DEF w, st
  <2>3. \A d \in Devices, n \in Nat : n <= w => n <= st[d]
    BY <2>2
  <2>4. QED
    BY <2>1, <2>2, <2>3
<1>3. QED
  BY <1>1, <1>2

LEMMA AddTimeType ==
    ASSUME NEW w \in Nat, NEW now \in Nat, NEW ct \in Nat \ {0}, now > w
    PROVE  /\ AddTime(w, now, ct) \in Nat
           /\ w + AddTime(w, now, ct) <= now + 2 * SpinUp
BY TimesAssumption DEF AddTime

\* The way back into the loop after sleep(): the old addtime, or a new one
\* that is close enough.
LEMMA LeaveSleepLoop ==
    ASSUME TypeOK, LeaveSleep
    PROVE  \E add \in Nat :
               /\ Loop(wakeuptime, stWakeup, add, noSkip, clock)
               /\ \/ add = addtime
                  \/ /\ addtime = 0 /\ clock > wakeuptime + TooLong
                     /\ wakeuptime + add <= clock + 2 * SpinUp
<1> DEFINE late == addtime = 0 /\ clock > wakeuptime + TooLong
<1>1. wakeuptime \in Nat /\ clock \in Nat /\ addtime \in Nat /\ Ct \in Nat \ {0}
  BY IntervalType DEF TypeOK
<1>2. CASE late
  <2>1. clock > wakeuptime
    BY <1>1, <1>2, TimesAssumption
  <2>2. Loop(wakeuptime, stWakeup, AddTime(wakeuptime, clock, Ct), noSkip, clock)
    BY <1>2 DEF LeaveSleep
  <2>3. QED
    BY <1>1, <1>2, <2>1, <2>2, AddTimeType
<1>3. CASE ~late
  <2>1. Loop(wakeuptime, stWakeup, addtime, noSkip, clock)
    BY <1>3 DEF LeaveSleep
  <2>2. QED
    BY <1>1, <2>1
<1>4. QED
  BY <1>2, <1>3

-----------------------------------------------------------------------------
LEMMA InitTypeOK == Init => TypeOK
<1>1. Init => /\ skip \in [Devices -> BOOLEAN] /\ noSkip \in BOOLEAN
              /\ wentBack \in BOOLEAN /\ mixed \in BOOLEAN
  BY DEF Init
<1>2. QED
  BY <1>1, ConfigsAssumption DEF Init, TypeOK

LEMMA NextTypeOK == TypeOK /\ [Next]_vars => TypeOK'
<1> SUFFICES ASSUME TypeOK, [Next]_vars PROVE TypeOK'
  OBVIOUS
<1> USE DEF TypeOK, histVars
<1>1. CASE Reload
  <2>1. mixed' \in BOOLEAN
    BY <1>1 DEF Reload
  <2>2. QED
    BY <1>1, <2>1 DEF Reload
<1>2. CASE CheckDevicesOnce
  BY <1>2 DEF CheckDevicesOnce, progVars
<1>3. CASE Dosleep
  <2>1. PICK w \in Nat, st \in [Devices -> Nat] :
            /\ Loop(w, st, 0, FALSE, clock)
            /\ due' \in [Devices -> Nat]
    BY <1>3, DosleepLoop
  <2>2. UNCHANGED << cfg, clock, adjusts, signals, adjusted, wentBack, mixed >>
    BY <1>3 DEF Dosleep
  <2>3. FALSE \in BOOLEAN /\ clock \in Nat /\ 0 \in Nat
    OBVIOUS
  <2>4. /\ pc' \in {"check", "sleep"}
        /\ stWakeup' \in [Devices -> Nat] /\ skip' \in [Devices -> BOOLEAN]
        /\ wakeuptime' \in Nat /\ addtime' \in Nat /\ noSkip' \in BOOLEAN
        /\ caught' \in SUBSET {"USR1", "HUP"} /\ remaining' \in Nat
    BY <2>1, <2>3, LoopType
  <2>5. QED
    BY <2>1, <2>2, <2>4
<1>4. CASE LeaveSleep
  <2>1. PICK add \in Nat : Loop(wakeuptime, stWakeup, add, noSkip, clock)
    BY <1>4, LeaveSleepLoop
  <2>2. UNCHANGED << cfg, clock, adjusts, signals, histVars >>
    BY <1>4 DEF LeaveSleep
  <2>3. /\ pc' \in {"check", "sleep"}
        /\ stWakeup' \in [Devices -> Nat] /\ skip' \in [Devices -> BOOLEAN]
        /\ wakeuptime' \in Nat /\ addtime' \in Nat /\ noSkip' \in BOOLEAN
        /\ caught' \in SUBSET {"USR1", "HUP"} /\ remaining' \in Nat
    BY <2>1, LoopType
  <2>4. QED
    BY <2>2, <2>3
<1>5. CASE Tick
  BY <1>5 DEF Tick, progVars
<1>6. CASE JumpForward
  BY <1>6, BoundsAssumption DEF JumpForward, progVars
<1>7. CASE JumpBack
  <2>1. wentBack' \in BOOLEAN
    BY <1>7 DEF JumpBack
  <2>2. QED
    BY <1>7, <2>1 DEF JumpBack, progVars
<1>8. CASE Signal
  BY <1>8 DEF Signal, progVars
<1>9. CASE UNCHANGED vars
  BY <1>9 DEF vars, progVars
<1>10. QED
  BY <1>1, <1>2, <1>3, <1>4, <1>5, <1>6, <1>7, <1>8, <1>9 DEF Next

\* The variables of the schedule keep their types; sleep() is never called
\* with a negative number of seconds.
THEOREM TypeCorrect == Spec => []TypeOK
BY InitTypeOK, NextTypeOK, PTL DEF Spec

-----------------------------------------------------------------------------
(***************************************************************************)
(* What is known while smartd sleeps, as an inductive invariant.           *)
(***************************************************************************)
\* The sleep ends after at most one interval, unless it was extended ...
SleepShort == pc = "sleep" /\ addtime = 0 => remaining <= Ct

\* ... and then when the disks have spun up.
WakesAt == clock + remaining
Extended == wakeuptime + addtime
ExtensionShort ==
    pc = "sleep" /\ addtime # 0 /\ "back" \notin adjusted =>
        Extended <= WakesAt /\ remaining <= 2 * SpinUp

\* With an untouched clock it ends exactly at wakeuptime, and no device is
\* due before that.
SleepExact ==
    pc = "sleep" /\ adjusted = {} =>
        /\ addtime = 0
        /\ WakesAt = wakeuptime
        /\ \A d \in Devices : wakeuptime <= due[d]

\* A device may have to be checked earlier than at `due' (after the clock
\* was set back), never later.
NeverLater == pc = "sleep" /\ CheckTimeMin # 0 => \A d \in Devices : stWakeup[d] <= due[d]

\* Without intervals of their own no device is ever skipped.
NoneSkipped == CheckTimeMin = 0 => \A d \in Devices : ~skip[d]

SleepInv == TypeOK /\ SleepShort /\ ExtensionShort /\ SleepExact /\ NeverLater /\ NoneSkipped

\* Steps that leave the configuration alone leave its intervals alone.
LEMMA SameIntervals ==
    ASSUME UNCHANGED cfg
    PROVE  CheckTimeMin' = CheckTimeMin /\ Ct' = Ct
BY DEF CheckTimeMin, Ct, Own

\* What the loop leaves behind besides the types: which devices are skipped,
\* and wakeup times that have only become earlier.
LEMMA LoopSkips ==
    ASSUME SleepInv, NEW w \in Nat, NEW st \in [Devices -> Nat], NEW add \in Nat,
           NEW noskip \in BOOLEAN, NEW now \in Nat, Loop(w, st, add, noskip, now)
    PROVE  /\ CheckTimeMin = 0 => \A d \in Devices : ~skip'[d]
           /\ \A d \in Devices : stWakeup'[d] <= st[d]
           /\ Starts => /\ now >= w + add \/ caught # {}
                        /\ \A d \in Devices : st[d] <= now => ~skip'[d]
                        /\ "USR1" \in caught => \A d \in Devices : ~skip'[d]
<1>1. CASE StaysAsleep(w, add, now) /\ SleepOn(w, st, add, noskip, now, Ct)
  <2>1. pc' = "sleep" /\ skip' = skip /\ \A d \in Devices : stWakeup'[d] <= st[d]
    BY <1>1 DEF SleepOn
  <2>2. QED
    BY <2>1 DEF SleepInv, NoneSkipped, Starts
<1>2. CASE ~StaysAsleep(w, add, now) /\ Leave(w, st, add, noskip, now)
  <2>1. stWakeup' = st
    BY <1>2 DEF Leave
  <2>2. now >= w + add \/ caught # {}
    BY <1>2 DEF StaysAsleep
  <2>3. CASE CheckTimeMin = 0
    <3>1. skip' = skip
      BY <1>2, <2>3 DEF Leave
    <3>2. QED
      BY <2>1, <2>2, <2>3, <3>1 DEF SleepInv, NoneSkipped
  <2>4. CASE CheckTimeMin # 0
    <3>1. skip' = [d \in Devices |-> ~(noskip \/ AllForced) /\ now < st[d]]
      BY <1>2, <2>4 DEF Leave, Skips
    <3>2. ASSUME NEW d \in Devices, st[d] <= now PROVE ~skip'[d]
      <4>1. ~(now < st[d])
        BY <3>2
      <4>2. QED
        BY <3>1, <4>1, Zenon
    <3>3. "USR1" \in caught => \A d \in Devices : ~skip'[d]
      BY <3>1 DEF AllForced
    <3>4. QED
      BY <2>1, <2>2, <2>4, <3>2, <3>3
  <2>5. QED
    BY <2>3, <2>4
<1>3. QED
  BY <1>1, <1>2 DEF Loop

LEMMA InitSleepInv == Init => SleepInv
<1>1. Init => pc # "sleep" /\ \A d \in Devices : ~skip[d]
  BY DEF Init
<1>2. QED
  BY <1>1, InitTypeOK
     DEF SleepInv, SleepShort, ExtensionShort, SleepExact, NeverLater, NoneSkipped

LEMMA NextSleepInv == SleepInv /\ [Next]_vars => SleepInv'
<1> SUFFICES ASSUME SleepInv, [Next]_vars PROVE SleepInv'
  OBVIOUS
<1> USE DEF histVars
<1>0. TypeOK /\ TypeOK'
  BY NextTypeOK DEF SleepInv
<1>1. Ct \in Nat \ {0} /\ SpinUp \in Nat /\ TooLong \in Nat
  BY <1>0, IntervalType, TimesAssumption
<1>2. CASE Reload
  <2>1. pc' = "check" /\ \A d \in Devices : ~skip'[d]
    BY <1>2 DEF Reload
  <2>2. QED
    BY <1>0, <2>1
       DEF SleepInv, SleepShort, ExtensionShort, SleepExact, NeverLater, NoneSkipped
<1>3. CASE CheckDevicesOnce
  <2>1. pc' = "busy" /\ UNCHANGED << cfg, skip >>
    BY <1>3 DEF CheckDevicesOnce, progVars
  <2>2. QED
    BY <1>0, <2>1, SameIntervals
       DEF SleepInv, SleepShort, ExtensionShort, SleepExact, NeverLater, NoneSkipped
<1>4. CASE Dosleep
  <2>1. clock' = clock /\ CheckTimeMin' = CheckTimeMin /\ Ct' = Ct
    BY <1>4, SameIntervals DEF Dosleep
  <2>2. PICK w \in Nat, st \in [Devices -> Nat] :
            /\ Loop(w, st, 0, FALSE, clock)
            /\ due' \in [Devices -> Nat]
            /\ \A d \in Devices, n \in Nat : n <= w /\ n <= clock + Ct => n <= due'[d]
            /\ CheckTimeMin # 0 => due' = st
    BY <1>0, <1>4, DosleepLoop
  <2>3. FALSE \in BOOLEAN /\ clock \in Nat /\ 0 \in Nat
    BY <1>0 DEF TypeOK
  <2>4. /\ CheckTimeMin = 0 => \A d \in Devices : ~skip'[d]
        /\ \A d \in Devices : stWakeup'[d] <= st[d]
    BY <2>2, <2>3, LoopSkips
  <2>5. NeverLater' /\ NoneSkipped'
    BY <2>1, <2>2, <2>4 DEF NeverLater, NoneSkipped
  <2>6. CASE pc' # "sleep"
    BY <1>0, <2>5, <2>6 DEF SleepInv, SleepShort, ExtensionShort, SleepExact
  <2>7. CASE pc' = "sleep"
    <3>1. PICK w1, r1 \in Nat : /\ addtime' = 0 /\ wakeuptime' = w1 /\ remaining' = r1
                                /\ clock + r1 = w1
                                /\ w1 <= w /\ w1 <= clock + Ct
      <4>1. PICK add \in Nat, noskip \in BOOLEAN : add = 0 /\ noskip = FALSE
        OBVIOUS
      <4>2. Loop(w, st, add, noskip, clock)
        BY <2>2, <4>1, Zenon
      <4>3. PICK w1, r1 \in Nat : /\ addtime' = add /\ wakeuptime' = w1 /\ remaining' = r1
                                  /\ clock + r1 = w1 + add
                                  /\ w1 <= w /\ w1 <= clock + Ct
        BY <1>0, <2>2, <2>3, <2>7, <4>2, LoopSleeps
      <4>4. clock + r1 = w1
        BY <4>1, <4>3
      <4>5. QED
        BY <4>1, <4>3, <4>4
    <3>2. r1 <= Ct
      BY <1>1, <2>3, <3>1
    <3>3. SleepShort' /\ ExtensionShort'
      BY <2>1, <3>1, <3>2 DEF SleepShort, ExtensionShort
    <3>4. WakesAt' = wakeuptime'
      <4>1. clock + r1 = w1
        BY <3>1
      <4>2. WakesAt' = clock + r1
        BY <2>1, <3>1, Zenon DEF WakesAt
      <4>3. QED
        BY <3>1, <4>1, <4>2, Zenon
    <3>5. ASSUME NEW d \in Devices PROVE wakeuptime' <= due'[d]
      <4>1. w1 <= due'[d]
        BY <2>2, <3>1
      <4>2. QED
        BY <3>1, <4>1
    <3>6. SleepExact'
      BY <3>1, <3>4, <3>5 DEF SleepExact
    <3>7. QED
      BY <1>0, <2>5, <3>3, <3>6 DEF SleepInv
  <2>8. QED
    BY <2>6, <2>7
<1>5. CASE LeaveSleep
  <2>1. /\ pc = "sleep" /\ clock' = clock /\ due' = due /\ adjusted' = adjusted
        /\ CheckTimeMin' = CheckTimeMin /\ Ct' = Ct
    BY <1>5, SameIntervals DEF LeaveSleep
  <2>2. PICK add \in Nat :
            /\ Loop(wakeuptime, stWakeup, add, noSkip, clock)
            /\ \/ add = addtime
               \/ /\ addtime = 0 /\ clock > wakeuptime + TooLong
                  /\ wakeuptime + add <= clock + 2 * SpinUp
    BY <1>0, <1>5, LeaveSleepLoop
  <2>3. /\ wakeuptime \in Nat /\ stWakeup \in [Devices -> Nat] /\ noSkip \in BOOLEAN
        /\ clock \in Nat
    BY <1>0 DEF TypeOK
  <2>4. /\ CheckTimeMin = 0 => \A d \in Devices : ~skip'[d]
        /\ \A d \in Devices : stWakeup'[d] <= stWakeup[d]
    BY <2>2, <2>3, LoopSkips
  <2>5. NoneSkipped'
    BY <2>1, <2>4 DEF NoneSkipped
  <2>6. NeverLater'
    <3> SUFFICES ASSUME CheckTimeMin # 0, NEW d \in Devices
                 PROVE  stWakeup'[d] <= due[d]
      BY <2>1 DEF NeverLater
    <3>1. stWakeup'[d] <= stWakeup[d] /\ stWakeup[d] <= due[d]
      BY <2>1, <2>4 DEF SleepInv, NeverLater
    <3>2. stWakeup'[d] \in Nat /\ stWakeup[d] \in Nat /\ due[d] \in Nat
      BY <1>0 DEF TypeOK
    <3>3. QED
      BY <3>1, <3>2
  <2>7. CASE pc' # "sleep"
    BY <1>0, <2>5, <2>6, <2>7 DEF SleepInv, SleepShort, ExtensionShort, SleepExact
  <2>8. CASE pc' = "sleep"
    <3>1. PICK w1, r1 \in Nat : /\ addtime' = add /\ wakeuptime' = w1 /\ remaining' = r1
                                /\ clock + r1 = w1 + add
                                /\ w1 <= wakeuptime /\ w1 <= clock + Ct
      BY <1>0, <2>2, <2>3, <2>8, LoopSleeps
    <3>2. clock \in Nat /\ remaining \in Nat /\ wakeuptime \in Nat /\ addtime \in Nat
      BY <1>0 DEF TypeOK
    <3>3. WakesAt' = clock + r1 /\ Extended' = w1 + add
      BY <2>1, <3>1, Zenon DEF WakesAt, Extended
    <3>4. add = 0 => r1 <= Ct
      BY <1>1, <3>1, <3>2
    <3>5. ASSUME add # 0, "back" \notin adjusted
          PROVE  w1 + add <= clock + r1 /\ r1 <= 2 * SpinUp
      <4>1. CASE add = addtime
        <5>1. wakeuptime + addtime <= clock + remaining /\ remaining <= 2 * SpinUp
          BY <2>1, <3>5, <4>1 DEF SleepInv, ExtensionShort, WakesAt, Extended
        <5>2. QED
          BY <1>1, <3>1, <3>2, <4>1, <5>1
      <4>2. CASE wakeuptime + add <= clock + 2 * SpinUp
        BY <1>1, <3>1, <3>2, <4>2
      <4>3. QED
        BY <2>2, <4>1, <4>2
    <3>6. ASSUME adjusted = {}
          PROVE  add = 0 /\ clock + r1 = w1 /\ \A d \in Devices : w1 <= due[d]
      <4>1. /\ addtime = 0 /\ clock + remaining = wakeuptime
            /\ \A d \in Devices : wakeuptime <= due[d]
        BY <2>1, <3>6 DEF SleepInv, SleepExact, WakesAt
      <4>2. ~(clock > wakeuptime + TooLong)
        BY <1>1, <3>2, <4>1
      <4>3. add = 0
        BY <2>2, <4>1, <4>2
      <4>4. ASSUME NEW d \in Devices PROVE w1 <= due[d]
        <5>1. due[d] \in Nat /\ wakeuptime <= due[d]
          BY <1>0, <4>1 DEF TypeOK
        <5>2. QED
          BY <3>1, <3>2, <5>1
      <4>5. QED
        BY <3>1, <3>2, <4>3, <4>4
    <3>7. SleepShort'
      BY <2>1, <3>1, <3>4 DEF SleepShort
    <3>8. ExtensionShort'
      <4>1. ASSUME addtime' # 0, "back" \notin adjusted'
            PROVE  Extended' <= WakesAt' /\ remaining' <= 2 * SpinUp
        <5>1. w1 + add <= clock + r1 /\ r1 <= 2 * SpinUp
          BY <2>1, <3>1, <3>5, <4>1
        <5>2. QED
          BY <3>1, <3>3, <5>1, Zenon
      <4>2. QED
        BY <4>1 DEF ExtensionShort
    <3>9. SleepExact'
      <4>1. ASSUME adjusted' = {}
            PROVE  /\ addtime' = 0 /\ WakesAt' = wakeuptime'
                   /\ \A d \in Devices : wakeuptime' <= due'[d]
        <5>1. add = 0 /\ clock + r1 = w1 /\ \A d \in Devices : w1 <= due[d]
          BY <2>1, <3>6, <4>1
        <5>2. QED
          BY <2>1, <3>1, <3>3, <5>1, Zenon
      <4>2. QED
        BY <4>1 DEF SleepExact
    <3>10. QED
      BY <1>0, <2>5, <2>6, <3>7, <3>8, <3>9 DEF SleepInv
  <2>9. QED
    BY <2>7, <2>8
<1>6. CASE Tick
  <2>1. /\ clock' = clock + 1
        /\ remaining' = IF pc = "sleep" THEN remaining - 1 ELSE remaining
        /\ pc = "sleep" => remaining > 0
        /\ UNCHANGED << pc, cfg, stWakeup, skip, wakeuptime, addtime, due, adjusted >>
    BY <1>6 DEF Tick, progVars
  <2>2. clock \in Nat /\ remaining \in Nat
    BY <1>0 DEF TypeOK
  <2>3. Ct' = Ct /\ CheckTimeMin' = CheckTimeMin /\ Extended' = Extended
    BY <2>1, SameIntervals, Zenon DEF Extended
  <2>4. CASE pc # "sleep"
    BY <1>0, <2>1, <2>3, <2>4
       DEF SleepInv, SleepShort, ExtensionShort, SleepExact, NeverLater, NoneSkipped
  <2>5. CASE pc = "sleep"
    <3>1. PICK r1 \in Nat : r1 = remaining - 1
      BY <2>1, <2>2, <2>5
    <3>2. WakesAt' = (clock + 1) + r1
      BY <2>1, <2>5, <3>1, Zenon DEF WakesAt
    <3>3. (clock + 1) + r1 = clock + remaining
      BY <2>2, <3>1
    <3>4. WakesAt' = WakesAt
      BY <3>2, <3>3, Zenon DEF WakesAt
    <3>5. remaining' = r1
      BY <2>1, <2>5, <3>1, Zenon
    <3>6. \A n \in Int : remaining <= n => r1 <= n
      BY <2>2, <3>1
    <3>7. remaining <= Ct => r1 <= Ct
      BY <1>1, <3>6
    <3>8. remaining <= 2 * SpinUp => r1 <= 2 * SpinUp
      BY <1>1, <3>6
    <3>9. SleepShort' /\ ExtensionShort'
      BY <2>1, <2>3, <2>5, <3>4, <3>5, <3>7, <3>8, Zenon
         DEF SleepInv, SleepShort, ExtensionShort
    <3>10. SleepExact' /\ NeverLater' /\ NoneSkipped'
      BY <2>1, <2>3, <3>4 DEF SleepInv, SleepExact, NeverLater, NoneSkipped
    <3>11. QED
      BY <1>0, <3>9, <3>10 DEF SleepInv
  <2>6. QED
    BY <2>4, <2>5
<1>7. CASE JumpForward
  <2>1. /\ clock' \in (clock + 1) .. MaxTime
        /\ adjusted' = adjusted \cup {"forward"}
        /\ UNCHANGED << pc, cfg, stWakeup, skip, wakeuptime, addtime, due, remaining >>
    BY <1>7 DEF JumpForward, progVars
  <2>2. /\ clock \in Nat /\ remaining \in Nat /\ wakeuptime \in Nat /\ addtime \in Nat
        /\ MaxTime \in Nat
    BY <1>0, BoundsAssumption DEF TypeOK
  <2>3. Ct' = Ct /\ CheckTimeMin' = CheckTimeMin
    BY <2>1, SameIntervals
  <2>4. Extended \in Nat /\ WakesAt \in Nat /\ Extended' = Extended
    BY <2>1, <2>2 DEF Extended, WakesAt
  <2>5. SleepShort' /\ ExtensionShort'
    <3>1. PICK c1 \in Nat : clock' = c1 /\ clock < c1
      BY <2>1, <2>2
    <3>2. WakesAt' = c1 + remaining
      BY <2>1, <3>1, Zenon DEF WakesAt
    <3>3. Extended <= WakesAt => Extended <= c1 + remaining
      BY <2>2, <2>4, <3>1 DEF WakesAt
    <3>4. QED
      BY <2>1, <2>3, <2>4, <3>2, <3>3, Zenon
         DEF SleepInv, SleepShort, ExtensionShort
  <2>6. SleepExact' /\ NeverLater' /\ NoneSkipped'
    BY <2>1, <2>3 DEF SleepInv, SleepExact, NeverLater, NoneSkipped
  <2>7. QED
    BY <1>0, <2>5, <2>6 DEF SleepInv
<1>8. CASE JumpBack
  <2>1. /\ adjusted' = adjusted \cup {"back"}
        /\ UNCHANGED << pc, cfg, stWakeup, skip, wakeuptime, addtime, due, remaining >>
    BY <1>8 DEF JumpBack, progVars
  <2>2. QED
    BY <1>0, <2>1, SameIntervals
       DEF SleepInv, SleepShort, ExtensionShort, SleepExact, NeverLater, NoneSkipped
<1>9. CASE Signal
  <2>1. UNCHANGED << pc, cfg, stWakeup, skip, wakeuptime, addtime, due, remaining, clock,
                     adjusted >>
    BY <1>9 DEF Signal, progVars
  <2>2. WakesAt' = WakesAt /\ Extended' = Extended
    BY <2>1, Zenon DEF WakesAt, Extended
  <2>3. QED
    BY <1>0, <2>1, <2>2, SameIntervals
       DEF SleepInv, SleepShort, ExtensionShort, SleepExact, NeverLater, NoneSkipped
<1>10. CASE UNCHANGED vars
  <2>1. UNCHANGED << pc, cfg, stWakeup, skip, wakeuptime, addtime, due, remaining, clock,
                     adjusted >>
    BY <1>10 DEF vars, progVars
  <2>2. WakesAt' = WakesAt /\ Extended' = Extended
    BY <2>1, Zenon DEF WakesAt, Extended
  <2>3. QED
    BY <1>0, <2>1, <2>2, SameIntervals
       DEF SleepInv, SleepShort, ExtensionShort, SleepExact, NeverLater, NoneSkipped
<1>11. QED
  BY <1>2, <1>3, <1>4, <1>5, <1>6, <1>7, <1>8, <1>9, <1>10 DEF Next

LEMMA SleepInvariant == Spec => []SleepInv
BY InitSleepInv, NextSleepInv, PTL DEF Spec

\* As long as nobody touches the clock, smartd sleeps until the first device
\* is due and not a second longer: the argument is SleepExact.
THEOREM SleepIsExact == Spec => []SleepsUntilFirstDue
<1>1. SleepInv => SleepsUntilFirstDue
  <2> SUFFICES ASSUME SleepInv, pc = "sleep", adjusted = {}, NEW d \in Devices
               PROVE  clock + remaining <= due[d]
    BY DEF SleepsUntilFirstDue
  <2>1. QED
    BY DEF SleepInv, SleepExact, WakesAt
<1>2. QED
  BY <1>1, SleepInvariant, PTL

\* smartd never sleeps further ahead than one interval.
THEOREM SleepIsShort == Spec => []SleepsAtMostOneInterval
<1>1. SleepInv => SleepsAtMostOneInterval
  BY DEF SleepInv, SleepShort, SleepsAtMostOneInterval
<1>2. QED
  BY <1>1, SleepInvariant, PTL

\* After a suspension the check is delayed by at most twice the spin-up time.
THEOREM SpinUpIsShort == Spec => []SpinUpDelayBounded
<1>1. SleepInv => SpinUpDelayBounded
  BY DEF SleepInv, ExtensionShort, SpinUpDelayBounded
<1>2. QED
  BY <1>1, SleepInvariant, PTL

-----------------------------------------------------------------------------
\* How a check cycle starts: dosleep() is left, with a device in the cycle
\* if its time has come or if USR1 was caught.
LEMMA CycleStarts ==
    ASSUME SleepInv, [Next]_vars, Starts
    PROVE  /\ \A d \in Devices : due'[d] <= clock => ~skip'[d]
           /\ "USR1" \in caught => \A d \in Devices : ~skip'[d]
<1>0. TypeOK /\ TypeOK'
  BY NextTypeOK DEF SleepInv
<1>1. Dosleep \/ LeaveSleep
  BY DEF Next, Reload, CheckDevicesOnce, Tick, JumpForward, JumpBack, Signal, vars, Starts
<1>2. CASE Dosleep
  <2>1. PICK w \in Nat, st \in [Devices -> Nat] :
            /\ Loop(w, st, 0, FALSE, clock)
            /\ CheckTimeMin # 0 => due' = st
    BY <1>0, <1>2, DosleepLoop
  <2>2. PICK add \in Nat, noskip \in BOOLEAN : add = 0 /\ noskip = FALSE
    OBVIOUS
  <2>3. Loop(w, st, add, noskip, clock) /\ clock \in Nat
    BY <1>0, <2>1, <2>2, Zenon DEF TypeOK
  <2>4. /\ CheckTimeMin = 0 => \A d \in Devices : ~skip'[d]
        /\ \A d \in Devices : st[d] <= clock => ~skip'[d]
        /\ "USR1" \in caught => \A d \in Devices : ~skip'[d]
    BY <2>3, LoopSkips
  <2>5. QED
    BY <2>1, <2>4, Zenon
<1>3. CASE LeaveSleep
  <2>1. PICK add \in Nat : Loop(wakeuptime, stWakeup, add, noSkip, clock)
    BY <1>0, <1>3, LeaveSleepLoop
  <2>2. /\ wakeuptime \in Nat /\ stWakeup \in [Devices -> Nat] /\ noSkip \in BOOLEAN
        /\ clock \in Nat
    BY <1>0 DEF TypeOK
  <2>3. /\ CheckTimeMin = 0 => \A d \in Devices : ~skip'[d]
        /\ \A d \in Devices : stWakeup[d] <= clock => ~skip'[d]
        /\ "USR1" \in caught => \A d \in Devices : ~skip'[d]
    BY <2>1, <2>2, LoopSkips
  <2>4. pc = "sleep" /\ due' = due
    BY <1>3 DEF LeaveSleep, histVars
  <2>5. ASSUME NEW d \in Devices, CheckTimeMin # 0, due[d] <= clock
        PROVE  stWakeup[d] <= clock
    <3>1. stWakeup[d] <= due[d]
      BY <2>4, <2>5 DEF SleepInv, NeverLater
    <3>2. stWakeup[d] \in Nat /\ due[d] \in Nat /\ clock \in Nat
      BY <1>0 DEF TypeOK
    <3>3. QED
      BY <2>5, <3>1, <3>2
  <2>6. QED
    BY <2>3, <2>4, <2>5, Zenon
<1>4. QED
  BY <1>1, <1>2, <1>3

\* A device whose time has come is never left out of the cycle that starts,
\* whatever the clock did on the way there.
THEOREM DueDevicesAreChecked == Spec => DueIsChecked
<1>1. SleepInv /\ [Next]_vars
      => [Starts => \A d \in Devices : due'[d] <= clock => ~skip'[d]]_vars
  BY CycleStarts
<1>2. QED
  BY <1>1, SleepInvariant, PTL DEF Spec, DueIsChecked

\* A USR1 makes smartd check every device.
THEOREM Usr1ChecksAllDevices == Spec => Usr1ChecksAll
<1>1. SleepInv /\ [Next]_vars
      => [Starts /\ "USR1" \in caught /\ "HUP" \notin caught =>
              \A d \in Devices : ~skip'[d]]_vars
  BY CycleStarts
<1>2. QED
  BY <1>1, SleepInvariant, PTL DEF Spec, Usr1ChecksAll

\* dosleep() calls sleep() with the right time: until the first device is due if nobody
\* touches the clock, and for no more than an interval or the spin-up time if somebody does.
THEOREM SleepIsBounded == Spec => []SleepBounded
<1>1. SleepsUntilFirstDue /\ SleepsAtMostOneInterval /\ SpinUpDelayBounded => SleepBounded
  BY DEF SleepBounded
<1>2. QED
  BY <1>1, SleepIsExact, SleepIsShort, SpinUpIsShort, PTL

\* No check is left out, for every set of intervals, clock adjustment and signal.
THEOREM ChecksAreMade == Spec => CheckedWhenDue
BY DueDevicesAreChecked, Usr1ChecksAllDevices DEF CheckedWhenDue

-----------------------------------------------------------------------------
(***************************************************************************)
(* The regular schedule: what the loop does when the clock was not set     *)
(* back, that is, when the wakeup time is at most one interval away.       *)
(***************************************************************************)
LEMMA LoopKeeps ==
    ASSUME TypeOK, NEW w \in Nat, NEW st \in [Devices -> Nat], NEW add \in Nat,
           NEW noskip \in BOOLEAN, NEW now \in Nat, Loop(w, st, add, noskip, now),
           w <= now + Ct
    PROVE  /\ wakeuptime' = w /\ stWakeup' = st
           /\ caught' \subseteq caught
           /\ pc' = "sleep" => noSkip' = noskip
<1>1. CASE StaysAsleep(w, add, now) /\ SleepOn(w, st, add, noskip, now, Ct)
  <2>1. ~SetBack(w, now, Ct)
    BY IntervalType DEF SetBack
  <2>2. wakeuptime' = w /\ stWakeup' = st /\ caught' = caught
    BY <1>1, <2>1 DEF SleepOn
  <2>3. noSkip' = noskip
    BY <1>1, <2>1, Zenon DEF SleepOn
  <2>4. QED
    BY <2>2, <2>3
<1>2. CASE Leave(w, st, add, noskip, now)
  BY <1>2 DEF Leave
<1>3. QED
  BY <1>1, <1>2 DEF Loop

\* Before a device gets an interval of its own the common wakeup time is a
\* whole number of intervals after the first one, and at most one interval
\* ahead of a clock that is not set back.
InPhase ==
    ~mixed =>
        /\ CheckTimeMin = 0
        /\ ~wentBack => /\ \E k \in Nat : wakeuptime = 1 + k * checktime
                        /\ wakeuptime <= clock + checktime

PhaseInv == TypeOK /\ InPhase

\* The steps between two looks at the clock that do not set it back.
LEMMA ClockAdvances ==
    ASSUME TypeOK, CheckDevicesOnce \/ Tick \/ JumpForward \/ Signal \/ UNCHANGED vars
    PROVE  \E now \in Nat : clock' = now /\ clock <= now
<1>0. clock \in Nat
  BY DEF TypeOK
<1>1. CASE CheckDevicesOnce \/ Signal \/ UNCHANGED vars
  BY <1>0, <1>1 DEF CheckDevicesOnce, Signal, vars
<1>2. CASE Tick
  BY <1>0, <1>2 DEF Tick
<1>3. CASE JumpForward
  BY <1>0, <1>3, BoundsAssumption DEF JumpForward
<1>4. QED
  BY <1>1, <1>2, <1>3

\* Facts about multiples of an interval.
LEMMA DivisionRemainder ==
    ASSUME NEW a \in Nat, NEW c \in Nat \ {0}
    PROVE  a = c * (a \div c) + (a % c) /\ a \div c \in Nat /\ a % c \in Nat
<1>1. a = c * (a \div c) + (a % c)
  OBVIOUS
<1>2. a \div c \in Nat /\ a % c \in Nat
  OBVIOUS
<1>3. QED
  BY <1>1, <1>2

LEMMA SumOfMultiples ==
    ASSUME NEW k \in Nat, NEW j \in Nat, NEW c \in Nat \ {0}
    PROVE  k * c + j * c + c = (k + j + 1) * c
OBVIOUS

LEMMA NextMultiple ==
    ASSUME NEW c \in Nat \ {0}, NEW k \in Nat, NEW a \in Nat
    PROVE  \E j \in Nat : k * c + (a + c - (a % c)) = j * c
<1>1. PICK q \in Nat, r \in Nat : a = c * q + r /\ a % c = r
  BY DivisionRemainder
<1>2. k * c + q * c + c = (k + q + 1) * c /\ k + q + 1 \in Nat
  BY SumOfMultiples
<1>3. k * c + (a + c - r) = k * c + q * c + c
  BY <1>1
<1>4. QED
  BY <1>1, <1>2, <1>3, Zenon

LEMMA MultipleRemainder ==
    ASSUME NEW c \in Nat \ {0}, NEW k \in Nat
    PROVE  (k * c) % c = 0
OBVIOUS

\* The next wakeup time is in phase with the last one.
LEMMA NextWakeupInPhase ==
    ASSUME NEW w \in Nat, NEW now \in Nat, NEW c \in Nat \ {0},
           NEW k \in Nat, w = 1 + k * c
    PROVE  \E j \in Nat : CalcNextWakeuptime(w, now, c) = 1 + j * c
<1>1. CASE now < w
  BY <1>1 DEF CalcNextWakeuptime
<1>2. CASE ~(now < w)
  <2>1. PICK a \in Nat : now = w + a
    <3>1. now - w \in Nat /\ now = w + (now - w)
      BY <1>2
    <3>2. QED
      BY <3>1
  <2>2. PICK j \in Nat : k * c + (a + c - (a % c)) = j * c
    BY NextMultiple
  <2>3. now - w = a
    BY <2>1
  <2>4. CalcNextWakeuptime(w, now, c) = now + c - (a % c)
    BY <1>2, <2>3 DEF CalcNextWakeuptime
  <2>5. PICK m \in Nat, p \in Nat, r \in Nat : m = k * c /\ p = j * c /\ r = a % c
    OBVIOUS
  <2>6. now + c - r = 1 + p
    BY <2>1, <2>2, <2>5
  <2>7. QED
    BY <2>4, <2>5, <2>6
<1>3. QED
  BY <1>1, <1>2

LEMMA InitPhaseInv == Init => PhaseInv
<1> SUFFICES ASSUME Init PROVE PhaseInv
  OBVIOUS
<1>1. wakeuptime = 1 + 0 * checktime /\ wakeuptime <= clock + checktime
  BY TimesAssumption DEF Init
<1>2. ~mixed => CheckTimeMin = 0
  BY DEF Init
<1>3. QED
  BY <1>1, <1>2, InitTypeOK DEF PhaseInv, InPhase

LEMMA NextPhaseInv == PhaseInv /\ [Next]_vars => PhaseInv'
<1> SUFFICES ASSUME PhaseInv, [Next]_vars PROVE PhaseInv'
  OBVIOUS
<1> USE DEF histVars
<1>0. TypeOK /\ TypeOK'
  BY NextTypeOK DEF PhaseInv
<1>1. SUFFICES ASSUME ~mixed'
               PROVE  /\ CheckTimeMin' = 0
                      /\ ~wentBack' => /\ \E k \in Nat : wakeuptime' = 1 + k * checktime
                                       /\ wakeuptime' <= clock' + checktime
  BY <1>0 DEF PhaseInv, InPhase
<1>2. CASE Reload
  <2>1. /\ ~mixed /\ CheckTimeMin' = 0
        /\ UNCHANGED << wakeuptime, clock, wentBack >>
    BY <1>1, <1>2 DEF Reload
  <2>2. QED
    BY <2>1 DEF PhaseInv, InPhase
<1>3. ASSUME ~Reload PROVE ~mixed /\ UNCHANGED cfg
  <2>1. UNCHANGED << mixed, cfg >>
    BY <1>3 DEF Next, CheckDevicesOnce, Dosleep, LeaveSleep, Tick, JumpForward, JumpBack,
                Signal, vars, progVars
  <2>2. QED
    BY <1>1, <2>1, Zenon
<1>4. SUFFICES ASSUME ~Reload, ~wentBack'
               PROVE  /\ \E k \in Nat : wakeuptime' = 1 + k * checktime
                      /\ wakeuptime' <= clock' + checktime
  <2>1. ASSUME ~Reload PROVE CheckTimeMin' = 0
    BY <1>3, <2>1, SameIntervals DEF PhaseInv, InPhase
  <2>2. QED
    BY <1>2, <2>1
<1>5. /\ wakeuptime \in Nat /\ clock \in Nat /\ stWakeup \in [Devices -> Nat]
      /\ noSkip \in BOOLEAN /\ checktime \in Nat \ {0} /\ Ct \in Nat \ {0}
  BY <1>0, IntervalType, TimesAssumption DEF TypeOK
<1>6. CheckTimeMin = 0 /\ Ct = checktime
  BY <1>3, <1>4 DEF PhaseInv, InPhase, Ct
<1>7. ASSUME ~wentBack
      PROVE  /\ \E k \in Nat : wakeuptime = 1 + k * checktime
             /\ wakeuptime <= clock + checktime
  BY <1>3, <1>4, <1>7 DEF PhaseInv, InPhase
<1>8. CASE Dosleep
  <2>1. UNCHANGED << clock, wentBack >>
    BY <1>8 DEF Dosleep
  <2>2. PICK k \in Nat : wakeuptime = 1 + k * checktime
    BY <1>4, <1>7, <2>1
  <2>3. wakeuptime <= clock + checktime
    BY <1>4, <1>7, <2>1
  <2>4. PICK w \in Nat : w = CalcNextWakeuptime(wakeuptime, clock, checktime)
    BY <1>5, NextWakeupInRange
  <2>5. w <= clock + checktime
    BY <1>5, <2>3, <2>4 DEF CalcNextWakeuptime
  <2>6. \E j \in Nat : w = 1 + j * checktime
    <3>1. \E j \in Nat :
             CalcNextWakeuptime(wakeuptime, clock, checktime) = 1 + j * checktime
      BY <1>5, <2>2, NextWakeupInPhase
    <3>2. QED
      BY <2>4, <3>1, Zenon
  <2>7. PICK add \in Nat, noskip \in BOOLEAN : add = 0 /\ noskip = FALSE
    OBVIOUS
  <2>8. Loop(w, stWakeup, add, noskip, clock)
    BY <1>6, <1>8, <2>4, <2>7, Zenon DEF Dosleep
  <2>9. wakeuptime' = w
    BY <1>0, <1>5, <1>6, <2>5, <2>8, LoopKeeps
  <2>10. QED
    BY <2>1, <2>5, <2>6, <2>9
<1>9. CASE LeaveSleep
  <2>1. UNCHANGED << clock, wentBack >>
    BY <1>9 DEF LeaveSleep
  <2>2. /\ \E k \in Nat : wakeuptime = 1 + k * checktime
        /\ wakeuptime <= clock + checktime
    BY <1>4, <1>7, <2>1
  <2>3. PICK add \in Nat : Loop(wakeuptime, stWakeup, add, noSkip, clock)
    BY <1>0, <1>9, LeaveSleepLoop
  <2>4. wakeuptime' = wakeuptime
    BY <1>0, <1>5, <1>6, <2>2, <2>3, LoopKeeps
  <2>5. QED
    BY <2>1, <2>2, <2>4
<1>10. CASE CheckDevicesOnce \/ Tick \/ JumpForward \/ Signal \/ UNCHANGED vars
  <2>1. UNCHANGED << wakeuptime, wentBack >>
    BY <1>10 DEF CheckDevicesOnce, Tick, JumpForward, Signal, vars, progVars
  <2>2. PICK now \in Nat : clock' = now /\ clock <= now
    BY <1>0, <1>10, ClockAdvances
  <2>3. /\ \E k \in Nat : wakeuptime = 1 + k * checktime
        /\ wakeuptime <= clock + checktime
    BY <1>4, <1>7, <2>1
  <2>4. wakeuptime <= now + checktime
    BY <1>5, <2>2, <2>3
  <2>5. QED
    BY <2>1, <2>2, <2>3, <2>4
<1>11. ~JumpBack
  BY <1>4 DEF JumpBack
<1>12. QED
  BY <1>4, <1>8, <1>9, <1>10, <1>11 DEF Next

\* With one interval for all devices and no clock that is set back, the wakeup times stay
\* in phase with the start of smartd: over long checks, signals, reloads and suspensions.
THEOREM WakeupsStayInPhase == Spec => []PhaseKept
<1>1. PhaseInv => PhaseKept
  <2> SUFFICES ASSUME PhaseInv, ~mixed, ~wentBack
               PROVE  (wakeuptime - 1) % checktime = 0
    BY DEF PhaseKept
  <2>1. PICK k \in Nat : wakeuptime = 1 + k * checktime
    BY DEF PhaseInv, InPhase
  <2>2. wakeuptime - 1 = k * checktime
    BY <2>1, TimesAssumption
  <2>3. QED
    BY <2>2, TimesAssumption, MultipleRemainder
<1>2. QED
  BY <1>1, InitPhaseInv, NextPhaseInv, PTL DEF Spec

-----------------------------------------------------------------------------
(***************************************************************************)
(* Checks ahead of time.                                                   *)
(***************************************************************************)
\* As long as the clock was not set back, no wakeup time is further ahead
\* than its interval.
NotAhead == ~wentBack => \A d \in Devices : stWakeup[d] <= clock + Interval(d)

\* What smartd then sleeps for: the time it began with, or an interval of
\* -i if that is nearer.
SleepsAsBegun ==
    ~wentBack /\ pc = "sleep" =>
        /\ wakeuptime <= clock + Ct
        /\ CheckTimeMin = 0 \/ noSkip => \A d \in Devices : due[d] <= wakeuptime + EarlyBy(d)
        /\ CheckTimeMin # 0 /\ ~noSkip => due = stWakeup

EarlyInv == SleepInv /\ NotAhead /\ SleepsAsBegun

LEMMA EarlyByType ==
    ASSUME TypeOK
    PROVE  /\ \A d \in Devices : EarlyBy(d) \in Nat
           /\ Capped => Ct = checktime
           /\ Capped => \A d \in Devices : Interval(d) = Ct + EarlyBy(d)
<1>1. cfg \in [Devices -> Nat] /\ checktime \in Nat \ {0}
  BY ConfigsAssumption, TimesAssumption DEF TypeOK
<1>2. \A d \in Devices : EarlyBy(d) \in Nat
  BY <1>1 DEF EarlyBy, Capped
<1>3. ASSUME Capped PROVE Ct = checktime
  <2> DEFINE S == Own \cup {checktime}
  <2>1. S \subseteq Nat /\ S # {} /\ \A y \in S : checktime <= y
    BY <1>1, <1>3 DEF Own, Capped
  <2>2. Least(S) \in S /\ \A y \in S : Least(S) <= y
    BY <2>1, LeastLemma
  <2>3. Least(S) = checktime
    BY <1>1, <2>1, <2>2
  <2>4. QED
    BY <1>1, <2>3 DEF Ct, CheckTimeMin
<1>4. ASSUME Capped, NEW d \in Devices PROVE Interval(d) = Ct + EarlyBy(d)
  <2>1. cfg[d] > checktime /\ Interval(d) = cfg[d] /\ EarlyBy(d) = cfg[d] - checktime
    BY <1>1, <1>4 DEF Capped, Interval, EarlyBy
  <2>2. QED
    BY <1>1, <1>3, <1>4, <2>1
<1>5. QED
  BY <1>2, <1>3, <1>4

\* Otherwise the interval of the schedule is the one of some device.
LEMMA ShortestInterval ==
    ASSUME TypeOK, ~Capped
    PROVE  \E d \in Devices : Interval(d) = Ct
<1>1. cfg \in [Devices -> Nat] /\ checktime \in Nat \ {0}
  BY ConfigsAssumption, TimesAssumption DEF TypeOK
<1>2. PICK e \in Devices : cfg[e] <= checktime
  BY <1>1 DEF Capped
<1>3. CASE Own = {}
  <2>1. Ct = checktime
    BY <1>3 DEF Ct, CheckTimeMin
  <2>2. cfg[e] = 0
    BY <1>1, <1>3 DEF Own
  <2>3. QED
    BY <1>1, <2>1, <2>2 DEF Interval
<1>4. CASE Own # {}
  <2> DEFINE S == Own \cup {checktime}
             m == Least(S)
  <2>1. S \subseteq Nat /\ S # {} /\ 0 \notin S
    BY <1>1 DEF Own
  <2>2. m \in S /\ \A y \in S : m <= y
    BY <2>1, LeastLemma
  <2>3. m \in Nat \ {0} /\ m <= checktime
    BY <2>1, <2>2
  <2>4. Ct = m
    BY <1>4, <2>3 DEF Ct, CheckTimeMin
  <2>5. CASE m \in Own
    <3>1. PICK d \in Devices : cfg[d] = m
      BY <2>5 DEF Own
    <3>2. Interval(d) = m
      BY <2>3, <3>1 DEF Interval
    <3>3. QED
      BY <2>3, <2>4, <3>2
  <2>6. CASE m = checktime
    <3>1. cfg[e] # 0 => m <= cfg[e]
      BY <2>2 DEF Own
    <3>2. cfg[e] # 0 => cfg[e] = checktime
      BY <1>1, <1>2, <2>6, <3>1
    <3>3. Interval(e) = checktime
      BY <3>2 DEF Interval
    <3>4. QED
      BY <2>3, <2>4, <2>6, <3>3
  <2>7. QED
    BY <2>2, <2>5, <2>6
<1>5. QED
  BY <1>3, <1>4

\* The next wakeup times are at most one interval ahead if the last ones were,
\* and the first of them is within the interval of the schedule, or capped.
LEMMA NextNotAhead ==
    ASSUME TypeOK, NotAhead, ~wentBack
    PROVE  LET st == NextStWakeup(clock)
               first == Least({st[d] : d \in Devices})
           IN  /\ \A d \in Devices : st[d] <= clock + Interval(d)
               /\ ~Capped => first <= clock + Ct
<1> DEFINE st == NextStWakeup(clock)
           first == Least({st[d] : d \in Devices})
<1>1. ASSUME NEW d \in Devices PROVE st[d] <= clock + Interval(d)
  <2>1. Interval(d) \in Nat \ {0} /\ stWakeup[d] \in Nat /\ clock \in Nat
    BY IntervalType DEF TypeOK
  <2>2. stWakeup[d] <= clock + Interval(d)
    BY DEF NotAhead
  <2>3. PICK w \in Nat : w = IF stWakeup[d] # 0 THEN stWakeup[d] ELSE clock
    BY <2>1
  <2>4. w <= clock + Interval(d)
    BY <2>1, <2>2, <2>3
  <2>5. CalcNextWakeuptime(w, clock, Interval(d)) <= clock + Interval(d)
    BY <2>1, <2>4 DEF CalcNextWakeuptime
  <2>6. QED
    BY <2>2, <2>3, <2>5 DEF NextStWakeup
<1>2. ASSUME ~Capped PROVE first <= clock + Ct
  <2>1. PICK d \in Devices : Interval(d) = Ct
    BY <1>2, ShortestInterval
  <2>2. first \in Nat /\ st[d] \in Nat /\ first <= st[d]
    BY NextStWakeupType
  <2>3. st[d] <= clock + Ct
    BY <1>1, <2>1
  <2> HIDE DEF st, first
  <2>4. QED
    BY <2>2, <2>3, IntervalType DEF TypeOK
<1>3. QED
  BY <1>1, <1>2

\* dosleep() enters its loop with a wakeup time that the loop keeps, or that
\* it takes for one from before the clock was set back; no device is due
\* later than the one or the other.
LEMMA DosleepNotAhead ==
    ASSUME TypeOK, NotAhead, ~wentBack, Dosleep
    PROVE  \E w \in Nat, st \in [Devices -> Nat] :
               /\ Loop(w, st, 0, FALSE, clock)
               /\ \A d \in Devices : st[d] <= clock + Interval(d)
               /\ CheckTimeMin = 0 => \A d \in Devices : due'[d] <= w
               /\ w > clock + Ct =>
                      \A d \in Devices : due'[d] <= clock + Ct + EarlyBy(d)
               /\ CheckTimeMin # 0 => due' = st
<1>0. /\ clock \in Nat /\ Ct \in Nat /\ checktime \in Nat
      /\ \A d \in Devices : EarlyBy(d) \in Nat
  BY IntervalType, EarlyByType, TimesAssumption DEF TypeOK
<1>1. CASE CheckTimeMin = 0
  <2> DEFINE w == CalcNextWakeuptime(wakeuptime, clock, checktime)
             m == Least({w, clock + checktime})
  <2>1. w \in Nat /\ clock + checktime \in Nat
    BY NextWakeupInRange, TimesAssumption DEF TypeOK
  <2>2. Loop(w, stWakeup, 0, FALSE, clock) /\ due' = [d \in Devices |-> m]
    BY <1>1 DEF Dosleep
  <2>3. /\ stWakeup \in [Devices -> Nat] /\ Ct = checktime
        /\ \A d \in Devices : stWakeup[d] <= clock + Interval(d)
    BY <1>1 DEF TypeOK, NotAhead, Ct
  <2>4. m \in Nat /\ m <= w /\ m <= clock + checktime
    <3>1. m \in {w, clock + checktime} /\ \A y \in {w, clock + checktime} : m <= y
      BY <2>1, LeastLemma
    <3> HIDE DEF m, w
    <3>2. QED
      BY <2>1, <3>1
  <2> HIDE DEF w, m
  <2>5. ASSUME NEW d \in Devices
        PROVE  due'[d] <= w /\ due'[d] <= clock + Ct + EarlyBy(d)
    <3>1. due'[d] = m /\ EarlyBy(d) \in Nat
      BY <1>0, <2>2
    <3>2. QED
      BY <1>0, <2>3, <2>4, <3>1
  <2>6. QED
    BY <1>1, <2>1, <2>2, <2>3, <2>5
<1>2. CASE CheckTimeMin # 0
  <2> DEFINE st == NextStWakeup(clock)
             w == Least({st[d] : d \in Devices})
  <2>1. Loop(w, st, 0, FALSE, clock) /\ due' = st
    BY <1>2 DEF Dosleep
  <2>2. w \in Nat /\ st \in [Devices -> Nat]
    BY NextStWakeupType
  <2>3. /\ \A d \in Devices : st[d] <= clock + Interval(d)
        /\ ~Capped => w <= clock + Ct
    BY NextNotAhead
  <2> HIDE DEF w, st
  <2>4. ASSUME w > clock + Ct, NEW d \in Devices PROVE st[d] <= clock + Ct + EarlyBy(d)
    <3>1. Capped
      BY <1>0, <2>2, <2>3, <2>4
    <3>2. Interval(d) = Ct + EarlyBy(d) /\ EarlyBy(d) \in Nat /\ st[d] \in Nat
      BY <2>2, <3>1, EarlyByType
    <3>3. QED
      BY <1>0, <2>3, <3>2
  <2>5. QED
    BY <1>2, <2>1, <2>2, <2>3, <2>4
<1>3. QED
  BY <1>1, <1>2

\* A wakeup time that is too far ahead is taken for one from before the clock
\* was set back.
LEMMA LoopSetsBack ==
    ASSUME TypeOK, NEW w \in Nat, NEW st \in [Devices -> Nat], NEW add \in Nat,
           NEW noskip \in BOOLEAN, Loop(w, st, add, noskip, clock),
           w > clock + Ct, pc' = "sleep"
    PROVE  wakeuptime' = clock + Ct /\ noSkip' /\ \A d \in Devices : stWakeup'[d] = 0
<1>1. SleepOn(w, st, add, noskip, clock, Ct)
  BY DEF Loop, Leave
<1>2. SetBack(w, clock, Ct)
  BY DEF SetBack
<1>3. QED
  BY <1>1, <1>2 DEF SleepOn

LEMMA InitEarlyInv == Init => EarlyInv
<1> SUFFICES ASSUME Init PROVE EarlyInv
  OBVIOUS
<1>1. TypeOK /\ SleepInv
  BY InitTypeOK, InitSleepInv
<1>2. ASSUME NEW d \in Devices PROVE stWakeup[d] <= clock + Interval(d)
  <2>1. stWakeup[d] = 0 /\ clock = 1 /\ Interval(d) \in Nat
    BY <1>1, IntervalType DEF Init
  <2>2. QED
    BY <2>1
<1>3. pc # "sleep"
  BY DEF Init
<1>4. QED
  BY <1>1, <1>2, <1>3 DEF EarlyInv, NotAhead, SleepsAsBegun

LEMMA NextEarlyInv == EarlyInv /\ [Next]_vars => EarlyInv'
<1> SUFFICES ASSUME EarlyInv, [Next]_vars PROVE EarlyInv'
  OBVIOUS
<1> USE DEF histVars
<1>0. TypeOK /\ TypeOK' /\ SleepInv /\ SleepInv'
  BY NextSleepInv DEF EarlyInv, SleepInv
<1>1. SUFFICES ASSUME ~wentBack'
               PROVE  NotAhead' /\ SleepsAsBegun'
  BY <1>0 DEF EarlyInv, NotAhead, SleepsAsBegun
<1>2. /\ wakeuptime \in Nat /\ clock \in Nat /\ stWakeup \in [Devices -> Nat]
      /\ noSkip \in BOOLEAN /\ Ct \in Nat \ {0} /\ due \in [Devices -> Nat]
      /\ \A d \in Devices : Interval(d) \in Nat /\ EarlyBy(d) \in Nat
  BY <1>0, IntervalType, EarlyByType DEF TypeOK
<1>3. ~wentBack /\ ~JumpBack
  <2>1. ~JumpBack
    BY <1>1 DEF JumpBack
  <2>2. UNCHANGED wentBack
    BY <2>1 DEF Next, Reload, CheckDevicesOnce, Dosleep, LeaveSleep, Tick, JumpForward,
                Signal, vars
  <2>3. QED
    BY <1>1, <2>1, <2>2, Zenon
<1>4. \A d \in Devices : stWakeup[d] <= clock + Interval(d)
  BY <1>3 DEF EarlyInv, NotAhead
<1>5. CASE Reload
  <2>1. UNCHANGED clock /\ pc' = "check"
    BY <1>5 DEF Reload
  <2>2. ASSUME NEW d \in Devices PROVE stWakeup'[d] <= clock' + Interval(d)'
    <3>1. stWakeup'[d] = 0
      BY <1>5 DEF Reload
    <3>2. Interval(d)' \in Nat
      <4>1. cfg' \in [Devices -> Nat]
        BY <1>0, ConfigsAssumption DEF TypeOK
      <4>2. QED
        BY <4>1, TimesAssumption DEF Interval
    <3>3. QED
      BY <1>2, <2>1, <3>1, <3>2
  <2>3. QED
    BY <2>1, <2>2 DEF NotAhead, SleepsAsBegun
<1>6. ASSUME ~Reload
      PROVE  /\ CheckTimeMin' = CheckTimeMin /\ Ct' = Ct
             /\ \A d \in Devices : Interval(d)' = Interval(d) /\ EarlyBy(d)' = EarlyBy(d)
  <2>1. UNCHANGED cfg
    BY <1>6 DEF Next, CheckDevicesOnce, Dosleep, LeaveSleep, Tick, JumpForward, JumpBack,
                Signal, vars, progVars
  <2>2. QED
    BY <2>1, SameIntervals DEF Interval, EarlyBy, Capped
<1>7. CASE Dosleep
  <2>1. clock' = clock /\ ~Reload
    BY <1>7 DEF Dosleep, Reload
  <2>2. PICK w \in Nat, st \in [Devices -> Nat] :
            /\ Loop(w, st, 0, FALSE, clock)
            /\ \A d \in Devices : st[d] <= clock + Interval(d)
            /\ CheckTimeMin = 0 => \A d \in Devices : due'[d] <= w
            /\ w > clock + Ct =>
                   \A d \in Devices : due'[d] <= clock + Ct + EarlyBy(d)
            /\ CheckTimeMin # 0 => due' = st
    BY <1>0, <1>3, <1>7, DosleepNotAhead DEF EarlyInv
  <2>3. PICK add \in Nat, noskip \in BOOLEAN : add = 0 /\ noskip = FALSE
    OBVIOUS
  <2>4. Loop(w, st, add, noskip, clock)
    BY <2>2, <2>3, Zenon
  <2>5. due' \in [Devices -> Nat]
    BY <1>0 DEF TypeOK
  <2>6. CASE pc' = "sleep" /\ w > clock + Ct
    <3>1. wakeuptime' = clock + Ct /\ noSkip' /\ \A d \in Devices : stWakeup'[d] = 0
      BY <1>0, <2>4, <2>6, LoopSetsBack
    <3>2. \A d \in Devices : stWakeup'[d] <= clock + Interval(d)
      BY <1>2, <3>1
    <3>3. NotAhead'
      BY <1>6, <2>1, <3>2 DEF NotAhead
    <3>4. wakeuptime' <= clock + Ct /\ \A d \in Devices : due'[d] <= wakeuptime' + EarlyBy(d)
      BY <1>2, <2>2, <2>6, <3>1
    <3>5. SleepsAsBegun'
      BY <1>6, <2>1, <3>1, <3>4 DEF SleepsAsBegun
    <3>6. QED
      BY <3>3, <3>5
  <2>7. CASE pc' = "sleep" /\ ~(w > clock + Ct)
    <3>1. w <= clock + Ct
      BY <1>2, <2>7
    <3>2. wakeuptime' = w /\ stWakeup' = st /\ noSkip' = noskip
      BY <1>0, <1>2, <2>4, <2>7, <3>1, LoopKeeps
    <3>3. NotAhead'
      BY <1>6, <2>1, <2>2, <3>2 DEF NotAhead
    <3>4. CheckTimeMin = 0 => \A d \in Devices : due'[d] <= w + EarlyBy(d)
      BY <1>2, <2>2, <2>5
    <3>5. SleepsAsBegun'
      BY <1>6, <2>1, <2>2, <2>3, <3>1, <3>2, <3>4 DEF SleepsAsBegun
    <3>6. QED
      BY <3>3, <3>5
  <2>8. CASE pc' # "sleep"
    <3>1. stWakeup' = st
      BY <2>4, <2>8 DEF Loop, SleepOn, Leave
    <3>2. QED
      BY <1>6, <2>1, <2>2, <2>8, <3>1 DEF NotAhead, SleepsAsBegun
  <2>9. QED
    BY <2>6, <2>7, <2>8
<1>8. CASE LeaveSleep
  <2>1. UNCHANGED << clock, due >> /\ pc = "sleep" /\ ~Reload
    BY <1>8 DEF LeaveSleep, Reload
  <2>2. /\ wakeuptime <= clock + Ct
        /\ CheckTimeMin = 0 \/ noSkip =>
               \A d \in Devices : due[d] <= wakeuptime + EarlyBy(d)
        /\ CheckTimeMin # 0 /\ ~noSkip => due = stWakeup
    BY <1>3, <2>1 DEF EarlyInv, SleepsAsBegun
  <2>3. PICK add \in Nat : Loop(wakeuptime, stWakeup, add, noSkip, clock)
    BY <1>0, <1>8, LeaveSleepLoop
  <2>4. wakeuptime' = wakeuptime /\ stWakeup' = stWakeup /\ (pc' = "sleep" => noSkip' = noSkip)
    BY <1>0, <1>2, <2>2, <2>3, LoopKeeps
  <2>5. NotAhead'
    BY <1>4, <1>6, <2>1, <2>4 DEF NotAhead
  <2>6. SleepsAsBegun'
    BY <1>6, <2>1, <2>2, <2>4 DEF SleepsAsBegun
  <2>7. QED
    BY <2>5, <2>6
<1>9. CASE CheckDevicesOnce \/ Tick \/ JumpForward \/ Signal \/ UNCHANGED vars
  <2>1. /\ UNCHANGED << cfg, wakeuptime, stWakeup, noSkip, due >>
        /\ pc' = "sleep" => pc = "sleep"
    <3>1. CASE CheckDevicesOnce \/ Tick
      BY <3>1 DEF CheckDevicesOnce, Tick, progVars
    <3>2. CASE JumpForward \/ Signal \/ UNCHANGED vars
      BY <3>2 DEF JumpForward, Signal, vars, progVars
    <3>3. QED
      BY <1>9, <3>1, <3>2
  <2>2. PICK now \in Nat : clock' = now /\ clock <= now
    BY <1>0, <1>9, ClockAdvances
  <2>3. /\ CheckTimeMin' = CheckTimeMin /\ Ct' = Ct
        /\ \A d \in Devices : Interval(d)' = Interval(d) /\ EarlyBy(d)' = EarlyBy(d)
    BY <2>1, SameIntervals DEF Interval, EarlyBy, Capped
  <2>4. ASSUME NEW d \in Devices PROVE stWakeup'[d] <= clock' + Interval(d)'
    <3>1. stWakeup[d] \in Nat /\ Interval(d) \in Nat /\ stWakeup[d] <= clock + Interval(d)
      BY <1>2, <1>4
    <3>2. stWakeup[d] <= now + Interval(d)
      BY <1>2, <2>2, <3>1
    <3>3. QED
      BY <2>1, <2>2, <2>3, <3>2
  <2>5. NotAhead'
    BY <2>4 DEF NotAhead
  <2>6. wakeuptime <= clock + Ct => wakeuptime <= now + Ct
    BY <1>2, <2>2
  <2>7. SleepsAsBegun'
    BY <1>3, <2>1, <2>2, <2>3, <2>6 DEF EarlyInv, SleepsAsBegun
  <2>8. QED
    BY <2>5, <2>7
<1>10. QED
  BY <1>3, <1>5, <1>7, <1>8, <1>9 DEF Next

\* A cycle that starts after the wakeup time, with no signal, checks only
\* devices whose time has come, up to what is early by the cap.
LEMMA LoopNotEarly ==
    ASSUME SleepInv, NEW w \in Nat, NEW st \in [Devices -> Nat], NEW add \in Nat,
           NEW noskip \in BOOLEAN,
           Loop(w, st, add, noskip, clock), pc' = "check", caught = {},
           due' \in [Devices -> Nat],
           CheckTimeMin = 0 \/ noskip => \A d \in Devices : due'[d] <= w + EarlyBy(d),
           CheckTimeMin # 0 /\ ~noskip => due' = st, NEW d \in Devices, ~skip'[d]
    PROVE  due'[d] <= clock + EarlyBy(d)
<1>1. Leave(w, st, add, noskip, clock) /\ ~StaysAsleep(w, add, clock)
  BY DEF Loop, SleepOn
<1>2. clock \in Nat /\ EarlyBy(d) \in Nat /\ due'[d] \in Nat
  BY EarlyByType DEF SleepInv, TypeOK
<1>3. clock >= w + add
  BY <1>1, <1>2 DEF StaysAsleep
<1>4. CASE CheckTimeMin = 0 \/ noskip
  <2>1. due'[d] <= w + EarlyBy(d)
    BY <1>4
  <2>2. QED
    BY <1>2, <1>3, <2>1
<1>5. CASE CheckTimeMin # 0 /\ ~noskip
  <2>1. skip' = [e \in Devices |-> ~(noskip \/ AllForced) /\ clock < st[e]]
    BY <1>1, <1>5 DEF Leave, Skips
  <2>2. ~AllForced
    BY DEF AllForced
  <2>3. ~(clock < st[d])
    BY <1>5, <2>1, <2>2, Zenon
  <2>4. due'[d] = st[d] /\ st[d] \in Nat
    BY <1>5
  <2>5. QED
    BY <1>2, <2>3, <2>4
<1>6. QED
  BY <1>4, <1>5

\* For every set of intervals a device is checked ahead of its time only after a signal,
\* when the clock has been set back, or by the cap on intervals that are all longer than
\* the one of -i, and then not earlier than that cap explains.
THEOREM NoCheckTooEarly == Spec => NotCheckedEarly
<1>1. Spec => []EarlyInv
  BY InitEarlyInv, NextEarlyInv, PTL DEF Spec
<1>2. EarlyInv /\ [Next]_vars
      => [Starts /\ caught = {} /\ ~wentBack =>
              \A d \in Devices : ~skip'[d] => due'[d] <= clock + EarlyBy(d)]_vars
  <2> SUFFICES ASSUME EarlyInv, [Next]_vars, Starts, caught = {}, ~wentBack,
                      NEW d \in Devices, ~skip'[d]
               PROVE  due'[d] <= clock + EarlyBy(d)
    OBVIOUS
  <2> USE DEF histVars
  <2>0. SleepInv /\ TypeOK /\ pc' = "check"
    BY DEF EarlyInv, SleepInv, Starts
  <2>1. Dosleep \/ LeaveSleep
    BY DEF Next, Reload, CheckDevicesOnce, Tick, JumpForward, JumpBack, Signal, vars, Starts
  <2>2. due' \in [Devices -> Nat] /\ \A e \in Devices : EarlyBy(e) \in Nat
    BY <2>0, NextTypeOK, EarlyByType DEF TypeOK
  <2>3. CASE Dosleep
    <3>1. PICK w \in Nat, st \in [Devices -> Nat] :
              /\ Loop(w, st, 0, FALSE, clock)
              /\ CheckTimeMin = 0 => \A e \in Devices : due'[e] <= w
              /\ CheckTimeMin # 0 => due' = st
      BY <2>0, <2>3, DosleepNotAhead DEF EarlyInv
    <3>2. PICK add \in Nat, noskip \in BOOLEAN : add = 0 /\ noskip = FALSE
      OBVIOUS
    <3>3. Loop(w, st, add, noskip, clock)
      BY <3>1, <3>2, Zenon
    <3>4. CheckTimeMin = 0 => \A e \in Devices : due'[e] <= w + EarlyBy(e)
      BY <2>2, <3>1
    <3>5. QED
      BY <2>0, <2>2, <3>1, <3>2, <3>3, <3>4, LoopNotEarly
  <2>4. CASE LeaveSleep
    <3>1. pc = "sleep" /\ due' = due
      BY <2>4 DEF LeaveSleep
    <3>2. /\ CheckTimeMin = 0 \/ noSkip =>
                 \A e \in Devices : due'[e] <= wakeuptime + EarlyBy(e)
          /\ CheckTimeMin # 0 /\ ~noSkip => due' = stWakeup
      BY <3>1 DEF EarlyInv, SleepsAsBegun
    <3>3. PICK add \in Nat : Loop(wakeuptime, stWakeup, add, noSkip, clock)
      BY <2>0, <2>4, LeaveSleepLoop
    <3>4. /\ wakeuptime \in Nat /\ stWakeup \in [Devices -> Nat] /\ noSkip \in BOOLEAN
      BY <2>0 DEF TypeOK
    <3>5. QED
      BY <2>0, <2>2, <3>2, <3>3, <3>4, LoopNotEarly
  <2>5. QED
    BY <2>1, <2>3, <2>4
<1>3. QED
  BY <1>1, <1>2, PTL DEF Spec, NotCheckedEarly

-----------------------------------------------------------------------------
(***************************************************************************)
(* Automatic standby of the system.                                        *)
(***************************************************************************)
StandbyTypeOK ==
    /\ phase \in {"register", "check", "sleep"}
    /\ ns \in [Disks -> SUBSET Kinds]
    /\ state \in 0 .. 3
    /\ started \in [Disks -> SUBSET Kinds]
    /\ status \in [Disks -> Statuses] /\ disk \in [Disks -> Statuses]
    /\ known \in [Disks -> SUBSET Kinds]
    /\ disabled \in BOOLEAN /\ stuck \in BOOLEAN /\ rejected \in BOOLEAN

\* What do_disable_standby_check() looks at for a disk.
Seen(d) == (started[d] \cup {status[d]}) \cap Kinds

\* That is what was known when the disk was last checked, or less of it if
\* its SMART data could not be read then.
SeenIsKnown ==
    \A d \in Disks : Seen(d) \subseteq known[d] /\ (d \notin stale => Seen(d) = known[d])

\* Auto standby is disabled only in state 3, unless the system has refused to
\* enable it.
StateTellsDisabled == state # 3 => ~disabled \/ stuck

StandbyInv == StandbyTypeOK /\ SeenIsKnown /\ StateTellsDisabled /\ KeptAwake
              /\ (phase = "sleep" => EnabledWhenIdle)

-----------------------------------------------------------------------------
(***************************************************************************)
(* The requests to the system: what they leave, whatever its answer is.    *)
(***************************************************************************)
LEMMA InitDisableResult ==
    ASSUME StandbyTypeOK, StateTellsDisabled, init_disable_standby_check
    PROVE  /\ state' \in 0 .. 3 /\ state' # 3
           /\ disabled' \in BOOLEAN /\ stuck' \in BOOLEAN /\ rejected' \in BOOLEAN
           /\ ~disabled' \/ stuck'
           /\ disabled' => disabled
<1> USE DEF StandbyTypeOK, StateTellsDisabled
<1>1. CASE EnableWorks /\ state' = IF Configured' THEN 1 ELSE 0
  <2>1. state' \in {0, 1} /\ disabled' = FALSE /\ stuck' = FALSE /\ rejected' = rejected
    BY <1>1 DEF EnableWorks
  <2>2. state' \in 0 .. 3 /\ state' # 3 /\ FALSE \in BOOLEAN
    BY <2>1
  <2>3. QED
    BY <2>1, <2>2, Zenon
<1>2. CASE EnableFails /\ state' = 0
  <2>1. state' = 0 /\ stuck' = TRUE /\ disabled' = disabled /\ rejected' = rejected
    BY <1>2 DEF EnableFails
  <2>2. state' \in 0 .. 3 /\ state' # 3 /\ TRUE \in BOOLEAN
    BY <2>1
  <2>3. QED
    BY <2>1, <2>2, Zenon
<1>3. CASE ~Asks /\ NoRequest /\ state' = 0
  <2>1. state # 3
    BY <1>3 DEF Asks
  <2>2. state' = 0 /\ stuck' = stuck /\ disabled' = disabled /\ rejected' = rejected
    BY <1>3 DEF NoRequest
  <2>3. QED
    BY <2>1, <2>2
<1>4. QED
  BY <1>1, <1>2, <1>3 DEF init_disable_standby_check

LEMMA DoDisableResult ==
    ASSUME StandbyTypeOK, StateTellsDisabled, do_disable_standby_check
    PROVE  /\ state' \in 0 .. 3
           /\ disabled' \in BOOLEAN /\ stuck' \in BOOLEAN /\ rejected' \in BOOLEAN
           /\ state' # 3 => ~disabled' \/ stuck'
           /\ Running /\ state' # 0 => disabled' \/ rejected'
           /\ ~Running => ~disabled' \/ stuck'
           /\ disabled' /\ ~disabled => Running
<1> USE DEF StandbyTypeOK, StateTellsDisabled
<1>1. CASE state = 0 /\ NoRequest /\ UNCHANGED state
  <2>1. UNCHANGED << state, disabled, stuck, rejected >>
    BY <1>1 DEF NoRequest
  <2>2. QED
    BY <1>1, <2>1
<1>2. CASE state = 1 /\ ~Running /\ NoRequest /\ UNCHANGED state
  <2>1. UNCHANGED << state, disabled, stuck, rejected >>
    BY <1>2 DEF NoRequest
  <2>2. QED
    BY <1>2, <2>1
<1>3. CASE ~Running /\ EnableWorks /\ state' = 1
  <2>1. state' = 1 /\ disabled' = FALSE /\ stuck' = FALSE /\ rejected' = rejected
    BY <1>3 DEF EnableWorks
  <2>2. state' \in 0 .. 3 /\ FALSE \in BOOLEAN
    BY <2>1
  <2>3. QED
    BY <1>3, <2>1, <2>2, Zenon
<1>4. CASE ~Running /\ EnableFails /\ state' = 1
  <2>1. state' = 1 /\ stuck' = TRUE /\ disabled' = disabled /\ rejected' = rejected
    BY <1>4 DEF EnableFails
  <2>2. state' \in 0 .. 3 /\ TRUE \in BOOLEAN
    BY <2>1
  <2>3. QED
    BY <1>4, <2>1, <2>2, Zenon
<1>5. CASE Running /\ DisableWorks /\ state' = 3
  <2>1. state' = 3 /\ disabled' = TRUE /\ rejected' = FALSE /\ stuck' = stuck
    BY <1>5 DEF DisableWorks
  <2>2. state' \in 0 .. 3 /\ state' = 3 /\ TRUE \in BOOLEAN /\ FALSE \in BOOLEAN
    BY <2>1
  <2>3. QED
    BY <1>5, <2>1, <2>2, Zenon
<1>6. CASE Running /\ DisableFails /\ state' = 2
  <2>1. /\ state' = 2 /\ rejected' = TRUE
        /\ \/ disabled' = FALSE /\ stuck' = FALSE
           \/ stuck' = disabled /\ disabled' = disabled
    BY <1>6 DEF DisableFails
  <2>2. state' \in 0 .. 3 /\ TRUE \in BOOLEAN /\ FALSE \in BOOLEAN
    BY <2>1
  <2>3. ~disabled' \/ stuck'
    BY <2>1, Zenon
  <2>4. disabled' => disabled
    BY <2>1, Zenon
  <2>5. disabled' \in BOOLEAN /\ stuck' \in BOOLEAN /\ rejected' \in BOOLEAN
    BY <2>1, <2>2, Zenon
  <2>6. QED
    BY <1>6, <2>1, <2>2, <2>3, <2>4, <2>5, Zenon
<1>7. QED
  BY <1>1, <1>2, <1>3, <1>4, <1>5, <1>6 DEF do_disable_standby_check

\* Running is what was seen of the disks with ',ns'.
LEMMA RunningSeen ==
    ASSUME StandbyTypeOK
    PROVE  Running <=> \E d \in Disks : Seen(d) \cap ns[d] # {}
BY DEF StandbyTypeOK, Running, Seen

-----------------------------------------------------------------------------
LEMMA InitStandbyInv == StandbyInit => StandbyInv
<1> SUFFICES ASSUME StandbyInit PROVE StandbyInv
  OBVIOUS
<1>1. disabled = FALSE /\ stuck = FALSE /\ rejected = FALSE
  BY DEF StandbyInit
<1>2. StandbyTypeOK
  <2>1. disabled \in BOOLEAN /\ stuck \in BOOLEAN /\ rejected \in BOOLEAN
    BY <1>1
  <2>2. QED
    BY <2>1 DEF StandbyInit, StandbyTypeOK, Statuses
<1>3. SeenIsKnown
  BY DEF StandbyInit, SeenIsKnown, Seen, Kinds
<1>4. StateTellsDisabled
  BY <1>1 DEF StateTellsDisabled
<1>5. phase # "sleep"
  BY DEF StandbyInit
<1>6. QED
  BY <1>2, <1>3, <1>4, <1>5 DEF StandbyInv, KeptAwake

\* A check cycle steps from disk to disk without a word to the system.
Quiet == UNCHANGED << ns, state, disabled, stuck, rejected >>

LEMMA CheckSteps ==
    ASSUME StandbyInv, NEW d \in Disks,
           NotChecked(d) \/ CheckDevice(d) \/ CheckDeviceFails(d)
    PROVE  /\ phase' = "check" /\ Quiet
           /\ started' \in [Disks -> SUBSET Kinds] /\ status' \in [Disks -> Statuses]
           /\ disk' \in [Disks -> Statuses] /\ known' \in [Disks -> SUBSET Kinds]
           /\ SeenIsKnown'
<1> USE DEF StandbyInv, StandbyTypeOK
<1>1. CASE NotChecked(d)
  BY <1>1 DEF NotChecked, Checked, Quiet, diskVars, SeenIsKnown, Seen
<1>2. CASE CheckDevice(d)
  <2>1. phase' = "check" /\ Quiet
    BY <1>2 DEF CheckDevice, Checked, Quiet
  <2>2. PICK kind \in Statuses : Start(d, kind)
    BY <1>2 DEF CheckDevice, MayStart, Statuses
  <2>3. /\ disk' = [disk EXCEPT ![d] = IF kind = "none" THEN @ ELSE kind]
        /\ started' = [started EXCEPT ![d] = IF kind = "none" THEN {} ELSE {kind}]
        /\ status' = [status EXCEPT ![d] = disk[d]]
        /\ known' = [known EXCEPT ![d] = {disk[d], disk'[d]} \cap Kinds]
        /\ stale' = stale \ {d}
    BY <1>2, <2>2 DEF CheckDevice, Start
  <2>4. kind # "none" => kind \in Kinds
    BY DEF Statuses
  <2>5. "none" \notin Kinds
    BY DEF Kinds
  <2>6. /\ started' \in [Disks -> SUBSET Kinds] /\ status' \in [Disks -> Statuses]
        /\ disk' \in [Disks -> Statuses] /\ known' \in [Disks -> SUBSET Kinds]
    BY <2>3, <2>4
  <2>7. ASSUME NEW e \in Disks
        PROVE  Seen(e)' \subseteq known'[e] /\ (e \notin stale' => Seen(e)' = known'[e])
    <3>1. CASE e = d
      <4>1. known'[d] = {disk[d], IF kind = "none" THEN disk[d] ELSE kind} \cap Kinds
        BY <2>3
      <4>2. Seen(d)' = ((IF kind = "none" THEN {} ELSE {kind}) \cup {disk[d]}) \cap Kinds
        BY <2>3 DEF Seen
      <4>3. QED
        BY <3>1, <4>1, <4>2
    <3>2. CASE e # d
      <4>1. /\ started'[e] = started[e] /\ status'[e] = status[e] /\ known'[e] = known[e]
            /\ e \in stale' <=> e \in stale
        BY <2>3, <3>2
      <4>2. QED
        BY <4>1 DEF SeenIsKnown, Seen
    <3>3. QED
      BY <3>1, <3>2
  <2>8. QED
    BY <2>1, <2>6, <2>7 DEF SeenIsKnown
<1>3. CASE CheckDeviceFails(d)
  <2>1. phase' = "check" /\ Quiet
    BY <1>3 DEF CheckDeviceFails, Checked, Quiet
  <2>2. PICK kind \in Statuses :
            /\ Start(d, kind)
            /\ known' = [known EXCEPT ![d] = @ \cup ({kind} \cap Kinds)]
    BY <1>3 DEF CheckDeviceFails, MayStart, Statuses
  <2>3. /\ disk' = [disk EXCEPT ![d] = IF kind = "none" THEN @ ELSE kind]
        /\ started' = [started EXCEPT ![d] = IF kind = "none" THEN {} ELSE {kind}]
        /\ status' = status
        /\ stale' = stale \cup {d}
    BY <1>3, <2>2 DEF CheckDeviceFails, Start
  <2>4. kind # "none" => kind \in Kinds
    BY DEF Statuses
  <2>5. /\ started' \in [Disks -> SUBSET Kinds] /\ status' \in [Disks -> Statuses]
        /\ disk' \in [Disks -> Statuses] /\ known' \in [Disks -> SUBSET Kinds]
    BY <2>2, <2>3, <2>4
  <2>6. ASSUME NEW e \in Disks
        PROVE  Seen(e)' \subseteq known'[e] /\ (e \notin stale' => Seen(e)' = known'[e])
    <3>1. CASE e = d
      <4>1. known'[d] = known[d] \cup ({kind} \cap Kinds) /\ d \in stale'
        BY <2>2, <2>3
      <4>2. Seen(d)' = ((IF kind = "none" THEN {} ELSE {kind}) \cup {status[d]}) \cap Kinds
        BY <2>3 DEF Seen
      <4>3. {status[d]} \cap Kinds \subseteq known[d]
        BY DEF SeenIsKnown, Seen
      <4>4. QED
        BY <3>1, <4>1, <4>2, <4>3
    <3>2. CASE e # d
      <4>1. /\ started'[e] = started[e] /\ status'[e] = status[e] /\ known'[e] = known[e]
            /\ e \in stale' <=> e \in stale
        BY <2>2, <2>3, <3>2
      <4>2. QED
        BY <4>1 DEF SeenIsKnown, Seen
    <3>3. QED
      BY <3>1, <3>2
  <2>7. QED
    BY <2>1, <2>5, <2>6 DEF SeenIsKnown
<1>4. QED
  BY <1>1, <1>2, <1>3

LEMMA NextStandbyInv == StandbyInv /\ [StandbyNext]_standbyVars => StandbyInv'
<1> SUFFICES ASSUME StandbyInv, [StandbyNext]_standbyVars PROVE StandbyInv'
  OBVIOUS
<1>0. StandbyTypeOK /\ SeenIsKnown /\ StateTellsDisabled
  BY DEF StandbyInv
<1>1. CASE Register
  <2>1. /\ state' \in 0 .. 3 /\ state' # 3
        /\ disabled' \in BOOLEAN /\ stuck' \in BOOLEAN /\ rejected' \in BOOLEAN
        /\ ~disabled' \/ stuck'
    BY <1>0, <1>1, InitDisableResult DEF Register
  <2>2. /\ phase' = "check" /\ ns' \in [Disks -> SUBSET Kinds] /\ disk' = disk
        /\ started' = [d \in Disks |-> {}]
        /\ status' = [d \in Disks |-> IF d \in gone THEN "none" ELSE disk[d]]
        /\ known' = [d \in Disks |-> {status'[d]} \cap Kinds]
    BY <1>1 DEF Register
  <2>3. status' \in [Disks -> Statuses] /\ started' \in [Disks -> SUBSET Kinds]
    BY <1>0, <2>2 DEF StandbyTypeOK, Statuses
  <2>4. known' \in [Disks -> SUBSET Kinds]
    BY <2>2
  <2>5. StandbyTypeOK'
    BY <1>0, <2>1, <2>2, <2>3, <2>4 DEF StandbyTypeOK
  <2>6. SeenIsKnown'
    BY <2>2 DEF SeenIsKnown, Seen
  <2>7. StateTellsDisabled'
    BY <2>1 DEF StateTellsDisabled
  <2>8. QED
    BY <2>2, <2>5, <2>6, <2>7 DEF StandbyInv, KeptAwake
<1>2. CASE EndOfCycle
  <2>1. UNCHANGED << ns, started, status, disk, known, stale >> /\ phase' = "sleep"
    BY <1>2 DEF EndOfCycle, diskVars
  <2>2. /\ state' \in 0 .. 3
        /\ disabled' \in BOOLEAN /\ stuck' \in BOOLEAN /\ rejected' \in BOOLEAN
        /\ state' # 3 => ~disabled' \/ stuck'
        /\ Running /\ state' # 0 => disabled' \/ rejected'
        /\ ~Running => ~disabled' \/ stuck'
    BY <1>0, <1>2, DoDisableResult DEF EndOfCycle
  <2>3. StandbyTypeOK'
    BY <1>0, <2>1, <2>2 DEF StandbyTypeOK
  <2>4. SeenIsKnown'
    BY <1>0, <2>1 DEF SeenIsKnown, Seen
  <2>5. StateTellsDisabled'
    BY <2>2 DEF StateTellsDisabled
  <2>6. KeptAwake'
    <3> SUFFICES ASSUME state' # 0, NEW d \in Disks, d \notin stale, known[d] \cap ns[d] # {}
                 PROVE  disabled' \/ rejected'
      BY <2>1 DEF KeptAwake
    <3>1. Seen(d) \cap ns[d] # {}
      BY <1>0 DEF SeenIsKnown
    <3>2. Running
      BY <1>0, <3>1, RunningSeen
    <3>3. QED
      BY <2>2, <3>2
  <2>7. EnabledWhenIdle'
    <3> SUFFICES ASSUME \A d \in Disks : ns[d] = {} \/ known[d] \cap ns[d] = {}
                 PROVE  ~disabled' \/ stuck'
      BY <2>1 DEF EnabledWhenIdle
    <3>1. \A d \in Disks : Seen(d) \cap ns[d] = {}
      BY <1>0 DEF SeenIsKnown
    <3>2. ~Running
      BY <1>0, <3>1, RunningSeen
    <3>3. QED
      BY <2>2, <3>2
  <2>8. QED
    BY <2>3, <2>4, <2>5, <2>6, <2>7 DEF StandbyInv
<1>3. CASE \E d \in Disks : NotChecked(d) \/ CheckDevice(d) \/ CheckDeviceFails(d)
  <2>1. /\ phase' = "check" /\ Quiet
        /\ started' \in [Disks -> SUBSET Kinds] /\ status' \in [Disks -> Statuses]
        /\ disk' \in [Disks -> Statuses] /\ known' \in [Disks -> SUBSET Kinds]
        /\ SeenIsKnown'
    BY <1>3, CheckSteps
  <2>2. StandbyTypeOK' /\ StateTellsDisabled'
    BY <1>0, <2>1 DEF Quiet, StandbyTypeOK, StateTellsDisabled
  <2>3. QED
    BY <2>1, <2>2 DEF StandbyInv, KeptAwake
<1>4. CASE DiskChanges \/ UNCHANGED standbyVars
  <2>1. disk' \in [Disks -> Statuses]
    BY <1>0, <1>4 DEF DiskChanges, standbyVars, diskVars, StandbyTypeOK
  <2>2. UNCHANGED << phase, ns, state, started, status, known, stale, disabled, stuck, rejected >>
    BY <1>4 DEF DiskChanges, standbyVars, diskVars
  <2>3. StandbyTypeOK' /\ SeenIsKnown' /\ StateTellsDisabled'
    BY <1>0, <2>1, <2>2 DEF StandbyTypeOK, SeenIsKnown, Seen, StateTellsDisabled
  <2>4. KeptAwake' /\ (phase' = "sleep" => EnabledWhenIdle')
    BY <2>2 DEF StandbyInv, KeptAwake, EnabledWhenIdle
  <2>5. QED
    BY <2>3, <2>4 DEF StandbyInv
<1>5. CASE Wakeup \/ ReloadConfig
  <2>1. /\ phase' \in {"check", "register"}
        /\ UNCHANGED << ns, state, started, status, disk, known, stale, disabled, stuck,
                        rejected >>
    BY <1>5 DEF Wakeup, ReloadConfig, diskVars
  <2>2. StandbyTypeOK' /\ SeenIsKnown' /\ StateTellsDisabled'
    BY <1>0, <2>1 DEF StandbyTypeOK, SeenIsKnown, Seen, StateTellsDisabled
  <2>3. QED
    BY <2>1, <2>2 DEF StandbyInv, KeptAwake
<1>6. QED
  BY <1>1, <1>2, <1>3, <1>4, <1>5 DEF StandbyNext

LEMMA StandbyInvariant == StandbySpec => []StandbyInv
BY InitStandbyInv, NextStandbyInv, PTL DEF StandbySpec

\* While smartd sleeps the system does not go to standby if a test of a kind with ',ns'
\* was in progress when its disk was checked, unless it refuses to stay awake.
THEOREM SystemIsKeptAwake == StandbySpec => []KeptAwake
<1>1. StandbyInv => KeptAwake
  BY DEF StandbyInv
<1>2. QED
  BY <1>1, StandbyInvariant, PTL

\* smartd disables auto standby for tests only, and enables it when they are over, for
\* all sequences of tests, requests that fail and new configurations.
THEOREM StandbyDisabledOnlyForTests == StandbySpec => DisabledOnlyForTests
<1>1. StandbyInv => (phase = "sleep" => EnabledWhenIdle)
  BY DEF StandbyInv
<1>2. StandbyInv /\ [StandbyNext]_standbyVars
      => [disabled' /\ ~disabled
              => phase = "check" /\ \E d \in Disks : known[d] \cap ns[d] # {}]_standbyVars
  <2> SUFFICES ASSUME StandbyInv, [StandbyNext]_standbyVars, disabled', ~disabled
               PROVE  phase = "check" /\ \E d \in Disks : known[d] \cap ns[d] # {}
    OBVIOUS
  <2>1. StandbyTypeOK /\ SeenIsKnown /\ StateTellsDisabled
    BY DEF StandbyInv
  <2>2. EndOfCycle
    <3>1. ~Register
      BY <2>1, InitDisableResult DEF Register
    <3>2. ASSUME DiskChanges \/ Wakeup \/ ReloadConfig \/ UNCHANGED standbyVars PROVE FALSE
      <4>1. UNCHANGED disabled
        BY <3>2 DEF DiskChanges, Wakeup, ReloadConfig, standbyVars
      <4>2. QED
        BY <4>1, Zenon
    <3>3. ASSUME \E d \in Disks : NotChecked(d) \/ CheckDevice(d) \/ CheckDeviceFails(d)
          PROVE  FALSE
      <4>1. UNCHANGED disabled
        BY <3>3, CheckSteps DEF Quiet
      <4>2. QED
        BY <4>1, Zenon
    <3>4. QED
      BY <3>1, <3>2, <3>3 DEF StandbyNext
  <2>3. Running
    BY <2>1, <2>2, DoDisableResult DEF EndOfCycle
  <2>4. PICK d \in Disks : Seen(d) \cap ns[d] # {}
    BY <2>1, <2>3, RunningSeen
  <2>5. known[d] \cap ns[d] # {}
    BY <2>1, <2>4 DEF SeenIsKnown
  <2>6. QED
    BY <2>2, <2>5 DEF EndOfCycle
<1>3. QED
  BY <1>1, <1>2, StandbyInvariant, PTL DEF StandbySpec, DisabledOnlyForTests, DisabledForTests
=============================================================================
