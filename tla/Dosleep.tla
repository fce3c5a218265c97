------------------------------- MODULE Dosleep -------------------------------
(***************************************************************************)
(* When smartd checks which device: dosleep() and calc_next_wakeuptime()   *)
(* with the clock of the machine (src/smartd.cpp).                         *)
(*                                                                         *)
(* Each device is checked at its own interval ("-c i=N") or at the one of  *)
(* the command line ("-i N").  smartd computes the time at which the next  *)
(* device is due and sleeps; on the way it must cope with checks that take *)
(* longer than the interval, with signals, with a suspended machine (the   *)
(* clock advances while sleep() does not) and with a clock that is set     *)
(* back.                                                                   *)
(***************************************************************************)
EXTENDS Integers, FiniteSets

CONSTANTS
    Devices,
    Configs,        \* the interval settings a configuration can have
    checktime,      \* -i N
    TooLong,        \* 60 seconds: a longer delay means the machine was suspended
    SpinUp,         \* 20 seconds to spin up after that
    MaxTime,        \* bound: the last second of the model
    MaxAdjust,      \* bound: suspensions and clock adjustments
    MaxSignals      \* bound: signals caught

\* A device without "-c i=N" has the interval 0.
ASSUME ConfigsAssumption ==
    /\ Configs \subseteq [Devices -> Nat]
    /\ IsFiniteSet(Devices) /\ Devices # {}
ASSUME TimesAssumption ==
    /\ checktime \in Nat \ {0} /\ TooLong \in Nat /\ SpinUp \in Nat
ASSUME BoundsAssumption ==
    /\ MaxTime \in Nat \ {0} /\ MaxAdjust \in Nat /\ MaxSignals \in Nat

VARIABLES
    pc,             \* "check", "busy" (checking) or "sleep"
    cfg,            \* cfg.checktime of every device
    stWakeup,       \* state.wakeuptime, 0 if not set
    skip,           \* state.skip
    wakeuptime,     \* the variable of main_worker()
    addtime, noSkip,
    caught,         \* caught signals: USR1 and HUP
    remaining,      \* seconds sleep() still has to go
    clock,          \* the clock of the machine
    adjusts, signals,
    \* history
    due,            \* when each device is due, as of the start of dosleep()
    adjusted,       \* what happened to the clock since the last check began
    wentBack,       \* the clock has ever been set back
    mixed           \* a device has ever had an interval of its own

histVars == << due, adjusted, wentBack, mixed >>

progVars == << cfg, stWakeup, skip, wakeuptime, addtime, noSkip >>
vars == << pc, progVars, caught, remaining, clock, adjusts, signals, histVars >>

-----------------------------------------------------------------------------
Interval(d) == IF cfg[d] # 0 THEN cfg[d] ELSE checktime

Own == {cfg[d] : d \in Devices} \ {0}
Least(S) == CHOOSE x \in S : \A y \in S : x <= y

\* The global checktime_min of register_devices(): 0 if no device has an
\* interval of its own, and never more than the interval of -i.
CheckTimeMin == IF Own = {} THEN 0 ELSE Least(Own \cup {checktime})

\* The ct of dosleep().
Ct == IF CheckTimeMin = 0 THEN checktime ELSE CheckTimeMin

\* The next time after `now' that is a whole number of intervals away from w.
CalcNextWakeuptime_Drift(w, now, ct) == IF now < w THEN w ELSE now + ct
CalcNextWakeuptime(w, now, ct) == IF now < w THEN w ELSE now + ct - ((now - w) % ct)

-----------------------------------------------------------------------------
Init ==
    /\ pc = "check"
    /\ cfg \in Configs
    /\ stWakeup = [d \in Devices |-> 0] /\ skip = [d \in Devices |-> FALSE]
    /\ clock = 1 /\ wakeuptime = 1
    /\ addtime = 0 /\ noSkip = FALSE
    /\ caught = {} /\ remaining = 0
    /\ adjusts = 0 /\ signals = 0
    /\ due = [d \in Devices |-> 1] /\ adjusted = {} /\ wentBack = FALSE
    /\ mixed = (CheckTimeMin # 0)

\* A HUP makes main_worker() register the devices anew: their states are
\* fresh, wakeuptime is kept.
Reload ==
    /\ pc = "check"
    /\ "HUP" \in caught
    /\ caught' = caught \ {"HUP"}
    /\ cfg' \in Configs
    /\ stWakeup' = [d \in Devices |-> 0] /\ skip' = [d \in Devices |-> FALSE]
    /\ mixed' = (mixed \/ CheckTimeMin' # 0)
    /\ UNCHANGED << pc, wakeuptime, addtime, noSkip, remaining, clock, adjusts, signals,
                    due, adjusted, wentBack >>

CheckDevicesOnce ==
    /\ pc = "check"
    /\ "HUP" \notin caught
    /\ pc' = "busy"
    /\ adjusted' = {}
    /\ UNCHANGED << progVars, caught, remaining, clock, adjusts, signals, due, wentBack,
                    mixed >>

-----------------------------------------------------------------------------
(***************************************************************************)
(* The while loop of dosleep(), entered at time `now' with the values of   *)
(* wakeuptime, state.wakeuptime, addtime and no_skip: sleep once more, or  *)
(* leave and select the devices of the next cycle.                         *)
(***************************************************************************)
SetBack_Never(w, now, ct) == FALSE
SetBack(w, now, ct) == w > now + ct

StaysAsleep(w, add, now) == now < w + add /\ caught = {}

SleepOn(w, st, add, ns, now, ct) ==
    LET back == SetBack(w, now, ct)
        w2 == IF back THEN now + ct ELSE w
    IN  /\ wakeuptime' = w2
        /\ stWakeup' = IF back THEN [d \in Devices |-> 0] ELSE st
        /\ noSkip' = (ns \/ back)
        /\ addtime' = add
        /\ remaining' = w2 + add - now
        /\ pc' = "sleep"
        /\ UNCHANGED << skip, caught >>

\* A device is skipped if its time has not come.
Skips_Never(st, ns, now) == [d \in Devices |-> skip[d]]
Skips_Late(st, ns, now) == [d \in Devices |-> ~ns /\ now <= st[d]]
Skips(st, ns, now) == [d \in Devices |-> ~ns /\ now < st[d]]

\* A USR1 makes the cycle check every device.
AllForced == "USR1" \in caught

Leave(w, st, add, ns, now) ==
    LET all == ns \/ AllForced
    IN  /\ skip' = IF CheckTimeMin = 0 THEN skip ELSE Skips(st, all, now)
        /\ noSkip' = all
        /\ caught' = caught \ {"USR1"}
        /\ wakeuptime' = w /\ stWakeup' = st /\ addtime' = add
        /\ remaining' = 0
        /\ pc' = "check"

Loop(w, st, add, ns, now) ==
    \/ /\ StaysAsleep(w, add, now)
       /\ SleepOn(w, st, add, ns, now, Ct)
    \/ /\ ~StaysAsleep(w, add, now)
       /\ Leave(w, st, add, ns, now)

\* state.wakeuptime after the computation of the next wakeup times: a
\* skipped device keeps its time.
NextStWakeup(now) ==
    [d \in Devices |->
        IF skip[d] THEN stWakeup[d]
        ELSE CalcNextWakeuptime(IF stWakeup[d] # 0 THEN stWakeup[d] ELSE now,
                                now, Interval(d))]

\* dosleep(), up to the first sleep().  A common wakeup time that was left by a
\* configuration with longer intervals is due after the interval of -i.
Dosleep ==
    /\ pc = "busy"
    /\ IF CheckTimeMin = 0
       THEN LET w == CalcNextWakeuptime(wakeuptime, clock, checktime)
            IN  /\ Loop(w, stWakeup, 0, FALSE, clock)
                /\ due' = [d \in Devices |-> Least({w, clock + checktime})]
       ELSE LET st == NextStWakeup(clock)
            IN  /\ Loop(Least({st[d] : d \in Devices}), st, 0, FALSE, clock)
                /\ due' = st
    /\ UNCHANGED << cfg, clock, adjusts, signals, adjusted, wentBack, mixed >>

\* After a suspension the disks get time to spin up; a wakeup that would follow at
\* once is included.
AddTime(w, now, ct) ==
    LET add == now - w + SpinUp
        next == ct - (add % ct)
    IN  IF next <= SpinUp THEN add + next ELSE add

\* sleep() returns, because its time is over or because of a signal.
LeaveSleep ==
    /\ pc = "sleep"
    /\ remaining = 0 \/ caught # {}
    /\ LET late == addtime = 0 /\ clock > wakeuptime + TooLong
           add == IF late THEN AddTime(wakeuptime, clock, Ct) ELSE addtime
       IN  Loop(wakeuptime, stWakeup, add, noSkip, clock)
    /\ UNCHANGED << cfg, clock, adjusts, signals, histVars >>

-----------------------------------------------------------------------------
(***************************************************************************)
(* The environment.                                                        *)
(***************************************************************************)
\* One second passes while devices are checked or while smartd sleeps.
Tick ==
    /\ pc = "busy" \/ (pc = "sleep" /\ remaining > 0)
    /\ clock < MaxTime
    /\ clock' = clock + 1
    /\ remaining' = IF pc = "sleep" THEN remaining - 1 ELSE remaining
    /\ UNCHANGED << pc, progVars, caught, adjusts, signals, histVars >>

\* The clock jumps ahead: a suspended machine or an adjustment.
JumpForward ==
    /\ pc \in {"busy", "sleep"}
    /\ adjusts < MaxAdjust
    /\ adjusts' = adjusts + 1
    /\ clock' \in (clock + 1) .. MaxTime
    /\ adjusted' = adjusted \cup {"forward"}
    /\ UNCHANGED << pc, progVars, caught, remaining, signals, due, wentBack, mixed >>

JumpBack ==
    /\ pc \in {"busy", "sleep"}
    /\ adjusts < MaxAdjust
    /\ adjusts' = adjusts + 1
    /\ clock' \in 1 .. (clock - 1)
    /\ adjusted' = adjusted \cup {"back"}
    /\ wentBack' = TRUE
    /\ UNCHANGED << pc, progVars, caught, remaining, signals, due, mixed >>

Signal ==
    /\ signals < MaxSignals
    /\ signals' = signals + 1
    /\ \E s \in {"USR1", "HUP"} : caught' = caught \cup {s}
    /\ UNCHANGED << pc, progVars, remaining, clock, adjusts, histVars >>

Next == \/ Reload \/ CheckDevicesOnce \/ Dosleep \/ LeaveSleep
        \/ Tick \/ JumpForward \/ JumpBack \/ Signal

Spec == Init /\ [][Next]_vars

-----------------------------------------------------------------------------
(***************************************************************************)
(* Correctness.                                                            *)
(***************************************************************************)
\* Every variable of the schedule stays within its type; in particular
\* sleep() is never called with a negative number.
TypeOK ==
    /\ pc \in {"check", "busy", "sleep"}
    /\ cfg \in Configs
    /\ stWakeup \in [Devices -> Nat] /\ skip \in [Devices -> BOOLEAN]
    /\ wakeuptime \in Nat /\ addtime \in Nat /\ noSkip \in BOOLEAN
    /\ caught \in SUBSET {"USR1", "HUP"}
    /\ remaining \in Nat
    /\ clock \in Nat \ {0}
    /\ adjusts \in Nat /\ signals \in Nat
    /\ due \in [Devices -> Nat]
    /\ adjusted \in SUBSET {"forward", "back"} /\ wentBack \in BOOLEAN /\ mixed \in BOOLEAN

\* As long as nobody touches the clock, smartd sleeps until the first device
\* is due and not a second longer, whatever the intervals and however long
\* the last check took.
SleepsUntilFirstDue ==
    pc = "sleep" /\ adjusted = {} =>
        \A d \in Devices : clock + remaining <= due[d]

\* ... and never further ahead than one interval.
SleepsAtMostOneInterval ==
    pc = "sleep" /\ addtime = 0 => remaining <= Ct

\* After a suspension the check is delayed by the spin-up time, at most
\* doubled to meet the next regular wakeup, if the clock is not set back
\* meanwhile.
SpinUpDelayBounded ==
    pc = "sleep" /\ addtime # 0 /\ "back" \notin adjusted =>
        remaining <= 2 * SpinUp

\* What sleep() is called with: the parts above.
SleepBounded == SleepsUntilFirstDue /\ SleepsAtMostOneInterval /\ SpinUpDelayBounded

\* The check cycle that starts now.
Starts == pc # "check" /\ pc' = "check"

\* A device whose time has come is part of the cycle that starts, even if
\* the clock was adjusted on the way there.
DueIsChecked ==
    [][ Starts => \A d \in Devices : due'[d] <= clock => ~skip'[d] ]_vars

\* If all devices have intervals longer than the one of -i, no wakeup time is
\* within checktime_min, dosleep() believes that the clock has been set back,
\* and all devices are checked at the interval of -i: each of them early by
\* the difference, whatever "-c i=N" promises.
Capped == \A d \in Devices : cfg[d] > checktime
EarlyBy(d) == IF Capped THEN cfg[d] - checktime ELSE 0

\* Otherwise a device is checked ahead of its time only if somebody asked for
\* it with a signal, or the clock has been set back.
NotCheckedEarly ==
    [][ Starts /\ caught = {} /\ ~wentBack =>
            \A d \in Devices : ~skip'[d] => due'[d] <= clock + EarlyBy(d) ]_vars

\* After a USR1 every device is checked, due or not.
Usr1ChecksAll ==
    [][ Starts /\ "USR1" \in caught /\ "HUP" \notin caught =>
            \A d \in Devices : ~skip'[d] ]_vars

\* No check is left out, neither a due one nor a forced one.
CheckedWhenDue == DueIsChecked /\ Usr1ChecksAll

\* As long as no device has an interval of its own and the clock is not set
\* back, the wakeup times stay in phase with the start of smartd, however long
\* the checks take, and over signals, reloads and suspensions.
PhaseKept == ~mixed /\ ~wentBack => (wakeuptime - 1) % checktime = 0

=============================================================================
