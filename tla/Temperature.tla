---------------------------- MODULE Temperature -----------------------------
(***************************************************************************)
(* What smartd remembers of the temperature of a device and which warnings *)
(* a reading causes: CheckTemperature() (src/smartd.cpp).  A reading of 0, *)
(* or of 255 degrees, means that there is none.                            *)
(***************************************************************************)
EXTENDS Integers

CONSTANT MinDelay       \* time until the minimum is tracked: 29 minutes in the code
ASSUME MinDelayAssumption == MinDelay \in Nat \ {0}

Byte == 0 .. 255
Degrees == 0 .. 254     \* 0: none
Unset == 255

\* tempdiff, tempinfo and tempcrit of -W; 0 turns a report off.
LimitType == [diff: Byte, info: Byte, crit: Byte]
Monitors(lim) == lim.diff # 0 \/ lim.info # 0 \/ lim.crit # 0

\* The temperature last reported, the extremes, and the time at which the
\* tracking of the minimum begins (0: it has).
TempType == [temperature: Degrees, tempmin: Degrees, tempmax: Degrees, delay: Nat]
NoTemperature == [temperature |-> 0, tempmin |-> 0, tempmax |-> 0, delay |-> 0]

IsReading(c) == 0 < c /\ c < 255
Distance(a, b) == IF a < b THEN b - a ELSE a - b
Higher(a, b) == IF a < b THEN b ELSE a
Lower(a, b) == IF a < b THEN a ELSE b

\* The first reading after a start may be from a cold disk: one below the
\* recorded minimum is not yet taken for the new one.
First(t, c, now) ==
    [t EXCEPT !.temperature = c,
              !.tempmax = Higher(@, c),
              !.delay = IF t.tempmin = 0 \/ c < t.tempmin THEN now + MinDelay ELSE @]

\* The delay ends if its time is over or the disk is warmer than the minimum.
DelayIsOver_IfWarm(t, c, now) == t.tempmin # 0 /\ c > t.tempmin
DelayIsOver(t, c, now) == (t.tempmin # 0 /\ c > t.tempmin) \/ t.delay <= now
Delay(t, c, now) == IF t.delay # 0 /\ DelayIsOver(t, c, now) THEN 0 ELSE t.delay

\* The minimum to compare with.
MinBefore(t, c, now) ==
    IF t.delay # 0 /\ DelayIsOver(t, c, now) /\ t.tempmin = 0 THEN Unset ELSE t.tempmin

MinAfter(t, c, now) ==
    IF Delay(t, c, now) = 0 THEN Lower(c, MinBefore(t, c, now)) ELSE MinBefore(t, c, now)

NewMin(t, c, now) == MinAfter(t, c, now) # MinBefore(t, c, now)
NewMax(t, c) == t.tempmax < c

\* A change is reported if it is large or makes a new extreme.
IsReported(lim, t, c, now) ==
    /\ lim.diff # 0
    /\ \/ NewMin(t, c, now) /\ c # t.temperature
       \/ NewMax(t, c) /\ t.tempmax # 0
       \/ Distance(c, t.temperature) >= lim.diff

Later(lim, t, c, now) ==
    [temperature |-> IF IsReported(lim, t, c, now) THEN c ELSE t.temperature,
     tempmin |-> MinAfter(t, c, now),
     tempmax |-> Higher(t.tempmax, c),
     delay |-> Delay(t, c, now)]

CheckTemperature(lim, t, c, now) ==
    IF ~IsReading(c) THEN t
    ELSE IF t.temperature = 0 THEN First(t, c, now)
    ELSE Later(lim, t, c, now)

\* A new extreme is important enough to be saved at once.
SavesTemperature(lim, t, c, now) ==
    IsReading(c) /\ (NewMax(t, c) \/ (t.temperature # 0 /\ NewMin(t, c, now)))

\* A warning is due at the critical limit; its counter is reset below the
\* informal limit, or five degrees below the critical one.
IsCritical(lim, c) == IsReading(c) /\ lim.crit # 0 /\ c >= lim.crit
ResetLimit_NoGap(lim) == IF lim.info # 0 THEN lim.info ELSE lim.crit
ResetLimit(lim) == IF lim.info # 0 THEN lim.info ELSE (lim.crit - 5) % 256
IsNormal(lim, c) ==
    /\ IsReading(c) /\ lim.crit # 0 /\ c < lim.crit
    /\ ~(lim.info # 0 /\ c >= lim.info)
    /\ c < ResetLimit(lim)
=============================================================================
