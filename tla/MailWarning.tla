---------------------------- MODULE MailWarning ----------------------------
(***************************************************************************)
(* When smartd sends a warning mail and when it repeats one: the book-     *)
(* keeping of MailWarning() and reset_warning_mail() (src/smartd.cpp) for  *)
(* one type of warning of one device.  Time is counted in days.  How the   *)
(* mail gets out (the script, its output, its exit status) has no effect   *)
(* on the bookkeeping: a mail that could not be sent counts as sent.       *)
(***************************************************************************)
EXTENDS Integers

CONSTANT Day            \* the length of a day, 24 * 3600 seconds in the code
ASSUME DayAssumption == Day \in Nat \ {0}

WarningTypes == {"EmailTest", "Health", "Usage", "SelfTest", "ErrorCount",
                 "FailedHealthCheck", "FailedReadSmartData", "FailedReadSmartErrorLog",
                 "FailedReadSmartSelfTestLog", "FailedOpenDevice",
                 "CurrentPendingSector", "OfflineUncorrectableSector", "Temperature"}

\* -M once, always, daily and diminishing.
Freqs == {"once", "always", "daily", "diminishing"}

MailInfo == [logged: Nat, firstsent: Nat, lastsent: Nat]
NoMail == [logged |-> 0, firstsent |-> 0, lastsent |-> 0]

\* 1 << n, for n up to 5
Shifted(n) == <<1, 2, 4, 8, 16, 32>>[n + 1]
Capped(n) == IF n <= 5 THEN n ELSE 5

\* The interval announced with the mail to be sent (SMARTD_NEXTDAYS); -1: no
\* reminder will follow.
NextDays(mail, freq, type) ==
    IF type = "EmailTest" \/ freq = "once" THEN -1
    ELSE IF freq = "always" THEN 0
    ELSE IF freq = "daily" THEN 1
    ELSE Shifted(Capped(mail.logged))

\* The interval that has to pass since the last mail.
Days(mail, freq, type) ==
    IF type = "EmailTest" \/ freq # "diminishing" THEN NextDays(mail, freq, type)
    ELSE IF mail.logged <= 5 THEN Shifted(mail.logged) \div 2
    ELSE Shifted(5)

IsDue(mail, freq, type, now) ==
    \/ mail.logged = 0
    \/ /\ Days(mail, freq, type) >= 0
       /\ Days(mail, freq, type) > 0 => now >= mail.lastsent + Days(mail, freq, type) * Day

Sent(mail, now) ==
    [logged |-> mail.logged + 1,
     firstsent |-> IF mail.logged = 0 THEN now ELSE mail.firstsent,
     lastsent |-> now]

=============================================================================
