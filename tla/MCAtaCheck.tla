----------------------------- MODULE MCAtaCheck -----------------------------
(* Instances of AtaCheck for TLC. *)
EXTENDS AtaCheck

NoPending == [t \in PendingTypes |-> "off"]
Basic == [mail |-> TRUE, freq |-> "once", emailtest |-> FALSE, removable |-> FALSE,
          powermode |-> 0, powerskipmax |-> 0, features |-> {"smartcheck"},
          pending |-> NoPending, state_file |-> FALSE]

\* -n MODE,N of a fixed and of a removable disk
PowerConfigs ==
    {[Basic EXCEPT !.powermode = mode, !.powerskipmax = n, !.removable = r] :
        mode \in 1 .. 3, n \in 0 .. 1, r \in BOOLEAN}

\* Pending sectors reported at each check or when there are more of them, with
\* and without a state file
MailConfigs ==
    {[Basic EXCEPT !.freq = f, !.emailtest = (f = "daily"), !.state_file = s,
                   !.features = on \cup {"attributes"},
                   !.pending = [NoPending EXCEPT !["CurrentPendingSector"] = p]] :
        << f, s, p, on >> \in {<< "once", TRUE, "increase", {"smartcheck"} >>,
                              << "once", FALSE, "each", {"selftest"} >>,
                              << "daily", TRUE, "each", {"smartcheck"} >>}}

\* The error logs and the self-test log
CountConfigs ==
    {[Basic EXCEPT !.features = on, !.state_file = s] :
        on \in {ErrorLogs, {"errorlog", "selftest"}, {"selftest"}}, s \in BOOLEAN}

AllConfigs == PowerConfigs \cup MailConfigs \cup CountConfigs

\* What changes about the disk under these settings.
AllChanges ==
    [c \in AllConfigs |->
        CASE c \in PowerConfigs -> {"power", "gone"}
          [] c \in MailConfigs -> {"gone", "pending"} \cup
                (IF "smartcheck" \in c.features THEN {"failing"} ELSE {"selftests"})
          [] OTHER -> (IF c.features \cap ErrorLogs # {} THEN {"errors"} ELSE {}) \cup
                      (IF "selftest" \in c.features THEN {"selftests"} ELSE {})]

=============================================================================
