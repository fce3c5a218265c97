---------------------------- MODULE MCNvmeCheck -----------------------------
(* Instances of NvmeCheck for TLC. *)
EXTENDS NvmeCheck

Off == [diff |-> 0, info |-> 0, crit |-> 0]
Basic == [freq |-> "once", lim |-> Off, features |-> {"smartcheck"}, state_file |-> TRUE]

\* -p -u -f with a disk that wears out
ValueConfigs ==
    {[Basic EXCEPT !.features = on, !.freq = f] :
        << on, f >> \in {<< {"prefail", "usage", "usagefailed"}, "always" >>,
                        << {"smartcheck", "usagefailed"}, "once" >>}}

\* -l error
ErrorConfigs ==
    {[Basic EXCEPT !.features = {"smartcheck", "errorlog"}, !.state_file = s] : s \in BOOLEAN}

\* -l selftest, -l selfteststs, -s
TestConfigs ==
    {[Basic EXCEPT !.features = on] : on \in {{"selftest"}, SelfTests \ {"selftest"}}}

\* -W 2,40,45 and -W 0,0,45
TempConfigs ==
    {[Basic EXCEPT !.lim = l, !.state_file = s] :
        << l, s >> \in {<< [diff |-> 2, info |-> 40, crit |-> 45], TRUE >>,
                       << [diff |-> 0, info |-> 0, crit |-> 45], FALSE >>}}

AllConfigs == ValueConfigs \cup ErrorConfigs \cup TestConfigs \cup TempConfigs
AllChanges ==
    [c \in AllConfigs |->
        CASE c \in ValueConfigs ->
                IF "smartcheck" \in c.features THEN {"wear", "warning"} ELSE {"wear", "spare"}
          [] c \in ErrorConfigs ->
                IF c.state_file THEN {"errors"} ELSE {"errors", "gone"}
          [] c \in TestConfigs -> {"selftests"}
          [] OTHER -> {"temperature"}]

\* No sensor, a cold disk, between the limits, too hot, and no reading at all.
AllKelvins == {0, 303, 315, 319, 600}
=============================================================================
