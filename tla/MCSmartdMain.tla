---------------------------- MODULE MCSmartdMain ----------------------------
(* Instances of SmartdMain for TLC. *)
EXTENDS SmartdMain

CONSTANTS d1, d2    \* the disks, model values

Good(listed, removable, scan) ==
    [error |-> "none", listed |-> listed, removable |-> removable, scan |-> scan]
Faulty(e) == [error |-> e, listed |-> {}, removable |-> FALSE, scan |-> FALSE]

MCDevices == {d1, d2}
OneDevice == {d1}

\* Every kind of file: mandatory, removable and scanned devices, and errors.
AllConfs == {Good({d1}, FALSE, FALSE), Good({d1, d2}, TRUE, FALSE),
             Good({d1}, FALSE, TRUE)} \cup {Faulty(e) : e \in ConfErrors}
FewConfs == {Good({d1}, FALSE, FALSE), Faulty("syntax")}

Opt(q, n, dbg, s, p) ==
    [quit |-> q, nodev0 |-> n, debug |-> dbg, statePath |-> s, pidPath |-> p]

\* Every exit mode once, the daemon with all files, the debug mode without.
AllOptions ==
    {Opt(q, FALSE, FALSE, TRUE, TRUE) : q \in {"nodev", "nodevstartup", "never", "errors"}}
    \cup {Opt(q, FALSE, TRUE, TRUE, FALSE) : q \in {"onecheck", "showtests", "nodev"}}
    \cup {Opt("nodev", TRUE, FALSE, TRUE, TRUE)}
DaemonOptions == {Opt("nodev", FALSE, FALSE, TRUE, TRUE)}

=============================================================================
