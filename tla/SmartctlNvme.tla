---------------------------- MODULE SmartctlNvme ----------------------------
(***************************************************************************)
(* One run of smartctl on an NVMe device: nvmePrintMain() of               *)
(* src/nvmeprint.cpp.  There is no failuretest() here: nearly every        *)
(* failure ends the run.  The records of its logs are only printed.        *)
(***************************************************************************)
EXTENDS Integers, Sequences, SequencesExt

CONSTANTS
    OptionSets, \* the options a run may have, of OptionType
    Devices     \* the devices it may be given, of DeviceType

Parts == << "controller", "namespace", "health", "error", "selftest", "page", "test", "done" >>

\* "error_one" is -l error,1.
Switches == {"info", "status", "attributes", "error", "error_one", "selftest", "page"}
\* -T is parsed, but it means nothing here.
OptionType == [on: SUBSET Switches, permissive: Nat, test: {"none", "self", "abort"}]
\* namespaces is that of the controller; a device may stand for all of them.  missing:
\* a single entry in the error log is taken for a log that is not there.
DeviceType == [broadcast: BOOLEAN, namespaces: 0 .. 2, warning: BOOLEAN, missing: BOOLEAN,
               selftests: BOOLEAN, testing: BOOLEAN]

VARIABLES
    opts, pc, failuretest_permissive, permitted, returnval, failed, \* as in Smartctl
    device,
    running,    \* the self-test log has told of a running test
    started     \* history: the test command has been accepted

INSTANCE Smartctl

given == << opts, device >>
vars == << given, pc, failuretest_permissive, permitted, returnval, failed, running, started >>

Init ==
    /\ opts \in OptionSets /\ device \in Devices
    /\ Begin
    /\ running = FALSE /\ started = FALSE

Chosen(switches) == opts.on \cap switches # {}
NothingToDo == opts.on = {} /\ opts.test = "none"

Wanted(part) ==
    CASE part = "namespace" ->
             "info" \in opts.on /\ (device.broadcast => device.namespaces = 1)
      [] part = "health" -> Chosen({"status", "attributes"})
      [] part = "error" -> Chosen({"error", "error_one"})
                           /\ (device.missing => "error_one" \in opts.on)
      [] part = "selftest" -> ("selftest" \in opts.on \/ opts.test # "none") /\ device.selftests
      [] part = "test" -> opts.test # "none" /\ device.selftests
      [] OTHER -> part \in opts.on

ReadController ==
    /\ pc = "controller"
    /\ \/ NothingToDo /\ GoOnAt("stopped", {})
       \/ ~NothingToDo /\ (GoOn \/ StopsWith({"ID"}))
    /\ UNCHANGED << given, running, started >>

\* The size of the only namespace may be missing.
ReadNamespace ==
    /\ pc = "namespace"
    /\ \/ GoOn
       \/ Wanted(pc) /\ device.broadcast /\ FailsWith({})
       \/ Wanted(pc) /\ ~device.broadcast /\ StopsWith({"ID"})
    /\ UNCHANGED << given, running, started >>

CheckHealth ==
    /\ pc = "health"
    /\ \/ LET warned == Wanted(pc) /\ "status" \in opts.on /\ device.warning
          IN  GoOnAt(After(pc), returnval \cup (IF warned THEN {"STATUS"} ELSE {}))
       \/ Wanted(pc) /\ StopsWith({"SMART"})
    /\ UNCHANGED << given, running, started >>

\* A part of the log, or of the page, is enough.
ReadLog ==
    /\ pc \in {"error", "page"}
    /\ GoOn \/ (Wanted(pc) /\ (FailsWith({}) \/ StopsWith({"SMART"})))
    /\ UNCHANGED << given, running, started >>

ReadSelfTestLog ==
    /\ pc = "selftest"
    /\ \/ GoOn /\ running' = (Wanted(pc) /\ device.testing)
       \/ Wanted(pc) /\ StopsWith({"SMART"}) /\ UNCHANGED running
    /\ UNCHANGED << given, started >>

StartTest ==
    /\ pc = "test"
    /\ LET refused == Wanted(pc) /\ running /\ opts.test # "abort"
       IN  \/ ~refused /\ GoOn
           \/ refused /\ GoOnAt(After(pc), returnval \cup {"SMART"})
           \/ Wanted(pc) /\ ~refused /\ StopsWith({"SMART"})
    /\ started' = (Wanted(pc) /\ returnval' = returnval)
    /\ UNCHANGED << given, running >>

Next ==
    \/ ReadController \/ ReadNamespace \/ CheckHealth \/ ReadLog \/ ReadSelfTestLog \/ StartTest

-----------------------------------------------------------------------------
(***************************************************************************)
(* Properties, as in SmartctlAta.                                          *)
(***************************************************************************)

\* Exit status bits 1 and 2: a run that ends early has its bit, and so has one that has
\* not started the test it was asked for, unless the device has no self-tests.
FailureReported ==
    /\ pc = "stopped" /\ ~NothingToDo => returnval \cap {"ID", "SMART"} # {}
    /\ pc = "done" /\ opts.test # "none" /\ device.selftests
       => started \/ "SMART" \in returnval

\* -H: a run that ends without bits 2 and 3 has read that there is no critical warning.
ZeroMeansHealthy ==
    pc = "done" /\ "status" \in opts.on /\ returnval \cap {"SMART", "STATUS"} = {}
    => ~device.warning

\* A self-test that is running is not aborted by a new one, and a log that could not be
\* read at all ends the run.
NothingSentAfter ==
    /\ started /\ opts.test # "abort" => ~device.testing
    /\ pc = "done" => failed \subseteq {"namespace", "error", "page"}
=============================================================================
