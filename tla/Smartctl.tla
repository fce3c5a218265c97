------------------------------ MODULE Smartctl ------------------------------
(***************************************************************************)
(* What the functions behind smartctl have in common, ataPrintMain(),      *)
(* scsiPrintMain() and nvmePrintMain(): a run goes through the parts of    *)
(* the function in their order, and a failure goes through failuretest()   *)
(* of src/smartctl.cpp, or leaves bits in the exit status, or ends it.     *)
(***************************************************************************)
EXTENDS Integers, Sequences

CONSTANT Parts  \* the parts of the function

VARIABLES
    opts,
    pc,                     \* a part, or "stopped": returned early, "exit": exception
    failuretest_permissive, \* -T permissive: mandatory failures still overlooked
    permitted,              \* is_permissive() has overlooked what the part lacks
    returnval,              \* the bits of the exit status
    failed                  \* history: parts whose command has failed

After(part) == Parts[(CHOOSE i \in DOMAIN Parts : Parts[i] = part) + 1]

GoOnAt(part, status) ==
    /\ pc' = part /\ returnval' = status /\ permitted' = FALSE
    /\ UNCHANGED << failuretest_permissive, failed >>
GoOn == GoOnAt(After(pc), returnval)

\* failuretest() for an optional command: only -T conservative ends the run.
OptionalFails(what, status, part) ==
    /\ pc' = IF opts.conservative THEN "exit" ELSE part
    /\ returnval' = status /\ failed' = failed \cup what /\ permitted' = FALSE
    /\ UNCHANGED failuretest_permissive
Optional_NoBit(what) == OptionalFails(what, returnval, After(pc))
Optional(what) == OptionalFails(what, returnval \cup {"SMART"}, After(pc))

\* failuretest(MANDATORY_CMD, returnval|=bit)
Mandatory(what, bit) ==
    /\ returnval' = returnval \cup {bit}
    /\ failed' = failed \cup what /\ permitted' = FALSE
    /\ \/ failuretest_permissive > 0 /\ pc' = After(pc)
          /\ failuretest_permissive' = failuretest_permissive - 1
       \/ failuretest_permissive = 0 /\ pc' = "exit" /\ UNCHANGED failuretest_permissive

\* Failures without failuretest(): with bits, if any, that they leave.
FailsWith(bits) ==
    /\ pc' = After(pc) /\ returnval' = returnval \cup bits
    /\ failed' = failed \cup {pc} /\ permitted' = FALSE
    /\ UNCHANGED failuretest_permissive

\* A failure that ends the function.
StopsWith(bits) ==
    /\ pc' = "stopped" /\ returnval' = returnval \cup bits
    /\ failed' = failed \cup {pc} /\ permitted' = FALSE
    /\ UNCHANGED failuretest_permissive

\* Begins with the first part.
Begin ==
    /\ pc = Parts[1] /\ failuretest_permissive = opts.permissive /\ permitted = FALSE
    /\ returnval = {} /\ failed = {}
=============================================================================
