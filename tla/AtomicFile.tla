----------------------------- MODULE AtomicFile -----------------------------
(***************************************************************************)
(* What a program that reads a status file while another one rewrites it   *)
(* may rely on: there is no file, or there is one whole document, and a    *)
(* document is only replaced by one whose data are not older.              *)
(*                                                                         *)
(* The comment "Atomic replace" of write_dev_state_json() (src/smartd.cpp) *)
(* promises this for the JSON state file; StateFile implements it.         *)
(***************************************************************************)
EXTENDS Naturals

None == [data |-> 0, made |-> 0]     \* no file

\* A document has the data of one check of the device (numbered from 1) and
\* the time at which it was made (the number of the check cycle).
Documents == [data: Nat \ {0}, made: Nat \ {0}]

VARIABLE content

Init == content \in Documents \cup {None}

\* One step replaces the whole document.
Replace ==
    /\ content' \in Documents
    /\ content.data <= content'.data

Spec == Init /\ [][Replace]_content
=============================================================================
