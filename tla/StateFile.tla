----------------------------- MODULE StateFile ------------------------------
(***************************************************************************)
(* The files smartd keeps about one device (src/smartd.cpp): the state     *)
(* file that carries its memory over a restart, the JSON state file other  *)
(* programs read, and the attribute log.                                   *)
(*                                                                         *)
(* write_dev_state() and write_dev_state_json() are taken apart into the   *)
(* system calls that change a directory or a file, because a crash of the  *)
(* process, and a reader of the JSON file, may come between any two.  A    *)
(* power failure is not modelled: nothing in the code calls fsync().       *)
(*                                                                         *)
(* The persistent state has NFields fields, written in their order, one    *)
(* line each; a field that is 0 has no line.  A file is represented by     *)
(* what read_dev_state() makes of its lines.  A line that was cut is bad,  *)
(* or it has lost the last digits of its number.                           *)
(***************************************************************************)
EXTENDS Integers, Sequences

CONSTANTS
    NFields,    \* fields of the persistent state
    MaxValue,   \* bound: the values of a field
    MaxCycles,  \* bound: check cycles
    MaxFaults,  \* bound: system calls that fail
    MaxCrashes  \* bound: crashes

ASSUME NFieldsAssumption == NFields \in Nat \ {0}
ASSUME BoundsAssumption ==
    /\ MaxValue \in Nat /\ MaxCycles \in Nat
    /\ MaxFaults \in Nat /\ MaxCrashes \in Nat

Fields == 1..NFields
Wrong == -1      \* a number that lost its last digits
States == [Fields -> Nat \cup {Wrong}]
Zero == [f \in Fields |-> 0]

Absent == [there |-> FALSE, data |-> Zero, bad |-> FALSE]
Complete(s) == [there |-> TRUE, data |-> s, bad |-> FALSE]

VARIABLES
    pc,             \* where the process is, "down" if there is none
    then,           \* what follows the state file: json, read (reload), down (exit)
    writeAlways,    \* write_states_always of main_worker()
    mem,            \* the persistent state of the device in memory
    mustWrite,
    removed,
    jsonDirty,
    attrlogValid,   \* 0, or the cycle whose attributes are to be logged
    memCycle,       \* the cycle of the last complete check
    \* on disk
    file, bak,      \* the state file and the one named with a "~"
    jfile, jtmp,    \* the JSON file and the one named with a "~"
    attrlog,        \* the attribute log: the cycle of each line
    \* bounds
    cycle, faults, crashes,
    \* history, read by no action of the program
    saved,          \* the last state that was written completely
    begun,          \* calls of write_dev_state() begun since then, up to 2
    overwritten,    \* one of them has written over the file, not beside its backup
    jsonFailed      \* a document of these data could not be published

memVars == << mem, mustWrite, removed, jsonDirty, attrlogValid, memCycle >>
stateFiles == << file, bak, saved, begun, overwritten >>
jsonFiles == << jfile, jtmp, jsonFailed >>
bounds == << cycle, faults, crashes >>
vars == << pc, then, writeAlways, memVars, stateFiles, jsonFiles, attrlog, bounds >>

\* What a reader of the JSON state file may rely on.
JsonFile == INSTANCE AtomicFile WITH content <- jfile

NoFile == JsonFile!None
Part == [data |-> 0, made |-> 1]        \* a document that is not complete
Document == [data |-> memCycle, made |-> cycle]

Locations == {"check", "save", "unlink", "rename", "create", "lines", "saved",
              "jcreate", "jwrite", "jreplace", "attrlog", "sleep", "down"}

-----------------------------------------------------------------------------
(***************************************************************************)
(* Reading and writing the state file.                                     *)
(***************************************************************************)
\* What a file makes of the state of the device when that is registered: bad
\* lines next to good ones are ignored, bad lines alone are an error.
ReadDevState_AllGood(c) == IF ~c.there \/ \E f \in Fields : c.data[f] = 0 THEN Zero ELSE c.data
ReadDevState(c) ==
    IF c.there /\ (c.bad => \E f \in Fields : c.data[f] # 0) THEN c.data ELSE Zero

\* What a file may hold when not all lines of s are in it: the lines of the
\* first fields, and of the next one a part that is bad, or a part that reads
\* as another number.
Cut(s, k, v) == [f \in Fields |-> IF f < k THEN s[f] ELSE IF f = k THEN v ELSE 0]
Prefixes(s) ==
    LET Written == {f \in Fields : s[f] # 0} IN
    {Complete(Zero)} \cup {Complete(Cut(s, k, s[k])) : k \in Written}
                     \cup {Complete(Cut(s, k, Wrong)) : k \in Written}
                     \cup {[Complete(Cut(s, k, 0)) EXCEPT !.bad = TRUE] : k \in Written}

Fault == faults < MaxFaults /\ faults' = faults + 1

\* write_all_dev_states() for this device.
Save ==
    /\ pc = "save"
    /\ pc' = IF writeAlways \/ mustWrite THEN "unlink" ELSE "saved"
    /\ UNCHANGED << then, writeAlways, memVars, stateFiles, jsonFiles, attrlog, bounds >>

\* Nobody asks whether this and the next step worked.
UnlinkBackup ==
    /\ pc = "unlink"
    /\ \/ bak' = Absent /\ UNCHANGED faults
       \/ bak.there /\ Fault /\ UNCHANGED bak
    /\ begun' = IF begun = 0 THEN 1 ELSE 2
    /\ pc' = "rename"
    /\ UNCHANGED << then, writeAlways, memVars, file, saved, overwritten, jsonFiles, attrlog,
                    cycle, crashes >>

\* A backup that is still there is replaced.  With no file, rename() fails.
Backup_None == bak
Backup == IF file.there THEN file ELSE bak

RenameToBackup ==
    /\ pc = "rename"
    /\ \/ bak' = Backup /\ file' = Absent /\ UNCHANGED faults
       \/ file.there /\ Fault /\ UNCHANGED << file, bak >>
    /\ pc' = "create"
    /\ UNCHANGED << then, writeAlways, memVars, saved, begun, overwritten, jsonFiles, attrlog,
                    cycle, crashes >>

\* A file that is still there is emptied.  If it cannot be created, must_write
\* stays set.
CreateFile ==
    /\ pc = "create"
    /\ \/ file' = Complete(Zero) /\ pc' = "lines" /\ overwritten' = (overwritten \/ file.there)
          /\ UNCHANGED faults
       \/ Fault /\ pc' = "saved" /\ UNCHANGED << file, overwritten >>
    /\ UNCHANGED << then, writeAlways, memVars, bak, saved, begun, jsonFiles, attrlog,
                    cycle, crashes >>

\* The lines are written when the file is closed.  Nobody asks whether that
\* worked: on a full disk a part of them is in the file.
WriteLines ==
    /\ pc = "lines"
    /\ \/ file' = Complete(mem) /\ saved' = mem /\ begun' = 0 /\ overwritten' = FALSE
          /\ UNCHANGED faults
       \/ Fault /\ file' \in Prefixes(mem) /\ UNCHANGED << saved, begun, overwritten >>
    /\ mustWrite' = FALSE
    /\ pc' = "saved"
    /\ UNCHANGED << then, writeAlways, mem, removed, jsonDirty, attrlogValid, memCycle, bak,
                    jsonFiles, attrlog, cycle, crashes >>

-----------------------------------------------------------------------------
(***************************************************************************)
(* The life of the process.                                                *)
(***************************************************************************)
Init ==
    /\ pc = "down" /\ then = "json" /\ writeAlways = TRUE
    /\ mem = Zero /\ mustWrite = FALSE /\ removed = FALSE
    /\ jsonDirty = FALSE /\ attrlogValid = 0 /\ memCycle = 0
    /\ file = Absent /\ bak = Absent /\ saved = Zero /\ begun = 0
    /\ overwritten = FALSE
    /\ jfile = NoFile /\ jtmp = NoFile /\ jsonFailed = FALSE
    /\ attrlog = << >>
    /\ cycle = 0 /\ faults = 0 /\ crashes = 0

\* The device is registered with a fresh state that is read from its file, if
\* that can be opened, and a cycle that writes all state files follows.
Register ==
    /\ cycle < MaxCycles
    /\ cycle' = cycle + 1
    /\ \/ mem' = ReadDevState(file) /\ UNCHANGED faults
       \/ file.there /\ Fault /\ mem' = Zero
    /\ mustWrite' = FALSE /\ removed' = FALSE /\ jsonDirty' = FALSE
    /\ attrlogValid' = 0 /\ memCycle' = 0 /\ jsonFailed' = FALSE
    /\ then' = "json" /\ writeAlways' = TRUE
    /\ pc' = "check"
    /\ UNCHANGED << stateFiles, jfile, jtmp, attrlog, crashes >>

Start == pc = "down" /\ Register
Reload == pc = "saved" /\ then = "read" /\ Register

\* HUP, or an exit signal: the state is written before what follows.
SaveThen(next) ==
    /\ pc = "sleep"
    /\ then' = next
    /\ writeAlways' = TRUE
    /\ pc' = "save"
    /\ UNCHANGED << memVars, stateFiles, jsonFiles, attrlog, bounds >>

Exit ==
    /\ pc = "saved" /\ then = "down"
    /\ pc' = "down"
    /\ UNCHANGED << then, writeAlways, memVars, stateFiles, jsonFiles, attrlog, bounds >>

\* A part of the lines may be in the file if the process dies while it writes.
Crash ==
    /\ pc # "down"
    /\ crashes < MaxCrashes
    /\ crashes' = crashes + 1
    /\ pc' = "down"
    /\ file' \in IF pc = "lines" THEN Prefixes(mem) ELSE {file}
    /\ UNCHANGED << then, writeAlways, memVars, bak, saved, begun, overwritten, jsonFiles, attrlog,
                    cycle, faults >>

\* The next cycle, of its own (the state is written if it must be) or forced
\* by USR1.
Wakeup(forced) ==
    /\ pc = "sleep"
    /\ cycle < MaxCycles
    /\ cycle' = cycle + 1
    /\ writeAlways' = forced
    /\ pc' = "check"
    /\ UNCHANGED << then, memVars, stateFiles, jsonFiles, attrlog, faults, crashes >>

\* It is not yet time to check this device.
CheckSkipped ==
    /\ pc = "check"
    /\ ~writeAlways
    /\ pc' = "save"
    /\ UNCHANGED << then, writeAlways, memVars, stateFiles, jsonFiles, attrlog, bounds >>

\* A check may change a field, and may regard that as important.
Change ==
    \/ UNCHANGED << mem, mustWrite >>
    \/ /\ \E f \in Fields : mem[f] \in 0..(MaxValue - 1) /\ mem' = [mem EXCEPT ![f] = @ + 1]
       /\ mustWrite' \in {mustWrite, TRUE}

\* Only a complete check leaves new data for the JSON file.
Dirty(complete) == complete

\* The device is removed, in a low-power mode or does not answer.
CheckFails ==
    /\ pc = "check"
    /\ Change
    /\ jsonDirty' = Dirty(FALSE)
    /\ jsonFailed' = FALSE
    /\ removed' \in BOOLEAN
    /\ pc' = "save"
    /\ UNCHANGED << then, writeAlways, attrlogValid, memCycle, stateFiles, jfile, jtmp,
                    attrlog, bounds >>

CheckSucceeds ==
    /\ pc = "check"
    /\ Change
    /\ jsonDirty' = Dirty(TRUE)
    /\ jsonFailed' = FALSE
    /\ removed' = FALSE
    /\ memCycle' = cycle
    /\ attrlogValid' \in {attrlogValid, cycle}
    /\ pc' = "save"
    /\ UNCHANGED << then, writeAlways, stateFiles, jfile, jtmp, attrlog, bounds >>

-----------------------------------------------------------------------------
(***************************************************************************)
(* The JSON file and the attribute log.                                    *)
(***************************************************************************)
\* write_all_dev_states_json() for this device.
MayPublish_IfMust == ~removed /\ jsonDirty /\ mustWrite
MayPublish == ~removed /\ jsonDirty

SaveJson ==
    /\ pc = "saved" /\ then = "json"
    /\ pc' = IF MayPublish THEN "jcreate" ELSE "attrlog"
    /\ UNCHANGED << then, writeAlways, memVars, stateFiles, jsonFiles, attrlog, bounds >>

\* A step of write_dev_state_json() fails: the temporary file is removed, which
\* may fail too, and json_dirty stays set.
JsonFails ==
    /\ Fault
    /\ jsonFailed' = TRUE
    /\ pc' = "attrlog"
    /\ UNCHANGED << jfile, jsonDirty >>

CreateJson ==
    /\ pc = "jcreate"
    /\ \/ jtmp' = Part /\ pc' = "jwrite" /\ UNCHANGED << faults, jfile, jsonDirty, jsonFailed >>
       \/ JsonFails /\ UNCHANGED jtmp
    /\ UNCHANGED << then, writeAlways, mem, mustWrite, removed, attrlogValid, memCycle,
                    stateFiles, attrlog, cycle, crashes >>

\* The document is written, and the file closed; here an error is noticed.
WriteFails_Unnoticed ==
    Fault /\ pc' = "jreplace" /\ UNCHANGED << jtmp, jfile, jsonDirty, jsonFailed >>
WriteFails == JsonFails /\ jtmp' \in {NoFile, Part}

WriteJson ==
    /\ pc = "jwrite"
    /\ \/ jtmp' = Document /\ pc' = "jreplace"
          /\ UNCHANGED << faults, jfile, jsonDirty, jsonFailed >>
       \/ WriteFails
    /\ UNCHANGED << then, writeAlways, mem, mustWrite, removed, attrlogValid, memCycle,
                    stateFiles, attrlog, cycle, crashes >>

ReplaceJson ==
    /\ pc = "jreplace"
    /\ \/ jfile' = jtmp /\ jtmp' = NoFile /\ jsonDirty' = FALSE /\ jsonFailed' = FALSE
          /\ pc' = "attrlog" /\ UNCHANGED faults
       \/ JsonFails /\ jtmp' \in {NoFile, jtmp}
    /\ UNCHANGED << then, writeAlways, mem, mustWrite, removed, attrlogValid, memCycle,
                    stateFiles, attrlog, cycle, crashes >>

\* attrlog_valid is reset whether the line could be written or not.
Logged == 0

WriteAttrlog ==
    /\ pc = "attrlog"
    /\ \/ attrlogValid = 0 /\ UNCHANGED << attrlog, faults >>
       \/ attrlogValid # 0 /\ attrlog' = Append(attrlog, attrlogValid) /\ UNCHANGED faults
       \/ attrlogValid # 0 /\ Fault /\ UNCHANGED attrlog
    /\ attrlogValid' = Logged
    /\ pc' = "sleep"
    /\ UNCHANGED << then, writeAlways, mem, mustWrite, removed, jsonDirty, memCycle,
                    stateFiles, jsonFiles, cycle, crashes >>

Next ==
    \/ Start \/ Reload \/ SaveThen("read") \/ SaveThen("down") \/ Exit \/ Crash
    \/ Wakeup(TRUE) \/ Wakeup(FALSE)
    \/ CheckSkipped \/ CheckFails \/ CheckSucceeds
    \/ Save \/ UnlinkBackup \/ RenameToBackup \/ CreateFile \/ WriteLines
    \/ SaveJson \/ CreateJson \/ WriteJson \/ ReplaceJson
    \/ WriteAttrlog

Spec == Init /\ [][Next]_vars

-----------------------------------------------------------------------------
(***************************************************************************)
(* Properties.                                                             *)
(***************************************************************************)

\* Wherever the first write after a complete one is interrupted, whichever of its calls
\* fail, the state file or its backup still holds the last complete state.  (A second
\* attempt deletes the backup: this is all there is.)  The exception: rename() fails and
\* fopen() does not, so that the one complete copy is emptied before it is written anew.
OneCopyLeft ==
    begun <= 1 /\ saved # Zero /\ ~overwritten => Complete(saved) \in {file, bak}

\* A start or a reload that can read the file finds what was last written, unless a
\* write was cut off or failed since: no crash outside write_dev_state() loses anything.
NothingForgotten ==
    [][pc' = "check" /\ pc \in {"down", "saved"} /\ begun = 0 /\ UNCHANGED faults
        => mem' = saved]_vars

\* A reader of the JSON state file sees whole documents, never older ones.
JsonFileAtomic == JsonFile!Spec

\* A check that went through is published before smartd sleeps, with the time
\* of the check, unless a system call failed.
CheckPublished ==
    pc = "sleep" /\ memCycle = cycle /\ ~jsonFailed =>
        jfile = Document

\* Old data get a new time only if publishing them had failed before.
StaleOnlyAfterFailure ==
    [][jfile' # jfile => jfile'.made = jfile'.data \/ jsonFailed]_vars

\* The attributes of a check are logged at most once, in their order.
LoggedOnce ==
    \A i, j \in DOMAIN attrlog : i < j => attrlog[i] < attrlog[j]

\* What others read of a check: the JSON file is as new as the last check and as its
\* own time says, and the attribute log has each check once.
OutputFilesFresh == [](CheckPublished /\ LoggedOnce) /\ StaleOnlyAfterFailure

=============================================================================
