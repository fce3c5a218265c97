-------------------------- MODULE StateFile_proofs --------------------------
(***************************************************************************)
(* Proofs about StateFile, for any number of fields and any bounds: the    *)
(* JSON state file implements AtomicFile, the first write after a complete *)
(* one keeps a copy of it, and a start finds what was written last.        *)
(***************************************************************************)
EXTENDS StateFile, TLAPS

USE NFieldsAssumption, BoundsAssumption

-----------------------------------------------------------------------------
(***************************************************************************)
(* The JSON file.  A document on its way to the file is complete before it *)
(* is put in place, and has data that are newer than what the file has.    *)
(***************************************************************************)
Cycles ==
    /\ cycle \in Nat /\ memCycle \in Nat
    /\ memCycle <= cycle
    /\ pc # "down" => cycle # 0

Dated ==
    /\ jfile \in JsonFile!Documents \cup {NoFile}
    /\ jfile.data <= cycle
    /\ jsonDirty => memCycle # 0 /\ jfile.data <= memCycle

Ready ==
    /\ pc \in {"jcreate", "jwrite", "jreplace"} => jsonDirty
    /\ pc = "jreplace" => jtmp = Document

JInv == Cycles /\ Dated /\ Ready

THEOREM JInvInit == Init => JInv
BY DEF Init, JInv, Cycles, Dated, Ready, NoFile, JsonFile!None

\* A step that starts no cycle and leaves the check data and the JSON files
\* alone keeps the invariant, wherever it goes but into the JSON code.
LEMMA JsonUntouched ==
    ASSUME JInv, pc' \notin {"jcreate", "jwrite", "jreplace"}, pc # "down",
           UNCHANGED << cycle, memCycle, jsonDirty, jfile >>
    PROVE  JInv'
BY DEF JInv, Cycles, Dated, Ready

\* A step that starts a cycle.
LEMMA NextCycle ==
    ASSUME NEW c \in Nat, cycle = c, cycle' = c + 1, JInv, pc' = "check",
           memCycle' \in {0, memCycle}, UNCHANGED jfile,
           jsonDirty' => jsonDirty /\ memCycle' = memCycle
    PROVE  JInv'
<1>1. jfile.data \in Nat
  BY DEF JInv, Dated, NoFile, JsonFile!None, JsonFile!Documents
<1>2. Cycles'
  BY DEF JInv, Cycles
<1>3. Dated'
  BY <1>1 DEF JInv, Cycles, Dated
<1>4. Ready'
  BY DEF JInv, Ready
<1> QED BY <1>2, <1>3, <1>4 DEF JInv

LEMMA JInvNext == JInv /\ [Next]_vars => JInv'
<1> SUFFICES ASSUME JInv, [Next]_vars PROVE JInv'
  OBVIOUS
<1> USE DEF memVars, stateFiles, jsonFiles, bounds
<1>1. CASE Start \/ Reload
  BY <1>1, NextCycle DEF Start, Reload, Register, JInv, Cycles
<1>2. CASE SaveThen("read") \/ SaveThen("down")
  BY <1>2, JsonUntouched DEF SaveThen
<1>3. CASE Exit \/ Crash
  BY <1>3 DEF Exit, Crash, JInv, Cycles, Dated, Ready
<1>4. CASE Wakeup(TRUE) \/ Wakeup(FALSE)
  BY <1>4, NextCycle DEF Wakeup, JInv, Cycles
<1>5. CASE CheckSkipped \/ Save \/ UnlinkBackup \/ RenameToBackup
  BY <1>5, JsonUntouched DEF CheckSkipped, Save, UnlinkBackup, RenameToBackup
<1>6. CASE CheckFails \/ CheckSucceeds
  <2>1. CASE CheckFails
    BY <1>6, <2>1 DEF CheckFails, JInv, Cycles, Dated, Ready, Dirty
  <2>2. CASE CheckSucceeds
    BY <1>6, <2>2 DEF CheckSucceeds, JInv, Cycles, Dated, Ready, Dirty
  <2> QED BY <1>6, <2>1, <2>2
<1>7. CASE CreateFile \/ WriteLines
  BY <1>7, JsonUntouched DEF CreateFile, WriteLines
<1>8. CASE SaveJson
  BY <1>8 DEF SaveJson, MayPublish, JInv, Cycles, Dated, Ready, Document
<1>9. CASE CreateJson
  BY <1>9 DEF CreateJson, JsonFails, JInv, Cycles, Dated, Ready, Document
<1>10. CASE WriteJson
  BY <1>10 DEF WriteJson, WriteFails, JsonFails, JInv, Cycles, Dated, Ready, Document
<1>11. CASE ReplaceJson
  <2>1. jsonDirty /\ jtmp = Document
    BY <1>11 DEF ReplaceJson, JInv, Ready
  <2>2. Document \in JsonFile!Documents /\ Document.data = memCycle
    BY <2>1, <1>11 DEF ReplaceJson, JInv, Cycles, Dated, Document, JsonFile!Documents
  <2> QED
    BY <1>11, <2>1, <2>2 DEF ReplaceJson, JsonFails, JInv, Cycles, Dated, Ready
<1>12. CASE WriteAttrlog
  BY <1>12, JsonUntouched DEF WriteAttrlog
<1>13. CASE UNCHANGED vars
  BY <1>13 DEF vars, JInv, Cycles, Dated, Ready, Document
<1> QED
  BY <1>1, <1>2, <1>3, <1>4, <1>5, <1>6, <1>7, <1>8, <1>9, <1>10, <1>11, <1>12, <1>13 DEF Next

\* Every other step leaves the JSON file alone, and this one puts a whole
\* document with data that are not older in its place.
LEMMA JsonStep == JInv /\ [Next]_vars => [JsonFile!Replace]_jfile
<1> SUFFICES ASSUME JInv, Next, jfile' # jfile PROVE JsonFile!Replace
  BY DEF vars, jsonFiles
<1> USE DEF memVars, stateFiles, jsonFiles, bounds
<1>1. ReplaceJson
  BY DEF Next, Start, Reload, Register, SaveThen, Exit, Crash, Wakeup, CheckSkipped, CheckFails,
         CheckSucceeds, Save, UnlinkBackup, RenameToBackup, CreateFile, WriteLines, SaveJson,
         CreateJson, JsonFails, WriteJson, WriteFails, WriteAttrlog
<1>2. jsonDirty /\ jfile' = Document
  BY <1>1 DEF ReplaceJson, JsonFails, JInv, Ready
<1>3. Document \in JsonFile!Documents /\ Document.data = memCycle
  BY <1>1, <1>2 DEF ReplaceJson, JInv, Cycles, Dated, Document, JsonFile!Documents
<1> QED
  BY <1>2, <1>3 DEF JInv, Dated, JsonFile!Replace

\* write_dev_state_json() implements the atomic replacement its comment
\* promises: at any time, a crash or a failure of any step included, a reader
\* of the JSON state file finds a whole document, never older than one before.
THEOREM JsonFileIsAtomic == Spec => JsonFileAtomic
<1>1. Init => JsonFile!Init
  BY DEF Init, JsonFile!Init, NoFile
<1> QED
  BY <1>1, JInvInit, JInvNext, JsonStep, PTL DEF Spec, JsonFileAtomic, JsonFile!Spec

-----------------------------------------------------------------------------
(***************************************************************************)
(* The state file.  As long as no write has begun since the last complete  *)
(* one, the file holds it; the first one that begins first makes it the    *)
(* backup, or writes over it if that fails.  A second one, after a failure *)
(* or a crash, may destroy it.                                             *)
(***************************************************************************)
FileHolds == file = Complete(saved) \/ (saved = Zero /\ file = Absent)
InFile == saved # Zero => file = Complete(saved)
InBackup == saved # Zero => bak = Complete(saved)

FInv ==
    /\ faults \in Nat
    /\ begun \in {0, 1, 2}
    /\ begun = 0 => FileHolds /\ pc \notin {"rename", "create", "lines"}
    /\ begun = 1 /\ pc = "rename" => InFile
    /\ begun = 1 /\ pc = "create" => InFile \/ InBackup
    /\ begun = 1 /\ pc = "lines" => InBackup \/ overwritten
    /\ begun = 1 => InFile \/ InBackup \/ overwritten

THEOREM FInvInit == Init => FInv
BY DEF Init, FInv, FileHolds

LEMMA FInvNext == FInv /\ [Next]_vars => FInv'
<1> SUFFICES ASSUME FInv, [Next]_vars PROVE FInv'
  OBVIOUS
<1> USE DEF memVars, stateFiles, jsonFiles, bounds, Fault, FInv, FileHolds, InFile, InBackup
<1>1. CASE Start \/ Reload
  BY <1>1 DEF Start, Reload, Register
<1>2. CASE SaveThen("read") \/ SaveThen("down") \/ Exit
  BY <1>2 DEF SaveThen, Exit
<1>3. CASE Crash
  BY <1>3 DEF Crash
<1>4. CASE Wakeup(TRUE) \/ Wakeup(FALSE)
  BY <1>4 DEF Wakeup
<1>5. CASE CheckSkipped \/ CheckFails \/ CheckSucceeds
  BY <1>5 DEF CheckSkipped, CheckFails, CheckSucceeds
<1>6. CASE Save
  BY <1>6 DEF Save
<1>7. CASE UnlinkBackup
  BY <1>7 DEF UnlinkBackup
<1>8. CASE RenameToBackup
  <2>1. Complete(saved).there
    BY DEF Complete
  <2>2. begun = 1 /\ saved # Zero => Backup = Complete(saved)
    BY <1>8, <2>1 DEF RenameToBackup, Backup
  <2> QED
    BY <1>8, <2>2 DEF RenameToBackup
<1>9. CASE CreateFile
  <2>1. saved = Zero \/ ~InFile \/ file.there
    BY DEF Complete
  <2>2. CASE pc' = "lines"
    <3>1. /\ pc = "create" /\ pc' = "lines" /\ overwritten' = (overwritten \/ file.there)
          /\ UNCHANGED << begun, saved, bak, faults >>
      BY <1>9, <2>2 DEF CreateFile
    <3>2. begun = 1 => InBackup' \/ overwritten'
      BY <2>1, <3>1
    <3> QED BY <3>1, <3>2
  <2>3. CASE pc' = "saved"
    BY <1>9, <2>3 DEF CreateFile
  <2> QED
    BY <1>9, <2>2, <2>3 DEF CreateFile
<1>10. CASE WriteLines
  BY <1>10 DEF WriteLines
<1>11. CASE SaveJson \/ CreateJson \/ WriteJson \/ ReplaceJson
  BY <1>11 DEF SaveJson, CreateJson, WriteJson, ReplaceJson, JsonFails, WriteFails
<1>12. CASE WriteAttrlog
  BY <1>12 DEF WriteAttrlog
<1>13. CASE UNCHANGED vars
  BY <1>13 DEF vars
<1> QED
  BY <1>1, <1>2, <1>3, <1>4, <1>5, <1>6, <1>7, <1>8, <1>9, <1>10, <1>11, <1>12, <1>13 DEF Next

\* Wherever the first write_dev_state() after a complete one stops, whatever
\* fails in it, one of the two files still holds the last complete state, but
\* where rename() has failed and the file is written over.
THEOREM OneCopyIsLeft == Spec => []OneCopyLeft
<1>1. FInv => OneCopyLeft
  BY DEF FInv, OneCopyLeft, FileHolds, InFile, InBackup
<1> QED
  BY <1>1, FInvInit, FInvNext, PTL DEF Spec

\* read_dev_state() reads back what write_dev_state() has written.
LEMMA ReadsBack ==
    ASSUME FileHolds
    PROVE  ReadDevState(file) = saved
BY DEF FileHolds, ReadDevState, Complete, Absent

\* A start or a reload that can read the file goes on with the state that was
\* written last, however smartd ended, unless a write was cut off or had failed since.
THEOREM NothingIsForgotten == Spec => NothingForgotten
<1>1. FInv /\ [Next]_vars => [pc' = "check" /\ pc \in {"down", "saved"} /\ begun = 0
                                  /\ UNCHANGED faults => mem' = saved]_vars
  <2> SUFFICES ASSUME FInv, Next, pc' = "check", pc \in {"down", "saved"}, begun = 0,
                      UNCHANGED faults
               PROVE  mem' = saved
    BY DEF NothingForgotten
  <2> USE DEF memVars, stateFiles, jsonFiles, bounds
  <2>1. Start \/ Reload
    BY DEF Next, SaveThen, Exit, Crash, Wakeup, CheckSkipped, CheckFails,
           CheckSucceeds, Save, UnlinkBackup, RenameToBackup, CreateFile, WriteLines, SaveJson,
           CreateJson, JsonFails, WriteJson, WriteFails, ReplaceJson, WriteAttrlog
  <2> QED
    BY <2>1, ReadsBack DEF Start, Reload, Register, Fault, FInv
<1> QED
  BY <1>1, FInvInit, FInvNext, PTL DEF Spec, NothingForgotten
-----------------------------------------------------------------------------
(***************************************************************************)
(* What others read of a check.  New data are on their way to the JSON     *)
(* file until they are there or have failed, and they are those of the     *)
(* current cycle: old data are left over only from a failure.              *)
(***************************************************************************)
Saving == {"save", "unlink", "rename", "create", "lines", "saved"}
Publishing == {"jcreate", "jwrite", "jreplace"}

OfThisCycle ==
    jsonDirty /\ ~jsonFailed /\ pc # "down" =>
        memCycle = cycle /\ ~removed /\ then = "json" /\ pc \in Saving \cup Publishing

OnItsWay ==
    memCycle = cycle /\ pc # "down" =>
        /\ pc \in Saving \cup Publishing \cup {"attrlog", "sleep"}
        /\ pc \notin Publishing => jfile = Document \/ jsonFailed \/ (pc \in Saving /\ jsonDirty)

\* Only a reload or an exit saves the state without what follows in a cycle.
ThenJson == pc \in Publishing \cup {"check", "attrlog", "sleep"} => then = "json"

PInv == JInv /\ OfThisCycle /\ OnItsWay /\ ThenJson

LEMMA PInvInit == Init => PInv
BY JInvInit DEF Init, PInv, OfThisCycle, OnItsWay, ThenJson, Publishing

LEMMA PInvNext == PInv /\ [Next]_vars => PInv'
<1> SUFFICES ASSUME PInv, [Next]_vars PROVE PInv'
  OBVIOUS
<1>0. JInv /\ JInv'
  BY JInvNext DEF PInv
<1>a. cycle \in Nat /\ memCycle \in Nat /\ memCycle <= cycle
  BY <1>0 DEF JInv, Cycles
<1>b. SUFFICES OfThisCycle' /\ OnItsWay' /\ ThenJson'
  BY <1>0 DEF PInv
<1> USE DEF memVars, stateFiles, jsonFiles, bounds, PInv, OfThisCycle, OnItsWay, ThenJson,
            Saving, Publishing, Document
<1>1. CASE Start \/ Reload
  <2>1. /\ pc' = "check" /\ then' = "json" /\ memCycle' = 0 /\ jsonDirty' = FALSE
        /\ cycle' = cycle + 1
    BY <1>1 DEF Start, Reload, Register
  <2> QED BY <1>a, <2>1
<1>2. CASE SaveThen("read") \/ SaveThen("down")
  BY <1>2 DEF SaveThen
<1>3. CASE Exit \/ Crash
  BY <1>3 DEF Exit, Crash
<1>4. CASE Wakeup(TRUE) \/ Wakeup(FALSE)
  <2>1. /\ pc = "sleep" /\ pc' = "check" /\ cycle' = cycle + 1
        /\ UNCHANGED << then, memCycle, jsonDirty, jsonFailed >>
    BY <1>4 DEF Wakeup
  <2> QED BY <1>a, <2>1
<1>5. CASE CheckSkipped
  BY <1>5 DEF CheckSkipped
<1>6. CASE CheckFails
  BY <1>6 DEF CheckFails, Dirty
<1>7. CASE CheckSucceeds
  BY <1>7 DEF CheckSucceeds, Dirty
<1>8. CASE Save \/ UnlinkBackup \/ RenameToBackup
  BY <1>8 DEF Save, UnlinkBackup, RenameToBackup
<1>9. CASE CreateFile \/ WriteLines
  BY <1>9 DEF CreateFile, WriteLines
<1>10. CASE SaveJson
  BY <1>10 DEF SaveJson, MayPublish
<1>11. CASE CreateJson
  BY <1>11 DEF CreateJson, JsonFails
<1>12. CASE WriteJson
  BY <1>12 DEF WriteJson, WriteFails, JsonFails
<1>13. CASE ReplaceJson
  <2>1. jtmp = Document
    BY <1>0, <1>13 DEF ReplaceJson, JInv, Ready
  <2> QED BY <1>13, <2>1 DEF ReplaceJson, JsonFails
<1>14. CASE WriteAttrlog
  BY <1>14 DEF WriteAttrlog
<1>15. CASE UNCHANGED vars
  BY <1>15 DEF vars
<1> QED
  BY <1>1, <1>2, <1>3, <1>4, <1>5, <1>6, <1>7, <1>8, <1>9, <1>10, <1>11, <1>12, <1>13, <1>14,
     <1>15 DEF Next

-----------------------------------------------------------------------------
(***************************************************************************)
(* The attribute log.  A line that is still to be written is newer than    *)
(* all that are.                                                           *)
(***************************************************************************)
Below(log, n) == \A i \in DOMAIN log : log[i] < n

LInv ==
    /\ cycle \in Nat /\ attrlogValid \in Nat /\ attrlogValid <= cycle
    /\ attrlog \in Seq(Nat)
    /\ LoggedOnce
    /\ Below(attrlog, cycle + 1)
    /\ pc = "check" => Below(attrlog, cycle)
    /\ attrlogValid # 0 => Below(attrlog, attrlogValid)

\* A newer line keeps the order.
LEMMA AppendNewer ==
    ASSUME NEW log \in Seq(Nat), NEW n \in Nat, Below(log, n),
           \A i, j \in DOMAIN log : i < j => log[i] < log[j]
    PROVE  LET new == Append(log, n)
           IN  /\ new \in Seq(Nat) /\ Below(new, n + 1)
               /\ \A i, j \in DOMAIN new : i < j => new[i] < new[j]
<1> DEFINE new == Append(log, n)
<1>1. /\ new \in Seq(Nat) /\ DOMAIN new = 1 .. (Len(log) + 1) /\ DOMAIN log = 1 .. Len(log)
      /\ Len(log) \in Nat
      /\ \A i \in DOMAIN log : new[i] = log[i] /\ log[i] \in Nat
      /\ new[Len(log) + 1] = n
  OBVIOUS
<1>2. Below(new, n + 1)
  BY <1>1 DEF Below
<1>3. ASSUME NEW i \in DOMAIN new, NEW j \in DOMAIN new, i < j
      PROVE  new[i] < new[j]
  <2>1. i \in DOMAIN log
    BY <1>1, <1>3
  <2>2. CASE j \in DOMAIN log
    BY <1>1, <1>3, <2>1, <2>2
  <2>3. CASE j = Len(log) + 1
    BY <1>1, <2>1, <2>3 DEF Below
  <2> QED BY <1>1, <2>2, <2>3
<1> QED BY <1>1, <1>2, <1>3

LEMMA LInvInit == Init => LInv
BY DEF Init, LInv, LoggedOnce, Below

LEMMA LInvNext == LInv /\ [Next]_vars => LInv'
<1> SUFFICES ASSUME LInv, [Next]_vars PROVE LInv'
  OBVIOUS
<1> USE DEF memVars, stateFiles, jsonFiles, bounds
<1>a. ASSUME UNCHANGED << attrlog, attrlogValid, cycle >>, pc' # "check" \/ pc' = pc
      PROVE  LInv'
  BY <1>a DEF LInv, LoggedOnce, Below
<1>b. ASSUME UNCHANGED attrlog, cycle' = cycle + 1, attrlogValid' \in {0, attrlogValid}
      PROVE  LInv'
  <2>1. \A i \in DOMAIN attrlog : attrlog[i] \in Nat
    BY DEF LInv
  <2>2. cycle \in Nat /\ cycle' \in Nat /\ attrlogValid' \in Nat /\ attrlogValid' <= cycle'
    BY <1>b DEF LInv
  <2>3. Below(attrlog', cycle') /\ Below(attrlog', cycle' + 1)
    BY <1>b, <2>1, <2>2 DEF LInv, Below
  <2> QED BY <1>b, <2>2, <2>3 DEF LInv, LoggedOnce, Below
<1>1. CASE Start \/ Reload
  BY <1>1, <1>b DEF Start, Reload, Register
<1>2. CASE SaveThen("read") \/ SaveThen("down") \/ Exit \/ Crash
  BY <1>2, <1>a DEF SaveThen, Exit, Crash
<1>3. CASE Wakeup(TRUE) \/ Wakeup(FALSE)
  BY <1>3, <1>b DEF Wakeup
<1>4. CASE CheckSkipped \/ CheckFails
  BY <1>4, <1>a DEF CheckSkipped, CheckFails
<1>5. CASE CheckSucceeds
  BY <1>5 DEF CheckSucceeds, LInv, LoggedOnce, Below
<1>6. CASE Save \/ UnlinkBackup \/ RenameToBackup \/ CreateFile \/ WriteLines
  BY <1>6, <1>a DEF Save, UnlinkBackup, RenameToBackup, CreateFile, WriteLines
<1>7. CASE SaveJson \/ CreateJson \/ WriteJson \/ ReplaceJson
  BY <1>7, <1>a DEF SaveJson, CreateJson, WriteJson, ReplaceJson, JsonFails, WriteFails
<1>8. CASE WriteAttrlog
  <2>1. /\ attrlogValid' = 0 /\ cycle' = cycle /\ pc' = "sleep"
        /\ \/ UNCHANGED attrlog
           \/ attrlogValid # 0 /\ attrlog' = Append(attrlog, attrlogValid)
    BY <1>8 DEF WriteAttrlog, Logged
  <2>2. CASE UNCHANGED attrlog
    BY <2>1, <2>2 DEF LInv, LoggedOnce, Below
  <2>3. CASE attrlogValid # 0 /\ attrlog' = Append(attrlog, attrlogValid)
    <3>1. /\ attrlog' \in Seq(Nat) /\ Below(attrlog', attrlogValid + 1)
          /\ \A i, j \in DOMAIN attrlog' : i < j => attrlog'[i] < attrlog'[j]
      BY <2>3, AppendNewer DEF LInv, LoggedOnce
    <3>2. Below(attrlog', cycle + 1)
      BY <3>1 DEF LInv, Below
    <3> QED BY <2>1, <3>1, <3>2 DEF LInv, LoggedOnce
  <2> QED BY <2>1, <2>2, <2>3
<1>9. CASE UNCHANGED vars
  BY <1>9, <1>a DEF vars
<1> QED BY <1>1, <1>2, <1>3, <1>4, <1>5, <1>6, <1>7, <1>8, <1>9 DEF Next

\* What other programs read of a check: the JSON file is as new as the last check and as
\* its own time says, and the attribute log has each check once, whatever fails and
\* whenever smartd is restarted.
THEOREM OutputFilesAreFresh == Spec => OutputFilesFresh
<1>1. PInv => CheckPublished
  BY DEF PInv, OnItsWay, CheckPublished, Saving, Publishing
<1>2. PInv /\ [Next]_vars => [jfile' # jfile => jfile'.made = jfile'.data \/ jsonFailed]_vars
  <2> SUFFICES ASSUME PInv, Next, jfile' # jfile
               PROVE  jfile'.made = jfile'.data \/ jsonFailed
    BY DEF vars, jsonFiles
  <2> USE DEF memVars, stateFiles, jsonFiles, bounds
  <2>1. ReplaceJson
    BY DEF Next, Start, Reload, Register, SaveThen, Exit, Crash, Wakeup, CheckSkipped,
           CheckFails, CheckSucceeds, Save, UnlinkBackup, RenameToBackup, CreateFile,
           WriteLines, SaveJson, CreateJson, JsonFails, WriteJson, WriteFails, WriteAttrlog
  <2>2. jsonDirty /\ jfile' = Document /\ pc # "down"
    BY <2>1 DEF ReplaceJson, JsonFails, PInv, JInv, Ready
  <2>3. memCycle = cycle \/ jsonFailed
    BY <2>2 DEF PInv, OfThisCycle
  <2> QED BY <2>2, <2>3 DEF Document
<1>3. LInv => LoggedOnce
  BY DEF LInv
<1> QED
  BY <1>1, <1>2, <1>3, PInvInit, PInvNext, LInvInit, LInvNext, PTL
     DEF Spec, OutputFilesFresh, StaleOnlyAfterFailure
=============================================================================
