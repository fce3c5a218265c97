-------------------------- MODULE Smartctl_proofs ---------------------------
(***************************************************************************)
(* Proofs about runs of smartctl, for every set of options, every disk and *)
(* any commands that fail: the exit status and what is sent to the disk.   *)
(* A run follows one sequence of parts, so that an invariant says for each *)
(* part what is known behind it.  For each protocol, first a step is       *)
(* described by what it does to the flow and by what its part has to do,   *)
(* which every action is shown to do; the invariant is kept by all such    *)
(* steps.  At the end, proofs about the device that several runs of        *)
(* smartctl and smartd may use at the same time, JmbDevice.                *)
(***************************************************************************)
EXTENDS SmartctlMain, JmbDevice, SequenceTheorems, TLAPS

\* The position of a part in a sequence of parts, and what makes it unique.
Position(s, part) == CHOOSE i \in DOMAIN s : s[i] = part
Elements(s) == {s[i] : i \in DOMAIN s}
Distinct(s) == \A i, j \in DOMAIN s : s[i] = s[j] => i = j

\* In a sequence without repetition, each element is found where it is.
LEMMA PositionLemma ==
    ASSUME NEW s, Distinct(s), NEW i \in DOMAIN s
    PROVE  Position(s, s[i]) = i
  BY DEF Distinct, Position

\* The elements of a sequence from the n-th on, m of them.
Piece(s, n, m, order) ==
    s \in Seq(Elements(order)) /\ Len(s) = m /\ \A i \in 1 .. m : s[i] = order[n + i]

\* Two pieces of a sequence that follow each other make one piece.
LEMMA PieceLemma ==
    ASSUME NEW order, NEW s, NEW t, NEW n \in Nat, NEW m \in Nat,
           Piece(s, 0, n, order), Piece(t, n, m, order)
    PROVE  Piece(s \o t, 0, n + m, order)
<1> DEFINE S == Elements(order)
<1>1. /\ s \in Seq(S) /\ Len(s) = n /\ \A i \in 1 .. n : s[i] = order[0 + i]
      /\ t \in Seq(S) /\ Len(t) = m /\ \A i \in 1 .. m : t[i] = order[n + i]
  BY DEF Piece
<1> HIDE DEF S
<1>2. s \o t \in Seq(S) /\ Len(s \o t) = n + m
  BY <1>1, ConcatProperties
<1>3. ASSUME NEW i \in 1 .. n + m PROVE (s \o t)[i] = order[0 + i]
  <2>1. CASE i <= n
    BY <1>1, <2>1, ConcatProperties
  <2>2. CASE i > n
    <3>1. (s \o t)[i] = t[i - n]
      BY <1>1, <2>2, ConcatProperties
    <3>2. t[i - n] = order[n + (i - n)]
      BY <1>1, <2>2
    <3> QED BY <2>2, <3>1, <3>2
  <2>3. i <= n \/ i > n
    OBVIOUS
  <2> QED BY <2>1, <2>2, <2>3
<1> QED BY <1>2, <1>3 DEF Piece, S

\* A piece of the full length is the sequence.
LEMMA WholePiece ==
    ASSUME NEW order, NEW s, order \in Seq(Elements(order)), Piece(s, 0, Len(order), order)
    PROVE  s = order
<1> DEFINE S == Elements(order)
<1>1. s \in Seq(S) /\ order \in Seq(S) /\ Len(s) = Len(order)
  BY DEF Piece
<1>2. \A i \in 1 .. Len(s) : s[i] = order[i]
  BY <1>1 DEF Piece
<1> HIDE DEF S
<1> QED BY <1>1, <1>2, SeqEqual

-----------------------------------------------------------------------------
(***************************************************************************)
(* ATA disks.                                                              *)
(***************************************************************************)
\* Parts of SmartctlAta, written out; a part is known by its position.
AtaOrder ==
    << "power", "identify", "presets", "support", "get", "supported", "aam", "apm",
       "lookahead", "wcache", "dsn", "reorder", "wcache_sct", "freeze", "standby", "on",
       "off", "enabled", "autosave_on", "autosave_off", "values", "thresholds",
       "offline_on", "offline_off", "update", "status", "smart_logdir", "gp_logdir",
       "request", "xerror", "error", "xselftest", "selftest", "selective", "sct_status",
       "sct_history", "sct_interval", "erc_set", "erc_get", "devstat", "defects", "sataphy",
       "farm", "now", "capable", "test", "offline_time", "done" >>
AtaSteps == Elements(AtaOrder)
AtaAt(part) == Position(AtaOrder, part)

\* The order has 48 parts and no part twice.
LEMMA AtaOrderLemma ==
    /\ AtaOrder \in Seq(AtaSteps) /\ Len(AtaOrder) = 48 /\ DOMAIN AtaOrder = 1 .. 48
    /\ Distinct(AtaOrder)
<1>1. Len(AtaOrder) = 48 /\ DOMAIN AtaOrder = 1 .. 48
  BY DEF AtaOrder
<1>2. AtaOrder \in Seq(Elements(AtaOrder))
  BY DEF AtaOrder, Elements
<1>3. Distinct(AtaOrder)
  BY DEF AtaOrder, Distinct
<1> QED BY <1>1, <1>2, <1>3 DEF AtaSteps

\* SmartctlAta!Parts is this order.
LEMMA AtaPartsLemma == Ata!Parts = AtaOrder
<1> DEFINE p1 == << "power", "identify", "presets", "support", "get", "supported" >>
           p3 == << "on", "off", "enabled", "autosave_on", "autosave_off" >>
           p6 == << "devstat", "defects", "sataphy", "farm", "now", "capable", "test",
                 "offline_time", "done" >>
<1>1. Piece(p1, 0, 6, AtaOrder)
  BY DEF Piece, AtaOrder, Elements
<1>2. Piece(Ata!SettingParts, 6, 9, AtaOrder)
  BY DEF Piece, AtaOrder, Elements, Ata!SettingParts
<1>3. Piece(p3, 15, 5, AtaOrder)
  BY DEF Piece, AtaOrder, Elements
<1>4. Piece(Ata!ReadingParts, 20, 14, AtaOrder)
  BY DEF Piece, AtaOrder, Elements, Ata!ReadingParts
<1>5. Piece(Ata!SctParts, 34, 5, AtaOrder)
  BY DEF Piece, AtaOrder, Elements, Ata!SctParts
<1>6. Piece(p6, 39, 9, AtaOrder)
  BY DEF Piece, AtaOrder, Elements
<1>7. Ata!Parts = p1 \o Ata!SettingParts \o p3 \o Ata!ReadingParts \o Ata!SctParts \o p6
  BY DEF Ata!Parts
<1> HIDE DEF p1, p3, p6
<1>8. Piece(p1 \o Ata!SettingParts, 0, 15, AtaOrder)
  BY <1>2, <1>1, PieceLemma
<1>9. Piece(p1 \o Ata!SettingParts \o p3, 0, 20, AtaOrder)
  BY <1>3, <1>8, PieceLemma
<1>10. Piece(p1 \o Ata!SettingParts \o p3 \o Ata!ReadingParts, 0, 34, AtaOrder)
  BY <1>4, <1>9, PieceLemma
<1>11. Piece(p1 \o Ata!SettingParts \o p3 \o Ata!ReadingParts \o Ata!SctParts, 0, 39, AtaOrder)
  BY <1>5, <1>10, PieceLemma
<1>12. Piece(Ata!Parts, 0, 48, AtaOrder)
  BY <1>6, <1>7, <1>11, PieceLemma
<1> QED BY <1>12, AtaOrderLemma, WholePiece DEF AtaSteps

\* After() goes to the next position, from every part but the last.
LEMMA AtaAfter ==
    ASSUME NEW part \in AtaSteps, part # "done"
    PROVE  Ata!After(part) \in AtaSteps /\ AtaAt(Ata!After(part)) = AtaAt(part) + 1
<1>1. PICK i \in 1 .. 48 : part = AtaOrder[i]
  BY AtaOrderLemma DEF AtaSteps, Elements
<1>2. i # 48
  BY <1>1 DEF AtaOrder
<1>3. i \in DOMAIN AtaOrder /\ i + 1 \in DOMAIN AtaOrder
  BY <1>2, AtaOrderLemma
<1>4. AtaAt(part) = i /\ AtaAt(AtaOrder[i + 1]) = i + 1
  BY <1>1, <1>3, AtaOrderLemma, PositionLemma DEF AtaAt
<1>5. Ata!After(part) = Ata!Parts[Position(Ata!Parts, part) + 1]
  BY DEF Ata!After, Position
<1>6. Ata!After(part) = AtaOrder[i + 1]
  BY <1>4, <1>5, AtaPartsLemma DEF AtaAt
<1>7. AtaOrder[i + 1] \in AtaSteps
  BY <1>3 DEF AtaSteps, Elements
<1> QED BY <1>4, <1>6, <1>7

\* Different parts have different positions.
LEMMA AtaStepsLemma ==
    ASSUME NEW part \in AtaSteps
    PROVE  /\ AtaAt(part) \in 1 .. 48
           /\ \A other \in AtaSteps : AtaAt(other) = AtaAt(part) => other = part
<1>1. ASSUME NEW x \in AtaSteps PROVE AtaAt(x) \in 1 .. 48 /\ x = AtaOrder[AtaAt(x)]
  <2>1. PICK i \in 1 .. 48 : x = AtaOrder[i]
    BY AtaOrderLemma DEF AtaSteps, Elements
  <2>2. Position(AtaOrder, AtaOrder[i]) = i
    BY AtaOrderLemma, PositionLemma
  <2> QED BY <2>1, <2>2 DEF AtaAt
<1> QED BY <1>1

\* The positions of all parts.
LEMMA AtaNumbers ==
    /\ AtaAt("power") = 1 /\ AtaAt("identify") = 2 /\ AtaAt("presets") = 3
    /\ AtaAt("support") = 4 /\ AtaAt("get") = 5 /\ AtaAt("supported") = 6 /\ AtaAt("aam") = 7
    /\ AtaAt("apm") = 8 /\ AtaAt("lookahead") = 9 /\ AtaAt("wcache") = 10
    /\ AtaAt("dsn") = 11 /\ AtaAt("reorder") = 12 /\ AtaAt("wcache_sct") = 13
    /\ AtaAt("freeze") = 14 /\ AtaAt("standby") = 15 /\ AtaAt("on") = 16 /\ AtaAt("off") = 17
    /\ AtaAt("enabled") = 18 /\ AtaAt("autosave_on") = 19 /\ AtaAt("autosave_off") = 20
    /\ AtaAt("values") = 21 /\ AtaAt("thresholds") = 22 /\ AtaAt("offline_on") = 23
    /\ AtaAt("offline_off") = 24 /\ AtaAt("update") = 25 /\ AtaAt("status") = 26
    /\ AtaAt("smart_logdir") = 27 /\ AtaAt("gp_logdir") = 28 /\ AtaAt("request") = 29
    /\ AtaAt("xerror") = 30 /\ AtaAt("error") = 31 /\ AtaAt("xselftest") = 32
    /\ AtaAt("selftest") = 33 /\ AtaAt("selective") = 34 /\ AtaAt("sct_status") = 35
    /\ AtaAt("sct_history") = 36 /\ AtaAt("sct_interval") = 37 /\ AtaAt("erc_set") = 38
    /\ AtaAt("erc_get") = 39 /\ AtaAt("devstat") = 40 /\ AtaAt("defects") = 41
    /\ AtaAt("sataphy") = 42 /\ AtaAt("farm") = 43 /\ AtaAt("now") = 44
    /\ AtaAt("capable") = 45 /\ AtaAt("test") = 46 /\ AtaAt("offline_time") = 47
    /\ AtaAt("done") = 48
<1>1. /\ AtaOrder[1] = "power" /\ AtaOrder[2] = "identify" /\ AtaOrder[3] = "presets"
      /\ AtaOrder[4] = "support" /\ AtaOrder[5] = "get" /\ AtaOrder[6] = "supported"
      /\ AtaOrder[7] = "aam" /\ AtaOrder[8] = "apm" /\ AtaOrder[9] = "lookahead"
      /\ AtaOrder[10] = "wcache" /\ AtaOrder[11] = "dsn" /\ AtaOrder[12] = "reorder"
      /\ AtaOrder[13] = "wcache_sct" /\ AtaOrder[14] = "freeze" /\ AtaOrder[15] = "standby"
      /\ AtaOrder[16] = "on" /\ AtaOrder[17] = "off" /\ AtaOrder[18] = "enabled"
      /\ AtaOrder[19] = "autosave_on" /\ AtaOrder[20] = "autosave_off"
      /\ AtaOrder[21] = "values" /\ AtaOrder[22] = "thresholds"
      /\ AtaOrder[23] = "offline_on" /\ AtaOrder[24] = "offline_off"
      /\ AtaOrder[25] = "update" /\ AtaOrder[26] = "status" /\ AtaOrder[27] = "smart_logdir"
      /\ AtaOrder[28] = "gp_logdir" /\ AtaOrder[29] = "request" /\ AtaOrder[30] = "xerror"
      /\ AtaOrder[31] = "error" /\ AtaOrder[32] = "xselftest" /\ AtaOrder[33] = "selftest"
      /\ AtaOrder[34] = "selective" /\ AtaOrder[35] = "sct_status"
      /\ AtaOrder[36] = "sct_history" /\ AtaOrder[37] = "sct_interval"
      /\ AtaOrder[38] = "erc_set" /\ AtaOrder[39] = "erc_get" /\ AtaOrder[40] = "devstat"
      /\ AtaOrder[41] = "defects" /\ AtaOrder[42] = "sataphy" /\ AtaOrder[43] = "farm"
      /\ AtaOrder[44] = "now" /\ AtaOrder[45] = "capable" /\ AtaOrder[46] = "test"
      /\ AtaOrder[47] = "offline_time" /\ AtaOrder[48] = "done"
  BY DEF AtaOrder
<1>2. ASSUME NEW i \in 1 .. 48 PROVE AtaAt(AtaOrder[i]) = i
  BY AtaOrderLemma, PositionLemma DEF AtaAt
<1> QED BY <1>1, <1>2

\* Each part is one of the steps of the run.
LEMMA AtaElements ==
    {"power", "identify", "presets", "support", "get", "supported", "aam", "apm",
     "lookahead", "wcache", "dsn", "reorder", "wcache_sct", "freeze", "standby",
     "on", "off", "enabled", "autosave_on", "autosave_off", "values",
     "thresholds", "offline_on", "offline_off", "update", "status",
     "smart_logdir", "gp_logdir", "request", "xerror", "error", "xselftest",
     "selftest", "selective", "sct_status", "sct_history", "sct_interval",
     "erc_set", "erc_get", "devstat", "defects", "sataphy", "farm", "now",
     "capable", "test", "offline_time", "done"} \subseteq AtaSteps
  BY DEF AtaSteps, AtaOrder, Elements

\* The parts that send an optional SMART command.
AtaConservative ==
    Ata!ToSet(Ata!ReadingParts) \cup Ata!ToSet(Ata!SctParts)
    \cup {"devstat", "defects", "sataphy", "test", "offline_time"}

\* What a part leaves whose command has failed.
AtaBits ==
    /\ pc = "identify" => "ID" \in returnval'
    /\ pc \notin {"identify", "get", "farm"} => "SMART" \in returnval'
    /\ opts.conservative /\ pc \in AtaConservative => pc' = "exit"

\* From part to part.
AtaMoves ==
    \/ pc' = pc /\ UNCHANGED << failed, smart_enabled, smart_val_ok >>
    \/ pc' = "exit" /\ returnval' # {}
    \/ pc' = "stopped" /\ AtaAt(pc) <= AtaAt("enabled")
    \/ pc' = Ata!After(pc)
    \/ AtaAt(pc) > AtaAt("selftest") /\ pc' \in AtaSteps /\ AtaAt(pc') > AtaAt(pc)

\* The bits of the exit status are kept, but by -b exit, by the early returns with a status
\* of their own, and before anything can have failed.
AtaKeepsBits ==
    \/ returnval \subseteq returnval'
    \/ checksum' /\ pc' = "exit"
    \/ pc = "power"
    \/ pc = "identify" /\ failed' = failed
    \/ pc = "presets" /\ "presets" \in opts.on

\* A step as far as the flow of the function goes.
AtaStep ==
    /\ opts' = opts /\ disk' = disk
    /\ pc \in AtaSteps /\ pc # "done"
    /\ AtaMoves /\ AtaKeepsBits
    /\ \/ failed' = failed
       \/ pc # "power" /\ failed' = failed \cup {pc} /\ AtaBits
    /\ failuretest_permissive' \in Nat /\ failuretest_permissive' <= failuretest_permissive
    /\ permitted' => failuretest_permissive' < failuretest_permissive
    /\ checksum => checksum'

\* The groups of parts, written out.
LEMMA AtaSets ==
    /\ Ata!Settings = {"aam", "apm", "lookahead", "wcache", "dsn", "reorder", "wcache_sct",
                       "freeze", "standby"}
    /\ Ata!ToSet(Ata!SctParts) = {"sct_status", "sct_history", "sct_interval", "erc_set",
                                  "erc_get"}
    /\ Ata!ToSet(Ata!ReadingParts) =
           {"values", "thresholds", "offline_on", "offline_off", "update", "status",
            "smart_logdir", "gp_logdir", "request", "xerror", "error", "xselftest",
            "selftest", "selective"}
  BY DEF Ata!Settings, Ata!SettingParts, Ata!SctParts, Ata!ReadingParts, Ata!ToSet

\* The names that belong to the two logs.
LEMMA AtaLogNames ==
    /\ Ata!Extended["error"] = "xerror" /\ Ata!Extended["selftest"] = "xselftest"
    /\ Ata!Again["error"] = "retry_error" /\ Ata!Again["selftest"] = "retry_selftest"
    /\ Ata!LogBit["error"] = "ERR" /\ Ata!LogBit["selftest"] = "LOG"
  BY DEF Ata!Extended, Ata!Again, Ata!LogBit

\* Every action of SmartctlAta makes such a step.
LEMMA AtaStepLemma ==
    ASSUME Ata!Next, failuretest_permissive \in Nat
    PROVE  AtaStep
<1> USE AtaElements, AtaSets, AtaLogNames
        DEF AtaStep, AtaMoves, AtaKeepsBits, AtaBits, AtaConservative,
            Ata!GoOn, Ata!GoOnAt, Ata!given, Ata!state, Ata!known, Ata!values, Ata!logs
<1>1. CASE Ata!IsPermissive
  BY <1>1
     DEF Ata!IsPermissive, Ata!Lacks
<1>2. CASE Ata!CheckPowerMode
  BY <1>2, AtaNumbers
     DEF Ata!CheckPowerMode
<1>3. CASE Ata!ReadIdentity
  BY <1>3, AtaNumbers
     DEF Ata!ReadIdentity, Ata!Mandatory
<1>4. CASE Ata!ShowPresets
  BY <1>4, AtaNumbers
     DEF Ata!ShowPresets, Ata!Wanted
<1>5. CASE Ata!CheckSmartSupport
  BY <1>5
     DEF Ata!CheckSmartSupport, Ata!Mandatory
<1>6. CASE Ata!NeedsSupport
  BY <1>6
     DEF Ata!NeedsSupport, Ata!Mandatory
<1>7. CASE Ata!GetFeature
  BY <1>7
     DEF Ata!GetFeature, Ata!FailsWith
<1>8. CASE Ata!SetFeature
  BY <1>8
     DEF Ata!SetFeature, Ata!FailsWith
<1>9. CASE Ata!SmartOn
  BY <1>9
     DEF Ata!SmartOn, Ata!Mandatory
<1>10. CASE Ata!SmartOff
  BY <1>10
     DEF Ata!SmartOff, Ata!Mandatory
<1>11. CASE Ata!NeedsEnabled
  BY <1>11, AtaNumbers
     DEF Ata!NeedsEnabled
<1>12. CASE Ata!AutoSave
  BY <1>12
     DEF Ata!AutoSave, Ata!Mandatory
<1>13. CASE Ata!ChecksumError
  BY <1>13
     DEF Ata!ChecksumError
<1>14. CASE Ata!ReadSmartData
  BY <1>14
     DEF Ata!ReadSmartData, Ata!Optional, Ata!OptionalFails
<1>15. CASE Ata!ReadThresholds
  BY <1>15
     DEF Ata!ReadThresholds, Ata!Optional, Ata!OptionalFails
<1>16. CASE Ata!AutoOffline
  BY <1>16
     DEF Ata!AutoOffline, Ata!Optional, Ata!OptionalFails
<1>17. CASE Ata!CheckStatus
  BY <1>17
     DEF Ata!CheckStatus, Ata!Optional, Ata!OptionalFails, Ata!Unanswered
<1>18. CASE Ata!ReadSmartLogdir
  BY <1>18
     DEF Ata!ReadSmartLogdir, Ata!Optional, Ata!OptionalFails
<1>19. CASE Ata!ReadGpLogdir
  BY <1>19
     DEF Ata!ReadGpLogdir, Ata!Optional, Ata!OptionalFails
<1>20. CASE Ata!ReadExtendedLog
  BY <1>20
     DEF Ata!ReadExtendedLog, Ata!Optional, Ata!OptionalFails
<1>21. CASE Ata!ReadLog
  BY <1>21
     DEF Ata!ReadLog, Ata!Optional, Ata!OptionalFails
<1>22. CASE Ata!OptionalCommand
  BY <1>22, AtaNumbers
     DEF Ata!OptionalCommand, Ata!OptionalFails, Ata!FailsTo
<1>23. CASE Ata!ReadFarmLog
  BY <1>23
     DEF Ata!ReadFarmLog, Ata!FailsWith
<1>24. CASE Ata!StandbyNow
  BY <1>24
     DEF Ata!StandbyNow, Ata!FailsWith
<1>25. CASE Ata!TestCapable
  BY <1>25, AtaNumbers
     DEF Ata!TestCapable, Ata!Mandatory, Ata!Optional, Ata!OptionalFails
<1>26. CASE Ata!StartTest
  BY <1>26, AtaNumbers
     DEF Ata!StartTest, Ata!OptionalFails
<1> QED BY <1>1, <1>2, <1>3, <1>4, <1>5, <1>6, <1>7, <1>8, <1>9, <1>10, <1>11, <1>12, <1>13,
           <1>14, <1>15, <1>16, <1>17, <1>18, <1>19, <1>20, <1>21, <1>22, <1>23, <1>24, <1>25,
           <1>26
       DEF Ata!Next

\* What the parts change.
AtaChanges ==
    /\ pc \notin {"support", "on"} => smart_enabled' = smart_enabled
    /\ pc # "support" => smart_supported' = smart_supported
    /\ pc \notin {"values", "update"} => smart_val_ok' = smart_val_ok
    /\ pc # "thresholds" => smart_thres_ok' = smart_thres_ok
    /\ pc \notin {"on", "off"} => on' = on
    /\ asleep' = asleep \/ (pc = "now" /\ pc' = Ata!After(pc))
    /\ pc # "status" => answer' = answer
    /\ smartlogdir' = smartlogdir
       \/ \A log \in {"error", "selftest"} : log \in disk.smartlogs => log \in smartlogdir'
    /\ retry \subseteq retry'

\* A disk in a power mode to be skipped is skipped.
AtaPowerDone ==
    pc = "power" /\ opts.powermode >= Ata!PowerLimit(disk.power) => pc' = "stopped"

\* SMART is on if it is said to be on.
AtaSupportDone ==
    /\ pc = "support" =>
           /\ smart_supported' \in -1 .. 1 /\ smart_enabled' \in -1 .. 1
           /\ on = disk.on /\ smart_enabled' = 1 =>
                  on \/ smart_supported' <= 0 \/ UNCHANGED << smart_enabled, smart_supported >>
    /\ pc = "supported" /\ pc' \notin {pc, "stopped", "exit"} /\ Ata!NeedSmartSupport =>
           smart_supported > 0 \/ failuretest_permissive' < failuretest_permissive
    /\ pc = "on" => on' \/ (on' = on /\ smart_enabled' = smart_enabled)
    /\ pc = "on" => smart_enabled' \in {smart_enabled, 1}
    /\ pc = "off" => "off" \in opts.on \/ on' = on
    /\ pc = "enabled" /\ pc' \notin {pc, "stopped", "exit"} =>
           "off" \notin opts.on /\ (permitted \/ smart_enabled > 0 \/ ~Ata!NeedSmartEnabled)

\* SMART data and thresholds are there, or a bit is set.
AtaValuesDone ==
    /\ pc = "values" =>
           /\ smart_val_ok' => smart_val_ok \/ Ata!NeedSmartVal
           /\ Ata!NeedSmartVal => smart_val_ok' \/ "SMART" \in returnval'
    /\ pc = "update" =>
           /\ smart_val_ok' => smart_val_ok
           /\ smart_val_ok => smart_val_ok' \/ "SMART" \in returnval'
    /\ pc = "thresholds" /\ smart_val_ok /\ "status" \in opts.on =>
           smart_thres_ok' \/ "SMART" \in returnval'

\* A status without a bit says that the disk is healthy and that its attributes are good.
AtaStatusDone ==
    pc = "status" /\ "status" \in opts.on /\ smart_val_ok /\ smart_thres_ok
    /\ returnval' \cap {"SMART", "STATUS", "ATTR", "AGE"} = {} =>
        answer' \in {"passed", "unsupported"} /\ disk.attributes = "good"

\* A log that was read leaves a bit for its records, one that was not is read again or has
\* failed.
AtaLogsDone ==
    \A log \in {"error", "selftest"} :
        /\ pc = Ata!Extended[log] /\ pc' \notin {pc, "stopped", "exit"} /\ log \in disk.errors
           /\ {Ata!Extended[log], Ata!Again[log]} \subseteq opts.on =>
               Ata!LogBit[log] \in returnval' \/ log \in retry'
        /\ pc = log /\ pc' \notin {pc, "stopped", "exit"} /\ log \in disk.errors
           /\ log \in opts.on \cup retry /\ Ata!LogSupported(log) =>
               Ata!LogBit[log] \in returnval' \/ log \in failed'

\* Every action of SmartctlAta changes no more, and does that.
LEMMA AtaDone ==
    ASSUME Ata!Next, opts \in Ata!OptionType, disk \in Ata!DiskType, Ata!DiskAssumption(disk),
           failuretest_permissive \in Nat,
           smart_enabled \in -1 .. 1, smart_supported \in -1 .. 1
    PROVE  AtaChanges /\ AtaPowerDone /\ AtaSupportDone /\ AtaValuesDone /\ AtaStatusDone
           /\ AtaLogsDone
<1> USE AtaSets, AtaLogNames
        DEF AtaChanges, AtaPowerDone, AtaSupportDone, AtaValuesDone, AtaStatusDone,
            AtaLogsDone,            Ata!OptionType, Ata!DiskType, Ata!DiskAssumption,
            Ata!GoOn, Ata!GoOnAt, Ata!given, Ata!state, Ata!known, Ata!values, Ata!logs
<1>1. CASE Ata!IsPermissive
  BY <1>1
     DEF Ata!IsPermissive, Ata!Lacks
<1>2. CASE Ata!CheckPowerMode
  BY <1>2
     DEF Ata!CheckPowerMode, Ata!PowerLimit
<1>3. CASE Ata!ReadIdentity
  BY <1>3
     DEF Ata!ReadIdentity, Ata!Mandatory
<1>4. CASE Ata!ShowPresets
  BY <1>4
     DEF Ata!ShowPresets, Ata!Wanted
<1>5. CASE Ata!CheckSmartSupport
  <2>1. pc = "support" /\ UNCHANGED << smart_val_ok, smart_thres_ok, on, asleep, answer,
                                      smartlogdir, retry >>
    BY <1>5 DEF Ata!CheckSmartSupport, Ata!values, Ata!logs, Ata!state
  <2>2. \/ UNCHANGED << smart_supported, smart_enabled >>
        \/ smart_supported' = Ata!drive.supported /\ smart_enabled' = -1
        \/ on /\ smart_supported' = 1 /\ smart_enabled' \in Ata!Confirmed(1)
        \/ /\ smart_supported' \in {1, Ata!drive.supported}
           /\ smart_enabled' \in IF smart_supported' = 1 THEN Ata!Confirmed(Ata!drive.enabled)
                                ELSE {Ata!drive.enabled}
    BY <1>5 DEF Ata!CheckSmartSupport, Ata!known
  <2>3. /\ Ata!drive.supported \in -1 .. 1 /\ Ata!drive.enabled \in -1 .. 1
        /\ Ata!drive.enabled = 1 /\ ~disk.cached => disk.on
    BY DEF Ata!drive
  <2>4. /\ smart_supported' \in -1 .. 1 /\ smart_enabled' \in -1 .. 1
        /\ on = disk.on /\ smart_enabled' = 1 =>
               on \/ smart_supported' <= 0 \/ UNCHANGED << smart_enabled, smart_supported >>
    BY <2>1, <2>2, <2>3 DEF Ata!Confirmed
  <2> QED BY <2>1, <2>4
<1>6. CASE Ata!NeedsSupport
  BY <1>6
     DEF Ata!NeedsSupport, Ata!Mandatory
<1>7. CASE Ata!GetFeature
  BY <1>7
     DEF Ata!GetFeature, Ata!FailsWith
<1>8. CASE Ata!SetFeature
  BY <1>8
     DEF Ata!SetFeature, Ata!FailsWith
<1>9. CASE Ata!SmartOn
  BY <1>9
     DEF Ata!SmartOn, Ata!Mandatory, Ata!Wanted
<1>10. CASE Ata!SmartOff
  BY <1>10
     DEF Ata!SmartOff, Ata!Mandatory, Ata!Wanted
<1>11. CASE Ata!NeedsEnabled
  BY <1>11
     DEF Ata!NeedsEnabled, Ata!Lacks
<1>12. CASE Ata!AutoSave
  BY <1>12
     DEF Ata!AutoSave, Ata!Mandatory
<1>13. CASE Ata!ChecksumError
  BY <1>13
     DEF Ata!ChecksumError
<1>14. CASE Ata!ReadSmartData
  BY <1>14
     DEF Ata!ReadSmartData, Ata!Optional, Ata!OptionalFails, Ata!Wanted, Ata!Chosen
<1>15. CASE Ata!ReadThresholds
  BY <1>15
     DEF Ata!ReadThresholds, Ata!Optional, Ata!OptionalFails, Ata!Wanted, Ata!Chosen
<1>16. CASE Ata!AutoOffline
  BY <1>16
     DEF Ata!AutoOffline, Ata!Optional, Ata!OptionalFails
<1>17. CASE Ata!CheckStatus
  BY <1>17
     DEF Ata!CheckStatus, Ata!Optional, Ata!OptionalFails, Ata!Unanswered, Ata!Wanted,
         Ata!StatusBits, Ata!Attributes, Ata!AttributesKnown
<1>18. CASE Ata!ReadSmartLogdir
  BY <1>18
     DEF Ata!ReadSmartLogdir, Ata!Optional, Ata!OptionalFails, Ata!FakeLogdir
<1>19. CASE Ata!ReadGpLogdir
  BY <1>19
     DEF Ata!ReadGpLogdir, Ata!Optional, Ata!OptionalFails
<1>20. CASE Ata!ReadExtendedLog
  BY <1>20
     DEF Ata!ReadExtendedLog, Ata!Optional, Ata!OptionalFails, Ata!Wanted, Ata!Retried,
         Ata!Records
<1>21. CASE Ata!ReadLog
  BY <1>21
     DEF Ata!ReadLog, Ata!Optional, Ata!OptionalFails, Ata!Wanted, Ata!Records
<1>22. CASE Ata!OptionalCommand
  BY <1>22
     DEF Ata!OptionalCommand, Ata!OptionalFails, Ata!FailsTo
<1>23. CASE Ata!ReadFarmLog
  BY <1>23
     DEF Ata!ReadFarmLog, Ata!FailsWith
<1>24. CASE Ata!StandbyNow
  BY <1>24
     DEF Ata!StandbyNow, Ata!FailsWith
<1>25. CASE Ata!TestCapable
  BY <1>25
     DEF Ata!TestCapable, Ata!Mandatory, Ata!Optional, Ata!OptionalFails
<1>26. CASE Ata!StartTest
  BY <1>26
     DEF Ata!StartTest, Ata!OptionalFails
<1> QED BY <1>1, <1>2, <1>3, <1>4, <1>5, <1>6, <1>7, <1>8, <1>9, <1>10, <1>11, <1>12, <1>13,
           <1>14, <1>15, <1>16, <1>17, <1>18, <1>19, <1>20, <1>21, <1>22, <1>23, <1>24, <1>25,
           <1>26
       DEF Ata!Next

\* A step of the run behind a part, or not behind it.
AtaPast(step, part) == step \in AtaSteps /\ AtaAt(step) > AtaAt(part)
AtaUpTo(step, part) == step \in AtaSteps /\ AtaAt(step) <= AtaAt(part)

\* The early ends are no parts.
LEMMA AtaEnds == "stopped" \notin AtaSteps /\ "exit" \notin AtaSteps
  BY DEF AtaSteps, AtaOrder, Elements

\* No step goes back.
LEMMA AtaForward ==
    ASSUME AtaStep
    PROVE  /\ pc \in AtaSteps /\ AtaAt(pc) \in 1 .. 48
           /\ \/ pc' \in {"stopped", "exit"}
              \/ UNCHANGED << pc, failed, smart_enabled, smart_val_ok >>
              \/ pc' \in AtaSteps /\ AtaAt(pc') \in 1 .. 48 /\ AtaAt(pc') > AtaAt(pc)
<1>1. pc \in AtaSteps /\ pc # "done" /\ AtaMoves
  BY DEF AtaStep
<1>2. AtaAt(pc) \in 1 .. 48
  BY <1>1, AtaStepsLemma
<1>3. pc' \in AtaSteps => AtaAt(pc') \in 1 .. 48
  BY AtaStepsLemma
<1> QED BY <1>1, <1>2, <1>3, AtaAfter DEF AtaMoves

\* A part is passed by a step from it, which neither returns nor throws.
LEMMA AtaPastLemma ==
    ASSUME AtaStep, NEW part \in AtaSteps, AtaAt(part) <= AtaAt("selftest"), AtaPast(pc', part)
    PROVE  AtaPast(pc, part) \/ (pc = part /\ pc' \notin {pc, "stopped", "exit"})
<1>1. pc \in AtaSteps /\ pc # "done" /\ AtaMoves
  BY DEF AtaStep
<1>2. pc' \in AtaSteps /\ pc' \notin {"stopped", "exit"} /\ AtaAt(pc') > AtaAt(part)
  BY AtaEnds DEF AtaPast
<1>3. AtaAt(pc) \in Int /\ AtaAt(part) \in Int /\ AtaAt("selftest") \in Int /\ AtaAt(pc') \in Int
  BY <1>1, <1>2, AtaStepsLemma, AtaElements
<1>4. CASE pc' = pc
  BY <1>1, <1>2, <1>4 DEF AtaPast
<1>5. CASE pc' = Ata!After(pc)
  <2>1. AtaAt(pc') = AtaAt(pc) + 1
    BY <1>1, <1>5, AtaAfter
  <2>2. AtaAt(pc) > AtaAt(part) \/ AtaAt(pc) = AtaAt(part)
    BY <1>2, <1>3, <2>1
  <2> QED BY <1>1, <1>2, <1>3, <2>1, <2>2, AtaStepsLemma DEF AtaPast
<1>6. CASE AtaAt(pc) > AtaAt("selftest")
  BY <1>1, <1>3, <1>6 DEF AtaPast
<1> QED BY <1>1, <1>2, <1>4, <1>5, <1>6 DEF AtaMoves

\* Who is not behind a part was not before; staying at it changes nothing of these.
LEMMA AtaUpToLemma ==
    ASSUME AtaStep, NEW part \in AtaSteps, AtaUpTo(pc', part)
    PROVE  AtaUpTo(pc, part) /\ (pc = part => UNCHANGED << failed, smart_enabled >>)
<1>1. pc' \notin {"stopped", "exit"} /\ AtaAt(pc') <= AtaAt(part) /\ AtaAt(part) \in Int
  BY AtaEnds, AtaStepsLemma DEF AtaUpTo
<1> QED BY <1>1, AtaForward DEF AtaUpTo

\* Types, and the use of -T permissive.
AtaTypes ==
    /\ opts \in AtaOptions /\ disk \in AtaDisks
    /\ pc \in AtaSteps \cup {"stopped", "exit"}
    /\ failuretest_permissive \in Nat /\ failuretest_permissive <= opts.permissive
    /\ permitted => failuretest_permissive < opts.permissive
    /\ smart_supported \in -1 .. 1 /\ smart_enabled \in -1 .. 1

\* A command that has failed has left its bit (FailureReported); none has before IDENTIFY.
AtaFailures ==
    /\ pc \in {"power", "identify"} => failed = {}
    /\ pc = "exit" => returnval # {}
    /\ Ata!FailureReported

\* What is known of the health, as long as no bit says that it is not (ZeroMeansHealthy).
AtaHealth ==
    "status" \in opts.on /\ "SMART" \notin returnval =>
        /\ AtaPast(pc, "values") => smart_val_ok
        /\ AtaPast(pc, "thresholds") => smart_thres_ok
        /\ AtaPast(pc, "status") /\ returnval \cap {"STATUS", "ATTR", "AGE"} = {} =>
               answer \in {"passed", "unsupported"} /\ disk.attributes = "good"

\* -T permissive has overlooked something.
Overlooked == failuretest_permissive < opts.permissive

\* SMART is on when its data are read (ReadOnlyIfEnabled): what the identify data say is true
\* until it is used, "supported" and "enabled" let a run pass that needs SMART only if it is on,
\* and nothing turns it off later.
AtaEnabled ==
    /\ AtaUpTo(pc, "support") => on = disk.on /\ smart_enabled = -1
    /\ AtaUpTo(pc, "enabled") /\ smart_enabled = 1 =>
           on \/ smart_supported <= 0 \/ "off" \in opts.on
    /\ AtaPast(pc, "supported") /\ Ata!NeedSmartSupport => smart_supported > 0 \/ Overlooked
    /\ AtaPast(pc, "enabled") /\ Ata!NeedSmartVal => on \/ Overlooked
    /\ smart_val_ok => AtaPast(pc, "values") \/ pc \in {"stopped", "exit"}
    /\ Ata!ReadOnlyIfEnabled

\* What is known of the records in the logs (RecordsReported).
AtaRecords ==
    /\ smartlogdir = {}
       \/ \A log \in {"error", "selftest"} : log \in disk.smartlogs => log \in smartlogdir
    /\ \A log \in {"error", "selftest"} : log \in disk.errors =>
        /\ AtaPast(pc, Ata!Extended[log])
           /\ {Ata!Extended[log], Ata!Again[log]} \subseteq opts.on =>
               Ata!LogBit[log] \in returnval \/ log \in retry
        /\ AtaPast(pc, log) /\ Ata!Offered(log) /\ failed \cap {log, "identify"} = {}
           /\ (log \in opts.on \/ {Ata!Extended[log], Ata!Again[log]} \subseteq opts.on) =>
               Ata!LogBit[log] \in returnval

AtaInv == AtaTypes /\ AtaFailures /\ AtaHealth /\ AtaEnabled /\ AtaRecords /\ Ata!NothingSentAfter

\* What is known of each step in a state of the invariant.
LEMMA AtaFacts ==
    ASSUME AtaTypes, Ata!Next
    PROVE  /\ AtaStep /\ AtaChanges /\ AtaPowerDone /\ AtaSupportDone /\ AtaValuesDone
           /\ AtaStatusDone /\ AtaLogsDone
           /\ opts \in Ata!OptionType /\ disk \in Ata!DiskType
<1>1. opts \in Ata!OptionType /\ disk \in Ata!DiskType /\ Ata!DiskAssumption(disk)
  BY AtaAssumption DEF AtaTypes
<1>2. failuretest_permissive \in Nat /\ smart_enabled \in -1 .. 1 /\ smart_supported \in -1 .. 1
  BY DEF AtaTypes
<1> QED BY <1>1, <1>2, AtaStepLemma, AtaDone

\* The types are kept.
LEMMA AtaTypesStep ==
    ASSUME AtaInv, Ata!Next PROVE AtaTypes'
<1>1. AtaTypes /\ AtaEnabled
  BY DEF AtaInv
<1>2. AtaStep /\ AtaChanges /\ AtaSupportDone /\ opts \in Ata!OptionType
  BY <1>1, AtaFacts
<1>3. opts' \in AtaOptions /\ disk' \in AtaDisks
  BY <1>1, <1>2 DEF AtaTypes, AtaStep
<1>4. pc' \in AtaSteps \cup {"stopped", "exit"}
  BY <1>2, AtaAfter DEF AtaStep, AtaMoves
<1>5. /\ failuretest_permissive' \in Nat /\ failuretest_permissive' <= opts'.permissive
      /\ permitted' => failuretest_permissive' < opts'.permissive
  BY <1>1, <1>2 DEF AtaTypes, AtaStep, Ata!OptionType
<1>6. smart_supported' \in -1 .. 1 /\ smart_enabled' \in -1 .. 1
  BY <1>1, <1>2 DEF AtaTypes, AtaChanges, AtaSupportDone
<1> QED BY <1>3, <1>4, <1>5, <1>6 DEF AtaTypes

\* No step forgets a failure.
LEMMA AtaFailuresStep ==
    ASSUME AtaInv, Ata!Next PROVE AtaFailures'
<1>1. AtaTypes /\ AtaFailures
  BY DEF AtaInv
<1>2. AtaStep
  BY <1>1, AtaFacts
<1>3. ASSUME pc' \in {"power", "identify"} PROVE failed' = {}
  <2>1. AtaUpTo(pc', "identify")
    BY <1>3, AtaElements, AtaNumbers DEF AtaUpTo
  <2>2. AtaUpTo(pc, "identify") /\ (pc = "identify" => failed' = failed)
    BY <1>2, <2>1, AtaUpToLemma, AtaElements
  <2>3. AtaAt(pc) = 1 \/ AtaAt(pc) = 2
    BY <2>2, AtaStepsLemma, AtaNumbers DEF AtaUpTo
  <2>4. pc \in {"power", "identify"}
    BY <2>2, <2>3, AtaStepsLemma, AtaNumbers, AtaElements DEF AtaUpTo
  <2> QED BY <1>1, <1>2, <2>2, <2>4 DEF AtaFailures, AtaStep
<1>4. pc' = "exit" => returnval' # {}
  BY <1>2, AtaEnds, AtaAfter DEF AtaStep, AtaMoves
<1>5. Ata!FailureReported'
  BY <1>1, <1>2 DEF AtaFailures, Ata!FailureReported, AtaStep, AtaKeepsBits, AtaBits
<1> QED BY <1>3, <1>4, <1>5 DEF AtaFailures

\* Behind -P show no bit is lost, unless -b exit ends the run.
LEMMA AtaBitsKept ==
    ASSUME AtaStep, AtaPast(pc, "presets"), pc' # "exit"
    PROVE  returnval \subseteq returnval'
  BY AtaNumbers DEF AtaStep, AtaKeepsBits, AtaPast

\* A part that matters for the health is passed without losing a bit.
LEMMA AtaPastOnly ==
    ASSUME AtaStep, NEW part \in {"values", "thresholds", "status"}, AtaPast(pc', part)
    PROVE  /\ AtaPast(pc, part) \/ (pc = part /\ pc' \notin {pc, "stopped", "exit"})
           /\ returnval \subseteq returnval'
<1>1. AtaPast(pc, part) \/ (pc = part /\ pc' \notin {pc, "stopped", "exit"})
  BY AtaPastLemma, AtaElements, AtaNumbers
<1>2. pc \in AtaSteps /\ AtaAt(pc) \in Int /\ pc' # "exit"
  BY AtaStepsLemma, AtaEnds DEF AtaStep, AtaPast
<1>3. AtaPast(pc, "presets")
  BY <1>1, <1>2, AtaNumbers DEF AtaPast
<1> QED BY <1>1, <1>2, <1>3, AtaBitsKept

\* No step forgets what is to be said of the health.
LEMMA AtaHealthStep ==
    ASSUME AtaInv, Ata!Next PROVE AtaHealth'
<1>1. AtaTypes /\ AtaHealth
  BY DEF AtaInv
<1>2. AtaStep /\ AtaChanges /\ AtaValuesDone /\ AtaStatusDone
  BY <1>1, AtaFacts
<1>3. SUFFICES ASSUME "status" \in opts.on, "SMART" \notin returnval'
               PROVE  /\ AtaPast(pc', "values") => smart_val_ok'
                      /\ AtaPast(pc', "thresholds") => smart_thres_ok'
                      /\ AtaPast(pc', "status")
                         /\ returnval' \cap {"STATUS", "ATTR", "AGE"} = {} =>
                             answer' \in {"passed", "unsupported"} /\ disk.attributes = "good"
  BY <1>2 DEF AtaHealth, AtaStep
<1>4. pc \in AtaSteps /\ AtaAt(pc) \in Int
  BY <1>2, AtaStepsLemma DEF AtaStep
<1>5. AtaPast(pc', "values") => smart_val_ok'
  <2>1. Ata!NeedSmartVal
    BY <1>3 DEF Ata!NeedSmartVal, Ata!Chosen
  <2> QED BY <1>1, <1>2, <1>3, <2>1, AtaPastOnly DEF AtaHealth, AtaChanges, AtaValuesDone
<1>6. AtaPast(pc', "thresholds") => smart_thres_ok'
  <2>1. pc = "thresholds" => AtaPast(pc, "values")
    BY <1>4, AtaNumbers DEF AtaPast
  <2>2. AtaPast(pc, "thresholds") => pc # "thresholds"
    BY <1>4 DEF AtaPast
  <2> QED BY <1>1, <1>2, <1>3, <2>1, <2>2, AtaPastOnly DEF AtaHealth, AtaChanges, AtaValuesDone
<1>7. ASSUME AtaPast(pc', "status"), returnval' \cap {"STATUS", "ATTR", "AGE"} = {}
      PROVE  answer' \in {"passed", "unsupported"} /\ disk.attributes = "good"
  <2>1. pc = "status" => AtaPast(pc, "values") /\ AtaPast(pc, "thresholds")
    BY <1>4, AtaNumbers DEF AtaPast
  <2>2. AtaPast(pc, "status") => pc # "status"
    BY <1>4 DEF AtaPast
  <2>3. (AtaPast(pc, "status") \/ pc = "status") /\ returnval \subseteq returnval'
    BY <1>2, <1>7, AtaPastOnly
  <2> QED BY <1>1, <1>2, <1>3, <1>7, <2>1, <2>2, <2>3 DEF AtaHealth, AtaChanges, AtaStatusDone
<1> QED BY <1>5, <1>6, <1>7

\* No step reads SMART data of a disk whose SMART is off.
LEMMA AtaEnabledStep ==
    ASSUME AtaInv, Ata!Next PROVE AtaEnabled'
<1>1. AtaTypes /\ AtaEnabled
  BY DEF AtaInv
<1>2. AtaStep /\ AtaChanges /\ AtaSupportDone /\ AtaValuesDone /\ opts \in Ata!OptionType
  BY <1>1, AtaFacts
<1>3. pc \in AtaSteps /\ AtaAt(pc) \in Int /\ opts' = opts /\ disk' = disk
  BY <1>2, AtaStepsLemma DEF AtaStep
<1>4. AtaUpTo(pc', "support") => on' = disk'.on /\ smart_enabled' = -1
  <2>1. AtaUpTo(pc', "support") =>
            AtaUpTo(pc, "support") /\ (pc = "support" => smart_enabled' = smart_enabled)
    BY <1>2, AtaUpToLemma, AtaElements
  <2>2. AtaUpTo(pc, "support") => pc \notin {"on", "off"}
    BY AtaNumbers DEF AtaUpTo
  <2> QED BY <1>1, <1>2, <1>3, <2>1, <2>2 DEF AtaEnabled, AtaChanges
<1>5. AtaUpTo(pc', "enabled") /\ smart_enabled' = 1 =>
           on' \/ smart_supported' <= 0 \/ "off" \in opts'.on
  <2>1. AtaUpTo(pc', "enabled") => AtaUpTo(pc, "enabled")
    BY <1>2, AtaUpToLemma, AtaElements
  <2>2. SUFFICES ASSUME AtaUpTo(pc, "enabled"), smart_enabled' = 1, "off" \notin opts.on
                 PROVE  on' \/ smart_supported' <= 0
    BY <1>3, <2>1
  <2>3. CASE pc = "support"
    <3>1. AtaUpTo(pc, "support")
      BY <1>3, <2>3, AtaElements DEF AtaUpTo
    <3> QED BY <1>1, <1>2, <2>2, <2>3, <3>1 DEF AtaEnabled, AtaChanges, AtaSupportDone
  <2>4. CASE pc = "on"
    BY <1>1, <1>2, <2>2, <2>4 DEF AtaEnabled, AtaChanges, AtaSupportDone
  <2>5. CASE pc = "off"
    BY <1>1, <1>2, <2>2, <2>5 DEF AtaEnabled, AtaChanges, AtaSupportDone
  <2>6. CASE pc \notin {"support", "on", "off"}
    BY <1>1, <1>2, <2>2, <2>6 DEF AtaEnabled, AtaChanges
  <2> QED BY <2>3, <2>4, <2>5, <2>6
<1>6. AtaPast(pc', "supported") /\ Ata!NeedSmartSupport' => smart_supported' > 0 \/ Overlooked'
  <2>1. SUFFICES ASSUME AtaPast(pc', "supported"), Ata!NeedSmartSupport
                 PROVE  smart_supported' > 0 \/ Overlooked'
    BY <1>3 DEF Ata!NeedSmartSupport, Ata!NeedSmartEnabled, Ata!NeedSmartVal, Ata!Chosen
  <2>2. AtaPast(pc, "supported") \/ (pc = "supported" /\ pc' \notin {pc, "stopped", "exit"})
    BY <1>2, <2>1, AtaPastLemma, AtaElements, AtaNumbers
  <2>3. pc # "support"
    BY <2>2, AtaNumbers DEF AtaPast
  <2>4. smart_supported > 0 \/ Overlooked \/ failuretest_permissive' < failuretest_permissive
    BY <1>1, <1>2, <2>1, <2>2 DEF AtaEnabled, AtaSupportDone
  <2> QED BY <1>1, <1>2, <1>3, <2>3, <2>4
          DEF AtaTypes, AtaChanges, AtaStep, Overlooked, Ata!OptionType
<1>7. AtaPast(pc, "enabled") => on' = on
  BY <1>2, AtaNumbers DEF AtaPast, AtaChanges
<1>8. Overlooked => Overlooked'
  BY <1>1, <1>2, <1>3 DEF AtaTypes, AtaStep, Overlooked, Ata!OptionType
<1>9. AtaPast(pc', "enabled") /\ Ata!NeedSmartVal' => on' \/ Overlooked'
  <2>1. SUFFICES ASSUME AtaPast(pc', "enabled"), Ata!NeedSmartVal
                 PROVE  on' \/ Overlooked'
    BY <1>3 DEF Ata!NeedSmartVal, Ata!Chosen
  <2>2. CASE AtaPast(pc, "enabled")
    BY <1>1, <1>7, <1>8, <2>1, <2>2 DEF AtaEnabled
  <2>3. CASE pc = "enabled" /\ pc' \notin {pc, "stopped", "exit"}
    <3>1. AtaPast(pc, "supported") /\ AtaUpTo(pc, "enabled")
      BY <1>3, <2>3, AtaNumbers, AtaElements DEF AtaPast, AtaUpTo
    <3>2. Ata!NeedSmartEnabled /\ Ata!NeedSmartSupport
      BY <2>1 DEF Ata!NeedSmartEnabled, Ata!NeedSmartSupport
    <3>3. "off" \notin opts.on /\ (permitted \/ smart_enabled > 0)
      BY <1>2, <2>3, <3>2 DEF AtaSupportDone
    <3>4. permitted => Overlooked
      BY <1>1 DEF AtaTypes, Overlooked
    <3>5. smart_enabled > 0 => smart_enabled = 1
      BY <1>1 DEF AtaTypes
    <3>6. ~(smart_supported > 0 /\ smart_supported <= 0)
      BY <1>1 DEF AtaTypes
    <3>7. on \/ Overlooked
      BY <1>1, <3>1, <3>2, <3>3, <3>4, <3>5, <3>6 DEF AtaEnabled
    <3>8. on' = on
      BY <1>2, <2>3 DEF AtaChanges
    <3> QED BY <1>8, <3>7, <3>8
  <2> QED BY <1>2, <2>1, <2>2, <2>3, AtaPastLemma, AtaElements, AtaNumbers
<1>10. /\ smart_val_ok' => AtaPast(pc', "values") \/ pc' \in {"stopped", "exit"}
       /\ smart_val_ok' => on' \/ Overlooked'
  <2>1. SUFFICES ASSUME smart_val_ok'
                 PROVE  /\ AtaPast(pc', "values") \/ pc' \in {"stopped", "exit"}
                        /\ on' \/ Overlooked'
    OBVIOUS
  <2>2. (pc = "values" /\ Ata!NeedSmartVal) \/ (smart_val_ok /\ AtaPast(pc, "values"))
    BY <1>1, <1>2, <1>3, <2>1, AtaEnds DEF AtaEnabled, AtaChanges, AtaValuesDone
  <2>3. AtaPast(pc, "enabled")
    BY <1>3, <2>2, AtaNumbers DEF AtaPast
  <2>4. on \/ Overlooked
    BY <1>1, <2>2, <2>3 DEF AtaEnabled, Ata!ReadOnlyIfEnabled, Overlooked
  <2>5. AtaPast(pc', "values") \/ pc' \in {"stopped", "exit"}
    <3>1. AtaAt(pc) >= AtaAt("values")
      BY <1>3, <2>2, AtaNumbers DEF AtaPast
    <3>2. CASE UNCHANGED << pc, smart_val_ok >>
      BY <1>1, <2>1, <3>2 DEF AtaEnabled
    <3>3. CASE pc' \in AtaSteps /\ AtaAt(pc') \in 1 .. 48 /\ AtaAt(pc') > AtaAt(pc)
      BY <1>3, <3>1, <3>3, AtaNumbers DEF AtaPast
    <3> QED BY <1>2, <3>2, <3>3, AtaForward
  <2> QED BY <1>7, <1>8, <2>3, <2>4, <2>5
<1> QED BY <1>4, <1>5, <1>6, <1>9, <1>10 DEF AtaEnabled, Ata!ReadOnlyIfEnabled, Overlooked

\* No step forgets the records of a log.
LEMMA AtaRecordsStep ==
    ASSUME AtaInv, Ata!Next PROVE AtaRecords'
<1>1. AtaTypes /\ AtaRecords
  BY DEF AtaInv
<1>2. AtaStep /\ AtaChanges /\ AtaLogsDone
  BY <1>1, AtaFacts
<1>3. pc \in AtaSteps /\ AtaAt(pc) \in Int /\ opts' = opts /\ disk' = disk
  BY <1>2, AtaStepsLemma DEF AtaStep
<1>4. smartlogdir' = {}
      \/ \A log \in {"error", "selftest"} : log \in disk'.smartlogs => log \in smartlogdir'
  BY <1>1, <1>2, <1>3 DEF AtaRecords, AtaChanges
<1>5. SUFFICES ASSUME NEW log \in {"error", "selftest"}, log \in disk.errors
               PROVE  /\ AtaPast(pc', Ata!Extended[log])
                         /\ {Ata!Extended[log], Ata!Again[log]} \subseteq opts.on =>
                             Ata!LogBit[log] \in returnval' \/ log \in retry'
                      /\ AtaPast(pc', log) /\ Ata!Offered(log)
                         /\ failed' \cap {log, "identify"} = {}
                         /\ (log \in opts.on
                             \/ {Ata!Extended[log], Ata!Again[log]} \subseteq opts.on) =>
                             Ata!LogBit[log] \in returnval'
  BY <1>3, <1>4 DEF AtaRecords, Ata!Offered
<1>6. ASSUME NEW part \in {log, Ata!Extended[log]}, AtaPast(pc', part)
      PROVE  /\ AtaPast(pc, part) \/ (pc = part /\ pc' \notin {pc, "stopped", "exit"})
             /\ returnval \subseteq returnval'
  <2>1. part \in AtaSteps /\ AtaAt(part) <= AtaAt("selftest") /\ AtaAt(part) > AtaAt("presets")
    BY AtaLogNames, AtaElements, AtaNumbers
  <2>2. AtaPast(pc, part) \/ (pc = part /\ pc' \notin {pc, "stopped", "exit"})
    BY <1>2, <1>6, <2>1, AtaPastLemma
  <2>3. AtaPast(pc, "presets") /\ pc' # "exit"
    BY <1>3, <1>6, <2>1, <2>2, AtaStepsLemma, AtaNumbers, AtaEnds DEF AtaPast
  <2> QED BY <1>2, <2>2, <2>3, AtaBitsKept
<1>7. ASSUME AtaPast(pc', Ata!Extended[log]),
             {Ata!Extended[log], Ata!Again[log]} \subseteq opts.on
      PROVE  Ata!LogBit[log] \in returnval' \/ log \in retry'
  BY <1>1, <1>2, <1>5, <1>6, <1>7 DEF AtaRecords, AtaChanges, AtaLogsDone
<1>8. ASSUME AtaPast(pc', log), Ata!Offered(log), failed' \cap {log, "identify"} = {},
             log \in opts.on \/ {Ata!Extended[log], Ata!Again[log]} \subseteq opts.on
      PROVE  Ata!LogBit[log] \in returnval'
  <2>1. failed \subseteq failed'
    BY <1>2 DEF AtaStep
  <2>2. CASE AtaPast(pc, log)
    BY <1>1, <1>5, <1>6, <1>8, <2>1, <2>2 DEF AtaRecords
  <2>3. CASE pc = log /\ pc' \notin {pc, "stopped", "exit"}
    <3>1. AtaPast(pc, Ata!Extended[log])
      BY <1>3, <2>3, AtaLogNames, AtaNumbers DEF AtaPast
    <3>2. Ata!LogBit[log] \in returnval \/ log \in opts.on \cup retry
      BY <1>1, <1>5, <1>8, <3>1 DEF AtaRecords
    <3>3. Ata!LogSupported(log)
      <4>1. Ata!drive = disk
        BY <1>8, <2>1 DEF Ata!drive
      <4> QED BY <1>1, <1>8, <4>1 DEF AtaRecords, Ata!LogSupported, Ata!Offered
    <3> QED BY <1>2, <1>5, <1>6, <1>8, <2>3, <3>2, <3>3 DEF AtaLogsDone
  <2> QED BY <1>6, <1>8, <2>2, <2>3
<1> QED BY <1>7, <1>8

\* No step sends a command to a disk that is to be left alone.
LEMMA AtaSentStep ==
    ASSUME AtaInv, Ata!Next PROVE Ata!NothingSentAfter'
<1>1. AtaTypes /\ Ata!NothingSentAfter
  BY DEF AtaInv
<1>2. AtaStep /\ AtaChanges /\ AtaPowerDone /\ opts \in Ata!OptionType /\ disk \in Ata!DiskType
  BY <1>1, AtaFacts
<1>3. pc \in AtaSteps /\ pc \notin {"stopped", "exit"} /\ opts' = opts /\ disk' = disk
  BY <1>2, AtaEnds DEF AtaStep
<1>4. Ata!ConservativeStops'
  BY <1>1, <1>2, <1>3
     DEF Ata!NothingSentAfter, Ata!ConservativeStops, AtaStep, AtaBits, AtaConservative
<1>5. Ata!StandbyKept'
  <2>0. ASSUME pc' \in AtaSteps, AtaAt(pc') > AtaAt("now")
        PROVE  pc' \in {"capable", "test", "offline_time", "done"}
    <3>1. AtaAt(pc') \in {45, 46, 47, 48}
      BY <2>0, AtaStepsLemma, AtaNumbers
    <3> QED BY <2>0, <3>1, AtaStepsLemma, AtaNumbers, AtaElements
  <2>1. SUFFICES ASSUME asleep'
                 PROVE  pc' = "exit" \/ (pc' \in AtaSteps /\ AtaAt(pc') > AtaAt("now"))
    BY <2>0 DEF Ata!StandbyKept
  <2>2. CASE asleep
    <3>1. AtaAt(pc) > AtaAt("now")
      BY <1>1, <1>3, <2>2, AtaNumbers DEF Ata!NothingSentAfter, Ata!StandbyKept
    <3>2. pc' # "stopped"
      BY <1>2, <1>3, <3>1, AtaAfter, AtaEnds, AtaForward, AtaNumbers DEF AtaStep, AtaMoves
    <3> QED BY <1>2, <3>1, <3>2, AtaForward, AtaNumbers
  <2>3. CASE pc = "now" /\ pc' = Ata!After(pc)
    BY <2>3, AtaAfter, AtaElements, AtaNumbers
  <2> QED BY <1>2, <2>1, <2>2, <2>3 DEF AtaChanges
<1>6. Ata!LowPowerKept'
  <2>1. SUFFICES ASSUME opts.powermode >= Ata!PowerLimit(disk.power)
                 PROVE  pc' \in {"power", "stopped"}
    BY <1>3 DEF Ata!LowPowerKept, Ata!PowerLimit
  <2>2. pc = "power"
    BY <1>1, <1>3, <2>1 DEF Ata!NothingSentAfter, Ata!LowPowerKept
  <2> QED BY <1>2, <2>1, <2>2 DEF AtaPowerDone
<1> QED BY <1>4, <1>5, <1>6 DEF Ata!NothingSentAfter

\* Each step of the function keeps the invariant.
LEMMA AtaInvStep ==
    ASSUME AtaInv, Ata!Next PROVE AtaInv'
  BY AtaTypesStep, AtaFailuresStep, AtaHealthStep, AtaEnabledStep, AtaRecordsStep, AtaSentStep
     DEF AtaInv

\* Before the first part nothing has been passed.
LEMMA AtaNothingPast ==
    ASSUME pc = "power"
    PROVE  /\ ~AtaPast(pc, "values") /\ ~AtaPast(pc, "thresholds") /\ ~AtaPast(pc, "status")
           /\ ~AtaPast(pc, "supported") /\ ~AtaPast(pc, "enabled")
           /\ \A log \in {"error", "selftest"} :
                  ~AtaPast(pc, log) /\ ~AtaPast(pc, Ata!Extended[log])
  BY AtaElements, AtaNumbers, AtaLogNames DEF AtaPast

\* The invariant holds when the function for the protocol begins.
LEMMA AtaInvInit ==
    ASSUME Ata!Init PROVE AtaInv
<1>1. /\ pc = "power" /\ failuretest_permissive = opts.permissive /\ permitted = FALSE
      /\ returnval = {} /\ failed = {}
  BY AtaPartsLemma DEF Ata!Init, Ata!Begin, AtaOrder
<1>2. opts \in AtaOptions /\ disk \in AtaDisks /\ opts \in Ata!OptionType
  BY AtaAssumption DEF Ata!Init
<1>3. pc \in AtaSteps
  BY <1>1, AtaElements
<1>4. AtaTypes
  BY <1>1, <1>2, <1>3 DEF AtaTypes, Ata!Init, Ata!OptionType
<1>5. AtaFailures
  BY <1>1 DEF AtaFailures, Ata!FailureReported
<1>6. AtaHealth
  BY <1>1, AtaNothingPast DEF AtaHealth
<1>7. AtaEnabled
  BY <1>1, AtaNothingPast DEF AtaEnabled, Ata!Init, Ata!ReadOnlyIfEnabled
<1>8. AtaRecords
  BY <1>1, AtaNothingPast DEF AtaRecords, Ata!Init
<1>9. Ata!NothingSentAfter
  BY <1>1 DEF Ata!Init, Ata!NothingSentAfter, Ata!ConservativeStops, Ata!StandbyKept,
              Ata!LowPowerKept
<1> QED BY <1>4, <1>5, <1>6, <1>7, <1>8, <1>9 DEF AtaInv

\* Getting and opening the device changes nothing that this invariant says; nor does
\* its end.
LEMMA AtaInvKept ==
    ASSUME AtaInv, UNCHANGED << opts, disk, pc, failuretest_permissive, permitted, failed,
                                answer, ata >>,
           pc = "power" \/ returnval' = returnval
    PROVE  AtaInv'
<1>1. AtaTypes'
  BY DEF AtaInv, AtaTypes, ata
<1>2. AtaFailures'
  BY DEF AtaInv, AtaFailures, Ata!FailureReported, ata
<1>3. AtaHealth'
  BY AtaNothingPast DEF AtaInv, AtaHealth, ata
<1>4. AtaEnabled'
  BY DEF AtaInv, AtaEnabled, ata, Ata!ReadOnlyIfEnabled, Overlooked, Ata!NeedSmartSupport,
         Ata!NeedSmartEnabled, Ata!NeedSmartVal, Ata!Chosen
<1>5. AtaRecords'
  BY AtaNothingPast DEF AtaInv, AtaRecords, ata, Ata!Offered
<1>6. Ata!NothingSentAfter'
  BY DEF AtaInv, ata, Ata!NothingSentAfter, Ata!ConservativeStops, Ata!StandbyKept,
              Ata!LowPowerKept, Ata!PowerLimit
<1> QED BY <1>1, <1>2, <1>3, <1>4, <1>5, <1>6 DEF AtaInv

\* What the invariant says of the properties.
LEMMA AtaInvImplies ==
    ASSUME AtaInv
    PROVE  /\ Ata!FailureReported /\ Ata!ZeroMeansHealthy /\ Ata!ReadOnlyIfEnabled
           /\ Ata!RecordsReported /\ Ata!NothingSentAfter
           /\ pc = "exit" => returnval # {}
<1>1. pc = "done" => AtaPast(pc, "values") /\ AtaPast(pc, "thresholds") /\ AtaPast(pc, "status")
      /\ AtaPast(pc, "error") /\ AtaPast(pc, "selftest")
  BY AtaElements, AtaNumbers DEF AtaPast
<1>2. Ata!ZeroMeansHealthy
  BY <1>1 DEF AtaInv, AtaHealth, Ata!ZeroMeansHealthy, Ata!AttributesKnown
<1>3. Ata!RecordsReported
  <2>1. disk.errors \subseteq {"error", "selftest"}
    BY AtaAssumption DEF AtaInv, AtaTypes, Ata!DiskType
  <2> QED BY <1>1, <2>1 DEF AtaInv, AtaRecords, Ata!RecordsReported
<1> QED BY <1>2, <1>3 DEF AtaInv, AtaFailures, AtaEnabled

-----------------------------------------------------------------------------
(***************************************************************************)
(* SCSI devices.                                                           *)
(***************************************************************************)
\* Parts of SmartctlScsi, written out.
ScsiOrder ==
    << "power", "identify", "iec", "ready", "cache", "on", "off", "autosave_on", "wcache",
       "lookahead", "autosave_off", "pages", "health", "media", "format", "attributes",
       "farm", "errors", "selftest", "background", "zoned", "performance",
       "tape_statistics", "tape_alerts", "running", "test", "sas_phy", "environment",
       "standby", "done" >>
ScsiSteps == Elements(ScsiOrder)
ScsiAt(part) == Position(ScsiOrder, part)

\* The order has 30 parts and no part twice.
LEMMA ScsiOrderLemma ==
    /\ ScsiOrder \in Seq(ScsiSteps) /\ Len(ScsiOrder) = 30 /\ DOMAIN ScsiOrder = 1 .. 30
    /\ Distinct(ScsiOrder)
<1>1. Len(ScsiOrder) = 30 /\ DOMAIN ScsiOrder = 1 .. 30
  BY DEF ScsiOrder
<1>2. ScsiOrder \in Seq(Elements(ScsiOrder))
  BY DEF ScsiOrder, Elements
<1>3. Distinct(ScsiOrder)
  BY DEF ScsiOrder, Distinct
<1> QED BY <1>1, <1>2, <1>3 DEF ScsiSteps

\* SmartctlScsi!Parts is this order.
LEMMA ScsiPartsLemma == Scsi!Parts = ScsiOrder
<1> DEFINE p1 == << "power", "identify", "iec", "ready", "cache" >>
           p3 == << "pages", "health" >>
           p5 == << "running", "test", "sas_phy", "environment", "standby", "done" >>
<1>1. Piece(p1, 0, 5, ScsiOrder)
  BY DEF Piece, ScsiOrder, Elements
<1>2. Piece(Scsi!SettingParts, 5, 6, ScsiOrder)
  BY DEF Piece, ScsiOrder, Elements, Scsi!SettingParts
<1>3. Piece(p3, 11, 2, ScsiOrder)
  BY DEF Piece, ScsiOrder, Elements
<1>4. Piece(Scsi!PageParts, 13, 11, ScsiOrder)
  BY DEF Piece, ScsiOrder, Elements, Scsi!PageParts
<1>5. Piece(p5, 24, 6, ScsiOrder)
  BY DEF Piece, ScsiOrder, Elements
<1>6. Scsi!Parts = p1 \o Scsi!SettingParts \o p3 \o Scsi!PageParts \o p5
  BY DEF Scsi!Parts
<1> HIDE DEF p1, p3, p5
<1>7. Piece(p1 \o Scsi!SettingParts, 0, 11, ScsiOrder)
  BY <1>2, <1>1, PieceLemma
<1>8. Piece(p1 \o Scsi!SettingParts \o p3, 0, 13, ScsiOrder)
  BY <1>3, <1>7, PieceLemma
<1>9. Piece(p1 \o Scsi!SettingParts \o p3 \o Scsi!PageParts, 0, 24, ScsiOrder)
  BY <1>4, <1>8, PieceLemma
<1>10. Piece(Scsi!Parts, 0, 30, ScsiOrder)
  BY <1>5, <1>6, <1>9, PieceLemma
<1> QED BY <1>10, ScsiOrderLemma, WholePiece DEF ScsiSteps

\* After() goes to the next position, from every part but the last.
LEMMA ScsiAfter ==
    ASSUME NEW part \in ScsiSteps, part # "done"
    PROVE  Scsi!After(part) \in ScsiSteps /\ ScsiAt(Scsi!After(part)) = ScsiAt(part) + 1
<1>1. PICK i \in 1 .. 30 : part = ScsiOrder[i]
  BY ScsiOrderLemma DEF ScsiSteps, Elements
<1>2. i # 30
  BY <1>1 DEF ScsiOrder
<1>3. i \in DOMAIN ScsiOrder /\ i + 1 \in DOMAIN ScsiOrder
  BY <1>2, ScsiOrderLemma
<1>4. ScsiAt(part) = i /\ ScsiAt(ScsiOrder[i + 1]) = i + 1
  BY <1>1, <1>3, ScsiOrderLemma, PositionLemma DEF ScsiAt
<1>5. Scsi!After(part) = Scsi!Parts[Position(Scsi!Parts, part) + 1]
  BY DEF Scsi!After, Position
<1>6. Scsi!After(part) = ScsiOrder[i + 1]
  BY <1>4, <1>5, ScsiPartsLemma DEF ScsiAt
<1>7. ScsiOrder[i + 1] \in ScsiSteps
  BY <1>3 DEF ScsiSteps, Elements
<1> QED BY <1>4, <1>6, <1>7

\* Different parts have different positions.
LEMMA ScsiStepsLemma ==
    ASSUME NEW part \in ScsiSteps
    PROVE  /\ ScsiAt(part) \in 1 .. 30
           /\ \A other \in ScsiSteps : ScsiAt(other) = ScsiAt(part) => other = part
<1>1. ASSUME NEW x \in ScsiSteps PROVE ScsiAt(x) \in 1 .. 30 /\ x = ScsiOrder[ScsiAt(x)]
  <2>1. PICK i \in 1 .. 30 : x = ScsiOrder[i]
    BY ScsiOrderLemma DEF ScsiSteps, Elements
  <2>2. Position(ScsiOrder, ScsiOrder[i]) = i
    BY ScsiOrderLemma, PositionLemma
  <2> QED BY <2>1, <2>2 DEF ScsiAt
<1> QED BY <1>1

\* The positions of all parts.
LEMMA ScsiNumbers ==
    /\ ScsiAt("power") = 1 /\ ScsiAt("identify") = 2 /\ ScsiAt("iec") = 3
    /\ ScsiAt("ready") = 4 /\ ScsiAt("cache") = 5 /\ ScsiAt("on") = 6 /\ ScsiAt("off") = 7
    /\ ScsiAt("autosave_on") = 8 /\ ScsiAt("wcache") = 9 /\ ScsiAt("lookahead") = 10
    /\ ScsiAt("autosave_off") = 11 /\ ScsiAt("pages") = 12 /\ ScsiAt("health") = 13
    /\ ScsiAt("media") = 14 /\ ScsiAt("format") = 15 /\ ScsiAt("attributes") = 16
    /\ ScsiAt("farm") = 17 /\ ScsiAt("errors") = 18 /\ ScsiAt("selftest") = 19
    /\ ScsiAt("background") = 20 /\ ScsiAt("zoned") = 21 /\ ScsiAt("performance") = 22
    /\ ScsiAt("tape_statistics") = 23 /\ ScsiAt("tape_alerts") = 24 /\ ScsiAt("running") = 25
    /\ ScsiAt("test") = 26 /\ ScsiAt("sas_phy") = 27 /\ ScsiAt("environment") = 28
    /\ ScsiAt("standby") = 29 /\ ScsiAt("done") = 30
<1>1. /\ ScsiOrder[1] = "power" /\ ScsiOrder[2] = "identify" /\ ScsiOrder[3] = "iec"
      /\ ScsiOrder[4] = "ready" /\ ScsiOrder[5] = "cache" /\ ScsiOrder[6] = "on"
      /\ ScsiOrder[7] = "off" /\ ScsiOrder[8] = "autosave_on" /\ ScsiOrder[9] = "wcache"
      /\ ScsiOrder[10] = "lookahead" /\ ScsiOrder[11] = "autosave_off"
      /\ ScsiOrder[12] = "pages" /\ ScsiOrder[13] = "health" /\ ScsiOrder[14] = "media"
      /\ ScsiOrder[15] = "format" /\ ScsiOrder[16] = "attributes" /\ ScsiOrder[17] = "farm"
      /\ ScsiOrder[18] = "errors" /\ ScsiOrder[19] = "selftest"
      /\ ScsiOrder[20] = "background" /\ ScsiOrder[21] = "zoned"
      /\ ScsiOrder[22] = "performance" /\ ScsiOrder[23] = "tape_statistics"
      /\ ScsiOrder[24] = "tape_alerts" /\ ScsiOrder[25] = "running" /\ ScsiOrder[26] = "test"
      /\ ScsiOrder[27] = "sas_phy" /\ ScsiOrder[28] = "environment"
      /\ ScsiOrder[29] = "standby" /\ ScsiOrder[30] = "done"
  BY DEF ScsiOrder
<1>2. ASSUME NEW i \in 1 .. 30 PROVE ScsiAt(ScsiOrder[i]) = i
  BY ScsiOrderLemma, PositionLemma DEF ScsiAt
<1> QED BY <1>1, <1>2

\* Each part is one of the steps of the run.
LEMMA ScsiElements ==
    {"power", "identify", "iec", "ready", "cache", "on", "off", "autosave_on",
     "wcache", "lookahead", "autosave_off", "pages", "health", "media", "format",
     "attributes", "farm", "errors", "selftest", "background", "zoned",
     "performance", "tape_statistics", "tape_alerts", "running", "test",
     "sas_phy", "environment", "standby", "done"} \subseteq ScsiSteps
  BY DEF ScsiSteps, ScsiOrder, Elements

\* The parts that send an optional command.
ScsiConservative ==
    (Scsi!ToSet(Scsi!PageParts) \cup Scsi!ToSet(Scsi!SettingParts))
    \ (Scsi!SilentParts \cup {"on", "off"})

\* What a part leaves whose command has failed.
ScsiBits ==
    /\ pc \in {"identify", "iec"} => "ID" \in returnval'
    /\ pc \notin {"identify", "iec"} \cup Scsi!Overlooked => "SMART" \in returnval'
    /\ opts.conservative /\ pc \in ScsiConservative => pc' = "exit"

\* From part to part.
ScsiMoves ==
    \/ pc' = Scsi!After(pc)
    \/ pc' = "stopped"
    \/ pc' = "exit" /\ returnval' # {}

\* The bits are kept, but by the early ends with a status of their own.
ScsiKeepsBits ==
    \/ returnval \subseteq returnval'
    \/ pc = "power"
    \/ pc = "identify" /\ pc' = "stopped" /\ failed' = failed
    \/ pc = "ready" /\ pc' = "exit" /\ returnval' = {"ID"}
    \/ pc' = "stopped" /\ {"ID", "SMART"} \subseteq returnval'

\* A step as far as the flow of the function goes.
ScsiStep ==
    /\ opts' = opts /\ disk' = disk
    /\ pc \in ScsiSteps /\ pc # "done"
    /\ ScsiMoves /\ ScsiKeepsBits
    /\ \/ failed' = failed
       \/ failed' = failed \cup {pc} /\ ScsiBits
       \/ pc = "iec" /\ failed' = failed \cup {"iec_page"} /\ returnval' = returnval

\* The groups of parts, written out, and two of the bits of a status of -1.
LEMMA ScsiSets ==
    /\ Scsi!ToSet(Scsi!SettingParts) = {"on", "off", "autosave_on", "wcache", "lookahead",
                                        "autosave_off"}
    /\ Scsi!ToSet(Scsi!PageParts) =
           {"media", "format", "attributes", "farm", "errors", "selftest", "background",
            "zoned", "performance", "tape_statistics", "tape_alerts"}
    /\ Scsi!SilentParts = {"cache", "attributes", "farm", "errors", "environment"}
    /\ Scsi!Overlooked = {"cache", "attributes", "farm", "errors", "environment", "power",
                          "iec_page", "ready", "pages", "running"}
    /\ {"ID", "SMART"} \subseteq Scsi!AllBits
  BY DEF Scsi!SettingParts, Scsi!PageParts, Scsi!ToSet, Scsi!SilentParts, Scsi!Overlooked,
         Scsi!AllBits

\* Every action of SmartctlScsi makes such a step.
LEMMA ScsiStepLemma ==
    ASSUME Scsi!Next, disk \in Scsi!DeviceType
    PROVE  ScsiStep
<1> USE ScsiElements, ScsiSets
        DEF ScsiStep, ScsiMoves, ScsiKeepsBits, ScsiBits, ScsiConservative,
            Scsi!GoOn, Scsi!GoOnAt, Scsi!given
<1>1. CASE Scsi!CheckPowerMode
  BY <1>1
     DEF Scsi!CheckPowerMode
<1>2. CASE Scsi!ReadInquiry
  BY <1>2
     DEF Scsi!ReadInquiry, Scsi!Mandatory
<1>3. CASE Scsi!FetchIecPage
  BY <1>3
     DEF Scsi!FetchIecPage, Scsi!Mandatory
<1>4. CASE Scsi!TestUnitReady
  BY <1>4
     DEF Scsi!TestUnitReady, Scsi!FailsWith
<1>5. CASE Scsi!ChangeSetting
  BY <1>5
     DEF Scsi!ChangeSetting, Scsi!Mandatory, Scsi!Optional, Scsi!OptionalFails
<1>6. CASE Scsi!GetSupportedLogPages
  BY <1>6
     DEF Scsi!GetSupportedLogPages, Scsi!FailsWith
<1>7. CASE Scsi!CheckHealth
  BY <1>7
     DEF Scsi!CheckHealth, Scsi!Optional, Scsi!OptionalFails, Scsi!FailsWith
<1>8. CASE Scsi!ReadLogPage
  BY <1>8
     DEF Scsi!ReadLogPage, Scsi!OptionalFails, Scsi!FailureBits, Scsi!RecordBits,
         Scsi!DeviceType
<1>9. CASE Scsi!ReadSilently
  BY <1>9
     DEF Scsi!ReadSilently, Scsi!FailsWith
<1>10. CASE Scsi!CheckRunning
  BY <1>10
     DEF Scsi!CheckRunning, Scsi!FailsWith
<1>11. CASE Scsi!StartTest
  BY <1>11
     DEF Scsi!StartTest, Scsi!StopsWith
<1>12. CASE Scsi!SetPowerCondition
  BY <1>12
     DEF Scsi!SetPowerCondition, Scsi!FailsWith
<1> QED BY <1>1, <1>2, <1>3, <1>4, <1>5, <1>6, <1>7, <1>8, <1>9, <1>10, <1>11, <1>12
       DEF Scsi!Next

\* What the parts change.
ScsiChanges ==
    /\ pc # "identify" => peripheral_type' = peripheral_type
    /\ pc # "pages" => pages' = pages
    /\ pc # "iec" => gIecMPage' = gIecMPage
    /\ pc # "health" => answer' = answer

\* What is not known of the mode page is missing, unless a bit tells of a bad answer.
ScsiIecDone ==
    pc = "iec" /\ gIecMPage =>
        \/ gIecMPage'
        \/ "ID" \in returnval'
        \/ Scsi!DriveInfo /\ (~disk.iec \/ "iec_page" \in failed')

\* A device in a power mode to be skipped is skipped, if REQUEST SENSE has told the mode.
ScsiPowerDone ==
    pc = "power" /\ opts.powermode >= Scsi!PowerLimit(disk.power) /\ "power" \notin failed' =>
        pc' = "stopped"

\* A health check without a bit has the answer that the device is healthy, or none if
\* the mode page is not known.
ScsiHealthDone ==
    pc = "health" /\ "status" \in opts.on /\ ~Scsi!is_tape
    /\ returnval' \cap {"SMART", "STATUS"} = {} =>
        ~disk.failing /\ (answer' = "passed" \/ ~gIecMPage)

\* The list of pages tells of the self-test log, and that leaves its bits.
ScsiPagesDone ==
    /\ pc = "pages" /\ "selftest" \in disk.pages /\ "pages" \notin failed' =>
           "selftest" \in pages'
    /\ pc = "selftest" /\ "selftest" \in opts.on \cap pages /\ "selftest" \notin failed' =>
           Scsi!RecordBits \subseteq returnval'

\* Every action of SmartctlScsi changes no more, and does that.
LEMMA ScsiDone ==
    ASSUME Scsi!Next, opts \in Scsi!OptionType, disk \in Scsi!DeviceType
    PROVE  ScsiChanges /\ ScsiPowerDone /\ ScsiIecDone /\ ScsiHealthDone /\ ScsiPagesDone
<1> USE ScsiSets
        DEF ScsiChanges, ScsiPowerDone, ScsiIecDone, ScsiHealthDone, ScsiPagesDone, Scsi!scsi,
            Scsi!OptionType, Scsi!DeviceType,
            Scsi!GoOn, Scsi!GoOnAt, Scsi!given
<1>1. CASE Scsi!CheckPowerMode
  BY <1>1
     DEF Scsi!CheckPowerMode, Scsi!PowerLimit
<1>2. CASE Scsi!ReadInquiry
  BY <1>2
     DEF Scsi!ReadInquiry, Scsi!Mandatory
<1>3. CASE Scsi!FetchIecPage
  BY <1>3
     DEF Scsi!FetchIecPage, Scsi!Mandatory, Scsi!Wanted
<1>4. CASE Scsi!TestUnitReady
  BY <1>4
     DEF Scsi!TestUnitReady, Scsi!FailsWith
<1>5. CASE Scsi!ChangeSetting
  BY <1>5
     DEF Scsi!ChangeSetting, Scsi!Mandatory, Scsi!Optional, Scsi!OptionalFails
<1>6. CASE Scsi!GetSupportedLogPages
  BY <1>6
     DEF Scsi!GetSupportedLogPages, Scsi!FailsWith, Scsi!Known, Scsi!Subpages
<1>7. CASE Scsi!CheckHealth
  BY <1>7
     DEF Scsi!CheckHealth, Scsi!Optional, Scsi!OptionalFails, Scsi!FailsWith, Scsi!is_tape
<1>8. CASE Scsi!ReadLogPage
  BY <1>8
     DEF Scsi!ReadLogPage, Scsi!OptionalFails, Scsi!RecordBits, Scsi!Wanted
<1>9. CASE Scsi!ReadSilently
  BY <1>9
     DEF Scsi!ReadSilently, Scsi!FailsWith
<1>10. CASE Scsi!CheckRunning
  BY <1>10
     DEF Scsi!CheckRunning, Scsi!FailsWith
<1>11. CASE Scsi!StartTest
  BY <1>11
     DEF Scsi!StartTest, Scsi!StopsWith
<1>12. CASE Scsi!SetPowerCondition
  BY <1>12
     DEF Scsi!SetPowerCondition, Scsi!FailsWith
<1> QED BY <1>1, <1>2, <1>3, <1>4, <1>5, <1>6, <1>7, <1>8, <1>9, <1>10, <1>11, <1>12
       DEF Scsi!Next

\* A step of the run behind a part.
ScsiPast(step, part) == step \in ScsiSteps /\ ScsiAt(step) > ScsiAt(part)

\* The early ends are no parts.
LEMMA ScsiEnds == "stopped" \notin ScsiSteps /\ "exit" \notin ScsiSteps
  BY DEF ScsiSteps, ScsiOrder, Elements

\* No step goes back.
LEMMA ScsiForward ==
    ASSUME ScsiStep
    PROVE  /\ pc \in ScsiSteps /\ ScsiAt(pc) \in 1 .. 29 /\ pc \notin {"stopped", "exit"}
           /\ pc' \in {"stopped", "exit"}
              \/ (pc' \in ScsiSteps /\ ScsiAt(pc') = ScsiAt(pc) + 1
                  /\ pc' \notin {"stopped", "exit"})
  BY ScsiStepsLemma, ScsiAfter, ScsiEnds DEF ScsiStep, ScsiMoves

\* A part is passed by a step from it, which neither returns nor throws.
LEMMA ScsiPastLemma ==
    ASSUME ScsiStep, NEW part \in ScsiSteps, ScsiPast(pc', part)
    PROVE  (ScsiPast(pc, part) /\ pc # part) \/ pc = part
<1>1. ScsiAt(part) \in 1 .. 29 /\ ScsiAt(pc') > ScsiAt(part)
  BY ScsiStepsLemma DEF ScsiPast
<1>2. ScsiAt(pc') = ScsiAt(pc) + 1 /\ pc \in ScsiSteps /\ ScsiAt(pc) \in 1 .. 29
  BY ScsiForward, ScsiEnds DEF ScsiPast
<1>3. ScsiAt(pc) > ScsiAt(part) \/ ScsiAt(pc) = ScsiAt(part)
  BY <1>1, <1>2
<1> QED BY <1>2, <1>3, ScsiStepsLemma DEF ScsiPast

\* What may have failed on the way to a part, before which returnval is not kept.
ScsiEarly ==
    /\ pc = "power" => failed = {}
    /\ pc = "identify" => failed \subseteq {"power"}
    /\ pc = "iec" => failed \subseteq {"power", "identify"}
    /\ pc = "ready" => failed \subseteq {"power", "identify", "iec", "iec_page"}

\* Types.
ScsiTypes ==
    /\ opts \in ScsiOptions /\ disk \in ScsiDevices
    /\ pc \in ScsiSteps \cup {"stopped", "exit"}

\* What is known of the mode page and of the health, as long as no bit says that it is not
\* (ZeroMeansHealthy).
ScsiIec ==
    \/ gIecMPage
    \/ pc \in {"stopped", "exit"}
    \/ ScsiPast(pc, "iec") /\ ("ID" \in returnval \/ Scsi!IecMissing)
ScsiHealth ==
    ScsiPast(pc, "health") /\ "status" \in opts.on /\ ~Scsi!is_tape
    /\ returnval \cap {"SMART", "STATUS"} = {} =>
        ~disk.failing /\ (answer = "passed" \/ ~gIecMPage)

\* The self-test log is known if the device has it, and its records are reported if it is
\* read (RecordsReported).
ScsiRecords ==
    /\ ScsiPast(pc, "pages") /\ "selftest" \in disk.pages /\ "pages" \notin failed =>
           "selftest" \in pages
    /\ ScsiPast(pc, "selftest") /\ "selftest" \in opts.on \cap disk.pages
       /\ failed \cap {"pages", "selftest"} = {} => Scsi!RecordBits \subseteq returnval

ScsiInv ==
    /\ ScsiTypes /\ ScsiEarly /\ Scsi!FailureReported /\ ScsiIec /\ ScsiHealth /\ ScsiRecords
    /\ Scsi!NothingSentAfter

\* What is known of each step in a state of the invariant.
LEMMA ScsiFacts ==
    ASSUME ScsiTypes, Scsi!Next
    PROVE  /\ ScsiStep /\ ScsiChanges /\ ScsiPowerDone /\ ScsiIecDone /\ ScsiHealthDone
           /\ ScsiPagesDone
           /\ opts \in Scsi!OptionType /\ disk \in Scsi!DeviceType
<1>1. opts \in Scsi!OptionType /\ disk \in Scsi!DeviceType
  BY ScsiAssumption DEF ScsiTypes
<1> QED BY <1>1, ScsiStepLemma, ScsiDone

\* No step forgets a failure.
LEMMA ScsiFailuresStep ==
    ASSUME ScsiInv, Scsi!Next PROVE ScsiTypes' /\ ScsiEarly' /\ Scsi!FailureReported'
<1>1. ScsiTypes /\ ScsiEarly /\ Scsi!FailureReported
  BY DEF ScsiInv
<1>2. ScsiStep
  BY <1>1, ScsiFacts
<1>3. ScsiTypes'
  BY <1>1, <1>2, ScsiForward DEF ScsiTypes, ScsiStep
<1>4. ScsiEarly'
  <2>1. ASSUME NEW part \in {"power", "identify", "iec", "ready"}, pc' = part
        PROVE  pc \in {"power", "identify", "iec"} /\ ScsiAt(pc) = ScsiAt(part) - 1
    <3>1. ScsiAt(pc) = ScsiAt(part) - 1 /\ ScsiAt(pc) \in 1 .. 29 /\ pc \in ScsiSteps
      BY <1>2, <2>1, ScsiForward, ScsiNumbers
    <3>2. ScsiAt(pc) \in {1, 2, 3}
      BY <3>1, ScsiNumbers
    <3> QED BY <3>1, <3>2, ScsiStepsLemma, ScsiNumbers, ScsiElements
  <2>2. \/ failed' = failed \/ failed' = failed \cup {pc}
        \/ pc = "iec" /\ failed' = failed \cup {"iec_page"}
    BY <1>2 DEF ScsiStep
  <2>3. pc' # "power"
    BY <2>1, ScsiNumbers
  <2>4. pc' = "identify" => pc = "power"
    BY <2>1, ScsiNumbers
  <2>5. pc' = "iec" => pc = "identify"
    BY <2>1, ScsiNumbers
  <2>6. pc' = "ready" => pc = "iec"
    BY <2>1, ScsiNumbers
  <2> QED BY <1>1, <2>2, <2>3, <2>4, <2>5, <2>6 DEF ScsiEarly
<1>5. Scsi!FailureReported'
  <2>1. \/ failed' = failed
        \/ failed' = failed \cup {pc} /\ ScsiBits
        \/ pc = "iec" /\ failed' = failed \cup {"iec_page"} /\ returnval' = returnval
    BY <1>2 DEF ScsiStep
  <2>2. pc' = "exit" => returnval' # {}
    BY <1>2, ScsiAfter, ScsiEnds DEF ScsiStep, ScsiMoves
  <2>3. CASE returnval \subseteq returnval'
    BY <1>1, <2>1, <2>2, <2>3 DEF Scsi!FailureReported, ScsiBits, Scsi!Overlooked
  <2>4. CASE pc = "power"
    BY <1>1, <2>1, <2>2, <2>4, ScsiSets DEF Scsi!FailureReported, ScsiEarly
  <2>5. CASE pc = "identify" /\ pc' = "stopped" /\ failed' = failed
    BY <1>1, <2>2, <2>5, ScsiSets DEF Scsi!FailureReported, ScsiEarly
  <2>6. CASE pc = "ready" /\ pc' = "exit" /\ returnval' = {"ID"}
    BY <1>1, <2>1, <2>2, <2>6, ScsiSets DEF Scsi!FailureReported, ScsiEarly
  <2>7. CASE {"ID", "SMART"} \subseteq returnval'
    BY <2>2, <2>7 DEF Scsi!FailureReported
  <2> QED BY <1>2, <2>3, <2>4, <2>5, <2>6, <2>7 DEF ScsiStep, ScsiKeepsBits
<1> QED BY <1>3, <1>4, <1>5

\* No step forgets what is known of the mode page.
LEMMA ScsiIecStep ==
    ASSUME ScsiInv, Scsi!Next PROVE ScsiIec'
<1>1. ScsiTypes /\ ScsiIec
  BY DEF ScsiInv
<1>2. ScsiStep /\ ScsiChanges /\ ScsiIecDone
  BY <1>1, ScsiFacts
<1>3. SUFFICES ASSUME ~gIecMPage', pc' \notin {"stopped", "exit"}
               PROVE  ScsiPast(pc', "iec") /\ ("ID" \in returnval' \/ Scsi!IecMissing')
  BY DEF ScsiIec
<1>4. pc' \in ScsiSteps /\ ScsiAt(pc') = ScsiAt(pc) + 1 /\ ScsiAt(pc) \in 1 .. 29
      /\ pc \notin {"stopped", "exit"} /\ opts' = opts /\ disk' = disk
  BY <1>2, <1>3, ScsiForward DEF ScsiStep
<1>5. ScsiAt("iec") = 3
  BY ScsiNumbers
<1>6. CASE pc = "iec"
  <2>1. gIecMPage
    BY <1>1, <1>4, <1>5, <1>6 DEF ScsiIec, ScsiPast
  <2>2. ScsiPast(pc', "iec")
    BY <1>4, <1>5, <1>6 DEF ScsiPast
  <2>3. Scsi!DriveInfo => Scsi!DriveInfo'
    BY <1>2, <1>4, <1>6 DEF ScsiStep, Scsi!DriveInfo, Scsi!Chosen
  <2> QED BY <1>2, <1>3, <1>4, <1>6, <2>1, <2>2, <2>3 DEF ScsiIecDone, Scsi!IecMissing
<1>7. CASE pc # "iec"
  <2>1. ScsiPast(pc, "iec") /\ ("ID" \in returnval \/ Scsi!IecMissing)
    BY <1>1, <1>2, <1>3, <1>4, <1>7 DEF ScsiIec, ScsiChanges
  <2>2. ScsiAt(pc) > 3 /\ ScsiPast(pc', "iec")
    BY <1>4, <1>5, <2>1 DEF ScsiPast
  <2>3. pc \notin {"power", "identify"}
    BY <2>2, ScsiNumbers
  <2>4. returnval \subseteq returnval'
    BY <1>2, <1>3, <2>3 DEF ScsiStep, ScsiKeepsBits
  <2>5. Scsi!IecMissing => Scsi!IecMissing'
    BY <1>2, <1>4, <2>3 DEF ScsiStep, Scsi!IecMissing, Scsi!DriveInfo, Scsi!Chosen
  <2> QED BY <2>1, <2>2, <2>4, <2>5
<1> QED BY <1>6, <1>7

\* No step forgets what is to be said of the health.
LEMMA ScsiHealthStep ==
    ASSUME ScsiInv, Scsi!Next PROVE ScsiHealth'
<1>1. ScsiTypes /\ ScsiHealth
  BY DEF ScsiInv
<1>2. ScsiStep /\ ScsiChanges /\ ScsiHealthDone
  BY <1>1, ScsiFacts
<1>3. SUFFICES ASSUME ScsiPast(pc', "health"), "status" \in opts.on, ~Scsi!is_tape',
                      returnval' \cap {"SMART", "STATUS"} = {}
               PROVE  ~disk.failing /\ (answer' = "passed" \/ ~gIecMPage')
  BY <1>2 DEF ScsiHealth, ScsiStep
<1>4. (ScsiPast(pc, "health") /\ pc # "health") \/ pc = "health"
  BY <1>2, <1>3, ScsiPastLemma, ScsiElements
<1>5. pc \notin {"power", "identify", "iec", "ready"} /\ pc' \notin {"stopped", "exit"}
  BY <1>3, <1>4, ScsiNumbers, ScsiEnds DEF ScsiPast
<1>6. returnval \subseteq returnval' /\ ~Scsi!is_tape
  BY <1>2, <1>3, <1>5 DEF ScsiStep, ScsiKeepsBits, ScsiChanges, Scsi!is_tape
<1>7. gIecMPage' = gIecMPage /\ disk' = disk /\ opts' = opts
  BY <1>2, <1>5 DEF ScsiChanges, ScsiStep
<1> QED BY <1>1, <1>2, <1>3, <1>4, <1>6, <1>7 DEF ScsiHealth, ScsiChanges, ScsiHealthDone

\* No step forgets the records of the log.
LEMMA ScsiRecordsStep ==
    ASSUME ScsiInv, Scsi!Next PROVE ScsiRecords'
<1>1. ScsiTypes /\ ScsiRecords
  BY DEF ScsiInv
<1>2. ScsiStep /\ ScsiChanges /\ ScsiPagesDone
  BY <1>1, ScsiFacts
<1>3. opts' = opts /\ disk' = disk /\ failed \subseteq failed'
  BY <1>2 DEF ScsiStep
<1>4. ASSUME NEW part \in {"pages", "selftest"}, ScsiPast(pc', part)
      PROVE  /\ (ScsiPast(pc, part) /\ pc # part) \/ pc = part
             /\ returnval \subseteq returnval'
  <2>1. (ScsiPast(pc, part) /\ pc # part) \/ pc = part
    BY <1>2, <1>4, ScsiPastLemma, ScsiElements
  <2>2. pc \notin {"power", "identify", "ready"} /\ pc' \notin {"stopped", "exit"}
    BY <1>4, <2>1, ScsiNumbers, ScsiEnds DEF ScsiPast
  <2> QED BY <1>2, <2>1, <2>2 DEF ScsiStep, ScsiKeepsBits
<1>5. ASSUME ScsiPast(pc', "pages"), "selftest" \in disk.pages, "pages" \notin failed'
      PROVE  "selftest" \in pages'
  BY <1>1, <1>2, <1>3, <1>4, <1>5 DEF ScsiRecords, ScsiChanges, ScsiPagesDone
<1>6. ASSUME ScsiPast(pc', "selftest"), "selftest" \in opts.on \cap disk.pages,
             failed' \cap {"pages", "selftest"} = {}
      PROVE  Scsi!RecordBits \subseteq returnval'
  <2>1. CASE ScsiPast(pc, "selftest")
    BY <1>1, <1>3, <1>4, <1>6, <2>1 DEF ScsiRecords
  <2>2. CASE pc = "selftest"
    <3>1. ScsiPast(pc, "pages")
      BY <2>2, ScsiElements, ScsiNumbers DEF ScsiPast
    <3>2. "selftest" \in pages
      BY <1>1, <1>3, <1>6, <3>1 DEF ScsiRecords
    <3> QED BY <1>2, <1>6, <2>2, <3>2 DEF ScsiPagesDone
  <2> QED BY <1>4, <1>6, <2>1, <2>2
<1>7. Scsi!RecordBits' = Scsi!RecordBits
  BY <1>3 DEF Scsi!RecordBits
<1> QED BY <1>3, <1>5, <1>6, <1>7 DEF ScsiRecords

\* No step sends a command to a device that is to be left alone.
LEMMA ScsiSentStep ==
    ASSUME ScsiInv, Scsi!Next PROVE Scsi!NothingSentAfter'
<1>1. ScsiTypes /\ Scsi!NothingSentAfter
  BY DEF ScsiInv
<1>2. ScsiStep /\ ScsiPowerDone
  BY <1>1, ScsiFacts
<1>3. pc \notin {"stopped", "exit"} /\ opts' = opts /\ disk' = disk
      /\ \/ failed' = failed
         \/ failed' = failed \cup {pc} /\ ScsiBits
         \/ failed' = failed \cup {"iec_page"} /\ pc = "iec"
  BY <1>2, ScsiForward DEF ScsiStep
<1>4. Scsi!PowerLimit(disk.power)' = Scsi!PowerLimit(disk.power)
  BY <1>3 DEF Scsi!PowerLimit
<1>5. opts.powermode >= Scsi!PowerLimit(disk.power) /\ "power" \notin failed' =>
          pc' \in {"power", "stopped"}
  BY <1>1, <1>2, <1>3 DEF Scsi!NothingSentAfter, ScsiPowerDone
<1>6. opts.conservative /\ failed' \cap ScsiConservative # {} => pc' = "exit"
  BY <1>1, <1>3, ScsiSets DEF Scsi!NothingSentAfter, ScsiBits, ScsiConservative
<1> QED BY <1>3, <1>4, <1>5, <1>6 DEF Scsi!NothingSentAfter, ScsiConservative

\* Each step of the function keeps the invariant.
LEMMA ScsiInvStep ==
    ASSUME ScsiInv, Scsi!Next PROVE ScsiInv'
  BY ScsiFailuresStep, ScsiIecStep, ScsiHealthStep, ScsiRecordsStep, ScsiSentStep DEF ScsiInv

\* Before the first part nothing has been passed.
LEMMA ScsiNothingPast ==
    ASSUME pc = "power"
    PROVE  /\ ~ScsiPast(pc, "health") /\ ~ScsiPast(pc, "pages")
           /\ ~ScsiPast(pc, "selftest") /\ ~ScsiPast(pc, "iec")
  BY ScsiNumbers DEF ScsiPast

\* The invariant holds when the function for the protocol begins.
LEMMA ScsiInvInit ==
    ASSUME Scsi!Init PROVE ScsiInv
<1>1. pc = "power" /\ returnval = {} /\ failed = {}
  BY ScsiPartsLemma DEF Scsi!Init, Scsi!Begin, ScsiOrder
<1>2. ScsiTypes
  BY <1>1, ScsiElements DEF Scsi!Init, ScsiTypes
<1>3. ScsiEarly /\ Scsi!FailureReported /\ Scsi!NothingSentAfter
  BY <1>1 DEF ScsiEarly, Scsi!FailureReported, Scsi!NothingSentAfter
<1>4. ScsiIec /\ ScsiHealth /\ ScsiRecords
  BY <1>1, ScsiNothingPast DEF Scsi!Init, ScsiIec, ScsiHealth, ScsiRecords
<1> QED BY <1>2, <1>3, <1>4 DEF ScsiInv

\* Getting, opening and closing the device keeps it: a status that is set before the
\* function has begun disturbs nothing.
LEMMA ScsiInvKept ==
    ASSUME ScsiInv, UNCHANGED << opts, disk, pc, failed, answer, scsi >>,
           pc = "power" \/ returnval' = returnval
    PROVE  ScsiInv'
<1>1. ScsiTypes'
  BY DEF ScsiInv, ScsiTypes
<1>2. ScsiEarly' /\ Scsi!FailureReported' /\ Scsi!NothingSentAfter'
  BY DEF ScsiInv, ScsiEarly, Scsi!FailureReported, Scsi!NothingSentAfter, Scsi!PowerLimit
<1>3. ScsiHealth'
  BY ScsiNothingPast DEF ScsiInv, ScsiHealth, scsi, Scsi!is_tape
<1>4. ScsiRecords'
  BY ScsiNothingPast DEF ScsiInv, ScsiRecords, scsi, Scsi!RecordBits
<1>5. ScsiIec'
  BY ScsiNothingPast, ScsiEnds
     DEF ScsiInv, ScsiIec, scsi, Scsi!IecMissing, Scsi!DriveInfo, Scsi!Chosen
<1> QED BY <1>1, <1>2, <1>3, <1>4, <1>5 DEF ScsiInv

\* What the invariant says of the properties.
LEMMA ScsiInvImplies ==
    ASSUME ScsiInv
    PROVE  /\ Scsi!FailureReported /\ Scsi!ZeroMeansHealthy /\ Scsi!RecordsReported
           /\ Scsi!NothingSentAfter
           /\ pc = "exit" => returnval # {}
<1>1. pc = "done" => ScsiPast(pc, "health") /\ ScsiPast(pc, "pages") /\ ScsiPast(pc, "selftest")
  BY ScsiElements, ScsiNumbers DEF ScsiPast
<1> QED BY <1>1 DEF ScsiInv, ScsiIec, ScsiHealth, ScsiRecords, Scsi!FailureReported,
                    Scsi!ZeroMeansHealthy, Scsi!RecordsReported

-----------------------------------------------------------------------------
(***************************************************************************)
(* NVMe devices.                                                           *)
(***************************************************************************)
\* Parts of SmartctlNvme, written out.
NvmeOrder ==
    << "controller", "namespace", "health", "error", "selftest", "page", "test", "done" >>
NvmeSteps == Elements(NvmeOrder)
NvmeAt(part) == Position(NvmeOrder, part)

\* The order has 8 parts and no part twice.
LEMMA NvmeOrderLemma ==
    /\ NvmeOrder \in Seq(NvmeSteps) /\ Len(NvmeOrder) = 8 /\ DOMAIN NvmeOrder = 1 .. 8
    /\ Distinct(NvmeOrder)
<1>1. Len(NvmeOrder) = 8 /\ DOMAIN NvmeOrder = 1 .. 8
  BY DEF NvmeOrder
<1>2. NvmeOrder \in Seq(Elements(NvmeOrder))
  BY DEF NvmeOrder, Elements
<1>3. Distinct(NvmeOrder)
  BY DEF NvmeOrder, Distinct
<1> QED BY <1>1, <1>2, <1>3 DEF NvmeSteps

\* SmartctlNvme!Parts is this order.
LEMMA NvmePartsLemma == Nvme!Parts = NvmeOrder
  BY DEF Nvme!Parts, NvmeOrder

\* After() goes to the next position, from every part but the last.
LEMMA NvmeAfter ==
    ASSUME NEW part \in NvmeSteps, part # "done"
    PROVE  Nvme!After(part) \in NvmeSteps /\ NvmeAt(Nvme!After(part)) = NvmeAt(part) + 1
<1>1. PICK i \in 1 .. 8 : part = NvmeOrder[i]
  BY NvmeOrderLemma DEF NvmeSteps, Elements
<1>2. i # 8
  BY <1>1 DEF NvmeOrder
<1>3. i \in DOMAIN NvmeOrder /\ i + 1 \in DOMAIN NvmeOrder
  BY <1>2, NvmeOrderLemma
<1>4. NvmeAt(part) = i /\ NvmeAt(NvmeOrder[i + 1]) = i + 1
  BY <1>1, <1>3, NvmeOrderLemma, PositionLemma DEF NvmeAt
<1>5. Nvme!After(part) = Nvme!Parts[Position(Nvme!Parts, part) + 1]
  BY DEF Nvme!After, Position
<1>6. Nvme!After(part) = NvmeOrder[i + 1]
  BY <1>4, <1>5, NvmePartsLemma DEF NvmeAt
<1>7. NvmeOrder[i + 1] \in NvmeSteps
  BY <1>3 DEF NvmeSteps, Elements
<1> QED BY <1>4, <1>6, <1>7

\* Different parts have different positions.
LEMMA NvmeStepsLemma ==
    ASSUME NEW part \in NvmeSteps
    PROVE  /\ NvmeAt(part) \in 1 .. 8
           /\ \A other \in NvmeSteps : NvmeAt(other) = NvmeAt(part) => other = part
<1>1. ASSUME NEW x \in NvmeSteps PROVE NvmeAt(x) \in 1 .. 8 /\ x = NvmeOrder[NvmeAt(x)]
  <2>1. PICK i \in 1 .. 8 : x = NvmeOrder[i]
    BY NvmeOrderLemma DEF NvmeSteps, Elements
  <2>2. Position(NvmeOrder, NvmeOrder[i]) = i
    BY NvmeOrderLemma, PositionLemma
  <2> QED BY <2>1, <2>2 DEF NvmeAt
<1> QED BY <1>1

\* The positions of all parts.
LEMMA NvmeNumbers ==
    /\ NvmeAt("controller") = 1 /\ NvmeAt("namespace") = 2 /\ NvmeAt("health") = 3
    /\ NvmeAt("error") = 4 /\ NvmeAt("selftest") = 5 /\ NvmeAt("page") = 6
    /\ NvmeAt("test") = 7 /\ NvmeAt("done") = 8
<1>1. /\ NvmeOrder[1] = "controller" /\ NvmeOrder[2] = "namespace" /\ NvmeOrder[3] = "health"
      /\ NvmeOrder[4] = "error" /\ NvmeOrder[5] = "selftest" /\ NvmeOrder[6] = "page"
      /\ NvmeOrder[7] = "test" /\ NvmeOrder[8] = "done"
  BY DEF NvmeOrder
<1>2. ASSUME NEW i \in 1 .. 8 PROVE NvmeAt(NvmeOrder[i]) = i
  BY NvmeOrderLemma, PositionLemma DEF NvmeAt
<1> QED BY <1>1, <1>2

\* Each part is one of the steps of the run.
LEMMA NvmeElements ==
    {"controller", "namespace", "health", "error", "selftest", "page", "test",
     "done"} \subseteq NvmeSteps
  BY DEF NvmeSteps, NvmeOrder, Elements

\* A step of the run behind a part.
NvmePast(step, part) == step \in NvmeSteps /\ NvmeAt(step) > NvmeAt(part)

\* A step as far as the flow of the function goes: a failure is one of the three that end
\* nothing, or ends the run with a bit; the bit for SMART is set by the last part only.
NvmeStep ==
    /\ opts' = opts /\ disk' = disk
    /\ pc \in NvmeSteps /\ pc # "done"
    /\ \/ /\ pc' = Nvme!After(pc)
          /\ failed' \subseteq failed \cup ({pc} \cap {"namespace", "error", "page"})
       \/ pc' = "stopped" /\ (Nvme!NothingToDo \/ returnval' \cap {"ID", "SMART"} # {})
    /\ returnval \subseteq returnval' \/ (pc = "controller" /\ pc' = "stopped")
    /\ pc # "test" /\ pc' \in NvmeSteps => "SMART" \in returnval \/ "SMART" \notin returnval'

\* What the parts change and do: a warning has its bit, and a test is started unless the log
\* has told of a running one.
NvmeDone ==
    /\ pc = "health" /\ pc' # "stopped" /\ "status" \in opts.on /\ disk.warning =>
           "STATUS" \in returnval'
    /\ pc # "selftest" => running' = running
    /\ pc = "selftest" /\ pc' # "stopped" /\ opts.test # "none" /\ disk.selftests =>
           running' = disk.testing
    /\ pc # "test" => started' = started
    /\ pc = "test" /\ started' /\ opts.test # "abort" /\ "SMART" \notin returnval => ~running
    /\ pc = "test" /\ started' => opts.test # "none" /\ disk.selftests
    /\ pc = "test" /\ pc' # "stopped" /\ opts.test # "none" /\ disk.selftests =>
           started' \/ "SMART" \in returnval'

\* The early ends are no parts.
LEMMA NvmeEnds == "stopped" \notin NvmeSteps
  BY DEF NvmeSteps, NvmeOrder, Elements

\* What is known of each step in a state of the invariant.
LEMMA NvmeFacts ==
    ASSUME Nvme!Next, disk \in Nvme!DeviceType
    PROVE  NvmeStep /\ NvmeDone
<1> USE NvmeElements, NvmeEnds DEF NvmeStep, NvmeDone, Nvme!DeviceType,
            Nvme!GoOn, Nvme!GoOnAt, Nvme!given
<1>1. CASE Nvme!ReadController
  BY <1>1
     DEF Nvme!ReadController, Nvme!FailsWith, Nvme!StopsWith
<1>2. CASE Nvme!ReadNamespace
  BY <1>2
     DEF Nvme!ReadNamespace, Nvme!FailsWith, Nvme!StopsWith
<1>3. CASE Nvme!CheckHealth
  BY <1>3
     DEF Nvme!CheckHealth, Nvme!FailsWith, Nvme!StopsWith, Nvme!Wanted, Nvme!Chosen
<1>4. CASE Nvme!ReadLog
  BY <1>4
     DEF Nvme!ReadLog, Nvme!FailsWith, Nvme!StopsWith
<1>5. CASE Nvme!ReadSelfTestLog
  BY <1>5
     DEF Nvme!ReadSelfTestLog, Nvme!FailsWith, Nvme!StopsWith, Nvme!Wanted
<1>6. CASE Nvme!StartTest
  BY <1>6
     DEF Nvme!StartTest, Nvme!FailsWith, Nvme!StopsWith, Nvme!Wanted
<1> QED BY <1>1, <1>2, <1>3, <1>4, <1>5, <1>6
       DEF Nvme!Next

\* No step goes back.
LEMMA NvmeForward ==
    ASSUME NvmeStep
    PROVE  /\ pc \in NvmeSteps /\ NvmeAt(pc) \in 1 .. 8 /\ pc \notin {"stopped", "done"}
           /\ pc' = "stopped" \/ (pc' \in NvmeSteps /\ NvmeAt(pc') = NvmeAt(pc) + 1
                                  /\ pc' = Nvme!After(pc) /\ pc' # "stopped")
  BY NvmeStepsLemma, NvmeAfter, NvmeEnds DEF NvmeStep

\* A part is passed by a step from it, which neither returns nor throws.
LEMMA NvmePastLemma ==
    ASSUME NvmeStep, NEW part \in NvmeSteps, NvmePast(pc', part)
    PROVE  (NvmePast(pc, part) /\ pc # part) \/ pc = part
<1>1. NvmeAt(part) \in 1 .. 8 /\ NvmeAt(pc') > NvmeAt(part)
  BY NvmeStepsLemma DEF NvmePast
<1>2. NvmeAt(pc') = NvmeAt(pc) + 1 /\ pc \in NvmeSteps /\ NvmeAt(pc) \in 1 .. 8
  BY NvmeForward, NvmeEnds DEF NvmePast
<1>3. NvmeAt(pc) > NvmeAt(part) \/ NvmeAt(pc) = NvmeAt(part)
  BY <1>1, <1>2
<1> QED BY <1>2, <1>3, NvmeStepsLemma DEF NvmePast

\* Everything at once: failures, the warning, the running test.
NvmeInv ==
    /\ opts \in NvmeOptions /\ disk \in NvmeDevices
    /\ pc \in NvmeSteps \cup {"stopped"}
    /\ pc \in NvmeSteps => failed \subseteq {"namespace", "error", "page"}
    /\ pc \in NvmeSteps \ {"done"} => "SMART" \notin returnval /\ started = FALSE
    /\ NvmePast(pc, "health") /\ "status" \in opts.on /\ disk.warning => "STATUS" \in returnval
    /\ NvmePast(pc, "selftest") /\ opts.test # "none" /\ disk.selftests =>
           running = disk.testing
    /\ Nvme!FailureReported /\ Nvme!NothingSentAfter

\* Each step of the function keeps the invariant.
LEMMA NvmeInvStep ==
    ASSUME NvmeInv, Nvme!Next PROVE NvmeInv'
<1>1. disk \in Nvme!DeviceType /\ opts \in Nvme!OptionType
  BY NvmeAssumption DEF NvmeInv
<1>2. NvmeStep /\ NvmeDone
  BY <1>1, NvmeFacts
<1>3. /\ pc \in NvmeSteps /\ pc \notin {"stopped", "done"} /\ opts' = opts /\ disk' = disk
      /\ "SMART" \notin returnval /\ started = FALSE
      /\ failed \subseteq {"namespace", "error", "page"}
  BY <1>2, NvmeForward DEF NvmeInv, NvmeStep
<1>4. opts' \in NvmeOptions /\ disk' \in NvmeDevices /\ pc' \in NvmeSteps \cup {"stopped"}
  BY <1>2, <1>3, NvmeForward DEF NvmeInv
<1>5. pc' \in NvmeSteps => failed' \subseteq {"namespace", "error", "page"}
  BY <1>2, <1>3, NvmeEnds DEF NvmeStep
<1>6. pc' \in NvmeSteps \ {"done"} => "SMART" \notin returnval' /\ started' = FALSE
  <2>1. pc = "test" => pc' \in {"done", "stopped"}
    <3>1. ASSUME pc = "test", pc' # "stopped" PROVE pc' = "done"
      <4>1. NvmeAt(pc') = 8 /\ pc' \in NvmeSteps
        BY <1>2, <3>1, NvmeForward, NvmeNumbers
      <4> QED BY <4>1, NvmeStepsLemma, NvmeNumbers, NvmeElements
    <3> QED BY <3>1
  <2> QED BY <1>2, <1>3, <2>1, NvmeEnds DEF NvmeStep, NvmeDone
<1>7. NvmePast(pc', "health") /\ "status" \in opts.on /\ disk.warning => "STATUS" \in returnval'
  <2>1. NvmePast(pc', "health") => NvmePast(pc, "health") \/ (pc = "health" /\ pc' # "stopped")
    BY <1>2, NvmePastLemma, NvmeElements, NvmeEnds DEF NvmePast
  <2>2. NvmePast(pc', "health") => pc' # "stopped"
    BY NvmeEnds DEF NvmePast
  <2> QED BY <1>2, <2>1, <2>2 DEF NvmeInv, NvmeStep, NvmeDone
<1>8. NvmePast(pc', "selftest") /\ opts.test # "none" /\ disk.selftests =>
           running' = disk.testing
  <2>1. NvmePast(pc', "selftest") =>
            (NvmePast(pc, "selftest") /\ pc # "selftest") \/ (pc = "selftest" /\ pc' # "stopped")
    BY <1>2, NvmePastLemma, NvmeElements, NvmeEnds DEF NvmePast
  <2> QED BY <1>2, <2>1 DEF NvmeInv, NvmeDone
<1>9. pc = "test" => NvmePast(pc, "selftest")
  BY <1>3, NvmeNumbers DEF NvmePast
<1>10. pc' = "done" => pc = "test"
  <2>1. ASSUME pc' = "done" PROVE NvmeAt(pc) = 7
    BY <1>2, <2>1, NvmeForward, NvmeNumbers
  <2> QED BY <1>3, <2>1, NvmeStepsLemma, NvmeNumbers, NvmeElements
<1>11. Nvme!FailureReported'
  <2>1. pc' = "stopped" /\ ~Nvme!NothingToDo => returnval' \cap {"ID", "SMART"} # {}
    BY <1>2, <1>3, NvmeEnds, NvmeAfter DEF NvmeStep
  <2>2. pc' = "done" /\ opts.test # "none" /\ disk.selftests => started' \/ "SMART" \in returnval'
    BY <1>2, <1>10 DEF NvmeDone
  <2> QED BY <1>3, <2>1, <2>2 DEF Nvme!FailureReported, Nvme!NothingToDo
<1>12. Nvme!NothingSentAfter'
  <2>1. started' /\ opts.test # "abort" => ~disk.testing
    BY <1>2, <1>3, <1>9 DEF NvmeInv, NvmeDone
  <2>2. pc' = "done" => failed' \subseteq {"namespace", "error", "page"}
    BY <1>5, NvmeElements
  <2> QED BY <1>3, <2>1, <2>2 DEF Nvme!NothingSentAfter
<1> QED BY <1>3, <1>4, <1>5, <1>6, <1>7, <1>8, <1>11, <1>12 DEF NvmeInv

\* Before the first part nothing has been passed.
LEMMA NvmeNothingPast ==
    ASSUME pc = "controller" PROVE ~NvmePast(pc, "health") /\ ~NvmePast(pc, "selftest")
  BY NvmeNumbers DEF NvmePast

\* The invariant holds when the function for the protocol begins.
LEMMA NvmeInvInit ==
    ASSUME Nvme!Init PROVE NvmeInv
<1>1. pc = "controller" /\ returnval = {} /\ failed = {} /\ started = FALSE
  BY NvmePartsLemma DEF Nvme!Init, Nvme!Begin, NvmeOrder
<1> QED BY <1>1, NvmeNothingPast, NvmeElements
        DEF NvmeInv, Nvme!Init, Nvme!FailureReported, Nvme!NothingSentAfter

\* Getting, opening and closing the device keeps it: a status that is set before the
\* function has begun disturbs nothing.
LEMMA NvmeInvKept ==
    ASSUME NvmeInv, UNCHANGED << opts, disk, pc, failed, nvme >>,
           returnval' = returnval \/ (pc = "controller" /\ "SMART" \notin returnval')
    PROVE  NvmeInv'
  BY NvmeNothingPast, NvmeElements
     DEF NvmeInv, Nvme!FailureReported, Nvme!NothingSentAfter, Nvme!NothingToDo, nvme

\* What the invariant says of the properties.
LEMMA NvmeInvImplies ==
    ASSUME NvmeInv
    PROVE  Nvme!FailureReported /\ Nvme!ZeroMeansHealthy /\ Nvme!NothingSentAfter
           /\ pc # "exit"
<1>1. pc = "done" => NvmePast(pc, "health")
  BY NvmeElements, NvmeNumbers DEF NvmePast
<1>2. "exit" \notin NvmeSteps
  BY DEF NvmeSteps, NvmeOrder, Elements
<1> QED BY <1>1, <1>2 DEF NvmeInv, Nvme!ZeroMeansHealthy

-----------------------------------------------------------------------------
(***************************************************************************)
(* The whole run.                                                          *)
(***************************************************************************)
\* The invariant of the protocol; before its function begins the run is at its first part, and
\* at the end it has a status or has come to an end of the function without an exception.
MainInv ==
    /\ protocol = "ata" => AtaInv
    /\ protocol = "scsi" => ScsiInv
    /\ protocol = "nvme" => NvmeInv
    /\ protocol \in {"ata", "scsi", "nvme"}
    /\ stage \in {"get", "open"} => pc = IF protocol = "nvme" THEN "controller" ELSE "power"
    /\ stage = "end" => returnval # {} \/ pc \in {"done", "stopped"}

\* A run begins with the invariant.
LEMMA MainInvInit ==
    ASSUME Init PROVE MainInv
<1>1. protocol = "ata" => AtaInv
  BY AtaInvInit DEF Init
<1>2. protocol = "scsi" => ScsiInv
  BY ScsiInvInit DEF Init
<1>3. protocol = "nvme" => NvmeInv
  BY NvmeInvInit DEF Init
<1>4. /\ Ata!Init \/ Scsi!Init => pc = "power"
      /\ Nvme!Init => pc = "controller"
  BY AtaPartsLemma, ScsiPartsLemma, NvmePartsLemma
     DEF Ata!Init, Ata!Begin, AtaOrder, Scsi!Init, Scsi!Begin, ScsiOrder,
         Nvme!Init, Nvme!Begin, NvmeOrder
<1> QED BY <1>1, <1>2, <1>3, <1>4 DEF MainInv, Init

\* Each step of a run keeps it.
LEMMA MainInvNext ==
    ASSUME MainInv, [Next]_vars PROVE MainInv'
<1>1. protocol' = protocol
  BY DEF Next, GetDevice, OpenDevice, AtaPrintMain, ScsiPrintMain, NvmePrintMain, CloseDevice,
         vars
<1>2. ASSUME /\ UNCHANGED << protocol, opts, disk, pc, failuretest_permissive, permitted, failed,
                             answer, ata, scsi, nvme >>
             /\ returnval' = returnval
                \/ (stage \in {"get", "open"} /\ returnval' \in {{"CMD"}, {"POWER"}, {"DEV"}})
      PROVE  /\ protocol = "ata" => AtaInv'
             /\ protocol = "scsi" => ScsiInv'
             /\ protocol = "nvme" => NvmeInv'
  <2>1. \/ returnval' = returnval
        \/ /\ "SMART" \notin returnval'
           /\ pc = IF protocol = "nvme" THEN "controller" ELSE "power"
    BY <1>2 DEF MainInv
  <2>2. protocol = "ata" => AtaInv'
    BY <1>2, <2>1, AtaInvKept DEF MainInv
  <2>3. protocol = "scsi" => ScsiInv'
    BY <1>2, <2>1, ScsiInvKept DEF MainInv
  <2>4. protocol = "nvme" => NvmeInv'
    BY <1>2, <2>1, NvmeInvKept DEF MainInv
  <2> QED BY <2>2, <2>3, <2>4
<1>3. CASE GetDevice
  <2>1. \/ stage' = "open" /\ returnval' = returnval
        \/ stage' = "end" /\ returnval' \in {{"CMD"}, {"POWER"}}
    BY <1>3 DEF GetDevice, EndsWith
  <2> QED BY <1>1, <1>2, <1>3, <2>1 DEF MainInv, GetDevice
<1>4. CASE OpenDevice
  <2>1. \/ stage' = "run" /\ returnval' = returnval
        \/ stage' = "end" /\ returnval' = {"DEV"}
    BY <1>4 DEF OpenDevice, EndsWith
  <2> QED BY <1>1, <1>2, <1>4, <2>1 DEF MainInv, OpenDevice
<1>5. CASE AtaPrintMain
  BY <1>1, <1>5, AtaInvStep DEF MainInv, AtaPrintMain
<1>6. CASE ScsiPrintMain
  BY <1>1, <1>6, ScsiInvStep DEF MainInv, ScsiPrintMain
<1>7. CASE NvmePrintMain
  BY <1>1, <1>7, NvmeInvStep DEF MainInv, NvmePrintMain
<1>8. CASE CloseDevice
  <2>1. returnval # {} \/ pc \in {"done", "stopped"}
    BY <1>8, AtaInvImplies, ScsiInvImplies, NvmeInvImplies DEF CloseDevice, MainInv
  <2> QED BY <1>1, <1>2, <1>8, <2>1 DEF MainInv, CloseDevice, shared
<1>9. CASE UNCHANGED vars
  BY <1>1, <1>2, <1>9 DEF MainInv, vars, shared
<1> QED BY <1>3, <1>4, <1>5, <1>6, <1>7, <1>8, <1>9 DEF Next

\* It is an invariant.
LEMMA MainInvariant == Spec => []MainInv
<1>1. Init => MainInv
  BY MainInvInit
<1>2. MainInv /\ [Next]_vars => MainInv'
  BY MainInvNext
<1> QED BY <1>1, <1>2, PTL DEF Spec

\* Exit status bits 1 and 2: for every set of options and every disk, no failure of a command
\* is forgotten until the end of the run, but for the exceptions that the modules list.
THEOREM FailuresAreReported == Spec => []FailureReported
<1>1. MainInv => FailureReported
  BY AtaInvImplies, ScsiInvImplies, NvmeInvImplies DEF MainInv, FailureReported
<1> QED BY <1>1, MainInvariant, PTL

\* -H: whatever fails on the way, a run that ends without a bit for the health or for a failure
\* has learned that the disk is healthy.
THEOREM ZeroIsHealthy == Spec => []ZeroMeansHealthy
<1>1. MainInv => ZeroMeansHealthy
  BY AtaInvImplies, ScsiInvImplies, NvmeInvImplies DEF MainInv, ZeroMeansHealthy
<1> QED BY <1>1, MainInvariant, PTL

\* No SMART data is read from an ATA disk whose SMART is off, whatever its identify data, the
\* operating system and -s on or off make of it, unless -T permissive has overlooked that.
THEOREM NothingReadIfDisabled == Spec => []ReadOnlyIfEnabled
<1>1. MainInv => ReadOnlyIfEnabled
  BY AtaInvImplies DEF MainInv, ReadOnlyIfEnabled
<1> QED BY <1>1, MainInvariant, PTL

\* Exit status bits 6 and 7: the records of a log that was asked for are reported, whichever
\* of the logs and directories could be read on the way.
THEOREM RecordsAreReported == Spec => []RecordsReported
<1>1. MainInv => RecordsReported
  BY AtaInvImplies, ScsiInvImplies DEF MainInv, RecordsReported
<1> QED BY <1>1, MainInvariant, PTL

\* -T conservative, -n, -s standby,now and -t: nothing is sent to a disk that must be left
\* alone, after whatever failures.
THEOREM DisksAreLeftAlone == Spec => []NothingSentAfter
<1>1. MainInv => NothingSentAfter
  BY AtaInvImplies, ScsiInvImplies, NvmeInvImplies DEF MainInv, NothingSentAfter
<1> QED BY <1>1, MainInvariant, PTL

-----------------------------------------------------------------------------
(***************************************************************************)
(* A JMicron bridge, for any number of processes and with any failures.    *)
(* DataInv says who is to restore the user's data.                         *)
(***************************************************************************)
Locations == {"closed", "read", "wakeup", "request", "answer", "idle", "restore"}
SessionLocations == {"request", "answer", "idle", "restore"}
Types == {"zero", "data", "garbled", "wakeup", "request", "answer", "none"}
Sectors == [type : Types, by : Procs \cup {None}, id : Nat, nth : Nat]

\* The types of what the data depend on, and m_orig_write_back by the location.
TypeInv ==
    /\ at \in [Procs -> Locations] /\ force \in [Procs -> BOOLEAN]
    /\ write_back \in [Procs -> BOOLEAN] /\ wakeups \in [Procs -> Nat]
    /\ cmd_id \in [Procs -> Nat] /\ nth \in [Procs -> Nat]
    /\ orig \in [Procs -> Sectors] /\ blocked \in [Procs -> BOOLEAN]
    /\ sector \in Sectors /\ user \in Contents
    /\ last \in Sectors /\ last.type \in {"none", "answer"}
    /\ \A p \in Procs : write_back[p] <=> at[p] \in SessionLocations

Excused == told \/ killed \/ torn \/ twice

\* What looks like the user's data are the user's data; each device that will write has
\* a true copy; and if the data are not in the sector then one of them will restore it.
CopiesTrue ==
    ~Excused =>
        /\ sector \in Contents => sector = user
        /\ \A p \in Procs : at[p] = "wakeup" \/ write_back[p] => orig[p] = user
        /\ sector # user => \E p \in Procs : InSession(p)

\* Without ",force" no device gets past the look at data that are not zero.
NobodyIn ==
    (\A p \in Procs : ~force[p]) /\ user = Data =>
        sector = Data /\ \A p \in Procs : at[p] \in {"closed", "read"}

DataInv == TypeInv /\ CopiesTrue /\ NobodyIn

-----------------------------------------------------------------------------
\* The constant sectors are sectors, and differ from what the protocol writes.
LEMMA SectorFacts ==
    /\ {Zero, Data, Garbled, WakeupSector, NoAnswer} \subseteq Sectors
    /\ Zero # Data
    /\ \A s \in Sectors : s \in Contents => s.type \in {"zero", "data"}
    /\ Garbled.type = "garbled" /\ WakeupSector.type = "wakeup"
    /\ NoAnswer.type = "none"
BY DEF Zero, Data, Garbled, WakeupSector, NoAnswer, Sector, Sectors, Types, Contents

\* Requests and their answers are sectors of the protocol.
LEMMA RequestFacts ==
    ASSUME TypeInv, NEW p \in Procs
    PROVE  /\ Request(p) \in Sectors /\ Request(p).type = "request"
           /\ \A s \in Sectors : Answer(s) \in Sectors /\ Answer(s).type = "answer"
BY DEF TypeInv, Request, Answer, Sector, Sectors, Types

LEMMA InitDataInv == JmbInit => DataInv
<1> SUFFICES ASSUME JmbInit PROVE DataInv
  OBVIOUS
<1>1. TypeInv
  BY SectorFacts DEF JmbInit, TypeInv, Contents, Locations, SessionLocations, Zero, Data, Sector,
     NoAnswer
<1>2. CopiesTrue /\ NobodyIn
  BY DEF JmbInit, CopiesTrue, NobodyIn, Excused
<1> QED BY <1>1, <1>2 DEF DataInv

LEMMA NextTypeInv == TypeInv /\ [JmbNext]_jmbVars => TypeInv'
<1> SUFFICES ASSUME TypeInv, [JmbNext]_jmbVars PROVE TypeInv'
  OBVIOUS
<1> USE SectorFacts, RequestFacts DEF TypeInv, Locations, SessionLocations, Goto, Block
<1>1. ASSUME NEW p \in Procs, Open(p) PROVE TypeInv'
  BY <1>1 DEF Open
<1>2. ASSUME NEW p \in Procs, ReadOriginal(p) PROVE TypeInv'
  <2>1. Original \in Sectors
    BY DEF Original
  <2>2. CASE Refuses(p)
    <3>1. /\ at[p] = "read" /\ at' = [at EXCEPT ![p] = "closed"]
          /\ blocked' = [blocked EXCEPT ![p] = TRUE]
          /\ UNCHANGED << force, write_back, wakeups, cmd_id, nth, orig, sector, user, last >>
      BY <1>2, <2>2 DEF ReadOriginal
    <3> QED BY <3>1
  <2>3. CASE ~Refuses(p)
    <3>1. orig' = [orig EXCEPT ![p] = Original] /\ at' = [at EXCEPT ![p] = "wakeup"]
      BY <1>2, <2>3 DEF ReadOriginal
    <3>2. /\ at[p] = "read" /\ ~write_back[p] /\ UNCHANGED << write_back, blocked >>
          /\ wakeups' = [wakeups EXCEPT ![p] = 0]
      BY <1>2, <2>3 DEF ReadOriginal
    <3> QED BY <1>2, <2>1, <3>1, <3>2 DEF ReadOriginal
  <2> QED BY <2>2, <2>3
<1>3. ASSUME NEW p \in Procs, ReadOriginalFails(p) PROVE TypeInv'
  BY <1>3 DEF ReadOriginalFails, device
<1>4. ASSUME NEW p \in Procs, WriteWakeup(p) PROVE TypeInv'
  <2>1. CASE wakeups[p] < 3
    BY <1>4, <2>1 DEF WriteWakeup
  <2>2. CASE ~(wakeups[p] < 3)
    <3>1. /\ at' = [at EXCEPT ![p] = "request"]
          /\ write_back' = [write_back EXCEPT ![p] = TRUE]
          /\ cmd_id' = [cmd_id EXCEPT ![p] = 1] /\ nth' = [nth EXCEPT ![p] = 1]
      BY <1>4, <2>2 DEF WriteWakeup
    <3>2. /\ wakeups' = [wakeups EXCEPT ![p] = wakeups[p] + 1]
          /\ sector' = WakeupSector /\ last' = NoAnswer
          /\ UNCHANGED << force, blocked, orig, user >>
      BY <1>4 DEF WriteWakeup
    <3> QED BY <3>1, <3>2
  <2> QED BY <2>1, <2>2
<1>5. ASSUME NEW p \in Procs, WriteWakeupFails(p) PROVE TypeInv'
  BY <1>5 DEF WriteWakeupFails, Stored
<1>6. ASSUME NEW p \in Procs, WriteRequest(p) PROVE TypeInv'
  BY <1>6 DEF WriteRequest, device
<1>7. ASSUME NEW p \in Procs, WriteRequestFails(p) PROVE TypeInv'
  BY <1>7 DEF WriteRequestFails, Stored, AfterError
<1>8. ASSUME NEW p \in Procs, ReadAnswer(p) PROVE TypeInv'
  <2>1. PICK response \in Answers :
            /\ sector' = response
            /\ last' = IF sector.type = "request" /\ response = Answer(sector) THEN response
                       ELSE last
            /\ IF Accepts(p, response)
               THEN /\ AfterAnswer(p)
                    /\ cmd_id' = [cmd_id EXCEPT ![p] = NextId(p)]
                    /\ mixed' = (mixed \/ response # Answer(Request(p)))
               ELSE /\ Block(p) /\ Goto(p, AfterError(p))
                    /\ UNCHANGED << cmd_id, mixed >>
    BY <1>8 DEF ReadAnswer
  <2>2. response \in Sectors
    BY <2>1 DEF Answers
  <2>3. sector' \in Sectors /\ last' \in Sectors /\ last'.type \in {"none", "answer"}
    BY <2>1, <2>2
  <2>4. NextId(p) \in Nat
    BY DEF NextId
  <2>5. cmd_id' \in [Procs -> Nat]
    BY <2>1, <2>4
  <2>6. /\ at[p] = "answer" /\ write_back' = write_back
        /\ at' = [at EXCEPT ![p] = "idle"] \/ at' = [at EXCEPT ![p] = "restore"]
    BY <1>8, <2>1 DEF ReadAnswer, AfterAnswer, AfterError
  <2>7. blocked' \in [Procs -> BOOLEAN]
    BY <2>1 DEF AfterAnswer
  <2> QED BY <1>8, <2>3, <2>5, <2>6, <2>7 DEF ReadAnswer
<1>9. ASSUME NEW p \in Procs, ReadAnswerFails(p) PROVE TypeInv'
  BY <1>9 DEF ReadAnswerFails, AfterError
<1>10. ASSUME NEW p \in Procs, AtaPassThrough(p) PROVE TypeInv'
  BY <1>10 DEF AtaPassThrough
<1>11. ASSUME NEW p \in Procs, Close(p) PROVE TypeInv'
  BY <1>11 DEF Close, device
<1>12. ASSUME NEW p \in Procs, RestoreOrigData(p) PROVE TypeInv'
  BY <1>12 DEF RestoreOrigData
<1>13. ASSUME NEW p \in Procs, RestoreOrigDataFails(p) PROVE TypeInv'
  BY <1>13 DEF RestoreOrigDataFails, Stored
<1>14. ASSUME NEW p \in Procs, Destroy(p) PROVE TypeInv'
  BY <1>14 DEF Destroy
<1>15. ASSUME NEW p \in Procs, Kill(p) PROVE TypeInv'
  BY <1>15 DEF Kill
<1>16. CASE UserWrites
  BY <1>16 DEF UserWrites, device, Contents
<1>17. CASE UNCHANGED jmbVars
  BY <1>17 DEF jmbVars, device
<1> QED
  BY <1>1, <1>2, <1>3, <1>4, <1>5, <1>6, <1>7, <1>8, <1>9, <1>10, <1>11, <1>12, <1>13, <1>14,
     <1>15, <1>16, <1>17 DEF JmbNext

-----------------------------------------------------------------------------
(***************************************************************************)
(* CopiesTrue and NobodyIn.  Lemmas about the two kinds of steps: those of *)
(* a device that stays in its session, and those that end one.             *)
(***************************************************************************)
\* A step that touches neither the sector nor a copy, and ends no session.
LEMMA QuietStep ==
    ASSUME DataInv, UNCHANGED << sector, user, orig, told, killed, torn, twice >>,
           \A p \in Procs : InSession(p) => InSession(p)',
           \A p \in Procs : (at[p] = "wakeup" \/ write_back[p])' =>
                                at[p] = "wakeup" \/ write_back[p]
    PROVE  CopiesTrue'
BY DEF DataInv, CopiesTrue, Excused

\* A device in its session writes or reads something of the protocol, and stays in.
LEMMA SessionStep ==
    ASSUME DataInv, NEW p \in Procs, InSession(p)',
           sector' = sector \/ sector' \notin Contents,
           UNCHANGED << user, orig, told, killed, torn, twice >>,
           \A q \in Procs \ {p} : UNCHANGED << at[q], write_back[q], wakeups[q] >>,
           orig[p] = user \/ Excused
    PROVE  CopiesTrue'
BY DEF DataInv, CopiesTrue, Excused, InSession

LEMMA NextCopiesTrue == DataInv /\ [JmbNext]_jmbVars => CopiesTrue'
<1> SUFFICES ASSUME DataInv, [JmbNext]_jmbVars PROVE CopiesTrue'
  OBVIOUS
<1>0. TypeInv /\ TypeInv'
  BY NextTypeInv DEF DataInv
<1>1. ASSUME NEW p \in Procs, Open(p) PROVE CopiesTrue'
  BY <1>0, <1>1, QuietStep DEF Open, TypeInv, InSession, Goto, excuses, SessionLocations
<1>2. ASSUME NEW p \in Procs, ReadOriginal(p) PROVE CopiesTrue'
  <2>1. CASE Refuses(p)
    BY <1>0, <1>2, <2>1, QuietStep DEF ReadOriginal, TypeInv, InSession, Goto, excuses,
       SessionLocations
  <2>2. CASE ~Refuses(p)
    <3>1. /\ orig' = [orig EXCEPT ![p] = Original] /\ at' = [at EXCEPT ![p] = "wakeup"]
          /\ twice' = (twice \/ (force[p] /\ sector # user)) /\ at[p] = "read"
          /\ wakeups' = [wakeups EXCEPT ![p] = 0]
          /\ UNCHANGED << write_back, sector, user, told, killed, torn >>
      BY <1>2, <2>2 DEF ReadOriginal, Goto
    <3>2. SUFFICES ASSUME ~Excused' PROVE CopiesTrue'
      BY DEF CopiesTrue
    <3>3. ~Excused /\ (force[p] => sector = user)
      BY <3>1, <3>2 DEF Excused
    <3>4. sector = user
      BY <3>3, <2>2 DEF Refuses, DataInv, CopiesTrue, Contents
    <3>5. Original = user
      BY <3>4, <1>0, SectorFacts DEF Original, IsProtocolData, TypeInv
    <3>6. orig' \in [Procs -> Sectors] /\ at' \in [Procs -> Locations]
      BY <1>0 DEF TypeInv
    <3>7. \A q \in Procs : (at[q] = "wakeup" \/ write_back[q])' => orig'[q] = user
      BY <3>1, <3>3, <3>5, <1>0 DEF DataInv, CopiesTrue, TypeInv
    <3> QED BY <3>1, <3>4, <3>7 DEF CopiesTrue
  <2> QED BY <2>1, <2>2
<1>3. ASSUME NEW p \in Procs, ReadOriginalFails(p) PROVE CopiesTrue'
  BY <1>0, <1>3, QuietStep DEF ReadOriginalFails, TypeInv, InSession, Goto, device, excuses,
     SessionLocations
<1>4. ASSUME NEW p \in Procs, WriteWakeup(p) PROVE CopiesTrue'
  <2>1. wakeups'[p] > 0 /\ at[p] = "wakeup"
    BY <1>0, <1>4 DEF WriteWakeup, TypeInv
  <2>2. InSession(p)'
    BY <1>0, <1>4, <2>1 DEF WriteWakeup, TypeInv, InSession, Goto
  <2>3. sector' \notin Contents
    BY <1>4, SectorFacts DEF WriteWakeup
  <2>4. \A q \in Procs \ {p} : UNCHANGED << at[q], write_back[q], wakeups[q] >>
    BY <1>0, <1>4 DEF WriteWakeup, TypeInv, Goto
  <2>5. orig[p] = user \/ Excused
    BY <2>1 DEF DataInv, CopiesTrue
  <2> QED BY <1>4, <2>2, <2>3, <2>4, <2>5, SessionStep DEF WriteWakeup
<1>5. ASSUME NEW p \in Procs, WriteWakeupFails(p) PROVE CopiesTrue'
  <2>1. SUFFICES ASSUME ~Excused' PROVE CopiesTrue'
    BY DEF CopiesTrue
  <2>2. ~Excused
    BY <1>5, <2>1 DEF WriteWakeupFails, Report, Excused
  <2>3. orig[p] = user
    BY <1>5, <2>2 DEF WriteWakeupFails, DataInv, CopiesTrue
  <2>4. ~(wakeups[p] > 0)
    BY <1>5, <2>1, <2>3 DEF WriteWakeupFails, Report, Excused
  <2>5. sector' = sector
    <3>1. wakeups[p] = 0
      BY <1>0, <2>4 DEF TypeInv
    <3>2. ~torn'
      BY <2>1 DEF Excused
    <3> QED BY <1>5, <3>1, <3>2 DEF WriteWakeupFails
  <2>6. \A q \in Procs : InSession(q) => InSession(q)'
    BY <1>0, <1>5, <2>4 DEF WriteWakeupFails, InSession, Goto, TypeInv, SessionLocations
  <2>7. \A q \in Procs : (at[q] = "wakeup" \/ write_back[q])' =>
                              at[q] = "wakeup" \/ write_back[q]
    BY <1>0, <1>5 DEF WriteWakeupFails, Goto, TypeInv
  <2> QED BY <1>5, <2>2, <2>5, <2>6, <2>7 DEF WriteWakeupFails, DataInv, CopiesTrue
<1>6. ASSUME NEW p \in Procs, WriteRequest(p) PROVE CopiesTrue'
  <2>1. write_back[p] /\ write_back'[p] /\ (orig[p] = user \/ Excused)
    BY <1>0, <1>6 DEF WriteRequest, TypeInv, SessionLocations, DataInv, CopiesTrue, device
  <2>2. sector' \notin Contents
    BY <1>0, <1>6, SectorFacts, RequestFacts DEF WriteRequest
  <2>3. \A q \in Procs \ {p} : UNCHANGED << at[q], write_back[q], wakeups[q] >>
    BY <1>0, <1>6 DEF WriteRequest, TypeInv, Goto, device
  <2> QED BY <1>6, <2>1, <2>2, <2>3, SessionStep DEF WriteRequest, InSession, device, excuses
<1>7. ASSUME NEW p \in Procs, WriteRequestFails(p) PROVE CopiesTrue'
  <2>1. write_back[p] /\ write_back'[p] /\ (orig[p] = user \/ Excused)
    BY <1>0, <1>7 DEF WriteRequestFails, TypeInv, SessionLocations, DataInv, CopiesTrue
  <2>2. sector' = sector \/ sector' \notin Contents
    BY <1>0, <1>7, SectorFacts, RequestFacts DEF WriteRequestFails, Stored
  <2>3. \A q \in Procs \ {p} : UNCHANGED << at[q], write_back[q], wakeups[q] >>
    BY <1>0, <1>7 DEF WriteRequestFails, TypeInv, Goto
  <2> QED BY <1>7, <2>1, <2>2, <2>3, SessionStep DEF WriteRequestFails, InSession, excuses
<1>8. ASSUME NEW p \in Procs, ReadAnswer(p) PROVE CopiesTrue'
  <2>1. write_back[p] /\ write_back'[p] /\ (orig[p] = user \/ Excused)
    BY <1>0, <1>8 DEF ReadAnswer, TypeInv, SessionLocations, DataInv, CopiesTrue
  <2>2. sector' = sector \/ sector' \notin Contents
    BY <1>0, <1>8, SectorFacts, RequestFacts DEF ReadAnswer, Answers, TypeInv
  <2>3. \A q \in Procs \ {p} : UNCHANGED << at[q], write_back[q], wakeups[q] >>
    BY <1>0, <1>8 DEF ReadAnswer, TypeInv, Goto, AfterAnswer
  <2> QED BY <1>8, <2>1, <2>2, <2>3, SessionStep DEF ReadAnswer, InSession, excuses
<1>9. ASSUME NEW p \in Procs, ReadAnswerFails(p) PROVE CopiesTrue'
  BY <1>0, <1>9, QuietStep DEF ReadAnswerFails, TypeInv, InSession, Goto, excuses, AfterError
<1>10. ASSUME NEW p \in Procs, AtaPassThrough(p) PROVE CopiesTrue'
  BY <1>0, <1>10, QuietStep DEF AtaPassThrough, TypeInv, InSession, Goto, excuses
<1>11. ASSUME NEW p \in Procs, Close(p) PROVE CopiesTrue'
  BY <1>0, <1>11, QuietStep DEF Close, TypeInv, InSession, Goto, excuses, device
<1>12. ASSUME NEW p \in Procs, RestoreOrigData(p) PROVE CopiesTrue'
  <2>1. write_back[p] /\ sector' = orig[p]
    BY <1>0, <1>12 DEF RestoreOrigData, Restores, TypeInv, SessionLocations
  <2>2. \A q \in Procs : (at[q] = "wakeup" \/ write_back[q])' =>
                              at[q] = "wakeup" \/ write_back[q]
    BY <1>0, <1>12 DEF RestoreOrigData, Goto, TypeInv
  <2> QED BY <1>12, <2>1, <2>2 DEF RestoreOrigData, DataInv, CopiesTrue, Excused, excuses
<1>13. ASSUME NEW p \in Procs, RestoreOrigDataFails(p) PROVE CopiesTrue'
  <2>1. write_back[p]
    BY <1>13 DEF RestoreOrigDataFails, Restores
  <2>2. Excused'
    BY <1>13, <2>1 DEF RestoreOrigDataFails, Report, DataInv, CopiesTrue, Excused
  <2> QED BY <2>2 DEF CopiesTrue
<1>14. ASSUME NEW p \in Procs, Destroy(p) PROVE CopiesTrue'
  BY <1>0, <1>14, QuietStep DEF Destroy, InSession, excuses
<1>15. ASSUME NEW p \in Procs, Kill(p) PROVE CopiesTrue'
  <2>1. CASE InSession(p)
    BY <1>15, <2>1 DEF Kill, CopiesTrue, Excused
  <2>2. CASE ~InSession(p)
    <3>1. SUFFICES ASSUME ~Excused' PROVE CopiesTrue'
      BY DEF CopiesTrue
    <3>2. ~Excused
      BY <1>15, <3>1 DEF Kill, Excused
    <3>3. /\ \A q \in Procs : InSession(q) => InSession(q)'
          /\ \A q \in Procs : (at[q] = "wakeup" \/ write_back[q])' =>
                                  at[q] = "wakeup" \/ write_back[q]
      BY <1>0, <1>15, <2>2 DEF Kill, InSession, Goto, TypeInv
    <3> QED BY <1>15, <3>2, <3>3 DEF Kill, DataInv, CopiesTrue
  <2> QED BY <2>1, <2>2
<1>16. CASE UserWrites
  BY <1>0, <1>16 DEF UserWrites, AllClosed, TypeInv, SessionLocations, CopiesTrue, device
<1>17. CASE UNCHANGED jmbVars
  BY <1>17, QuietStep DEF jmbVars, device, excuses, InSession
<1> QED
  BY <1>1, <1>2, <1>3, <1>4, <1>5, <1>6, <1>7, <1>8, <1>9, <1>10, <1>11, <1>12, <1>13, <1>14,
     <1>15, <1>16, <1>17 DEF JmbNext

LEMMA NextNobodyIn == DataInv /\ [JmbNext]_jmbVars => NobodyIn'
<1> SUFFICES ASSUME DataInv, [JmbNext]_jmbVars, (\A p \in Procs : ~force[p])', (user = Data)'
             PROVE  (sector = Data /\ \A p \in Procs : at[p] \in {"closed", "read"})'
  BY DEF NobodyIn
<1>0. TypeInv /\ TypeInv'
  BY NextTypeInv DEF DataInv
<1>1. CASE UserWrites
  BY <1>1 DEF UserWrites, AllClosed
<1>2. ASSUME ~UserWrites
      PROVE  (sector = Data /\ \A p \in Procs : at[p] \in {"closed", "read"})'
  <2>1. force' = force /\ user' = user
    BY <1>2 DEF JmbNext, jmbVars, device, Open, ReadOriginal, ReadOriginalFails, WriteWakeup,
       WriteWakeupFails, WriteRequest, WriteRequestFails, ReadAnswer, ReadAnswerFails,
       AtaPassThrough, Close, RestoreOrigData, RestoreOrigDataFails, Destroy, Kill
  <2>2. sector = Data /\ \A p \in Procs : ~force[p] /\ at[p] \in {"closed", "read"}
    BY <2>1 DEF DataInv, NobodyIn
  <2>3. sector' = Data
    BY <1>2, <2>2 DEF JmbNext, jmbVars, device, Open, ReadOriginal, ReadOriginalFails, WriteWakeup,
       WriteWakeupFails, WriteRequest, WriteRequestFails, ReadAnswer, ReadAnswerFails,
       AtaPassThrough, Close, RestoreOrigData, RestoreOrigDataFails, Destroy, Kill
  <2>4. \A p \in Procs : Refuses(p)
    BY <2>2, SectorFacts DEF Refuses
  <2>5. \/ at' = at
        \/ \E p \in Procs : \E where \in {"closed", "read"} : at' = [at EXCEPT ![p] = where]
    BY <1>2, <2>2, <2>4 DEF JmbNext, jmbVars, device, Open, ReadOriginal, ReadOriginalFails, Goto,
       WriteWakeup, WriteWakeupFails, WriteRequest, WriteRequestFails, ReadAnswer,
       ReadAnswerFails, AtaPassThrough, Close, RestoreOrigData, RestoreOrigDataFails, Destroy,
       Kill
  <2> QED BY <1>0, <2>2, <2>3, <2>5 DEF TypeInv
<1> QED BY <1>1, <1>2

\* The user's data of the sector are kept, or a warning has told what they were, but for
\* the named exceptions: for any number of processes, sessions, failed reads and writes.
THEOREM DataIsKept == JmbSpec => []DataKept
<1>1. JmbInit => DataInv
  BY InitDataInv
<1>2. DataInv /\ [JmbNext]_jmbVars => DataInv'
  BY NextTypeInv, NextCopiesTrue, NextNobodyIn DEF DataInv
<1>3. DataInv => DataKept
  <2> SUFFICES ASSUME DataInv PROVE DataKept
    OBVIOUS
  <2>1. NonZeroKept
    BY DEF DataInv, NobodyIn, NonZeroKept
  <2>2. ASSUME AllClosed, ~Excused PROVE sector = user
    BY <2>2 DEF AllClosed, DataInv, TypeInv, CopiesTrue, InSession, SessionLocations
  <2> QED BY <2>1, <2>2 DEF DataKept, LossTold, Excused
<1> QED BY <1>1, <1>2, <1>3, PTL DEF JmbSpec

-----------------------------------------------------------------------------
(***************************************************************************)
(* OwnAnswers: while sessions do not overlap, the numbers of the requests  *)
(* tell the answer to the last one from all others.                        *)
(***************************************************************************)
Asking(p) == at[p] \in {"request", "answer"}
Ready(p) == Asking(p) \/ (at[p] = "idle" /\ ~blocked[p])

Single == \A p, q \in Procs : InSession(p) /\ InSession(q) => p = q
Numbered == \A p \in Procs : /\ Asking(p) => cmd_id[p] = nth[p]
                             /\ at[p] = "idle" /\ ~blocked[p] => cmd_id[p] = nth[p] + 1
InPlace == \A p \in Procs : at[p] = "answer" => sector = Request(p) \/ ~HasCRC(sector)
LastIsOld == \A p \in Procs : Ready(p) => last.type = "none" \/ last.id < cmd_id[p]
NumbersTell == Single /\ InPlace /\ LastIsOld /\ ~mixed
AnswerInv == TypeInv /\ Numbered /\ (~overlap => NumbersTell)

\* cmd_id is the number of the command in its session.
LEMMA NextNumbered == TypeInv /\ Numbered /\ [JmbNext]_jmbVars => Numbered'
<1> SUFFICES ASSUME TypeInv, Numbered, [JmbNext]_jmbVars, NEW q \in Procs
             PROVE  (/\ Asking(q) => cmd_id[q] = nth[q]
                     /\ at[q] = "idle" /\ ~blocked[q] => cmd_id[q] = nth[q] + 1)'
  BY DEF Numbered
<1> USE DEF TypeInv, Numbered, Asking, Goto, Block
<1>1. ASSUME UNCHANGED << at[q], blocked[q], cmd_id[q], nth[q] >>
      PROVE  (/\ Asking(q) => cmd_id[q] = nth[q]
              /\ at[q] = "idle" /\ ~blocked[q] => cmd_id[q] = nth[q] + 1)'
  BY <1>1
<1>2. ASSUME at'[q] \in {"closed", "read", "wakeup", "restore"} \/ (at'[q] = "idle" /\ blocked'[q])
      PROVE  (/\ Asking(q) => cmd_id[q] = nth[q]
              /\ at[q] = "idle" /\ ~blocked[q] => cmd_id[q] = nth[q] + 1)'
  BY <1>2
<1>3. ASSUME WriteWakeup(q)
      PROVE  (/\ Asking(q) => cmd_id[q] = nth[q]
              /\ at[q] = "idle" /\ ~blocked[q] => cmd_id[q] = nth[q] + 1)'
  BY <1>3 DEF WriteWakeup
<1>4. ASSUME WriteRequest(q)
      PROVE  (/\ Asking(q) => cmd_id[q] = nth[q]
              /\ at[q] = "idle" /\ ~blocked[q] => cmd_id[q] = nth[q] + 1)'
  BY <1>4 DEF WriteRequest, device
<1>5. ASSUME ReadAnswer(q)
      PROVE  (/\ Asking(q) => cmd_id[q] = nth[q]
              /\ at[q] = "idle" /\ ~blocked[q] => cmd_id[q] = nth[q] + 1)'
  <2>1. at[q] = "answer" /\ nth' = nth
    BY <1>5 DEF ReadAnswer
  <2>2. \/ at'[q] = "restore" \/ (at'[q] = "idle" /\ blocked'[q])
        \/ at'[q] = "idle" /\ cmd_id' = [cmd_id EXCEPT ![q] = NextId(q)]
    BY <1>5 DEF ReadAnswer, AfterAnswer, AfterError
  <2> QED BY <1>2, <2>1, <2>2 DEF NextId
<1>6. ASSUME AtaPassThrough(q)
      PROVE  (/\ Asking(q) => cmd_id[q] = nth[q]
              /\ at[q] = "idle" /\ ~blocked[q] => cmd_id[q] = nth[q] + 1)'
  BY <1>6 DEF AtaPassThrough
<1>7. CASE \E p \in Procs : \/ Open(p) \/ ReadOriginal(p) \/ ReadOriginalFails(p)
                           \/ WriteWakeupFails(p) \/ WriteRequestFails(p)
                           \/ ReadAnswerFails(p) \/ Close(p) \/ RestoreOrigData(p)
                           \/ RestoreOrigDataFails(p) \/ Destroy(p) \/ Kill(p)
  <2>1. PICK p \in Procs : \/ Open(p) \/ ReadOriginal(p) \/ ReadOriginalFails(p)
                           \/ WriteWakeupFails(p) \/ WriteRequestFails(p)
                           \/ ReadAnswerFails(p) \/ Close(p) \/ RestoreOrigData(p)
                           \/ RestoreOrigDataFails(p) \/ Destroy(p) \/ Kill(p)
    BY <1>7
  <2>2. CASE p = q
    <3>1. \/ at'[q] \in {"closed", "read", "wakeup", "restore"}
          \/ at'[q] = "idle" /\ blocked'[q]
      BY <2>1, <2>2 DEF Open, ReadOriginal, ReadOriginalFails, WriteWakeupFails,
         WriteRequestFails, ReadAnswerFails, AfterError, Close, RestoreOrigData,
         RestoreOrigDataFails, Destroy, Kill
    <3> QED BY <1>2, <3>1
  <2>3. CASE p # q
    <3>1. UNCHANGED << at[q], blocked[q], cmd_id[q], nth[q] >>
      BY <2>1, <2>3 DEF Open, ReadOriginal, ReadOriginalFails, WriteWakeupFails, device,
         WriteRequestFails, ReadAnswerFails, Close, RestoreOrigData,
         RestoreOrigDataFails, Destroy, Kill
    <3> QED BY <1>1, <3>1
  <2> QED BY <2>2, <2>3
<1>8. ASSUME NEW p \in Procs, p # q,
             WriteWakeup(p) \/ WriteRequest(p) \/ ReadAnswer(p) \/ AtaPassThrough(p)
      PROVE  UNCHANGED << at[q], blocked[q], cmd_id[q], nth[q] >>
  <2>1. CASE WriteWakeup(p)
    BY <1>8, <2>1 DEF WriteWakeup
  <2>2. CASE WriteRequest(p) \/ AtaPassThrough(p)
    BY <1>8, <2>2 DEF WriteRequest, AtaPassThrough, device
  <2>3. CASE ReadAnswer(p)
    BY <1>8, <2>3 DEF ReadAnswer, AfterAnswer
  <2> QED BY <1>8, <2>1, <2>2, <2>3
<1>9. CASE UserWrites \/ UNCHANGED jmbVars
  BY <1>9, <1>1 DEF UserWrites, jmbVars, device
<1> QED BY <1>1, <1>3, <1>4, <1>5, <1>6, <1>7, <1>8, <1>9 DEF JmbNext

\* What a step of p leaves as it is: all of the other devices.
OthersStay(p) ==
    \A q \in Procs \ {p} :
        UNCHANGED << at[q], blocked[q], write_back[q], wakeups[q], cmd_id[q], nth[q] >>

\* A step of p that ends in no command, and lets p be no more than it was.  What it writes
\* hurts nobody: it is not read as an answer, or p was in the only session.
LEMMA StepAside ==
    ASSUME AnswerInv, NumbersTell, NEW p \in Procs, OthersStay(p), last' = last, ~mixed',
           InSession(p)' => InSession(p), at'[p] # "answer",
           Ready(p)' => Ready(p) /\ cmd_id'[p] = cmd_id[p],
           sector' = sector \/ ~HasCRC(sector') \/ write_back[p]
    PROVE  NumbersTell'
<1> USE DEF OthersStay
<1>1. Single'
  BY DEF NumbersTell, Single, InSession
<1>2. InPlace'
  <2> SUFFICES ASSUME NEW q \in Procs, at'[q] = "answer"
               PROVE  sector' = Request(q)' \/ ~HasCRC(sector')
    BY DEF InPlace, HasCRC
  <2>1. q # p /\ at[q] = "answer" /\ Request(q)' = Request(q)
    BY DEF Request, Sector
  <2>2. write_back[q]
    BY <2>1 DEF AnswerInv, TypeInv, SessionLocations
  <2>3. ~write_back[p]
    BY <2>1, <2>2 DEF NumbersTell, Single, InSession
  <2> QED BY <2>1, <2>3 DEF NumbersTell, InPlace
<1>3. LastIsOld'
  BY DEF NumbersTell, LastIsOld, Ready, Asking
<1> QED BY <1>1, <1>2, <1>3 DEF NumbersTell

LEMMA NextNumbersTell == AnswerInv /\ [JmbNext]_jmbVars /\ ~overlap' => NumbersTell'
<1> SUFFICES ASSUME AnswerInv, [JmbNext]_jmbVars, ~overlap' PROVE NumbersTell'
  OBVIOUS
<1> USE DEF Goto, Block, excuses
<1>0. TypeInv /\ TypeInv'
  BY NextTypeInv DEF AnswerInv
<1>a. ASSUME NEW p \in Procs, Open(p) PROVE NumbersTell'
  <2>1. NumbersTell
    BY <1>a DEF Open, AnswerInv
  <2>2. OthersStay(p) /\ ~mixed'
    BY <1>0, <1>a, <2>1 DEF Open, OthersStay, TypeInv, NumbersTell
  <2>3. at'[p] = "read" /\ ~write_back'[p]
    BY <1>0, <1>a DEF Open, TypeInv
  <2> QED BY <1>a, <2>1, <2>2, <2>3, StepAside DEF Open, InSession, Ready, Asking
<1>b. ASSUME NEW p \in Procs, ReadOriginal(p) \/ ReadOriginalFails(p) PROVE NumbersTell'
  <2>1. NumbersTell
    BY <1>b DEF ReadOriginal, ReadOriginalFails, AnswerInv
  <2>2. /\ OthersStay(p) /\ ~mixed'
        /\ UNCHANGED << write_back, sector, last >>
    BY <1>0, <1>b, <2>1 DEF ReadOriginal, ReadOriginalFails, OthersStay, TypeInv, NumbersTell,
       device
  <2>3. ~write_back[p] /\ (at'[p] = "closed" \/ (at'[p] = "wakeup" /\ wakeups'[p] = 0))
    BY <1>0, <1>b DEF ReadOriginal, ReadOriginalFails, TypeInv, SessionLocations
  <2>4. ~InSession(p)'
    BY <2>2, <2>3 DEF InSession
  <2> QED BY <2>1, <2>2, <2>3, <2>4, StepAside DEF Ready, Asking
<1>c. ASSUME NEW p \in Procs, WriteWakeup(p) PROVE NumbersTell'
  <2>1. NumbersTell /\ \A q \in Procs \ {p} : ~InSession(q)
    BY <1>c DEF WriteWakeup, AnswerInv
  <2>2. OthersStay(p) /\ ~mixed'
    BY <1>0, <1>c, <2>1 DEF WriteWakeup, OthersStay, TypeInv, NumbersTell
  <2>3. \A q \in Procs \ {p} : ~InSession(q)'
    BY <2>1, <2>2 DEF OthersStay, InSession
  <2>4. ~HasCRC(sector') /\ last'.type = "none"
    BY <1>c, SectorFacts DEF WriteWakeup, HasCRC
  <2> QED BY <2>2, <2>3, <2>4 DEF NumbersTell, Single, InPlace, LastIsOld, HasCRC
<1>d. ASSUME NEW p \in Procs, WriteWakeupFails(p) PROVE NumbersTell'
  <2>1. NumbersTell
    BY <1>d DEF WriteWakeupFails, AnswerInv
  <2>2. OthersStay(p) /\ ~mixed'
    BY <1>0, <1>d, <2>1 DEF WriteWakeupFails, OthersStay, TypeInv, NumbersTell
  <2>3. at'[p] = "closed" /\ ~write_back'[p]
    BY <1>0, <1>d DEF WriteWakeupFails, TypeInv, SessionLocations
  <2>4. sector' = sector \/ ~HasCRC(sector')
    BY <1>d, SectorFacts DEF WriteWakeupFails, Stored, HasCRC
  <2> QED BY <1>d, <2>1, <2>2, <2>3, <2>4, StepAside DEF WriteWakeupFails, InSession, Ready, Asking
<1>e. ASSUME NEW p \in Procs, WriteRequest(p) PROVE NumbersTell'
  <2>1. NumbersTell /\ InSession(p)
    BY <1>0, <1>e DEF WriteRequest, AnswerInv, InSession, TypeInv, SessionLocations
  <2>2. OthersStay(p) /\ ~mixed'
    BY <1>0, <1>e, <2>1 DEF WriteRequest, OthersStay, TypeInv, NumbersTell, device
  <2>3. \A q \in Procs \ {p} : ~InSession(q) /\ ~InSession(q)'
    BY <2>1, <2>2 DEF OthersStay, InSession, NumbersTell, Single
  <2>4. sector' = Request(p)'
    BY <1>e DEF WriteRequest, Request, Sector, device
  <2>5. InPlace'
    BY <1>0, <2>3, <2>4 DEF InPlace, InSession, TypeInv, SessionLocations
  <2>6. LastIsOld'
    BY <1>0, <1>e, <2>1, <2>2 DEF WriteRequest, LastIsOld, NumbersTell, Ready, Asking, OthersStay,
       device
  <2> QED BY <2>2, <2>3, <2>5, <2>6 DEF NumbersTell, Single
<1>f. ASSUME NEW p \in Procs,
             WriteRequestFails(p) \/ ReadAnswerFails(p) \/ RestoreOrigData(p)
             \/ RestoreOrigDataFails(p)
      PROVE  NumbersTell'
  <2>1. NumbersTell /\ write_back[p]
    BY <1>0, <1>f DEF WriteRequestFails, ReadAnswerFails, RestoreOrigData, RestoreOrigDataFails,
       AnswerInv, TypeInv, SessionLocations
  <2>2. OthersStay(p) /\ ~mixed' /\ last' = last
    BY <1>0, <1>f, <2>1 DEF WriteRequestFails, ReadAnswerFails, RestoreOrigData,
       RestoreOrigDataFails, OthersStay, TypeInv, NumbersTell
  <2>3. at'[p] \in {"closed", "restore"} \/ (at'[p] = "idle" /\ blocked'[p])
    BY <1>0, <1>f DEF WriteRequestFails, ReadAnswerFails, RestoreOrigData, RestoreOrigDataFails,
       AfterError, TypeInv
  <2> QED BY <2>1, <2>2, <2>3, StepAside DEF InSession, Ready, Asking
<1>g. ASSUME NEW p \in Procs, AtaPassThrough(p) \/ Close(p) \/ Destroy(p) PROVE NumbersTell'
  <2>1. NumbersTell
    BY <1>g DEF AtaPassThrough, Close, Destroy, AnswerInv
  <2>2. /\ OthersStay(p) /\ ~mixed'
        /\ UNCHANGED << write_back, wakeups, sector, last, cmd_id >>
    BY <1>0, <1>g, <2>1 DEF AtaPassThrough, Close, Destroy, OthersStay, TypeInv, NumbersTell,
       device
  <2>3. \/ at[p] = "idle" /\ at'[p] = "restore"
        \/ at[p] = "closed" /\ at'[p] = "closed"
        \/ at[p] = "idle" /\ ~blocked[p] /\ at'[p] = "request"
    BY <1>0, <1>g DEF AtaPassThrough, Close, Destroy, TypeInv
  <2> QED BY <2>1, <2>2, <2>3, StepAside DEF InSession, Ready, Asking
<1>h. ASSUME NEW p \in Procs, Kill(p) PROVE NumbersTell'
  <2>1. NumbersTell
    BY <1>h DEF Kill, AnswerInv
  <2>2. OthersStay(p) /\ ~mixed'
    BY <1>0, <1>h, <2>1 DEF Kill, OthersStay, TypeInv, NumbersTell
  <2>3. at'[p] = "closed" /\ ~write_back'[p]
    BY <1>0, <1>h DEF Kill, TypeInv
  <2> QED BY <1>h, <2>1, <2>2, <2>3, StepAside DEF Kill, InSession, Ready, Asking
<1>i. ASSUME NEW p \in Procs, ReadAnswer(p) PROVE NumbersTell'
  <2>1. NumbersTell /\ InSession(p) /\ at[p] = "answer"
    BY <1>0, <1>i DEF ReadAnswer, AnswerInv, InSession, TypeInv, SessionLocations
  <2>2. OthersStay(p) /\ UNCHANGED << write_back, wakeups, nth >>
    BY <1>0, <1>i DEF ReadAnswer, AfterAnswer, OthersStay, TypeInv
  <2>3. \A q \in Procs \ {p} : ~InSession(q) /\ ~InSession(q)'
    BY <2>1, <2>2 DEF OthersStay, InSession, NumbersTell, Single
  <2>4. at'[p] \in {"idle", "restore"}
    BY <1>0, <1>i DEF ReadAnswer, AfterAnswer, AfterError, TypeInv
  <2>5. InPlace'
    BY <1>0, <2>3, <2>4 DEF InPlace, InSession, TypeInv, SessionLocations
  <2>6. PICK response \in Answers :
            /\ sector' = response
            /\ last' = IF sector.type = "request" /\ response = Answer(sector) THEN response
                       ELSE last
            /\ IF Accepts(p, response)
               THEN /\ AfterAnswer(p)
                    /\ cmd_id' = [cmd_id EXCEPT ![p] = NextId(p)]
                    /\ mixed' = (mixed \/ response # Answer(Request(p)))
               ELSE /\ Block(p) /\ Goto(p, AfterError(p))
                    /\ UNCHANGED << cmd_id, mixed >>
    BY <1>i DEF ReadAnswer
  <2>7. CASE Accepts(p, response)
    <3>1. sector = Request(p) /\ Request(p).type = "request" /\ Answers = {Answer(sector),
              sector, Garbled, last} \ {NoAnswer}
      <4>1. sector = Request(p) \/ ~HasCRC(sector)
        BY <2>1 DEF NumbersTell, InPlace
      <4>2. HasCRC(sector) \/ Answers = {sector}
        BY DEF HasCRC, Answers
      <4>3. sector = Request(p)
        BY <2>7, <4>1, <4>2 DEF Accepts
      <4> QED BY <1>0, <4>3, RequestFacts DEF Answers
    <3>2. response # last
      <4>1. last.type = "none" \/ last.id < cmd_id[p]
        BY <2>1 DEF NumbersTell, LastIsOld, Ready, Asking
      <4>2. last.id \in Nat /\ cmd_id[p] \in Nat
        BY <1>0 DEF TypeInv, Sectors
      <4> QED BY <2>7, <4>1, <4>2 DEF Accepts, HasCRC
    <3>3. response = Answer(Request(p))
      BY <2>7, <3>1, <3>2, SectorFacts DEF Accepts, HasCRC
    <3>4. ~mixed'
      BY <2>1, <2>6, <2>7, <3>3 DEF NumbersTell
    <3>5. last' = Answer(Request(p)) /\ last'.id = cmd_id[p]
      BY <2>6, <3>1, <3>3 DEF Answer, Request, Sector
    <3>6. cmd_id'[p] = cmd_id[p] + 1 /\ cmd_id[p] \in Nat
      BY <1>0, <2>6, <2>7 DEF TypeInv, NextId
    <3>7. LastIsOld'
      <4>1. last'.id < cmd_id'[p]
        BY <3>5, <3>6
      <4>2. \A q \in Procs \ {p} : ~Ready(q)'
        BY <1>0, <2>3 DEF Ready, Asking, InSession, TypeInv, SessionLocations
      <4> QED BY <4>1, <4>2 DEF LastIsOld
    <3> QED BY <2>3, <2>5, <3>4, <3>7 DEF NumbersTell, Single
  <2>8. CASE ~Accepts(p, response)
    <3>1. \A q \in Procs : ~Ready(q)'
      BY <1>0, <2>3, <2>6, <2>8 DEF Ready, Asking, InSession, TypeInv, SessionLocations,
         AfterError
    <3> QED BY <2>1, <2>3, <2>5, <2>6, <2>8, <3>1 DEF NumbersTell, Single, LastIsOld
  <2> QED BY <2>7, <2>8
<1>j. CASE UserWrites
  BY <1>0, <1>j DEF UserWrites, AllClosed, AnswerInv, NumbersTell, Single, InPlace, LastIsOld,
     Ready, Asking, InSession, TypeInv, SessionLocations, device
<1>k. CASE UNCHANGED jmbVars
  BY <1>k DEF jmbVars, device, AnswerInv, NumbersTell, Single, InPlace, LastIsOld, Ready, Asking,
     InSession, Request
<1> QED BY <1>a, <1>b, <1>c, <1>d, <1>e, <1>f, <1>g, <1>h, <1>i, <1>j, <1>k DEF JmbNext

\* No answer is taken for another one while the sessions of two processes do not overlap,
\* for any number of processes, commands and stale or damaged answers.
THEOREM AnswersAreOwn == JmbSpec => []OwnAnswers
<1>1. JmbInit => AnswerInv
  <2> SUFFICES ASSUME JmbInit PROVE AnswerInv
    OBVIOUS
  <2>1. TypeInv
    BY InitDataInv DEF DataInv
  <2>2. Numbered /\ NumbersTell
    BY DEF JmbInit, Numbered, NumbersTell, Single, InPlace, LastIsOld, Ready, Asking, InSession
  <2> QED BY <2>1, <2>2 DEF AnswerInv
<1>2. AnswerInv /\ [JmbNext]_jmbVars => AnswerInv'
  BY NextTypeInv, NextNumbered, NextNumbersTell DEF AnswerInv
<1>3. AnswerInv => OwnAnswers
  BY DEF AnswerInv, NumbersTell, OwnAnswers
<1> QED BY <1>1, <1>2, <1>3, PTL DEF JmbSpec
=============================================================================
