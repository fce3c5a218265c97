---------------------------- MODULE SmartctlAta -----------------------------
(***************************************************************************)
(* One run of smartctl on an ATA disk: ataPrintMain() (src/ataprint.cpp),  *)
(* with failuretest() and the options -T and -b of src/smartctl.cpp.  The  *)
(* commands the options ask for are sent in a fixed order; any of them may *)
(* fail.  What is known from one answer decides about later commands, and  *)
(* each failure leaves a bit in the exit status, or ends the run.          *)
(*                                                                         *)
(* pc names the part of the function to come next: most parts are one      *)
(* option and one command.  What is only printed is left out.              *)
(***************************************************************************)
EXTENDS Integers, Sequences, SequencesExt

CONSTANTS
    OptionSets, \* the options a run may have, of OptionType
    Disks       \* the disks it may be given, of DiskType

\* The parts of ataPrintMain() in their order; "on" and "off" are -s on and -s off.
SettingParts == << "aam", "apm", "lookahead", "wcache", "dsn", "reorder", "wcache_sct",
                   "freeze", "standby" >>
ReadingParts == << "values", "thresholds", "offline_on", "offline_off", "update", "status",
                   "smart_logdir", "gp_logdir", "request", "xerror", "error", "xselftest",
                   "selftest", "selective" >>
SctParts == << "sct_status", "sct_history", "sct_interval", "erc_set", "erc_get" >>
Parts_NowFirst ==
    << "power", "identify", "presets", "support", "get", "supported" >> \o SettingParts
    \o << "on", "off", "enabled", "autosave_on", "autosave_off", "now" >> \o ReadingParts
    \o SctParts
    \o << "devstat", "defects", "sataphy", "farm", "capable", "test", "offline_time", "done" >>
Parts ==
    << "power", "identify", "presets", "support", "get", "supported" >> \o SettingParts
    \o << "on", "off", "enabled", "autosave_on", "autosave_off" >> \o ReadingParts \o SctParts
    \o << "devstat", "defects", "sataphy", "farm", "now", "capable", "test", "offline_time",
          "done" >>

Settings == ToSet(SettingParts)
Switches == ToSet(Parts) \cup {"info", "general", "attributes", "retry_error",
                               "retry_selftest", "get_reorder", "get_wcache_sct"}
Tests == {"none", "offline", "self", "conveyance", "selective", "abort", "vendor"}
Logs == {"error", "xerror", "devstat", "selftest", "xselftest", "selective", "defects",
         "sataphy", "farm", "other"}
\* Capabilities in the identify data, and in the SMART data.
IdCapabilities == {"gp_log", "sct", "sct_table", "sct_feature", "erc", "error", "selftest",
                   "sataphy"}
DataCapabilities == {"timer", "error", "selftest", "selective", "self", "offline",
                     "conveyance", "offline_abort"}

\* -T permissive may be given several times; powermode is the number of -n.
OptionType == [on: SUBSET Switches, powermode: 0 .. 4, powerexit_unsup: BOOLEAN,
               permissive: Nat, conservative: BOOLEAN, badsum: {"exit", "warn"},
               test: Tests, force: BOOLEAN, request: {"none", "gp", "smart"}]
\* smart_supported and smart_enabled as the identify data has them, -1 is unknown; an
\* operating system may cache it.
DiskType == [power: {"unsupported", "sleep", "standby", "idle", "active"},
             identity: {"disk", "packet"}, supported: -1 .. 1, enabled: -1 .. 1,
             cached: BOOLEAN, on: BOOLEAN, database: BOOLEAN, locked: BOOLEAN,
             idcaps: SUBSET IdCapabilities, caps: SUBSET DataCapabilities,
             smartlogs: SUBSET Logs, gplogs: SUBSET Logs, nologdir: BOOLEAN,
             seagate: BOOLEAN, failing: BOOLEAN, attributes: {"good", "past", "now"},
             errors: SUBSET {"error", "selftest"}, testing: BOOLEAN]

\* The identify data tell whether SMART is on, if they tell it and are not cached.
DiskAssumption(d) == d.enabled # -1 /\ ~d.cached => (d.enabled = 1 <=> d.on)

VARIABLES
    opts, pc, failuretest_permissive, permitted, returnval, failed, \* as in Smartctl
    disk,
    smart_supported, smart_enabled,
    smartval,               \* capabilities known from the SMART data
    smart_val_ok, smart_thres_ok,
    smartlogdir, gplogdir,  \* the logs of the directories, {} is a null pointer
    retry,                  \* logs to read because the extended one could not be
    on,                     \* the disk: SMART is enabled
    asleep,                 \* the disk was put to standby
    answer,                 \* history: the answer to SMART RETURN STATUS
    checksum                \* history: ended by -b exit

INSTANCE Smartctl

given == << opts, disk >>
flow == << pc, failuretest_permissive, permitted, returnval, failed >>
known == << smart_supported, smart_enabled >>
values == << smartval, smart_val_ok, smart_thres_ok >>
logs == << smartlogdir, gplogdir, retry >>
state == << on, asleep, answer, checksum >>
vars == << given, flow, known, values, logs, state >>

Init ==
    /\ opts \in OptionSets /\ disk \in Disks
    /\ Begin
    /\ smart_supported = -1 /\ smart_enabled = -1
    /\ smartval = {} /\ smart_val_ok = FALSE /\ smart_thres_ok = FALSE
    /\ smartlogdir = {} /\ gplogdir = {} /\ retry = {}
    /\ on = disk.on /\ asleep = FALSE /\ answer = "none" /\ checksum = FALSE

-----------------------------------------------------------------------------
(***************************************************************************)
(* What the options need.                                                  *)
(***************************************************************************)
Chosen(switches) == opts.on \cap switches # {}

NeedSmartVal ==
    opts.test # "none" \/ Chosen({"status", "general", "attributes", "error", "selftest",
                               "selective", "xerror", "xselftest", "offline_on",
                               "offline_off"})
NeedSmartEnabled == NeedSmartVal \/ Chosen({"autosave_on", "autosave_off"})
NeedSmartSupport == NeedSmartEnabled \/ Chosen({"on", "off"})
NeedSmartLogdir == opts.request = "smart" \/ Chosen({"smart_logdir", "devstat"})
NeedGpLogdir ==
    opts.request = "gp"
    \/ Chosen({"gp_logdir", "xerror", "xselftest", "devstat", "defects", "farm"})
NothingToDo ==
    ~NeedSmartSupport /\ ~NeedSmartLogdir /\ ~NeedGpLogdir
    /\ ~Chosen({"info", "presets", "sataphy", "get_reorder", "get_wcache_sct", "now"}
            \cup Settings \cup ToSet(SctParts))

\* The identify data; without it the structure is empty.
drive == IF "identify" \notin failed THEN disk
         ELSE [disk EXCEPT !.identity = "disk", !.supported = -1, !.enabled = -1,
                           !.idcaps = {}, !.locked = FALSE, !.database = FALSE,
                           !.seagate = FALSE]

SctOk == "sct" \in drive.idcaps /\ ~drive.locked
FeatureControl == "sct_feature" \in drive.idcaps /\ ~drive.locked

\* The traditional logs: by the directory, or else by the capabilities.
Extended == [error |-> "xerror", selftest |-> "xselftest"]
Again == [error |-> "retry_error", selftest |-> "retry_selftest"]
LogBit == [error |-> "ERR", selftest |-> "LOG"]
LogSupported(log) ==
    \/ log \in smartlogdir
    \/ (smartlogdir = {} \/ "gp_log" \notin drive.idcaps) /\ log \in drive.idcaps \cup smartval
RequestedLog == CASE opts.request = "gp" -> "other" \in gplogdir
                  [] opts.request = "smart" -> "other" \in smartlogdir
                  [] OTHER -> FALSE

\* What a part lacks that -T permissive overlooks.
Lacks(part) ==
    CASE part = "enabled" -> smart_enabled <= 0 /\ NeedSmartEnabled /\ "off" \notin opts.on
      [] part = "gp_logdir" -> NeedGpLogdir /\ ~disk.nologdir /\ "gp_log" \notin drive.idcaps
      [] part = "request" -> opts.request # "none" /\ ~RequestedLog
      [] part \in {"error", "selftest"} -> part \in opts.on \cup retry /\ ~LogSupported(part)
      [] part = "farm" -> "farm" \in opts.on /\ ~drive.seagate
      [] OTHER -> FALSE

\* The command of a part is asked for and, as far as is known, supported.
Wanted(part) ==
    CASE part = "get" -> FeatureControl /\ Chosen({"get_reorder", "get_wcache_sct"})
      [] part \in {"reorder", "wcache_sct"} -> part \in opts.on /\ FeatureControl
      [] part = "standby" -> part \in opts.on /\ "now" \notin opts.on
      [] part = "values" -> NeedSmartVal
      [] part = "thresholds" -> smart_val_ok /\ Chosen({"status", "attributes"})
      [] part = "update" -> smart_val_ok /\ Chosen({"offline_on", "offline_off"})
      [] part = "request" -> opts.request # "none" /\ (RequestedLog \/ permitted)
      [] part \in {"xerror", "xselftest"} -> part \in opts.on \cap gplogdir
      [] part \in {"error", "selftest"} ->
             part \in opts.on \cup retry /\ (LogSupported(part) \/ permitted)
      [] part = "selective" -> part \in opts.on \cap smartval
      [] part = "sct_status" ->
             SctOk /\ \/ part \in opts.on
                      \/ "sct_history" \in opts.on /\ "sct_table" \in drive.idcaps
      [] part \in {"sct_history", "sct_interval", "erc_set"} -> SctOk /\ part \in opts.on
      [] part = "erc_get" -> SctOk /\ part \in opts.on /\ "erc" \in drive.idcaps
      [] part = "devstat" ->
             part \in opts.on /\ part \in (IF gplogdir # {} THEN gplogdir ELSE smartlogdir)
      [] part = "defects" -> part \in opts.on \cap gplogdir
      [] part = "sataphy" -> part \in opts.on \cap (gplogdir \cup drive.idcaps)
      [] part = "farm" -> part \in opts.on \cap gplogdir /\ (drive.seagate \/ permitted)
      [] part = "offline_time" -> opts.test = "offline" /\ "offline_abort" \notin smartval
      [] OTHER -> part \in opts.on

\* is_permissive()
IsPermissive ==
    /\ Lacks(pc) /\ ~permitted /\ failuretest_permissive > 0
    /\ permitted' = TRUE /\ failuretest_permissive' = failuretest_permissive - 1
    /\ UNCHANGED << pc, returnval, failed, given, known, values, logs, state >>
Decided == Lacks(pc) => permitted \/ failuretest_permissive = 0

-----------------------------------------------------------------------------
(***************************************************************************)
(* Before the first SMART command.                                         *)
(***************************************************************************)
\* The -n that skips a disk in a power mode.  If the command fails it sleeps.
PowerLimit(mode) ==
    CASE mode = "sleep" -> 2 [] mode = "standby" -> 3 [] mode = "idle" -> 4 [] OTHER -> 255

CheckPowerMode ==
    /\ pc = "power"
    /\ \E mode \in {disk.power, "sleep"} :
        \/ opts.powermode = 0 /\ GoOn
        \/ opts.powermode > 0 /\ mode = "unsupported"
           /\ IF opts.powerexit_unsup THEN GoOnAt("stopped", {"POWER2"}) ELSE GoOn
        \/ opts.powermode > 0 /\ mode # "unsupported"
           /\ IF opts.powermode >= PowerLimit(mode) THEN GoOnAt("stopped", {"POWER"})
              ELSE GoOn
    /\ UNCHANGED << given, known, values, logs, state >>

ReadIdentity ==
    /\ pc = "identify"
    /\ \/ NothingToDo /\ GoOnAt("stopped", {})
       \/ ~NothingToDo /\ (GoOn \/ Mandatory({pc}, "ID"))
    /\ UNCHANGED << given, known, values, logs, state >>

\* -P show
ShowPresets ==
    /\ pc = "presets"
    /\ IF Wanted(pc) THEN GoOnAt("stopped", {}) ELSE GoOn
    /\ UNCHANGED << given, known, values, logs, state >>

\* A state that the operating system has cached is asked for again.
Confirmed_Cached(enabled) == {enabled}
Confirmed(enabled) == IF enabled >= 0 /\ disk.cached THEN {0} \cup (IF on THEN {1} ELSE {})
                      ELSE {enabled}

CheckSmartSupport ==
    /\ pc = "support"
    /\ UNCHANGED << given, values, logs, state >>
    /\ LET asked == drive.identity = "disk" /\ (NeedSmartSupport \/ "info" \in opts.on)
           ambiguous == drive.supported # 0 /\ drive.enabled = -1
           assumed == drive.supported = -1 /\ (drive.enabled = 1 \/ drive.database)
       IN  \/ /\ ~asked
              /\ GoOn /\ UNCHANGED known
           \/ /\ asked /\ ambiguous
              /\ IF NeedSmartSupport THEN Mandatory({}, "SMART") ELSE GoOn
              /\ \/ smart_supported' = drive.supported /\ smart_enabled' = -1
                 \/ /\ NeedSmartSupport /\ on
                    /\ smart_supported' = 1 /\ smart_enabled' \in Confirmed(1)
           \/ /\ asked /\ ~ambiguous
              /\ GoOn
              /\ smart_supported' = IF assumed THEN 1 ELSE drive.supported
              /\ smart_enabled' \in IF smart_supported' = 1 THEN Confirmed(drive.enabled)
                                    ELSE {drive.enabled}

\* SMART must be supported to go on.
NeedsSupport ==
    /\ pc = "supported"
    /\ IF smart_supported <= 0 /\ NeedSmartSupport THEN Mandatory({}, "SMART") ELSE GoOn
    /\ UNCHANGED << given, known, values, logs, state >>

GetFeature ==
    /\ pc = "get"
    /\ GoOn \/ (Wanted(pc) /\ FailsWith({}))
    /\ UNCHANGED << given, known, values, logs, state >>

SetFeature ==
    /\ pc \in Settings
    /\ GoOn \/ (Wanted(pc) /\ FailsWith({"SMART"}))
    /\ UNCHANGED << given, known, values, logs, state >>

SmartOn ==
    /\ pc = "on"
    /\ \/ ~Wanted(pc) /\ GoOn /\ UNCHANGED << known, state >>
       \/ Wanted(pc) /\ GoOn /\ smart_enabled' = 1 /\ on' = TRUE
          /\ UNCHANGED << smart_supported, asleep, answer, checksum >>
       \/ Wanted(pc) /\ Mandatory({pc}, "SMART") /\ UNCHANGED << known, state >>
    /\ UNCHANGED << given, values, logs >>

SmartOff ==
    /\ pc = "off"
    /\ \/ ~Wanted(pc) /\ GoOn /\ UNCHANGED state
       \/ Wanted(pc) /\ GoOn /\ on' = FALSE /\ UNCHANGED << asleep, answer, checksum >>
       \/ Wanted(pc) /\ Mandatory({pc}, "SMART") /\ UNCHANGED state
    /\ UNCHANGED << given, known, values, logs >>

NeedsEnabled ==
    /\ pc = "enabled" /\ Decided
    /\ IF "off" \in opts.on \/ (Lacks(pc) /\ ~permitted) THEN GoOnAt("stopped", returnval)
       ELSE GoOn
    /\ UNCHANGED << given, known, values, logs, state >>

AutoSave ==
    /\ pc \in {"autosave_on", "autosave_off"}
    /\ GoOn \/ (Wanted(pc) /\ Mandatory({pc}, "SMART"))
    /\ UNCHANGED << given, known, values, logs, state >>

-----------------------------------------------------------------------------
(***************************************************************************)
(* SMART data and logs.                                                    *)
(***************************************************************************)
\* Data with a wrong checksum is used, unless -b exit was given.
ChecksumError ==
    /\ \/ pc = "identify" /\ ~NothingToDo
       \/ pc = "test" /\ opts.test = "selective"
       \/ /\ pc \in {"values", "thresholds", "update", "xerror", "error", "xselftest",
                     "selftest", "selective", "offline_time"}
          /\ Wanted(pc)
    /\ opts.badsum = "exit"
    /\ GoOnAt("exit", {"SMART"}) /\ checksum' = TRUE
    /\ UNCHANGED << given, known, values, logs, on, asleep, answer >>

ReadSmartData ==
    /\ pc \in {"values", "update"}
    /\ \/ ~Wanted(pc) /\ GoOn /\ UNCHANGED values
       \/ Wanted(pc) /\ GoOn
          /\ smart_val_ok' = TRUE /\ smartval' = disk.caps /\ UNCHANGED smart_thres_ok
       \/ Wanted(pc) /\ Optional({pc})
          /\ smart_val_ok' = FALSE /\ UNCHANGED << smartval, smart_thres_ok >>
    /\ UNCHANGED << given, known, logs, state >>

ReadThresholds ==
    /\ pc = "thresholds"
    /\ \/ ~Wanted(pc) /\ GoOn /\ UNCHANGED smart_thres_ok
       \/ Wanted(pc) /\ GoOn /\ smart_thres_ok' = TRUE
       \/ Wanted(pc) /\ Optional({pc}) /\ UNCHANGED smart_thres_ok
    /\ UNCHANGED << given, known, smartval, smart_val_ok, logs, state >>

\* The capability is tested first; the command is sent all the same.
AutoOffline ==
    /\ pc \in {"offline_on", "offline_off"}
    /\ LET lacks == "timer" \notin smartval
       IN  \/ ~Wanted(pc) /\ GoOn
           \/ Wanted(pc) /\ lacks /\ Optional({})
           \/ Wanted(pc) /\ ~lacks /\ GoOn
           \/ Wanted(pc) /\ ~(lacks /\ opts.conservative) /\ Optional({pc})
    /\ UNCHANGED << given, known, values, logs, state >>

\* The bits of a SMART status: 5 for attributes that have been below their
\* threshold, 4 for those that are while the disk says that it fails.
Attributes(failing) ==
    IF disk.attributes = "good" THEN {}
    ELSE IF ~failing THEN {"AGE"} ELSE IF disk.attributes = "now" THEN {"ATTR"} ELSE {}
AttributesKnown == smart_val_ok /\ smart_thres_ok
StatusBits(status) ==
    CASE status = "passed" -> IF smart_thres_ok THEN Attributes(FALSE) ELSE {}
      [] status = "failed" -> {"STATUS"} \cup (IF smart_thres_ok THEN Attributes(TRUE) ELSE {})
      [] OTHER -> IF ~AttributesKnown THEN {}
                  ELSE IF disk.attributes = "now" THEN {"ATTR", "STATUS"} ELSE Attributes(FALSE)
\* No answer: only if that is not supported and the attributes are known, no bit 2.
Unanswered_Known(status) == status # "passed" /\ status # "failed" /\ ~AttributesKnown
Unanswered(status) == status \in {"unsupported", "error"}
                      /\ (status = "unsupported" => ~AttributesKnown)

CheckStatus ==
    /\ pc = "status"
    /\ \/ ~Wanted(pc) /\ GoOn /\ UNCHANGED answer
       \/ Wanted(pc)
          /\ answer' \in {IF disk.failing THEN "failed" ELSE "passed", "unsupported", "error"}
          /\ IF answer' \in {"passed", "failed"} \/ ~opts.conservative
             THEN /\ pc' = After(pc) /\ permitted' = FALSE
                  /\ returnval' = returnval \cup StatusBits(answer')
                                  \cup (IF Unanswered(answer') THEN {"SMART"} ELSE {})
                  /\ failed' = failed \cup (IF answer' = "error" THEN {pc} ELSE {})
                  /\ UNCHANGED failuretest_permissive
             ELSE Optional(IF answer' = "error" THEN {pc} ELSE {})
    /\ UNCHANGED << given, known, values, logs, on, asleep, checksum >>

\* -F nologdir: the logs that are assumed.
FakeLogdir == {"logdir", "error", "devstat", "selftest", "selective", "sataphy"}
              \cup (opts.on \cap {"xerror", "xselftest"})

ReadSmartLogdir ==
    /\ pc = "smart_logdir"
    /\ LET needed == \/ NeedSmartLogdir
                     \/ /\ "gp_log" \in drive.idcaps
                        /\ Chosen({"error", "selftest", "retry_error", "retry_selftest"})
       IN  \/ ~needed /\ GoOn /\ UNCHANGED smartlogdir
           \/ needed /\ disk.nologdir /\ GoOn /\ smartlogdir' = FakeLogdir
           \/ needed /\ ~disk.nologdir /\ GoOn /\ smartlogdir' = {"logdir"} \cup disk.smartlogs
           \/ needed /\ ~disk.nologdir /\ Optional({pc}) /\ UNCHANGED smartlogdir
    /\ UNCHANGED << given, known, values, gplogdir, retry, state >>

ReadGpLogdir ==
    /\ pc = "gp_logdir" /\ Decided
    /\ LET readable == NeedGpLogdir /\ ~disk.nologdir /\ (Lacks(pc) => permitted)
       IN  \/ ~readable /\ GoOn
              /\ gplogdir' = IF NeedGpLogdir /\ disk.nologdir THEN FakeLogdir ELSE {}
           \/ readable /\ GoOn /\ gplogdir' = {"logdir"} \cup disk.gplogs
           \/ readable /\ Optional({pc}) /\ UNCHANGED gplogdir
    /\ UNCHANGED << given, known, values, smartlogdir, retry, state >>

Records(log) == IF log \in disk.errors THEN {LogBit[log]} ELSE {}

\* The extended log; with -x the traditional one is read if it is not there or
\* cannot be read.
Retried_Absent(log) == IF Again[log] \in opts.on /\ ~Wanted(Extended[log])
                       THEN retry \cup {log} ELSE retry
Retried(log) == IF Again[log] \in opts.on THEN retry \cup {log} ELSE retry
ReadExtendedLog ==
    \E log \in {"error", "selftest"} :
        /\ pc = Extended[log]
        /\ \/ Wanted(pc) /\ GoOnAt(After(pc), returnval \cup Records(log)) /\ UNCHANGED retry
           \/ Wanted(pc) /\ Optional({pc}) /\ retry' = Retried(log)
           \/ ~Wanted(pc) /\ GoOn
              /\ retry' = IF pc \in opts.on THEN Retried(log) ELSE retry
        /\ UNCHANGED << given, known, values, smartlogdir, gplogdir, state >>

ReadLog ==
    /\ pc \in {"error", "selftest"} /\ Decided
    /\ \/ ~Wanted(pc) /\ GoOn
       \/ Wanted(pc) /\ GoOnAt(After(pc), returnval \cup Records(pc))
       \/ Wanted(pc) /\ Optional({pc})
    /\ UNCHANGED << given, known, values, logs, state >>

\* Parts that send one optional command.  Some of them give up if a capability is
\* missing, and a failure skips those that depend on it.
Refused(part) ==
    SctOk /\ \/ /\ part = "sct_history" /\ "sct_table" \notin drive.idcaps
                /\ Chosen({"sct_history", "sct_interval"})
             \/ Wanted(part) /\ part = "sct_interval" /\ "sct_feature" \notin drive.idcaps
             \/ Wanted(part) /\ part = "erc_set" /\ "erc" \notin drive.idcaps
FailsTo(part) == CASE part \in {"sct_status", "sct_history"} -> "erc_set"
                   [] part = "erc_set" -> "devstat"
                   [] OTHER -> After(part)

OptionalCommand ==
    /\ pc \in ToSet(SctParts) \cup {"request", "selective", "devstat", "defects", "sataphy",
                                    "offline_time"}
    /\ Decided
    /\ \/ ~Refused(pc) /\ GoOn
       \/ Refused(pc) /\ OptionalFails({}, returnval \cup {"SMART"}, FailsTo(pc))
       \/ Wanted(pc) /\ ~Refused(pc)
          /\ OptionalFails({pc}, returnval \cup {"SMART"}, FailsTo(pc))
    /\ UNCHANGED << given, known, values, logs, state >>

ReadFarmLog ==
    /\ pc = "farm" /\ Decided
    /\ GoOn \/ (Wanted(pc) /\ FailsWith({}))
    /\ UNCHANGED << given, known, values, logs, state >>

-----------------------------------------------------------------------------
(***************************************************************************)
(* Standby and self-tests.                                                 *)
(***************************************************************************)
StandbyNow ==
    /\ pc = "now"
    /\ \/ GoOn /\ asleep' = ("now" \in opts.on)
       \/ Wanted(pc) /\ FailsWith({"SMART"}) /\ UNCHANGED asleep
    /\ UNCHANGED << given, known, values, logs, on, answer, checksum >>

\* The capability a test needs.
Needed == IF opts.test = "abort" THEN "self" ELSE opts.test

TestCapable ==
    /\ pc = "capable"
    /\ \/ (~smart_val_ok \/ opts.test = "none") /\ GoOnAt("done", returnval)
       \/ /\ smart_val_ok /\ opts.test # "none"
          /\ IF opts.test = "vendor" \/ Needed \in smartval THEN GoOn
             ELSE IF opts.test = "selective" THEN Mandatory({}, "SMART") ELSE Optional({})
    /\ UNCHANGED << given, known, values, logs, state >>

\* start_smart_selftest(): a captive test that ends with an error has been run.
StartTest ==
    /\ pc = "test"
    /\ LET refused == disk.testing /\ ~opts.force /\ opts.test \notin {"abort", "vendor"}
       IN  \/ ~refused /\ GoOn
           \/ refused /\ OptionalFails({}, returnval \cup {"SMART"}, "done")
           \/ ~refused /\ OptionalFails({pc}, returnval \cup {"SMART"}, "done")
    /\ UNCHANGED << given, known, values, logs, state >>

Next ==
    \/ IsPermissive \/ CheckPowerMode \/ ReadIdentity \/ ShowPresets \/ CheckSmartSupport
    \/ NeedsSupport \/ GetFeature \/ SetFeature \/ SmartOn \/ SmartOff \/ NeedsEnabled \/ AutoSave
    \/ ChecksumError \/ ReadSmartData \/ ReadThresholds \/ AutoOffline \/ CheckStatus
    \/ ReadSmartLogdir \/ ReadGpLogdir \/ ReadExtendedLog \/ ReadLog \/ OptionalCommand
    \/ ReadFarmLog \/ StandbyNow \/ TestCapable \/ StartTest

-----------------------------------------------------------------------------
(***************************************************************************)
(* Properties.                                                             *)
(***************************************************************************)

\* Exit status bits 1 and 2: no failed command is forgotten on the way to the end, but
\* those of CHECK POWER MODE, of -g with SCT feature control and of the FARM log, which
\* leave no bit; -b exit and -P show end the run with a status of their own.
FailureReported ==
    ~checksum /\ "presets" \notin opts.on =>
                 /\ "identify" \in failed => "ID" \in returnval
                 /\ failed \ {"identify", "get", "farm"} # {} => "SMART" \in returnval

\* -H: if the run gets to its end with bits 2 to 5 clear then the disk has said that it
\* is healthy, or it cannot say so, and its attributes and thresholds have been read.
ZeroMeansHealthy ==
    pc = "done" /\ "status" \in opts.on
    /\ returnval \cap {"SMART", "STATUS", "ATTR", "AGE"} = {} =>
        /\ answer \in {"passed", "unsupported"}
        /\ AttributesKnown /\ disk.attributes = "good"

\* No SMART data is read from a disk whose SMART is off, whatever its identify data
\* says, unless -T permissive has overlooked that.
ReadOnlyIfEnabled ==
    smart_val_ok => on \/ failuretest_permissive < opts.permissive

\* A log that the disk offers by all it says of its logs.
Offered(log) == log \in disk.smartlogs \cap disk.idcaps

\* Bits 6 and 7: the records of errors in a log that was asked for are reported if the
\* log could be read; with -x the traditional log replaces the extended one.
RecordsReported ==
    pc = "done" => \A log \in disk.errors :
        /\ Offered(log) /\ failed \cap {log, "identify"} = {}
        /\ log \in opts.on \/ {Extended[log], Again[log]} \subseteq opts.on
        => LogBit[log] \in returnval

\* -T conservative: after the failure of an optional SMART command nothing is sent.
ConservativeStops ==
    opts.conservative
    /\ failed \cap (ToSet(ReadingParts) \cup ToSet(SctParts) \cup {"devstat", "defects",
                    "sataphy", "test", "offline_time"}) # {} => pc = "exit"

\* A disk that was put to standby gets no further command but a self-test.
StandbyKept ==
    asleep => pc \in {"capable", "test", "offline_time", "done", "exit"}

\* -n: a disk in one of the power modes that are skipped gets no command but the first.
LowPowerKept == opts.powermode >= PowerLimit(disk.power) => pc \in {"power", "stopped"}

\* A disk that must be left alone is left alone: the three parts above.
NothingSentAfter == ConservativeStops /\ StandbyKept /\ LowPowerKept
=============================================================================
