---------------------------- MODULE MCSmartctl ------------------------------
(* Runs of smartctl with the options of -a, -x, -H, -s, -t, -n, -P, -l and    *)
(* -g, on disks that differ in what they support and in their state.          *)
EXTENDS SmartctlMain

(* ATA *)

AtaNone == [on |-> {}, powermode |-> 0, powerexit_unsup |-> FALSE, permissive |-> 0,
         conservative |-> FALSE, badsum |-> "warn", test |-> "none", force |-> FALSE,
         request |-> "none"]

AtaAll == {"info", "general", "status", "attributes", "error", "selftest", "selective"}
AtaExtendedAll ==
    {"info", "general", "status", "attributes", "xerror", "retry_error", "xselftest",
     "retry_selftest", "selective", "smart_logdir", "gp_logdir", "sct_status", "sct_history",
     "erc_get", "get_reorder", "devstat", "defects", "sataphy"}

MCAtaOptions == {
    AtaNone,
    [AtaNone EXCEPT !.on = AtaAll],
    [AtaNone EXCEPT !.on = AtaAll, !.permissive = 2],
    [AtaNone EXCEPT !.on = AtaAll, !.conservative = TRUE, !.badsum = "exit"],
    [AtaNone EXCEPT !.on = AtaExtendedAll, !.powermode = 3],
    [AtaNone EXCEPT !.on = AtaExtendedAll, !.conservative = TRUE, !.permissive = 1],
    [AtaNone EXCEPT !.on = {"xerror", "error", "farm"}, !.permissive = 3],
    [AtaNone EXCEPT !.on = {"status"}, !.powermode = 2, !.powerexit_unsup = TRUE],
    [AtaNone EXCEPT !.on = {"presets"}],
    [AtaNone EXCEPT !.on = {"aam", "wcache_sct", "standby", "now", "on", "offline_on",
                         "autosave_on", "status"}, !.test = "self"],
    [AtaNone EXCEPT !.on = {"apm", "reorder", "standby", "off"}],
    [AtaNone EXCEPT !.on = {"sct_interval", "erc_set", "erc_get", "offline_off", "autosave_off"},
                 !.permissive = 1, !.request = "gp"],
    [AtaNone EXCEPT !.on = {"now", "sct_history"}, !.test = "selective", !.force = TRUE,
                 !.request = "smart", !.permissive = 1, !.badsum = "exit"],
    [AtaNone EXCEPT !.test = "offline", !.conservative = TRUE],
    [AtaNone EXCEPT !.test = "abort"],
    [AtaNone EXCEPT !.test = "vendor"] }

\* Written out: what replaces a constant of the modules cannot be made of their definitions.
AtaIdCapabilities == {"gp_log", "sct", "sct_table", "sct_feature", "erc", "error", "selftest",
                      "sataphy"}
AtaLogs == {"error", "xerror", "devstat", "selftest", "xselftest", "selective", "defects",
            "sataphy", "farm", "other"}
ScsiPages == {"media", "format", "farm", "selftest", "background", "zoned", "performance",
              "tape_statistics", "tape_alerts", "sas_phy", "environment"}

AtaGood == [power |-> "active", identity |-> "disk", supported |-> 1, enabled |-> 1,
         cached |-> FALSE, on |-> TRUE, database |-> TRUE, locked |-> FALSE,
         idcaps |-> AtaIdCapabilities,
         caps |-> {"timer", "error", "selftest", "selective", "self", "offline", "conveyance"},
         smartlogs |-> AtaLogs \ {"farm"}, gplogs |-> AtaLogs, nologdir |-> FALSE,
         seagate |-> TRUE,
         failing |-> FALSE, attributes |-> "good", errors |-> {}, testing |-> FALSE]
AtaOld == [AtaGood EXCEPT !.idcaps = {"error", "selftest"}, !.caps = {"error", "selftest"},
                    !.gplogs = {}, !.seagate = FALSE, !.database = FALSE]

MCAtaDisks == {
    AtaGood,
    [AtaGood EXCEPT !.failing = TRUE, !.attributes = "now", !.errors = {"error", "selftest"},
                 !.testing = TRUE],
    [AtaGood EXCEPT !.attributes = "past", !.errors = {"error"}, !.gplogs = {"other", "farm"},
                 !.idcaps = AtaIdCapabilities \ {"sct_table", "sct_feature", "erc"},
                 !.power = "idle"],
    [AtaOld EXCEPT !.enabled = -1, !.errors = {"error", "selftest"}, !.power = "unsupported"],
    [AtaOld EXCEPT !.supported = -1, !.enabled = -1, !.cached = TRUE, !.on = FALSE,
                !.identity = "packet", !.power = "sleep"],
    [AtaOld EXCEPT !.supported = -1, !.attributes = "now", !.nologdir = TRUE, !.seagate = TRUE],
    [AtaGood EXCEPT !.cached = TRUE, !.on = FALSE, !.locked = TRUE, !.power = "standby"],
    [AtaGood EXCEPT !.enabled = 0, !.on = FALSE, !.caps = {}, !.errors = {"selftest"}] }

(* SCSI *)
ScsiNone == [on |-> {}, powermode |-> 0, permissive |-> 0, conservative |-> FALSE,
             test |-> "none", force |-> FALSE]
ScsiAll == {"info", "status", "media", "attributes", "errors", "selftest", "background"}
ScsiExtendedAll == ScsiAll \cup {"health_twice", "cache", "zoned", "performance",
                                 "tape_statistics", "tape_alerts", "sas_phy", "environment"}
MCScsiOptions == {
    ScsiNone,
    [ScsiNone EXCEPT !.on = ScsiAll, !.powermode = 3],
    [ScsiNone EXCEPT !.on = ScsiAll, !.permissive = 2],
    [ScsiNone EXCEPT !.on = ScsiExtendedAll, !.conservative = TRUE, !.permissive = 1],
    [ScsiNone EXCEPT !.on = {"status", "health_twice", "farm", "tape_alerts"}],
    [ScsiNone EXCEPT !.on = {"status", "selftest", "environment", "now"}, !.powermode = 2,
                     !.test = "background"],
    [ScsiNone EXCEPT !.on = {"on", "off", "autosave_on", "autosave_off", "wcache",
                             "lookahead", "active"}, !.permissive = 1],
    [ScsiNone EXCEPT !.on = {"on", "autosave_on", "timer"}, !.conservative = TRUE,
                     !.test = "background", !.force = TRUE],
    [ScsiNone EXCEPT !.test = "foreground", !.powermode = 4],
    [ScsiNone EXCEPT !.test = "abort", !.powermode = 1] }

ScsiGood == [power |-> "active", type |-> "disk", sat |-> FALSE, seagate |-> TRUE,
             pages |-> ScsiPages, iec |-> TRUE, failing |-> FALSE, testing |-> FALSE,
             records |-> {}]
MCScsiDevices == {
    ScsiGood,
    [ScsiGood EXCEPT !.failing = TRUE, !.testing = TRUE, !.type = "zoned",
                     !.records = {"failure", "incomplete"}, !.power = "standby"],
    [ScsiGood EXCEPT !.pages = {"selftest", "format"}, !.records = {"failure"},
                     !.power = "idle", !.seagate = FALSE, !.iec = FALSE],
    [ScsiGood EXCEPT !.type = "tape", !.records = {"incomplete"}, !.power = "low"],
    [ScsiGood EXCEPT !.type = "other", !.pages = {}, !.power = "unknown"],
    [ScsiGood EXCEPT !.sat = TRUE] }

(* NVMe *)
NvmeNone == [on |-> {}, permissive |-> 0, test |-> "none"]
NvmeAll == {"info", "status", "attributes", "error", "selftest"}
MCNvmeOptions == {
    NvmeNone,
    [NvmeNone EXCEPT !.on = NvmeAll],
    [NvmeNone EXCEPT !.on = NvmeAll \cup {"page", "error_one"}, !.test = "self"],
    [NvmeNone EXCEPT !.on = {"attributes"}],
    [NvmeNone EXCEPT !.on = {"status"}, !.test = "abort"],
    [NvmeNone EXCEPT !.test = "self"] }
MCNvmeDevices ==
    {[broadcast |-> b, namespaces |-> n, warning |-> w, missing |-> m, selftests |-> s,
      testing |-> t] : b \in BOOLEAN, n \in 0 .. 2, w \in BOOLEAN, m \in BOOLEAN,
                       s \in BOOLEAN, t \in BOOLEAN}
=============================================================================
