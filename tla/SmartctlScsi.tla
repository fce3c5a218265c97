---------------------------- MODULE SmartctlScsi ----------------------------
(***************************************************************************)
(* One run of smartctl on a SCSI device: scsiPrintMain() and the functions *)
(* of src/scsiprint.cpp that it calls, down to their first command and     *)
(* their result.  They differ in what a failure does: a bit, with or       *)
(* without failuretest(), a return, or nothing.                            *)
(***************************************************************************)
EXTENDS Integers, Sequences, SequencesExt

CONSTANTS
    OptionSets, \* the options a run may have, of OptionType
    Devices     \* the devices it may be given, of DeviceType

\* The parts of scsiPrintMain() in their order.
SettingParts == << "on", "off", "autosave_on", "wcache", "lookahead", "autosave_off" >>
PageParts == << "media", "format", "attributes", "farm", "errors", "selftest", "background",
                "zoned", "performance", "tape_statistics", "tape_alerts" >>
Parts == << "power", "identify", "iec", "ready", "cache" >> \o SettingParts
         \o << "pages", "health" >> \o PageParts
         \o << "running", "test", "sas_phy", "environment", "standby", "done" >>

Switches == ToSet(Parts) \cup {"info", "status", "health_twice", "active", "now", "timer"}
Tests == {"none", "foreground", "background", "abort"}
Pages == {"media", "format", "farm", "selftest", "background", "zoned", "performance",
          "tape_statistics", "tape_alerts", "sas_phy", "environment"}
\* Pages that only the list with the subpages tells.
Subpages == {"farm", "zoned", "environment"}

OptionType == [on: SUBSET Switches, powermode: 0 .. 4, permissive: Nat,
               conservative: BOOLEAN, test: Tests, force: BOOLEAN]
\* "zoned" is a disk, too; an ATA disk behind a SAT layer answers as a disk.
DeviceType == [power: {"low", "standby", "idle", "active", "unknown"},
               type: {"disk", "zoned", "tape", "other"}, sat: BOOLEAN, seagate: BOOLEAN,
               pages: SUBSET Pages, iec: BOOLEAN, failing: BOOLEAN, testing: BOOLEAN,
               records: SUBSET {"failure", "incomplete"}]
\* All bits: a status of -1.
AllBits == {"CMD", "ID", "SMART", "STATUS", "ATTR", "AGE", "ERR", "LOG"}

VARIABLES
    opts, pc, failuretest_permissive, permitted, returnval, failed, \* as in Smartctl
    device,
    peripheral_type, \* that of a disk until INQUIRY has told it
    pages,           \* the log pages that are known to be there
    gIecMPage,       \* nothing is known against the mode page for informational exceptions
    answer           \* history: the answer about the health

INSTANCE Smartctl

given == << opts, device >>
scsi == << peripheral_type, pages, gIecMPage >>
vars == << given, pc, failuretest_permissive, permitted, returnval, failed, scsi, answer >>

Init ==
    /\ opts \in OptionSets /\ device \in Devices
    /\ Begin
    /\ peripheral_type = "disk" /\ pages = {} /\ gIecMPage = TRUE /\ answer = "none"

is_disk == peripheral_type \in {"disk", "zoned"}
is_tape == peripheral_type = "tape"
Chosen(switches) == opts.on \cap switches # {}
\* The whole of scsiGetDriveInfo() is run, and it has found a device.
DriveInfo == Chosen({"info", "farm"}) /\ "identify" \notin failed

Wanted(part) ==
    CASE part = "iec" -> DriveInfo
      [] part = "ready" -> DriveInfo /\ "iec" \notin failed
      [] part \in {"cache", "wcache", "lookahead"} -> part \in opts.on /\ is_disk
      [] part \in {"media", "background"} -> part \in opts.on \cap pages /\ is_disk
      [] part = "format" -> "media" \in opts.on /\ part \in pages /\ is_disk
      [] part = "zoned" -> part \in opts.on \cap pages /\ peripheral_type = "zoned"
      [] part \in {"tape_statistics", "tape_alerts"} -> part \in opts.on \cap pages /\ is_tape
      [] part \in {"farm", "selftest", "performance", "sas_phy"} -> part \in opts.on \cap pages
      [] part = "environment" -> part \in opts.on \cap pages /\ "attributes" \notin opts.on
      [] part = "running" -> opts.test = "background"
      [] part = "test" -> opts.test # "none"
      [] OTHER -> part \in opts.on

-----------------------------------------------------------------------------
(***************************************************************************)
(* Before the first log page.                                              *)
(***************************************************************************)
\* The -n that skips a device in a power mode; 255 if the mode is not known.
PowerLimit(mode) ==
    CASE mode \in {"low", "standby"} -> 2 [] mode = "idle" -> 4 [] OTHER -> 255

\* REQUEST SENSE.  If it fails the sense data is not initialised: any mode.
CheckPowerMode ==
    /\ pc = "power"
    /\ LET asked == opts.powermode > 0
       IN  \/ ~asked /\ GoOn
           \/ \E mode \in {"low", "standby", "idle", "active", "unknown"} :
                  /\ asked
                  /\ LET skipped == opts.powermode >= PowerLimit(mode)
                     IN  /\ pc' = IF skipped THEN "stopped" ELSE After(pc)
                         /\ returnval' = IF skipped THEN {"POWER"} ELSE {}
                  /\ failed' \in {failed \cup {pc}}
                                 \cup (IF mode = device.power THEN {failed} ELSE {})
                  /\ UNCHANGED << failuretest_permissive, permitted >>
    /\ UNCHANGED << given, scsi, answer >>

\* INQUIRY.  A short answer is a failure, but it tells the type.
ReadInquiry ==
    /\ pc = "identify"
    /\ \/ ~device.sat /\ GoOn /\ peripheral_type' = device.type
       \/ device.sat /\ GoOnAt("stopped", {}) /\ peripheral_type' = device.type
       \/ Mandatory({pc}, "ID") /\ peripheral_type' \in {peripheral_type, device.type}
    /\ UNCHANGED << given, pages, gIecMPage, answer >>

\* The mode page for informational exceptions.  If the device has none, or does not tell
\* it, nothing is said of its health; only a bad answer counts as a failure.
FetchIecPage ==
    /\ pc = "iec"
    /\ \/ ~Wanted(pc) /\ GoOn /\ UNCHANGED gIecMPage
       \/ Wanted(pc) /\ GoOn /\ gIecMPage' = device.iec
       \/ /\ Wanted(pc) /\ gIecMPage' = FALSE
          /\ pc' = After(pc) /\ failed' = failed \cup {"iec_page"} /\ permitted' = FALSE
          /\ UNCHANGED << returnval, failuretest_permissive >>
       \/ Wanted(pc) /\ Mandatory({pc}, "ID") /\ gIecMPage' = FALSE
    /\ UNCHANGED << given, peripheral_type, pages, answer >>

\* The bit is not kept if the failure is overlooked.
TestUnitReady ==
    /\ pc = "ready"
    /\ \/ GoOn
       \/ Wanted(pc) /\ is_tape /\ FailsWith({})
       \/ /\ Wanted(pc) /\ ~is_tape
          /\ failed' = failed \cup {pc} /\ UNCHANGED permitted
          /\ \/ /\ failuretest_permissive > 0
                /\ failuretest_permissive' = failuretest_permissive - 1
                /\ pc' = After(pc) /\ UNCHANGED returnval
             \/ /\ failuretest_permissive = 0 /\ UNCHANGED failuretest_permissive
                /\ pc' = "exit" /\ returnval' = {"ID"}
    /\ UNCHANGED << given, scsi, answer >>

ChangeSetting ==
    /\ pc \in ToSet(SettingParts)
    /\ \/ GoOn
       \/ Wanted(pc) /\ pc \in {"on", "off"} /\ Mandatory({pc}, "SMART")
       \/ Wanted(pc) /\ pc \notin {"on", "off"} /\ Optional({pc})
    /\ UNCHANGED << given, scsi, answer >>

-----------------------------------------------------------------------------
(***************************************************************************)
(* Log pages.                                                              *)
(***************************************************************************)
\* The vendor page needs the vendor, the subpages need the version.
Known(found) ==
    found \ ((IF device.seagate /\ DriveInfo THEN {} ELSE {"farm"})
             \cup (IF "identify" \in failed THEN Subpages ELSE {}))

\* The list of the pages, and then that of the subpages.
GetSupportedLogPages ==
    /\ pc = "pages"
    /\ \/ GoOn /\ pages' = Known(device.pages)
       \/ FailsWith({}) /\ pages' \in {{}, Known(device.pages \ Subpages)}
    /\ UNCHANGED << given, peripheral_type, gIecMPage, answer >>

\* The informational exceptions page, if there is one, and REQUEST SENSE; the alerts of
\* a tape are only read if -H was given twice, and what they say is only printed.  A
\* device without the mode page is not said to be healthy.
CheckHealth ==
    /\ pc = "health"
    /\ \/ ~("status" \in opts.on /\ ~is_tape) /\ GoOn /\ UNCHANGED answer
       \/ /\ {"status", "health_twice"} \subseteq opts.on /\ is_tape /\ "tape_alerts" \in pages
          /\ Optional({pc}) /\ UNCHANGED answer
       \/ /\ "status" \in opts.on /\ ~is_tape
          /\ \/ answer' = "failed" /\ device.failing
                /\ GoOnAt(After(pc), returnval \cup {"STATUS"})
             \/ ~device.failing /\ GoOn
                /\ answer' = IF gIecMPage THEN "passed" ELSE answer
             \/ UNCHANGED answer /\ FailsWith({"SMART"})
    /\ UNCHANGED << given, scsi >>

\* A page whose failure goes through failuretest().  The status of the tape alerts is -1.
\* Bits for records of the self-test log do so, too.
FailureBits(part) == IF part = "tape_alerts" THEN AllBits ELSE {"SMART"}
RecordBits == (IF "failure" \in device.records THEN {"LOG"} ELSE {})
              \cup (IF "incomplete" \in device.records THEN {"SMART"} ELSE {})
ReadLogPage ==
    /\ pc \in ToSet(PageParts) \ {"attributes", "farm", "errors"}
    /\ \/ (~Wanted(pc) \/ pc # "selftest" \/ device.records = {}) /\ GoOn
       \/ /\ Wanted(pc) /\ pc = "selftest" /\ device.records # {}
          /\ OptionalFails({}, returnval \cup RecordBits, After(pc))
       \/ Wanted(pc) /\ OptionalFails({pc}, returnval \cup FailureBits(pc), After(pc))
    /\ UNCHANGED << given, scsi, answer >>

\* Parts whose failures are printed at most.
SilentParts == {"cache", "attributes", "farm", "errors", "environment"}
ReadSilently ==
    /\ pc \in SilentParts
    /\ GoOn \/ (Wanted(pc) /\ FailsWith({}))
    /\ UNCHANGED << given, scsi, answer >>

-----------------------------------------------------------------------------
(***************************************************************************)
(* Self-tests and power.                                                   *)
(***************************************************************************)
\* A background test is not started while one is running, unless it is aborted.
CheckRunning ==
    /\ pc = "running"
    /\ LET found == Wanted(pc) /\ device.testing
       IN  \/ ~(found /\ ~opts.force) /\ GoOn
           \/ found /\ ~opts.force /\ GoOnAt("stopped", AllBits)
           \/ Wanted(pc) /\ FailsWith({})
    /\ UNCHANGED << given, scsi, answer >>

\* A test that fails and a SAS log page that fails end the run.
StartTest ==
    /\ pc \in {"test", "sas_phy"}
    /\ GoOn \/ (Wanted(pc) /\ StopsWith({"SMART"}))
    /\ UNCHANGED << given, scsi, answer >>

\* -s standby,off is "active"; a timer is not supported.
SetPowerCondition ==
    /\ pc = "standby"
    /\ LET refused == "timer" \in opts.on /\ "active" \notin opts.on
       IN  \/ ~refused /\ GoOn
           \/ refused /\ GoOnAt(After(pc), returnval \cup {"SMART"})
           \/ ~refused /\ Chosen({"active", "now"}) /\ FailsWith({"SMART"})
    /\ UNCHANGED << given, scsi, answer >>

Next ==
    \/ CheckPowerMode \/ ReadInquiry \/ FetchIecPage \/ TestUnitReady \/ ChangeSetting
    \/ GetSupportedLogPages \/ CheckHealth \/ ReadLogPage \/ ReadSilently
    \/ CheckRunning \/ StartTest \/ SetPowerCondition

-----------------------------------------------------------------------------
(***************************************************************************)
(* Properties, as in SmartctlAta.                                          *)
(***************************************************************************)

\* Exit status bits 1 and 2: every failure leaves its bit, but those of the parts that
\* only print, of MODE SENSE for the informational exceptions unless its answer was bad,
\* of REQUEST SENSE, of TEST UNIT READY if that was overlooked or the device
\* is a tape, and of the list of log pages, without which all pages count as missing.
\* An exception has a bit.
Overlooked == SilentParts \cup {"power", "iec_page", "ready", "pages", "running"}
FailureReported ==
    /\ failed \cap {"identify", "iec"} # {} => "ID" \in returnval
    /\ failed \ ({"identify", "iec"} \cup Overlooked) # {} => "SMART" \in returnval
    /\ pc = "exit" => returnval # {}

\* With -i (or a FARM log) the device was asked for the mode page for informational
\* exceptions, and it has none or MODE SENSE has failed without a bit.
IecMissing == DriveInfo /\ (~device.iec \/ "iec_page" \in failed)

\* -H: at the end of a run without bits 1 to 3 the device does not report a failure, and
\* smartctl has said that it is healthy, or nothing if the mode page is missing.  A tape
\* is not asked.
ZeroMeansHealthy ==
    pc = "done" /\ "status" \in opts.on /\ ~is_tape
    /\ returnval \cap {"ID", "SMART", "STATUS"} = {} =>
        ~device.failing /\ (answer = "passed" \/ IecMissing)

\* Bits 7 and 2: failed and incomplete self-tests are reported if the list of log pages
\* and the log could be read.
RecordsReported ==
    pc = "done" /\ "selftest" \in opts.on \cap device.pages
    /\ failed \cap {"pages", "selftest"} = {} => RecordBits \subseteq returnval

\* -T conservative: after the failure of an optional command nothing is sent.  A device
\* in one of the power modes of -n gets no command but the first.
NothingSentAfter ==
  /\ opts.powermode >= PowerLimit(device.power) /\ "power" \notin failed
     => pc \in {"power", "stopped"}
  /\ opts.conservative
    /\ failed \cap ((ToSet(PageParts) \cup ToSet(SettingParts))
                   \ (SilentParts \cup {"on", "off"})) # {} => pc = "exit"
=============================================================================
