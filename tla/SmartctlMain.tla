---------------------------- MODULE SmartctlMain ----------------------------
(***************************************************************************)
(* A run of smartctl: main_worker() of src/smartctl.cpp.  It gets and      *)
(* opens a device and leaves the rest to the function for its protocol,    *)
(* which is SmartctlAta, SmartctlScsi or SmartctlNvme.  What the option    *)
(* parser has set for the other protocols does not matter.                 *)
(***************************************************************************)
EXTENDS Integers, Sequences, SequencesExt

CONSTANTS
    AtaOptions, AtaDisks, ScsiOptions, ScsiDevices, NvmeOptions, NvmeDevices

VARIABLES
    stage,      \* "get", "open", "run" or "end"
    protocol,   \* of the device after autodetection
    opts, disk, pc, failuretest_permissive, permitted, returnval, failed, answer,
    smart_supported, smart_enabled, smartval, smart_val_ok, smart_thres_ok,
    smartlogdir, gplogdir, retry, on, asleep, checksum,
    peripheral_type, pages, gIecMPage,
    running, started

Ata == INSTANCE SmartctlAta WITH OptionSets <- AtaOptions, Disks <- AtaDisks
Scsi == INSTANCE SmartctlScsi
            WITH OptionSets <- ScsiOptions, Devices <- ScsiDevices, device <- disk
Nvme == INSTANCE SmartctlNvme
            WITH OptionSets <- NvmeOptions, Devices <- NvmeDevices, device <- disk

ASSUME AtaAssumption ==
    /\ AtaOptions \subseteq Ata!OptionType /\ AtaDisks \subseteq Ata!DiskType
    /\ \A d \in AtaDisks : Ata!DiskAssumption(d)
ASSUME ScsiAssumption ==
    ScsiOptions \subseteq Scsi!OptionType /\ ScsiDevices \subseteq Scsi!DeviceType
ASSUME NvmeAssumption ==
    NvmeOptions \subseteq Nvme!OptionType /\ NvmeDevices \subseteq Nvme!DeviceType

shared == << opts, disk, pc, failuretest_permissive, permitted, returnval, failed >>
ata == << smart_supported, smart_enabled, smartval, smart_val_ok, smart_thres_ok,
          smartlogdir, gplogdir, retry, on, asleep, checksum >>
scsi == << peripheral_type, pages, gIecMPage >>
nvme == << running, started >>
vars == << stage, protocol, shared, answer, ata, scsi, nvme >>

\* What the other protocols would use.
AtaUnused ==
    /\ smart_supported = -1 /\ smart_enabled = -1
    /\ smartval = {} /\ smart_val_ok = FALSE /\ smart_thres_ok = FALSE
    /\ smartlogdir = {} /\ gplogdir = {} /\ retry = {}
    /\ on = FALSE /\ asleep = FALSE /\ checksum = FALSE
ScsiUnused == peripheral_type = "none" /\ pages = {} /\ gIecMPage = TRUE
NvmeUnused == running = FALSE /\ started = FALSE

Init ==
    /\ stage = "get"
    /\ \/ protocol = "ata" /\ Ata!Init /\ ScsiUnused /\ NvmeUnused
       \/ protocol = "scsi" /\ Scsi!Init /\ AtaUnused /\ NvmeUnused
       \/ protocol = "nvme" /\ Nvme!Init /\ AtaUnused /\ ScsiUnused /\ answer = "none"

-----------------------------------------------------------------------------
EndsWith(status) == stage' = "end" /\ returnval' = status

\* The type is not known, or the operating system says that an ATA disk is powered down.
GetDevice ==
    /\ stage = "get"
    /\ \/ EndsWith({"CMD"})
       \/ protocol = "ata" /\ opts.powermode >= 2 /\ EndsWith({"POWER"})
       \/ stage' = "open" /\ UNCHANGED returnval
    /\ UNCHANGED << protocol, opts, disk, pc, failuretest_permissive, permitted, failed,
                    answer, ata, scsi, nvme >>

\* autodetect_open()
OpenDevice ==
    /\ stage = "open"
    /\ EndsWith({"DEV"}) \/ (stage' = "run" /\ UNCHANGED returnval)
    /\ UNCHANGED << protocol, opts, disk, pc, failuretest_permissive, permitted, failed,
                    answer, ata, scsi, nvme >>

AtaPrintMain ==
    stage = "run" /\ protocol = "ata" /\ Ata!Next /\ UNCHANGED << stage, protocol, scsi, nvme >>
ScsiPrintMain ==
    stage = "run" /\ protocol = "scsi" /\ Scsi!Next /\ UNCHANGED << stage, protocol, ata, nvme >>
NvmePrintMain ==
    /\ stage = "run" /\ protocol = "nvme" /\ Nvme!Next
    /\ UNCHANGED << stage, protocol, answer, ata, scsi >>

\* The function has returned or thrown; the device is closed.
CloseDevice ==
    /\ stage = "run" /\ pc \in {"done", "stopped", "exit"}
    /\ stage' = "end"
    /\ UNCHANGED << protocol, shared, answer, ata, scsi, nvme >>

Next ==
    \/ GetDevice \/ OpenDevice \/ AtaPrintMain \/ ScsiPrintMain \/ NvmePrintMain \/ CloseDevice

Spec == Init /\ [][Next]_vars

-----------------------------------------------------------------------------
(***************************************************************************)
(* Properties: what is promised of the protocols that can promise it.  The *)
(* modules of the protocols say what each of them comes to.                *)
(***************************************************************************)

\* Exit status bits 1 and 2: a failed command, a missing device and a test that was not
\* started leave a bit, but for the exceptions that the modules list.
FailureReported ==
    /\ protocol = "ata" => Ata!FailureReported
    /\ protocol = "scsi" => Scsi!FailureReported
    /\ protocol = "nvme" => Nvme!FailureReported
    /\ stage = "end" /\ returnval = {} => pc \in {"done", "stopped"}

\* -H: a run that gets to its end without a bit for the health or for a failure has
\* learned from the disk that it is healthy.  A SCSI device that lacks the mode page for
\* informational exceptions has only not reported a failure.
ZeroMeansHealthy ==
    stage = "end" =>
        /\ protocol = "ata" => Ata!ZeroMeansHealthy
        /\ protocol = "scsi" => Scsi!ZeroMeansHealthy
        /\ protocol = "nvme" => Nvme!ZeroMeansHealthy

\* No SMART data is read from an ATA disk whose SMART is off, whatever its identify data
\* says, unless -T permissive has overlooked that.
ReadOnlyIfEnabled == protocol = "ata" => Ata!ReadOnlyIfEnabled

\* Bits 6 and 7: the records of errors in a log that was asked for are reported if the
\* log could be read, from ATA and SCSI disks; those of NVMe disks are only printed.
RecordsReported ==
    stage = "end" =>
        /\ protocol = "ata" => Ata!RecordsReported
        /\ protocol = "scsi" => Scsi!RecordsReported

\* -T conservative, -n, -s standby,now and -t: after a failure, in a power mode to be
\* skipped, after it was put to standby and while a self-test is running, a disk gets none
\* of the commands that the modules forbid.
NothingSentAfter ==
    /\ protocol = "ata" => Ata!NothingSentAfter
    /\ protocol = "scsi" => Scsi!NothingSentAfter
    /\ protocol = "nvme" => Nvme!NothingSentAfter
=============================================================================
