------------------------- MODULE MCRegisterDevices --------------------------
(* Instances of RegisterDevices for TLC. *)
EXTENDS RegisterDevices

\* A disk with a symbolic link, a controller with two disks, and an NVMe disk with
\* one namespace: /dev/sda, /dev/disk/by-id/a, /dev/bus/0, /dev/nvme0, /dev/nvme0n1.
AllNames == {"sda", "by-id", "bus", "nvme0", "nvme0n1"}
AllTypes == {"sat", "nvme", "megaraid", "megaraid,1", "megaraid,2"}
Raid == {"megaraid,1", "megaraid,2"}
Links == [n \in AllNames |-> IF n = "by-id" THEN "sda" ELSE n]

Ids(serial, ns, single, unique) ==
    [info |-> serial, ns |-> ns, single |-> single, unique |-> unique]
AllIdentities ==
    [d \in Disks |->
        CASE d.raid # "" -> Ids("R", 0, FALSE, FALSE)
          [] d.name = "nvme0" -> Ids("N", 0, TRUE, TRUE)
          [] d.name = "nvme0n1" -> Ids("N", 1, TRUE, TRUE)
          [] OTHER -> Ids("A", 0, FALSE, TRUE)]

ScanOrder == << [name |-> "sda", type |-> "sat", class |-> "sat"],
                [name |-> "nvme0", type |-> "nvme", class |-> "nvme"],
                [name |-> "bus", type |-> "megaraid,1", class |-> "megaraid"],
                [name |-> "bus", type |-> "megaraid,2", class |-> "megaraid"] >>

\* What a scan finds, in the order of the names.
AllScanLists ==
    {[i \in 1 .. Cardinality(at) |->
        ScanOrder[CHOOSE k \in at : Cardinality({j \in at : j < k}) = i - 1]] :
            at \in SUBSET (1 .. Len(ScanOrder))}

D(dir, arg) == [dir |-> dir, arg |-> arg]
L(name, dirs) == [name |-> name, dirs |-> dirs]
Scans == {L("DEVICESCAN", << >>), L("DEVICESCAN", << D("-d", "sat"), D("-d", "nvme") >>),
          L("DEVICESCAN", << D("-d", "megaraid"), D("-H", "") >>)}
Defaults == {L("DEFAULT", << D("-H", ""), D("-s", "S"), D("-m", "root") >>),
             L("DEFAULT", << D("-d", "sat"), D("-W", "2,40,45"), D("-d", "removable") >>)}
Entries == {L("by-id", << D("-d", "ignore") >>),
            L("sda", << D("-d", "removable"), D("-s", "L"), D("-W", "0") >>),
            L("sda", << D("freq", "once"), D("-d", "auto"), D("-t", "") >>),
            L("nvme0n1", << D("-l", "error"), D("-d", "removable") >>),
            L("bus", << D("-d", "megaraid,1") >>),
            L("bus", << D("-d", "megaraid,2"), D("-d", "ignore") >>)}
AllLines == Scans \cup Defaults \cup Entries \cup
            {L("#", << >>), L("sda", << D("bad", "") >>)}
\* The disks that can be there.
AllRealDisks == {[name |-> "sda", raid |-> ""], [name |-> "nvme0", raid |-> ""],
                 [name |-> "nvme0n1", raid |-> ""], [name |-> "bus", raid |-> "megaraid,1"],
                 [name |-> "bus", raid |-> "megaraid,2"]}
=============================================================================
