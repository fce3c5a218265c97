-------------------------- MODULE RegisterDevices ---------------------------
(***************************************************************************)
(* From smartd.conf to the list of monitored devices: ParseConfigFile(),   *)
(* MakeConfigEntries(), ReadOrMakeConfigEntries() and register_devices()   *)
(* (src/smartd.cpp).  The file is read line by line, a DEVICESCAN line     *)
(* looks for devices, and each entry is registered or not; meanwhile disks *)
(* are plugged and unplugged.                                              *)
(*                                                                         *)
(* A disk is a real device name and, behind a RAID controller, the type    *)
(* that selects it: -d megaraid,N and the like.                            *)
(***************************************************************************)
EXTENDS ConfigFile, Integers, FiniteSets

CONSTANTS
    Lines,      \* lines a file may have
    MaxLines,   \* bound: its length
    Target,     \* the device name that a name, perhaps a symbolic link, stands for
    RaidTypes,  \* types that select a disk of a controller
    RealDisks,  \* the disks that may be there
    ScanLists,  \* the lists a scan may return: devices with their type and the type to
                \* scan for
    Identities, \* of each disk: what its model, serial number and firmware say, the
                \* namespace its name addresses (0: none), whether there is only one
                \* namespace, and whether the identity is without replaced characters
    Never,      \* -q never
    MaxEvents   \* bound: disks plugged or unplugged

Disk(name, type) == [name |-> Target[name], raid |-> IF type \in RaidTypes THEN type ELSE ""]
Disks == [name: {Target[n] : n \in Names}, raid: RaidTypes \cup {""}]
Found == [name: Names, type: Types \cup {""}, class: Types]
NoDevice == [name |-> "", type |-> "", class |-> ""]

ASSUME NamesAssumption ==
    /\ Names \subseteq STRING \ {"", "DEFAULT", "DEVICESCAN", "#"}
    /\ Types \subseteq STRING \ {"", "ignore", "removable", "auto"}
ASSUME DisksAssumption ==
    /\ Target \in [Names -> Names] /\ RaidTypes \subseteq Types
    /\ ScanLists \subseteq Seq(Found) /\ RealDisks \subseteq Disks
    /\ Identities \in [Disks -> [info: STRING, ns: Nat, single: BOOLEAN, unique: BOOLEAN]]
\* The number of namespaces is what the controller says, as are model, serial number
\* and firmware.
ASSUME ControllerAssumption ==
    \A d, e \in Disks :
        LET a == Identities[d]
            b == Identities[e]
        IN  a.unique /\ b.unique /\ a.info = b.info => a.single = b.single
ASSUME LinesAssumption == Lines \subseteq Line
ASSUME BoundsAssumption ==
    MaxLines \in Nat /\ MaxEvents \in Nat /\ Never \in BOOLEAN

VARIABLES
    pc,
    lines,          \* the lines read so far
    default_conf, scan_types,
    continued,      \* the last line ends in a backslash
    conf_entries,
    scanned,        \* scanned_devs: the device of each entry that comes from the scan
    entry,          \* the entry to register next
    prev_unique_names,
    configs,        \* registered devices: configuration, disk, and whether it was scanned
    plugged,        \* disks that answer
    events,         \* bound
    absent          \* history: entries that could not be registered

fileVars == << lines, default_conf, scan_types, continued >>
regVars == << entry, prev_unique_names, configs, plugged, events, absent >>
vars == << pc, fileVars, conf_entries, scanned, regVars >>

Init ==
    /\ pc = "parse" /\ lines = << >> /\ default_conf = NoConfig /\ scan_types = << >>
    /\ continued = FALSE /\ conf_entries = << >> /\ scanned = << >>
    /\ entry = 1 /\ prev_unique_names = {}
    /\ configs = << >> /\ plugged = RealDisks /\ events = 0 /\ absent = {}

DiskChanges ==
    /\ events < MaxEvents
    /\ events' = events + 1
    /\ \E d \in RealDisks : plugged' = (plugged \cup {d}) \ (plugged \cap {d})
    /\ UNCHANGED << pc, fileVars, conf_entries, scanned, entry, prev_unique_names, configs,
                    absent >>

-----------------------------------------------------------------------------
(***************************************************************************)
(* Reading the file.                                                       *)
(***************************************************************************)
\* MakeConfigEntries(): an entry for each device of the scan.  Its type is known
\* to the configuration only if the scan was limited to some types.
Scannable == UNION {ToSet(list) : list \in ScanLists}
ScanResults(types) ==
    IF ToSet(types) \subseteq {f.class : f \in Scannable}
    THEN {list \in ScanLists :
             ToSet(list) = {f \in Scannable : /\ Disk(f.name, f.type) \in plugged
                                              /\ types = << >> \/ f.class \in ToSet(types)}}
    ELSE {list \in ScanLists : list = << >>}
EntryOf(base_cfg, types, f) ==
    [base_cfg EXCEPT !.name = f.name, !.dev_type = IF types = << >> THEN "" ELSE f.type]

EntriesOf(base_cfg, types, found) ==
    [i \in DOMAIN found |-> EntryOf(base_cfg, types, found[i])]

NoDevices == [i \in DOMAIN conf_entries |-> NoDevice]
MakeConfigEntries(base_cfg, types) ==
    \E found \in ScanResults(types) :
        /\ conf_entries' = conf_entries \o EntriesOf(base_cfg, types, found)
        /\ scanned' = NoDevices \o found

\* A file without errors; one without entries is not usable.
Parsed == pc' = IF conf_entries' = << >> THEN "empty" ELSE "register"

\* What a parsed line does.
TakeLine(l, p) ==
    /\ lines' = Append(lines, l)
    /\ scan_types' = p.types
    /\ \/ ~p.ok
          /\ pc' = "error" /\ conf_entries' = << >>
          /\ UNCHANGED << default_conf, scanned >>
       \/ p.ok /\ IsDefault(l)
          /\ default_conf' = p.cfg
          /\ UNCHANGED << pc, conf_entries, scanned >>
       \/ p.ok /\ IsScan(l)
          /\ MakeConfigEntries(p.cfg, p.types)
          /\ Parsed
          /\ UNCHANGED default_conf
       \/ p.ok /\ ~IsDefault(l) /\ ~IsScan(l)
          /\ conf_entries' = Append(conf_entries, p.cfg)
          /\ UNCHANGED << pc, default_conf, scanned >>

MayRead == pc = "parse" /\ ~continued /\ Len(lines) < MaxLines

ReadBlankLine ==
    /\ MayRead
    /\ \E l \in Lines : IsBlank(l) /\ lines' = Append(lines, l)
    /\ scan_types' = << >>
    /\ UNCHANGED << pc, continued, default_conf, conf_entries, scanned, regVars >>

\* Each line collects the types of a scan anew.
TypesBefore == << >>

ReadLine ==
    /\ MayRead
    /\ \E l \in Lines :
        ~IsBlank(l)
        /\ TakeLine(l, ParseConfigLine(l, Len(lines) + 1, default_conf, TypesBefore))
    /\ UNCHANGED << continued, regVars >>

\* The last line ends in a backslash: it is parsed at the end of the file, and
\* the list of types is not cleared.
ReadContinuedLine ==
    /\ MayRead
    /\ \E l \in Lines :
        ~IsBlank(l)
        /\ TakeLine(l, ParseConfigLine(l, Len(lines) + 1, default_conf, scan_types))
    /\ continued' = TRUE
    /\ UNCHANGED regVars

EndOfFile ==
    /\ pc = "parse"
    /\ UNCHANGED << fileVars, conf_entries, scanned, regVars >>
    /\ Parsed

\* There is no file: DEVICESCAN -a.
NoFile ==
    /\ pc = "parse" /\ lines = << >>
    /\ MakeConfigEntries([NoConfig EXCEPT !.name = "DEVICESCAN", !.monitors = MonitorAll], << >>)
    /\ Parsed
    /\ UNCHANGED << fileVars, regVars >>

-----------------------------------------------------------------------------
(***************************************************************************)
(* register_devices(): one entry after the other.                          *)
(***************************************************************************)
\* get_unique_dev_name()
Unique_NoType(cfg) == Disk(cfg.name, "")
Unique(cfg) == Disk(cfg.name, cfg.dev_type)

IsScanned(i) == i \in DOMAIN scanned /\ scanned[i] # NoDevice
DiskOf(i) == IF IsScanned(i) THEN Disk(scanned[i].name, scanned[i].type)
             ELSE Unique(conf_entries[i])

\* dev_idinfo, and dev_idinfo_bc: the same without the namespace of a device that
\* has one only.
Info(d) == << Identities[d].info, Identities[d].ns >>
HasBc(d) == Identities[d].ns # 0 /\ Identities[d].single
InfoBc(d) == << Identities[d].info, 0 >>

\* is_duplicate_dev_idinfo()
SameIdentity_NoNamespace(d, e) ==
    /\ Identities[d].unique /\ Identities[e].unique
    /\ Info(d) = Info(e)
SameIdentity(d, e) ==
    /\ Identities[d].unique /\ Identities[e].unique
    /\ \/ Info(d) = Info(e)
       \/ HasBc(d) /\ InfoBc(d) = Info(e)
       \/ HasBc(e) /\ Info(d) = InfoBc(e)
IsDuplicate(i) == IsScanned(i) /\ \E c \in ToSet(configs) : SameIdentity(DiskOf(i), c.disk)

AtEntry == pc = "register" /\ entry <= Len(conf_entries)
NextEntry == /\ entry' = entry + 1
             /\ UNCHANGED << pc, fileVars, conf_entries, scanned, plugged, events >>

Ignore ==
    /\ AtEntry
    /\ conf_entries[entry].ignore
    /\ prev_unique_names' = prev_unique_names \cup {Unique(conf_entries[entry])}
    /\ NextEntry
    /\ UNCHANGED << configs, absent >>

\* A device of the scan that an entry of the file has named.
SkipNamed ==
    /\ AtEntry
    /\ ~conf_entries[entry].ignore /\ IsScanned(entry)
    /\ Unique(conf_entries[entry]) \in prev_unique_names
    /\ NextEntry
    /\ UNCHANGED << prev_unique_names, configs, absent >>

ToRegister ==
    /\ AtEntry
    /\ ~conf_entries[entry].ignore
    /\ IsScanned(entry) => Unique(conf_entries[entry]) \notin prev_unique_names

\* Also an absent device is not registered again by the scan.
NamesAfterFailure_Same(i) == prev_unique_names
NamesAfterFailure(i) == IF IsScanned(i) THEN prev_unique_names
                        ELSE prev_unique_names \cup {Unique(conf_entries[i])}

RegisterDevice ==
    /\ ToRegister
    /\ DiskOf(entry) \in plugged /\ ~IsDuplicate(entry)
    /\ configs' = Append(configs, [cfg |-> conf_entries[entry], disk |-> DiskOf(entry),
                                   scanned |-> IsScanned(entry)])
    /\ prev_unique_names' = IF IsScanned(entry) THEN prev_unique_names
                            ELSE prev_unique_names \cup {Unique(conf_entries[entry])}
    /\ NextEntry
    /\ UNCHANGED absent

\* The device cannot be opened, is not capable of SMART, or a duplicate: smartd
\* goes on if the scan has found it, or if it is removable.
Mandatory(i) == ~IsScanned(i) /\ ~conf_entries[i].removable /\ ~Never

RegisterFails ==
    /\ ToRegister
    /\ ~Mandatory(entry)
    /\ prev_unique_names' = NamesAfterFailure(entry)
    /\ absent' = IF IsDuplicate(entry) THEN absent ELSE absent \cup {entry}
    /\ NextEntry
    /\ UNCHANGED configs

RegisterMandatoryFails ==
    /\ ToRegister
    /\ Mandatory(entry)
    /\ pc' = "exit"
    /\ absent' = absent \cup {entry}
    /\ UNCHANGED << fileVars, conf_entries, scanned, entry, prev_unique_names, configs,
                    plugged, events >>

Registered ==
    /\ pc = "register" /\ entry > Len(conf_entries)
    /\ pc' = "running"
    /\ UNCHANGED << fileVars, conf_entries, scanned, regVars >>

Next ==
    \/ DiskChanges
    \/ ReadBlankLine \/ ReadLine \/ ReadContinuedLine \/ EndOfFile \/ NoFile
    \/ Ignore \/ SkipNamed \/ RegisterDevice \/ RegisterFails \/ RegisterMandatoryFails
    \/ Registered

Spec == Init /\ [][Next]_vars

-----------------------------------------------------------------------------
(***************************************************************************)
(* Properties.                                                             *)
(***************************************************************************)

\* The directives that count for line k, as smartd.conf(5) has it: the last
\* DEFAULT line before it, then its own.
DefaultOf(k) ==
    LET before == {j \in 1 .. k - 1 : IsDefault(lines[j])}
    IN  IF before = {} THEN << >>
        ELSE lines[CHOOSE j \in before : \A i \in before : i <= j].dirs
Written(k) == DefaultOf(k) \o lines[k].dirs

\* The argument of the last directive of a kind, if there is one.
LastArg(dirs, IsOfKind(_)) ==
    LET at == {i \in DOMAIN dirs : IsOfKind(dirs[i])}
    IN  IF at = {} THEN "" ELSE dirs[CHOOSE i \in at : \A j \in at : j <= i].arg
Has(dirs, arg) == \E i \in DOMAIN dirs : dirs[i] = [dir |-> "-d", arg |-> arg]
MonitorsOf(dirs) ==
    LET on == UNION {Adds(dirs[i]) : i \in DOMAIN dirs}
        off == IF LastArg(dirs, LAMBDA t : t.dir = "-W") = "0" THEN {"temperature"} ELSE {}
    IN  IF on \ off = {} THEN MonitorAll ELSE on \ off
TypeOf(dirs) ==
    LET type == LastArg(dirs, LAMBDA t : t.dir = "-d" /\ t.arg \in Types \cup {"auto"})
    IN  IF type = "auto" THEN "" ELSE type
\* Each entry has the settings its line and the defaults before it have asked for,
\* the later one of two that exclude each other, and -a if none (ParseConfigFile(),
\* ParseConfigLine(), ParseToken()).
SettingsAsWritten ==
    pc = "register" => \A i \in DOMAIN conf_entries :
        LET cfg == conf_entries[i]
            dirs == Written(cfg.lineno)
        IN  cfg.lineno # 0 =>
            /\ cfg.monitors = MonitorsOf(dirs)
            /\ cfg.ignore = Has(dirs, "ignore") /\ cfg.removable = Has(dirs, "removable")
            /\ \A key \in Keys :
                   cfg.settings[key] = LastArg(dirs, LAMBDA t : t.dir = key)
            /\ ~IsScanned(i) => cfg.dev_type = TypeOf(dirs)

\* A scan looks for the types of its own line only, if the file does not end in
\* the middle of that line (the types are collected over the lines).
ScanTypesOfLine ==
    pc \in {"register", "empty"} /\ lines # << >> /\ IsScan(Last(lines)) /\ ~continued =>
        ToSet(scan_types) \subseteq {t.arg : t \in ToSet(Last(lines).dirs)}

\* What a line says holds for its own entries, and for no others: the two parts above.
LinesAsWritten == SettingsAsWritten /\ ScanTypesOfLine

\* Two disks say that they are the same device, perhaps one without its namespace.
SameDevice(d, e) ==
    LET a == Identities[d]
        b == Identities[e]
    IN  /\ a.unique /\ b.unique /\ a.info = b.info
        /\ a.ns = b.ns \/ (a.single /\ b.single /\ 0 \in {a.ns, b.ns})

\* Line k names a disk behind a controller by its type, and MakeConfigEntries() has not
\* kept the type of the scanned entry cfg: their unique names differ even if both are
\* the same disk.
TypeNotKept(k, cfg) == DiskOf(k).raid # "" /\ cfg.dev_type = ""

\* register_devices() adds no disk from the scan that is the disk of a line of the file,
\* be that line monitored, ignored or its disk absent, under this name or another one.
\* Not so if the type was not kept (IgnoredDisk).
NamedNotScanned ==
    \A i \in DOMAIN configs, k \in DOMAIN conf_entries :
        configs[i].scanned /\ ~IsScanned(k) /\ ~TypeNotKept(k, configs[i].cfg) =>
            configs[i].disk # DiskOf(k)

\* register_devices() monitors no device of the scan that is already monitored under
\* another name, as far as identities tell (is_duplicate_dev_idinfo()).
NoneTwice ==
    \A i \in DOMAIN configs : configs[i].scanned =>
        \A j \in 1 .. i - 1 : ~SameDevice(configs[i].disk, configs[j].disk)

\* Line k has the name of a device, and its type if both are of a controller.
NamedBy(k, cfg) ==
    Disk(conf_entries[k].name, conf_entries[k].dev_type) = Disk(cfg.name, cfg.dev_type)

\* If smartd runs, each line with a device is monitored, or ignored, or its device
\* is absent and need not be there; and each disk of the scan is monitored, absent,
\* named by a line, or the same as one that is monitored.
NothingLost ==
    pc = "running" => \A i \in DOMAIN conf_entries :
        LET cfg == conf_entries[i]
        IN  \/ cfg.ignore
            \/ \E c \in ToSet(configs) : c.cfg = cfg
            \/ i \in absent /\ (IsScanned(i) \/ cfg.removable \/ Never)
            \/ /\ IsScanned(i)
               /\ \/ \E k \in DOMAIN conf_entries : ~IsScanned(k) /\ NamedBy(k, cfg)
                  \/ \E c \in ToSet(configs) : SameDevice(DiskOf(i), c.disk)

\* A disk with a line that says to ignore it is not monitored because the scan finds
\* it.  Not what the code does.
IgnoredDisk ==
    \A k \in DOMAIN conf_entries, c \in ToSet(configs) :
        conf_entries[k].ignore /\ ~IsScanned(k) /\ c.scanned => c.disk # DiskOf(k)
=============================================================================
