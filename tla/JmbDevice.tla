------------------------------ MODULE JmbDevice -----------------------------
(***************************************************************************)
(* Disks behind a JMicron RAID bridge (src/lib/dev_jmb39x_raid.cpp):  ATA  *)
(* commands are written to one sector of the volume, which others may use, *)
(* and the answers are read from it.  jmb39x_device takes a copy of the    *)
(* sector before, and writes it back after.  Each process (smartd, runs of *)
(* smartctl) has one device object of the same volume; nothing keeps two   *)
(* of them apart.  A step is one read or write of the sector.              *)
(***************************************************************************)
EXTENDS Integers

CONSTANTS
    Procs,
    None,           \* no process
    MaxOpens,       \* bound: calls of open()
    MaxCommands,    \* bound: commands of a session
    MaxFails,       \* bound: failed reads and writes
    MaxKills,       \* bound: processes ended by a signal
    MaxChanges      \* bound: changes of the sector by its user

ASSUME ProcsAssumption == None \notin Procs
ASSUME BoundsAssumption == {MaxOpens, MaxCommands, MaxFails, MaxKills, MaxChanges} \subseteq Nat

VARIABLES
    at,             \* what the device object does next
    force, blocked, write_back, cmd_id, orig,
                    \* m_force, m_blocked, m_orig_write_back, m_cmd_id, m_orig_data
    wakeups,        \* wakeup sectors written by this open()
    sector,
    last,           \* the last answer of the bridge in protocol mode
    opens, fails, kills, changes,       \* bounds
    user,           \* history: what the user of the sector has in it
    nth,            \* history: commands of this session
    told,           \* history: report_orig_data_lost() has told about the user's data
    killed,         \* history: a session was ended by a signal
    torn,           \* history: the first wakeup sector was stored although its write failed
    twice,          \* history: "force" took something else for the user's data
    overlap,        \* history: a session began in another one
    mixed           \* history: a device took something else for its own answer

device == << force, blocked, write_back, cmd_id, orig, wakeups, nth >>
bounds == << opens, fails, kills, changes >>
excuses == << told, killed, torn, twice, overlap >>
jmbVars == << at, device, sector, last, bounds, user, excuses, mixed >>

\* What the sector holds: something of its user, or of the protocol.
Sector(type, by, id, n) == [type |-> type, by |-> by, id |-> id, nth |-> n]
Zero == Sector("zero", None, 0, 0)
Data == Sector("data", None, 0, 0)
Garbled == Sector("garbled", None, 0, 0)        \* neither plain nor obfuscated CRC fits
WakeupSector == Sector("wakeup", None, 0, 0)
Request(p) == Sector("request", p, cmd_id[p], nth[p])
NoAnswer == Sector("none", None, 0, 0)
Contents == {Zero, Data}

\* jmb_get_sector_type() and jmb_check_crc()
IsProtocolData(s) == s.type \in {"wakeup", "request", "answer"}
HasCRC(s) == s.type \in {"request", "answer"}

\* open() has begun to write wakeup sectors, and nobody has cleaned up yet.
InSession(p) == write_back[p] \/ (at[p] = "wakeup" /\ wakeups[p] > 0)
AllClosed == \A p \in Procs : at[p] = "closed"

JmbInit ==
    /\ at = [p \in Procs |-> "closed"] /\ force \in [Procs -> BOOLEAN]
    /\ blocked = [p \in Procs |-> FALSE] /\ write_back = [p \in Procs |-> FALSE]
    /\ cmd_id = [p \in Procs |-> 0] /\ nth = [p \in Procs |-> 0]
    /\ orig = [p \in Procs |-> Zero] /\ wakeups = [p \in Procs |-> 0]
    /\ sector \in Contents /\ user = sector /\ last = NoAnswer
    /\ opens = 0 /\ fails = 0 /\ kills = 0 /\ changes = 0
    /\ told = FALSE /\ killed = FALSE /\ torn = FALSE /\ twice = FALSE /\ overlap = FALSE
    /\ mixed = FALSE

Goto(p, where) == at' = [at EXCEPT ![p] = where]
Block(p) == blocked' = [blocked EXCEPT ![p] = TRUE]
\* A raw_write() that fails may have stored its data all the same.
Fails == fails < MaxFails /\ fails' = fails + 1
Stored(data) == sector' \in {sector, data}
\* report_orig_data_lost(): a warning with a dump of the data
Report(p) == told' = (told \/ orig[p] = user)

-----------------------------------------------------------------------------
(***************************************************************************)
(* open()                                                                  *)
(***************************************************************************)
Open(p) ==
    /\ at[p] = "closed" /\ ~blocked[p] /\ opens < MaxOpens
    /\ opens' = opens + 1
    /\ write_back' = [write_back EXCEPT ![p] = FALSE]
    /\ Goto(p, "read")
    /\ UNCHANGED << force, blocked, cmd_id, orig, wakeups, nth, sector, last, fails, kills, changes,
                    user, excuses, mixed >>

\* The sector must be zero filled, unless ",force" is given.
Refuses(p) == ~force[p] /\ sector # Zero

\* Wakeup data and protocol data are never written back.  (The copy of a device that
\* refuses is not used again.)
Original == IF IsProtocolData(sector) THEN Zero ELSE sector

ReadOriginal(p) ==
    /\ at[p] = "read"
    /\ IF Refuses(p)
       THEN Goto(p, "closed") /\ Block(p) /\ UNCHANGED << orig, wakeups, twice >>
       ELSE /\ orig' = [orig EXCEPT ![p] = Original]
            /\ twice' = (twice \/ (force[p] /\ sector # user))
            /\ wakeups' = [wakeups EXCEPT ![p] = 0]
            /\ Goto(p, "wakeup") /\ UNCHANGED blocked
    /\ UNCHANGED << force, write_back, cmd_id, nth, sector, last, bounds, user, told,
                    killed, torn, overlap, mixed >>

\* The volume cannot be opened, its sectors are no 512 bytes, or this one is unreadable.
ReadOriginalFails(p) ==
    /\ at[p] = "read"
    /\ Fails
    /\ Goto(p, "closed")
    /\ UNCHANGED << device, sector, last, opens, kills, changes, user, excuses, mixed >>

WriteWakeup(p) ==
    /\ at[p] = "wakeup"
    /\ sector' = WakeupSector /\ last' = NoAnswer
    /\ wakeups' = [wakeups EXCEPT ![p] = @ + 1]
    /\ overlap' = (overlap \/ \E q \in Procs \ {p} : InSession(q))
    /\ IF wakeups[p] < 3
       THEN UNCHANGED << at, write_back, cmd_id, nth >>
       ELSE /\ Goto(p, "request")
            /\ write_back' = [write_back EXCEPT ![p] = TRUE]
            /\ cmd_id' = [cmd_id EXCEPT ![p] = 1]
            /\ nth' = [nth EXCEPT ![p] = 1]
    /\ UNCHANGED << force, blocked, orig, bounds, user, told, killed, torn, twice, mixed >>

WriteWakeupFails(p) ==
    /\ at[p] = "wakeup"
    /\ Fails /\ Stored(WakeupSector)
    /\ IF wakeups[p] > 0 THEN Report(p) ELSE UNCHANGED told
    /\ torn' = (torn \/ (wakeups[p] = 0 /\ sector' # sector))
    /\ Block(p) /\ Goto(p, "closed")
    /\ UNCHANGED << force, write_back, cmd_id, orig, wakeups, nth, last, opens, kills, changes,
                    user, killed, twice, overlap, mixed >>

-----------------------------------------------------------------------------
(***************************************************************************)
(* run_jmb_command().  The first command of a session is the identify      *)
(* command of open(), which closes the device if it fails.                 *)
(***************************************************************************)
AfterError(p) == IF nth[p] = 1 THEN "restore" ELSE "idle"

WriteRequest(p) ==
    /\ at[p] = "request"
    /\ sector' = Request(p)
    /\ Goto(p, "answer")
    /\ UNCHANGED << device, last, bounds, user, excuses, mixed >>

WriteRequestFails(p) ==
    /\ at[p] = "request"
    /\ Fails /\ Stored(Request(p))
    /\ Block(p) /\ Goto(p, AfterError(p))
    /\ UNCHANGED << force, write_back, cmd_id, orig, wakeups, nth, last, opens, kills, changes,
                    user, excuses, mixed >>

\* What a read finds.  A request is answered by the bridge, or left alone by a disk
\* that is none, or the answer is damaged or the former one.
Answer(request) == [request EXCEPT !.type = "answer"]
Answers == IF sector.type = "request" THEN {Answer(sector), sector, Garbled, last} \ {NoAnswer}
           ELSE {sector}

NextId_Same(p) == cmd_id[p]
NextId(p) == cmd_id[p] + 1

\* Not the request itself, a valid CRC, and the code and number of the request.
Accepts(p, response) ==
    response # Request(p) /\ HasCRC(response) /\ response.id = cmd_id[p]

\* "No device connected": there is no model name in the answer to the identify command,
\* or no status in the answer to an ATA command.
AfterAnswer(p) ==
    \/ Goto(p, "idle") /\ UNCHANGED blocked
    \/ Goto(p, AfterError(p)) /\ (IF nth[p] = 1 THEN UNCHANGED blocked ELSE Block(p))

ReadAnswer(p) ==
    /\ at[p] = "answer"
    /\ \E response \in Answers :
        /\ sector' = response
        /\ last' = IF sector.type = "request" /\ response = Answer(sector) THEN response ELSE last
        /\ IF Accepts(p, response)
           THEN /\ AfterAnswer(p)
                /\ cmd_id' = [cmd_id EXCEPT ![p] = NextId(p)]
                /\ mixed' = (mixed \/ response # Answer(Request(p)))
           ELSE /\ Block(p) /\ Goto(p, AfterError(p))
                /\ UNCHANGED << cmd_id, mixed >>
    /\ UNCHANGED << force, write_back, orig, wakeups, nth, bounds, user, excuses >>

ReadAnswerFails(p) ==
    /\ at[p] = "answer"
    /\ Fails
    /\ Block(p) /\ Goto(p, AfterError(p))
    /\ UNCHANGED << force, write_back, cmd_id, orig, wakeups, nth, sector, last, opens, kills,
                    changes, user, excuses, mixed >>

\* A command that is_supported_by_jmb(); a blocked device answers none.
AtaPassThrough(p) ==
    /\ at[p] = "idle" /\ ~blocked[p] /\ nth[p] < MaxCommands
    /\ nth' = [nth EXCEPT ![p] = @ + 1]
    /\ Goto(p, "request")
    /\ UNCHANGED << force, blocked, write_back, cmd_id, orig, wakeups, sector, last, bounds,
                    user, excuses, mixed >>

-----------------------------------------------------------------------------
(***************************************************************************)
(* close(), and the destructor.                                            *)
(***************************************************************************)
Restores_IfUsable(p) == write_back[p] /\ ~blocked[p]
\* A blocked device restores its sector too.  An exception ends a command of smartctl
\* with the destructor, which does the same.
Restores(p) == write_back[p]

Close(p) ==
    /\ at[p] = "idle"
    /\ Goto(p, "restore")
    /\ UNCHANGED << device, sector, last, bounds, user, excuses, mixed >>

RestoreOrigData(p) ==
    /\ at[p] = "restore"
    /\ sector' = IF Restores(p) THEN orig[p] ELSE sector
    /\ write_back' = [write_back EXCEPT ![p] = FALSE]
    /\ Goto(p, "closed")
    /\ UNCHANGED << force, blocked, cmd_id, orig, wakeups, nth, last, bounds, user, excuses,
                    mixed >>

RestoreOrigDataFails(p) ==
    /\ at[p] = "restore" /\ Restores(p)
    /\ Fails /\ Stored(orig[p])
    /\ Report(p) /\ Block(p)
    /\ write_back' = [write_back EXCEPT ![p] = FALSE]
    /\ Goto(p, "closed")
    /\ UNCHANGED << force, cmd_id, orig, wakeups, nth, last, opens, kills, changes, user, killed,
                    torn, twice, overlap, mixed >>

-----------------------------------------------------------------------------
(***************************************************************************)
(* The processes and the user of the sector.                               *)
(***************************************************************************)
\* The object is gone: the process has ended, or smartd has read a new configuration.
Destroy(p) ==
    /\ at[p] = "closed" /\ blocked[p]
    /\ blocked' = [blocked EXCEPT ![p] = FALSE]
    /\ UNCHANGED << at, force, write_back, cmd_id, orig, wakeups, nth, sector, last, bounds,
                    user, excuses, mixed >>

\* No signal is deferred until close() (TODO in open()).
Kill(p) ==
    /\ at[p] # "closed" /\ kills < MaxKills
    /\ kills' = kills + 1
    /\ killed' = (killed \/ InSession(p))
    /\ Goto(p, "closed")
    /\ blocked' = [blocked EXCEPT ![p] = FALSE]
    /\ write_back' = [write_back EXCEPT ![p] = FALSE]
    /\ UNCHANGED << force, cmd_id, orig, wakeups, nth, sector, last, opens, fails, changes,
                    user, told, torn, twice, overlap, mixed >>

\* A partition table or a boot loader is written while no smartmontools process runs.
UserWrites ==
    /\ AllClosed /\ changes < MaxChanges
    /\ changes' = changes + 1
    /\ user' \in Contents /\ sector' = user'
    /\ told' = FALSE /\ killed' = FALSE /\ torn' = FALSE /\ twice' = FALSE
    /\ UNCHANGED << at, device, last, opens, fails, kills, overlap, mixed >>

JmbNext ==
    \/ \E p \in Procs :
        \/ Open(p) \/ ReadOriginal(p) \/ ReadOriginalFails(p)
        \/ WriteWakeup(p) \/ WriteWakeupFails(p)
        \/ WriteRequest(p) \/ WriteRequestFails(p) \/ ReadAnswer(p) \/ ReadAnswerFails(p)
        \/ AtaPassThrough(p) \/ Close(p) \/ RestoreOrigData(p) \/ RestoreOrigDataFails(p)
        \/ Destroy(p) \/ Kill(p)
    \/ UserWrites

JmbSpec == JmbInit /\ [][JmbNext]_jmbVars

-----------------------------------------------------------------------------
(***************************************************************************)
(* Properties.                                                             *)
(***************************************************************************)
\* "By default, access to the device is refused if the selected sector is not zero
\* filled" (smartctl.8, -d jmb39x): processes without ",force" never change the user's
\* data, in whatever order they look at the sector, write it, fail and are killed.
NonZeroKept == (\A p \in Procs : ~force[p]) /\ user = Data => sector = Data

\* When no process has the device open, the user's data are in the sector, or a warning
\* has told what they were.  The exceptions: a process was killed in its session (the
\* documented one), the first wakeup sector was stored by a write that failed, or
\* ",force" was used while another session was open or had left its traces.
LossTold == AllClosed /\ ~(told \/ killed \/ torn \/ twice) => sector = user

DataKept == NonZeroKept /\ LossTold

\* A device takes nothing for the answer to its command that is not, a former answer
\* included, unless two sessions overlap: the requests are numbered from 1 in both.
OwnAnswers == mixed => overlap
=============================================================================
