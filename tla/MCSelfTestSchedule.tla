------------------------ MODULE MCSelfTestSchedule ------------------------
(* Instances of SelfTestSchedule for TLC. *)
EXTENDS SelfTestSchedule

Entry(ty, h, k) == [type |-> ty, hour |-> h, offset |-> k]
Device(regex, offsets, factor, protocol, s) ==
    [test_regex |-> regex, offsets |-> offsets, test_offset_factor |-> factor,
     protocol |-> protocol, state_file |-> s]

\* A test in every hour, a long one now and then.
Hourly(s) == Device({Entry("S", h, 0) : h \in 1 .. 9} \cup {Entry("L", 3, 0)}, << >>, 0, "ata", s)

\* Few tests, the third device of several, an offset with a limit.
Staggered ==
    Device({Entry("L", 2, 0), Entry("S", 3, 0), Entry("O", 1, 1), Entry("S", 1, 2),
            Entry("n", 4, 0)},
           << [offset |-> 1, limit |-> 0], [offset |-> 2, limit |-> 2] >>, 2, "ata", TRUE)
Scsi == Device({Entry("L", 3, 0), Entry("S", 2, 0), Entry("C", 2, 0)}, << >>, 0, "scsi", FALSE)
Nvme == Device({Entry("L", 4, 0), Entry("S", 2, 0)}, << >>, 0, "nvme", TRUE)

AllConfigs == {Hourly(TRUE), Staggered, Scsi, Nvme}

=============================================================================
