------------------------------ MODULE ClientMC ------------------------------
(***************************************************************************)
(* Instances of Client: what write clients are run for, and with what      *)
(* options read clients are run.                                           *)
(***************************************************************************)
EXTENDS Client

File(u, o, n, f) == [utc |-> u, off |-> o, size |-> n, fsize |-> f]

\* Two files that follow on each other, the last one shorter than FILE_SIZE;
\* an observation from the middle on; junk; two files that do not follow, the
\* first one without FILE_SIZE.
MCJobs ==
    {[app |-> "diskdb", zc |-> FALSE, files |-> <<File(1, 0, 3, 3), File(1, 3, 1, 3)>>],
     [app |-> "diskdb", zc |-> TRUE,  files |-> <<File(2, 1, 4, 4), File(2, 5, 3, 3)>>],
     [app |-> "junkdb", zc |-> FALSE, files |-> <<File(3, 0, 4, 4)>>],
     [app |-> "junkdb", zc |-> TRUE,  files |-> <<File(4, 0, 4, 4)>>],
     [app |-> "diskdb", zc |-> FALSE, files |-> <<File(5, 0, 2, 0), File(6, 0, 2, 2)>>]}

MCSinks == {[app |-> "dbdisk", zc |-> FALSE], [app |-> "dbdisk", zc |-> TRUE],
            [app |-> "dbnull", zc |-> FALSE]}

ASSUME OwnUtcAssumption == OwnUtc
=============================================================================
