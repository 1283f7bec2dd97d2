------------------------------- MODULE MCStorage -------------------------------
(***************************************************************************)
(* Three tables, two orders, two databases, two requests to migrate.       *)
(***************************************************************************)
EXTENDS Storage

CONSTANTS orders, lines, logs, o1, o2, db1, db2, j1, j2

MCModels == <<orders, lines, logs>>
MCKeys == {o1, o2}
MCTargets == {db1, db2}
MCJobs == {j1, j2}
=============================================================================
