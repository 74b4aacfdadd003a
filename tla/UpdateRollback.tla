---------------------------- MODULE UpdateRollback ----------------------------
(***************************************************************************)
(* A managed update over a plan database in use.  _create_backup copies    *)
(* the database, and _restore_backup writes the copy back when a later     *)
(* step fails; the gateway processes of MCP clients run on meanwhile.      *)
(***************************************************************************)
EXTENDS WritePlans

VARIABLES
  update,   \* what the update has done with the database
  snapshot  \* the backup: the status column of write-plans.sqlite3

allVars == <<vars, update, snapshot>>

InitWithUpdate ==
  /\ Init
  /\ update = "preparing"
  /\ snapshot = status

BackupPlans ==
  /\ update = "preparing"
  /\ update' = "trying"
  /\ snapshot' = status
  /\ UNCHANGED vars

\* sqlite3's backup replaces the whole database.  The expiry of a row never
\* changes, so the restored rows have the expiry they had.
RestorePlans ==
  /\ update = "trying"
  /\ update' = "over"
  /\ status' = snapshot
  /\ UNCHANGED <<mode, clock, expires, issued, up, pc, plan, wire,
                 executed, snapshot>>

CommitUpdate ==
  /\ update = "trying"
  /\ update' = "over"
  /\ UNCHANGED <<vars, snapshot>>

NextWithUpdate ==
  \/ Next /\ UNCHANGED <<update, snapshot>>
  \/ BackupPlans \/ RestorePlans \/ CommitUpdate

SpecWithUpdate == InitWithUpdate /\ [][NextWithUpdate]_allVars
=============================================================================
