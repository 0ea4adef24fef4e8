------------------------------- MODULE Backup -------------------------------
(***************************************************************************)
(* The backup program (backup.py) beside the running service: an online    *)
(* backup of the database and the object store, and its restoration into   *)
(* the state directory of a stopped service.                               *)
(*                                                                         *)
(* The two SQLite copies are snapshots.  Between them the object store is  *)
(* listed and copied file by file, in the order of the listing, while the  *)
(* service goes on.  What verify_backup compares (the manifest with the    *)
(* files just written) holds of what create_backup wrote, and is left out. *)
(***************************************************************************)
EXTENDS Datasets

CONSTANTS MaxTries,      \* attempts of create_backup (3)
          MaxBackups     \* bound
ASSUME BackupAssumption == MaxTries \in Nat \ {0} /\ MaxBackups \in Nat

VARIABLES
  backup,      \* create_backup at work
  kept,        \* the newest finished backup
  restore      \* restore_backup at work, on the three managed paths, and
               \* whether automl.db-wal lies beside them

backupVars == <<vars, backup, kept, restore>>

Names == <<"automl.db", "objects", "ticket-secret">>
NoBackup == [pc |-> None]
Up == restore.pc = None
HasBackup == "rows" \in DOMAIN kept
Live(state) == [n \in {Names[i] : i \in 1..3} |-> state]
NoRestore == [pc |-> None, step |-> 0, live |-> Live("old"), log |-> FALSE]

BackupInit ==
  /\ Init
  /\ backup = NoBackup /\ restore = NoRestore
  /\ kept = [made |-> 0]

-----------------------------------------------------------------------------
(* Defective variants of the definitions below (see the README). *)
UnchangedUnlooked == TRUE
RolledBackPartly ==
  [n \in DOMAIN restore.live |-> IF restore.live[n] = "aside" THEN "old" ELSE restore.live[n]]

-----------------------------------------------------------------------------
Begun(n) == [pc |-> "list", try |-> n, before |-> rows]

BackupBegins ==
  /\ backup = NoBackup /\ kept.made < MaxBackups
  /\ backup' = Begun(1)
  /\ UNCHANGED kept

ListObjects ==
  /\ backup.pc = "list"
  /\ backup' = [pc |-> "copy", try |-> backup.try, before |-> backup.before,
                todo |-> {f \in Files : There(f)}, files |-> [f \in Files |-> None]]
  /\ UNCHANGED kept

(* artifacts/, datasets/, uploads/ in the order of their names. *)
NextFile(f) ==
  /\ f \in backup.todo
  /\ f = "source" => backup.todo \cap Artifacts = {}
  /\ f = "part" => backup.todo = {"part"}

BackupFails == backup' = NoBackup /\ UNCHANGED kept

(* A file that is gone is passed over, or fails the backup when it goes    *)
(* between the look and the copy.                                          *)
CopyObject ==
  /\ backup.pc = "copy"
  /\ \E f \in backup.todo :
       /\ NextFile(f)
       /\ \/ backup' = [backup EXCEPT !.todo = @ \ {f}, !.files[f] = disk[f]] /\ UNCHANGED kept
          \/ ~There(f) /\ BackupFails

(* The second snapshot must say what the first said. *)
NothingChanged == backup.before = rows

BackupEnds ==
  /\ backup.pc = "copy" /\ backup.todo = {}
  /\ IF NothingChanged
       THEN backup' = NoBackup /\ kept' = [made |-> kept.made + 1, rows |-> rows, files |-> backup.files]
       ELSE IF backup.try = MaxTries THEN BackupFails ELSE backup' = Begun(backup.try + 1) /\ UNCHANGED kept

CreateBackup ==
  /\ BackupBegins \/ ListObjects \/ CopyObject \/ BackupEnds
  /\ UNCHANGED <<vars, restore>>

-----------------------------------------------------------------------------
(* restore_backup.  The old paths are moved aside one by one, then the     *)
(* copies moved in one by one; any failure is rolled back.                 *)

(* A service that shuts down closes its database, which removes the write-  *)
(* ahead log.  One that is killed (for it did not stop in time, say) leaves *)
(* the log behind, with the last states it wrote.                          *)
StopToRestore ==
  /\ Up /\ backup = NoBackup /\ HasBackup
  /\ \E killed \in BOOLEAN :
       /\ restore' = [NoRestore EXCEPT !.pc = "moving", !.log = killed]
       /\ IF killed THEN Spend("faults") ELSE UNCHANGED budget
  /\ HandlersGone
  /\ UNCHANGED <<rows, disk, download>>

MovePath ==
  /\ restore.step < 6
  /\ restore' = [restore EXCEPT !.step = @ + 1,
                   !.live[Names[(restore.step % 3) + 1]] = IF restore.step < 3 THEN "aside" ELSE "new"]
  /\ UNCHANGED vars

(* The paths that were moved aside are moved back over the new ones. *)
RolledBack == [n \in DOMAIN restore.live |-> "old"]

RestoreFails ==
  /\ Spend("faults")
  /\ restore' = [restore EXCEPT !.pc = "done", !.live = RolledBack]
  /\ UNCHANGED <<rows, disk, puts, section, deleting, download>>

(* The service starts again on what is in the state directory.  The bound  *)
(* is one backup and one restoration.                                      *)
ServedRows == IF restore.live["automl.db"] = "new" THEN kept.rows ELSE rows

(* A log beside another database than its own is replayed into it: where it *)
(* holds all pages of the last state, that state is back.  (Where it holds  *)
(* some of them, the database may be unreadable, and the service stays      *)
(* down.)  What the service makes of such a mixture is not followed.       *)
Reopen ==
  /\ restore.pc = "done" \/ restore.step = 6
  /\ \/ rows' = ServedRows /\ restore' = NoRestore
     \/ /\ restore.log /\ restore.live["automl.db"] = "new"
        /\ rows' = rows /\ restore' = [NoRestore EXCEPT !.pc = "mixed"]
  /\ disk' = IF restore.live["objects"] = "new" THEN kept.files ELSE disk
  /\ kept' = [made |-> MaxBackups]
  /\ UNCHANGED <<puts, section, deleting, download, budget, backup>>

RestoreBackup ==
  \/ /\ StopToRestore \/ (restore.pc = "moving" /\ (MovePath \/ RestoreFails))
     /\ UNCHANGED <<backup, kept>>
  \/ restore.pc \in {"moving", "done"} /\ Reopen

Serve == Up /\ Next /\ UNCHANGED <<backup, kept, restore>>

BackupNext == Serve \/ (Up /\ CreateBackup) \/ RestoreBackup
BackupSpec == BackupInit /\ [][BackupNext]_backupVars

-----------------------------------------------------------------------------
(* A READY version has the bytes whose digest its row declares until its    *)
(* dataset is deleted, and a COMMITTED artifact has bytes, although the     *)
(* part may be replaced between the check of its ETag and the copy, and a   *)
(* crash or a deletion may come at any point.                              *)
Mixed == restore.pc = "mixed"
RowsHaveBytes == ~Mixed => Consistent(rows, disk)

(* Nothing that was in flight when a deletion began brings bytes back that  *)
(* it removed, once it is COMPLETED: the rows are closed before they go.   *)
DeletionIsThorough == ~Mixed => Thorough(rows, disk)

(* Every READY version and every COMMITTED artifact in the database of a   *)
(* finished backup has its bytes in the same backup, although both went on *)
(* changing while it was made; only a version whose dataset was deleted    *)
(* may lack them.                                                          *)
BackupIsWhole == HasBackup => Consistent(kept.rows, kept.files)

(* "A restore moves the old managed state into .pre-restore-*" (single-node *)
(* production, 7): the service that starts after a complete restoration     *)
(* serves the backup and nothing of that old state.                        *)
RestoredIsBackup ==
  [][restore.step = 6 /\ restore'.step = 0 => rows' = kept.rows /\ disk' = kept.files]_backupVars
=============================================================================
