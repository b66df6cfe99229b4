---------------------------- MODULE BackupRecords ----------------------------
(***************************************************************************)
(* The records of backups and restores.  A handler inserts the row and a   *)
(* goroutine takes it from pending to completed by saving its own copy;    *)
(* GORM's Save inserts a row that is gone.  The deletions run in one       *)
(* transaction that locks the rows they check.                             *)
(***************************************************************************)
EXTENDS FiniteSets, Naturals

CONSTANTS BackupId, RestoreId, NoBackup

ASSUME BackupAssumption == BackupId \cap RestoreId = {} /\ NoBackup \notin BackupId

VARIABLES
  record,    \* the status of each row of both tables
  executor,  \* the goroutine of a record: "none", "inserted", "working"
  backupOf,  \* the backup a restore was asked for
  asked,     \* restores whose request has read its backup and not yet inserted
  deleted    \* the records a deletion has removed (history)

backupVars == <<record, executor, backupOf, asked, deleted>>
RecordId == BackupId \cup RestoreId
New(id) == record[id] = "absent" /\ id \notin deleted

BackupInit ==
  /\ record = [id \in RecordId |-> "absent"]
  /\ executor = [id \in RecordId |-> "none"]
  /\ backupOf = [id \in RestoreId |-> NoBackup]
  /\ asked = {}
  /\ deleted = {}

\* The insert of a row as pending, and the goroutine that works on it.
Insert(id) ==
  /\ record' = [record EXCEPT ![id] = "pending"]
  /\ executor' = [executor EXCEPT ![id] = "inserted"]

CreateBackup(id) ==
  /\ New(id)
  /\ Insert(id)
  /\ UNCHANGED <<backupOf, asked, deleted>>

\* The cron job does the same with the fields of its schedule.
RunScheduledBackup(id) == CreateBackup(id)

\* CreateRestore reads the backup, whatever its status, and checks the scope of
\* both clusters and the production policy before it inserts.
ReadBackup(id) ==
  /\ New(id) /\ id \notin asked
  /\ \E b \in BackupId : /\ record[b] # "absent"
                         /\ backupOf' = [backupOf EXCEPT ![id] = b]
  /\ asked' = asked \cup {id}
  /\ UNCHANGED <<record, executor, deleted>>

\* The foreign key refuses the insert when the backup is gone.
InsertRestore(id) ==
  /\ id \in asked
  /\ asked' = asked \ {id}
  /\ IF record[backupOf[id]] # "absent"
       THEN Insert(id) /\ UNCHANGED backupOf
       ELSE /\ backupOf' = [backupOf EXCEPT ![id] = NoBackup]
            /\ UNCHANGED <<record, executor>>
  /\ UNCHANGED deleted

\* Save of the goroutine's copy, with the given status.
Save(id, status) == record' = [record EXCEPT ![id] = status]

\* executeBackup and executeRestore: in progress, five seconds, completed.
Begin(id) ==
  /\ executor[id] = "inserted"
  /\ Save(id, "in_progress")
  /\ executor' = [executor EXCEPT ![id] = "working"]
  /\ UNCHANGED <<backupOf, asked, deleted>>

Complete(id) ==
  /\ executor[id] = "working"
  /\ Save(id, "completed")
  /\ executor' = [executor EXCEPT ![id] = "none"]
  /\ UNCHANGED <<backupOf, asked, deleted>>

executeBackup(id) == id \in BackupId /\ (Begin(id) \/ Complete(id))
executeRestore(id) == id \in RestoreId /\ (Begin(id) \/ Complete(id))

\* Mutant: a record that its goroutine has not saved yet may be deleted.
backupRecordActiveOnceStarted(status) == status = "in_progress"
backupRecordActive(status) == status \in {"pending", "in_progress"}

RemoveRecords(ids) ==
  /\ record' = [id \in RecordId |-> IF id \in ids THEN "absent" ELSE record[id]]
  /\ deleted' = deleted \cup ids
  /\ UNCHANGED <<executor, backupOf, asked>>

\* All of the given records or none; one missing, active or referenced refuses all.
deleteBackupRecords(ids) ==
  /\ \A id \in ids : record[id] # "absent" /\ ~backupRecordActive(record[id])
  /\ \A r \in RestoreId : record[r] # "absent" => backupOf[r] \notin ids
  /\ RemoveRecords(ids)

deleteRestoreRecords(ids) ==
  /\ \A id \in ids : record[id] \in {"completed", "failed"} /\ record[backupOf[id]] # "absent"
  /\ RemoveRecords(ids)

\* The process ends: its goroutines and requests with it.  What they left stays
\* pending or in progress.
BackupCrash ==
  /\ executor' = [id \in RecordId |-> "none"]
  /\ backupOf' = [id \in RestoreId |-> IF id \in asked THEN NoBackup ELSE backupOf[id]]
  /\ asked' = {}
  /\ UNCHANGED <<record, deleted>>

BackupNext ==
  \/ \E id \in BackupId : CreateBackup(id) \/ RunScheduledBackup(id) \/ executeBackup(id)
  \/ \E id \in RestoreId : ReadBackup(id) \/ InsertRestore(id) \/ executeRestore(id)
  \/ \E ids \in SUBSET BackupId \ {{}} : deleteBackupRecords(ids)
  \/ \E ids \in SUBSET RestoreId \ {{}} : deleteRestoreRecords(ids)
  \/ BackupCrash

-----------------------------------------------------------------------------
\* Every restore on record still has its backup, and what was deleted stays
\* deleted: the goroutine that would save it again has ended.
RecordsStayDeleted ==
  /\ \A id \in deleted : record[id] = "absent"
  /\ \A r \in RestoreId : record[r] # "absent" => record[backupOf[r]] # "absent"
=============================================================================
