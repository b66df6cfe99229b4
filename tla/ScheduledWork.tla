--------------------------- MODULE ScheduledWork ---------------------------
(***************************************************************************)
(* The cron schedulers of backup and inspection, two of the singleton      *)
(* modules, on top of the election.  Schedules are rows that the HTTP      *)
(* handlers of every replica edit; the leader's scheduler learns of an     *)
(* edit only by Refresh, which reads the rows every fifteen seconds,       *)
(* because the handlers have no scheduler attached.                        *)
(***************************************************************************)
EXTENDS LeaderElection, FiniteSets

CONSTANTS Backup,      \* ids of backup schedules
          Inspection,  \* ids of inspection rules
          CronExpr,    \* valid cron expressions
          OldExpr,     \* those of the schedules the replicas find when they start
          MaxRows,     \* bound on the schedules and rules that ever exist
          MaxEdits     \* bound on the edits of schedules

\* backup comes first in the dependency order and inspection last.
BackupModule == 1
InspectionModule == Mods
Item == Backup \cup Inspection

ASSUME WorkAssumption ==
  /\ Backup \cap Inspection = {}
  /\ "" \notin CronExpr /\ None \notin CronExpr /\ "unread" \notin CronExpr
  /\ None # "unread"
  /\ OldExpr \subseteq CronExpr
  /\ MaxEdits \in Nat /\ MaxRows \in Nat
  /\ Mods > 1

ModuleOf(i) == IF i \in Backup THEN BackupModule ELSE InspectionModule
ItemsOf(m) == {i \in Item : ModuleOf(i) = m}

VARIABLES
  row,       \* backup_schedules and inspection_rules; "active" is also an enabled rule
  resuming,  \* requests to resume that have seen a cron expression
  edits,
  entries,   \* per replica: the cron entry of an item, by its expression
  copy,      \* per replica: what a Refresh under way has read and not yet applied
  job,       \* per replica and item: the stage of its triggered job
  detached   \* per replica: rules whose inspection runs in a goroutine of its own

rowVars == <<row, resuming, edits>>
cronVars == <<entries, copy, job, detached>>
vars == <<electionVars, rowVars, cronVars>>

NewRow == [state |-> "new", spec |-> ""]

\* The replicas start on a database that may already hold the schedules.
InitialRow == {NewRow} \cup [state : {"active"}, spec : OldExpr]

Init ==
  /\ ElectionInit
  /\ row \in {f \in [Item -> InitialRow] : Cardinality({i \in Item : f[i] # NewRow}) <= MaxRows}
  /\ resuming = {}
  /\ edits = 0
  /\ entries = [p \in Replica |-> [i \in Item |-> None]]
  /\ copy = [p \in Replica |-> [i \in Item |-> "unread"]]
  /\ job = [p \in Replica |-> [i \in Item |-> "none"]]
  /\ detached = [p \in Replica |-> {}]

-----------------------------------------------------------------------------
(* The handlers.  An id is given once.  A write of a row that was deleted  *)
(* since it was read changes nothing.                                      *)

Exists(i) == row[i].state \in {"active", "paused"}

Edit(i, state, spec) ==
  /\ edits < MaxEdits /\ edits' = edits + 1
  /\ row' = [row EXCEPT ![i] = [state |-> state, spec |-> spec]]
  /\ UNCHANGED <<electionVars, cronVars>>

Known == {i \in Item : row[i].state # "new"}
Fresh(i) == row[i].state = "new" /\ Cardinality(Known) < MaxRows

CreateBackupSchedule(i, spec) ==
  /\ Fresh(i) /\ spec # ""
  /\ Edit(i, "active", spec)
  /\ UNCHANGED resuming

\* An empty expression pauses the schedule; any other leaves the status to the
\* request.
UpdateBackupSchedule(i, state, spec) ==
  /\ Exists(i)
  /\ spec = "" /\ spec # row[i].spec => state = "paused"
  /\ Edit(i, state, spec)
  /\ UNCHANGED resuming

PauseBackupSchedule(i) ==
  /\ Exists(i)
  /\ Edit(i, "paused", row[i].spec)
  /\ UNCHANGED resuming

\* ResumeBackupSchedule reads the row and refuses an empty expression ...
ResumeBackupSchedule(i) ==
  /\ Exists(i) /\ row[i].spec # "" /\ edits < MaxEdits
  /\ resuming' = resuming \cup {i}
  /\ UNCHANGED <<electionVars, row, edits, cronVars>>

\* ... and then sets the status of whatever the row has become.
ResumeWrite(i) ==
  /\ i \in resuming
  /\ resuming' = resuming \ {i}
  /\ IF Exists(i) THEN Edit(i, "active", row[i].spec)
     ELSE UNCHANGED <<electionVars, row, edits, cronVars>>

ClearBackupCron(i) ==
  /\ Exists(i)
  /\ Edit(i, "paused", "")
  /\ UNCHANGED resuming

\* Refused by the database while a record refers to the schedule, which leaves
\* the row as it is.
DeleteBackupSchedule(i) ==
  /\ Exists(i)
  /\ Edit(i, "deleted", "")
  /\ UNCHANGED resuming

CreateRule(i, spec) ==
  /\ Fresh(i)
  /\ Edit(i, "active", spec)
  /\ UNCHANGED resuming

UpdateRule(i, state, spec) ==
  /\ Exists(i)
  /\ Edit(i, state, spec)
  /\ UNCHANGED resuming

ClearSchedule(i) ==
  /\ Exists(i)
  /\ Edit(i, row[i].state, "")
  /\ UNCHANGED resuming

DeleteRule(i) ==
  /\ Exists(i)
  /\ Edit(i, "deleted", "")
  /\ UNCHANGED resuming

-----------------------------------------------------------------------------
(* The schedulers of a replica.                                            *)

\* The expression a row asks for.
Wanted(i) == IF row[i].state = "active" /\ row[i].spec # "" THEN row[i].spec ELSE None

Refreshing(p, m) == \E i \in ItemsOf(m) : copy[p][i] # "unread"
Busy(p, m) == \E i \in ItemsOf(m) : job[p][i] # "none"

\* The scheduler of a module runs its cron and its ticker.
Running(p, m) == m <= started[p]
Ticking(p, m) == Running(p, m) /\ ~(role[p] = "stopping" /\ m = started[p])
Firing(p, m) == Running(p, m) /\ ~(halted[p] /\ m = started[p])

\* Start: the first Refresh is done before anything else runs.
StartScheduler(p) ==
  /\ StartModule(p)
  /\ entries' = [entries EXCEPT ![p] =
       [i \in Item |-> IF ModuleOf(i) = started[p] + 1 THEN Wanted(i) ELSE entries[p][i]]]
  /\ UNCHANGED <<rowVars, copy, job, detached>>

\* Refresh reads the active rows of its table, unless it is empty, ...
Refresh(p, m) ==
  /\ Ticking(p, m) /\ ~Refreshing(p, m) /\ ItemsOf(m) \cap Known # {}
  /\ copy' = [copy EXCEPT ![p] =
       [i \in Item |-> IF ModuleOf(i) = m /\ i \in Known THEN Wanted(i) ELSE copy[p][i]]]
  /\ UNCHANGED <<electionVars, rowVars, entries, job, detached>>

\* ... and calls Add or Remove for each of them.  Add keeps an entry with the
\* same expression and replaces any other.
AddOnce(p, i) == IF entries[p][i] = None \/ copy[p][i] = None THEN copy[p][i] ELSE entries[p][i]
Add(p, i) == copy[p][i]
RefreshItem(p, i) ==
  /\ copy[p][i] # "unread"
  /\ entries' = [entries EXCEPT ![p][i] = Add(p, i)]
  /\ copy' = [copy EXCEPT ![p][i] = "unread"]
  /\ UNCHANGED <<electionVars, rowVars, job, detached>>

\* The time of an entry has come.  (The cron library would also start a job
\* beside one that still runs; it would go through the same stages.)
Fire(p, i) ==
  /\ Firing(p, ModuleOf(i)) /\ entries[p][i] # None
  /\ job[p][i] = "none"
  /\ job' = [job EXCEPT ![p][i] = "fired"]
  /\ UNCHANGED <<electionVars, rowVars, entries, copy, detached>>

Advance(p, i, from, to) ==
  /\ job[p][i] = from
  /\ job' = [job EXCEPT ![p][i] = to]

\* trigger reads the row again: it may be gone or no longer wanted.
Trigger(p, i) ==
  /\ Advance(p, i, "fired",
       IF ~Exists(i) THEN "none" ELSE IF Wanted(i) = None THEN "removing" ELSE "running")
  /\ UNCHANGED <<electionVars, rowVars, entries, copy, detached>>

RemoveEntry(p, i) ==
  /\ Advance(p, i, "removing", "none")
  /\ entries' = [entries EXCEPT ![p][i] = None]
  /\ UNCHANGED <<electionVars, rowVars, copy, detached>>

\* RunScheduledBackup has written its backup, or given up, and returns.
BackupDone(p, i) ==
  /\ i \in Backup
  /\ Advance(p, i, "running", "none")
  /\ UNCHANGED <<electionVars, rowVars, entries, copy, detached>>

\* RunScheduledInspection returns as soon as the report's row is written (or
\* could not be): the inspection itself goes on in a goroutine that neither the
\* cron nor Stop knows of.
InspectionDetached(p, i) ==
  /\ i \in Inspection
  /\ Advance(p, i, "running", "none")
  /\ detached' \in {detached, [detached EXCEPT ![p] = @ \cup {i}]}
  /\ UNCHANGED <<electionVars, rowVars, entries, copy>>

\* The inspections of a rule that were under way end, with or without their process.
InspectionEnds(p, i) ==
  /\ i \in detached[p]
  /\ detached' = [detached EXCEPT ![p] = @ \ {i}]
  /\ UNCHANGED <<electionVars, rowVars, entries, copy, job>>

\* Stop waits for the ticker's goroutine, stops the cron ...
HaltScheduler(p) ==
  /\ HaltModule(p)
  /\ ~Refreshing(p, started[p])
  /\ UNCHANGED <<rowVars, cronVars>>

\* ... waits for the jobs that still run, and forgets the entries.
StopAtOnce(p) ==
  /\ StopModule(p)
  /\ entries' = [entries EXCEPT ![p] =
       [i \in Item |-> IF ModuleOf(i) = started[p] THEN None ELSE entries[p][i]]]
  /\ UNCHANGED <<rowVars, copy, job, detached>>
StopScheduler(p) ==
  /\ StopModule(p)
  /\ ~Busy(p, started[p])
  /\ entries' = [entries EXCEPT ![p] =
       [i \in Item |-> IF ModuleOf(i) = started[p] THEN None ELSE entries[p][i]]]
  /\ UNCHANGED <<rowVars, copy, job, detached>>

\* A crash ends whatever the process was doing.
CrashWithWork(p) ==
  /\ Crash(p)
  /\ entries' = [entries EXCEPT ![p] = [i \in Item |-> None]]
  /\ copy' = [copy EXCEPT ![p] = [i \in Item |-> "unread"]]
  /\ job' = [job EXCEPT ![p] = [i \in Item |-> "none"]]
  /\ detached' = [detached EXCEPT ![p] = {}]
  /\ UNCHANGED rowVars

\* A new process inherits no goroutine.
BootAnew(p) ==
  /\ Boot(p)
  /\ detached' = [detached EXCEPT ![p] = {}]
  /\ UNCHANGED <<rowVars, entries, copy, job>>

-----------------------------------------------------------------------------
EditBackup(i) ==
  \/ \E s \in CronExpr : CreateBackupSchedule(i, s)
  \/ \E st \in {"active", "paused"}, s \in CronExpr \cup {""} : UpdateBackupSchedule(i, st, s)
  \/ PauseBackupSchedule(i)
  \/ ResumeBackupSchedule(i)
  \/ ResumeWrite(i)
  \/ ClearBackupCron(i)
  \/ DeleteBackupSchedule(i)

EditInspection(i) ==
  \/ \E s \in CronExpr \cup {""} : CreateRule(i, s)
  \/ \E st \in {"active", "paused"}, s \in CronExpr \cup {""} : UpdateRule(i, st, s)
  \/ ClearSchedule(i)
  \/ DeleteRule(i)

\* Steps of the election that leave the schedulers alone.
ElectionStep(p) ==
  /\ \/ TryLock(p)
     \/ StartFailed(p)
     \/ LeaveLeadership(p)
     \/ Unlock(p)
     \/ UnlockTimedOut(p)
     \/ SessionLost(p)
     \/ Shutdown(p)
     \/ Exit(p)
  /\ UNCHANGED <<rowVars, cronVars>>

SessionStep == (PooledSessionEnds \/ SessionReaped) /\ UNCHANGED <<rowVars, cronVars>>

\* What the goroutines of a replica's scheduler do by themselves.
Working(p, i) ==
  \/ RefreshItem(p, i)
  \/ Trigger(p, i)
  \/ RemoveEntry(p, i)
  \/ BackupDone(p, i)
  \/ InspectionDetached(p, i)
  \/ InspectionEnds(p, i)

Next ==
  \/ \E i \in Backup : EditBackup(i)
  \/ \E i \in Inspection : EditInspection(i)
  \/ SessionStep
  \/ \E p \in Replica :
       \/ ElectionStep(p)
       \/ StartScheduler(p) \/ HaltScheduler(p) \/ StopScheduler(p) \/ CrashWithWork(p) \/ BootAnew(p)
       \/ \E m \in {BackupModule, InspectionModule} : Refresh(p, m)
       \/ \E i \in Item : Fire(p, i) \/ Working(p, i)

Spec == Init /\ [][Next]_vars

\* The goroutines run while their process lives, the election is tried again
\* every three seconds, and the server ends the sessions of dead clients.
FairSpec ==
  /\ Spec
  /\ WF_vars(SessionReaped /\ UNCHANGED <<rowVars, cronVars>>)
  /\ WF_vars(\E p \in Replica : TryLock(p) /\ UNCHANGED <<rowVars, cronVars>>)
  /\ \A p \in Replica :
       /\ WF_vars((LeaveLeadership(p) \/ Unlock(p) \/ Exit(p)) /\ UNCHANGED <<rowVars, cronVars>>)
       /\ WF_vars(StartScheduler(p) \/ HaltScheduler(p) \/ StopScheduler(p))
       /\ \A m \in {BackupModule, InspectionModule} : WF_vars(Refresh(p, m))
       /\ \A i \in Item : WF_vars(RefreshItem(p, i)) /\ WF_vars(Trigger(p, i))
                          /\ WF_vars(RemoveEntry(p, i))
                          /\ WF_vars(BackupDone(p, i) \/ InspectionDetached(p, i))

-----------------------------------------------------------------------------
TypeOK ==
  /\ role \in [Replica -> {"down", "standby", "starting", "leading", "stopping"}]
  /\ started \in [Replica -> 0 .. Mods]
  /\ halted \in [Replica -> BOOLEAN]
  /\ closing \in [Replica -> BOOLEAN]
  /\ lost \in [Replica -> BOOLEAN]
  /\ holder \in Replica \cup {None}
  /\ session \in {"free", "used", "again", "pooled", "dead"}
  /\ disruptions \in 0 .. MaxDisruptions
  /\ row \in [Item -> [state : {"new", "active", "paused", "deleted"}, spec : CronExpr \cup {""}]]
  /\ resuming \subseteq Item
  /\ edits \in 0 .. MaxEdits
  /\ entries \in [Replica -> [Item -> CronExpr \cup {None}]]
  /\ copy \in [Replica -> [Item -> CronExpr \cup {None, "unread"}]]
  /\ job \in [Replica -> [Item -> {"none", "fired", "removing", "running"}]]
  /\ detached \in [Replica -> SUBSET Inspection]

\* A replica runs a singleton module, a cron entry or a cron job.
Works(p) == started[p] > 0 \/ \E i \in Item : job[p][i] # "none" \/ entries[p][i] # None

Locked(p) == holder = p /\ session \in {"used", "again"}

\* The singleton modules, their cron entries and their cron jobs, a whole
\* scheduled backup among them, run only on the replica whose session holds the
\* lock, except while a broken session has not been noticed yet (serveLeader
\* stops the modules, whose Stop waits for the cron jobs, before it unlocks).
\* Stop does not wait for an inspection that its job has detached.
WorkOnlyWithLock == \A p \in Replica : Works(p) /\ ~lost[p] => Locked(p)

\* A scheduled inspection, although it may outlive the leadership that began it,
\* begins only under the lock: no job of a stopped module sends one off after
\* another replica may have taken over.
InspectionBeginsWithLock ==
  [][\A p \in Replica : ~(detached'[p] \subseteq detached[p]) => lost[p] \/ Locked(p)]_vars

\* Once the schedules stay as they are, the entries of a replica that leads agree
\* with the rows, whichever replica handled the edits (Refresh: "makes schedule
\* edits on standby replicas visible to the elected leader").
CronConverges ==
  \A p \in Replica : <>[](role[p] = "leading" => \A i \in Item : entries[p][i] = Wanted(i))

\* After the last disruption some replica leads, unless none is up or a pooled
\* session of a living process keeps the lock (runLeader: "A standby retries and
\* takes over when the leader connection closes").
TakesOver ==
  <>[](\/ \E p \in Replica : role[p] = "leading"
       \/ \A p \in Replica : role[p] = "down"
       \/ session = "pooled")

=============================================================================
