--------------------------- MODULE BackgroundProofs ---------------------------
(***************************************************************************)
(* RecordsStayDeleted, ReportIsTrue, OneApplier, ShellKept and             *)
(* AlertJustified for any number of records, reports, workers, shells and  *)
(* resources, and any lengths of leases, limits and sessions.              *)
(***************************************************************************)
EXTENDS BackgroundWork, FiniteSetTheorems, WellFoundedInduction, TLAPS

-----------------------------------------------------------------------------
(* The parts share no state: a step of the whole is a step of one part and *)
(* leaves the others alone.                                                *)

LEMMA Parts ==
  [Next]_vars => /\ [BackupNext]_backupVars
                 /\ [InspectionNext]_inspectionVars
                 /\ [GatewayNext]_gatewayVars
                 /\ [AlertNext]_alertVars
                 /\ [ShellPodNext]_shellPodVars
  BY DEF Next, Backups, Inspections, Installation, InstallStep, Alerts, Terminals,
     TerminalStep, ShellPods, vars

-----------------------------------------------------------------------------
(* Backups.  A goroutine works only on a row that is pending or in         *)
(* progress, and such a row cannot be deleted: what is deleted has no      *)
(* goroutine that would save it again.  A request that has read its backup *)
(* has no row yet.                                                         *)

Active(id) == executor[id] # "none" => record[id] \in {"pending", "in_progress"}

BackupTypes ==
  /\ record \in [RecordId -> {"absent", "pending", "in_progress", "completed"}]
  /\ executor \in [RecordId -> {"none", "inserted", "working"}]
  /\ backupOf \in [RestoreId -> BackupId \cup {NoBackup}]
  /\ asked \subseteq RestoreId
  /\ deleted \subseteq RecordId

BackupInv ==
  /\ BackupTypes
  /\ \A id \in RecordId : Active(id)
  /\ \A id \in deleted : record[id] = "absent" /\ id \notin asked
  /\ \A r \in asked : record[r] = "absent" /\ backupOf[r] \in BackupId
  /\ \A r \in RestoreId : record[r] # "absent" => backupOf[r] \in BackupId /\ record[backupOf[r]] # "absent"

LEMMA BackupInitial == BackupInit => BackupInv
  BY DEF BackupInit, BackupInv, BackupTypes, Active, RecordId

LEMMA Created ==
  ASSUME BackupInv, NEW id \in BackupId, CreateBackup(id) PROVE BackupInv'
  BY BackupAssumption DEF BackupInv, BackupTypes, Active, RecordId, CreateBackup, Insert, New

LEMMA BackupRead ==
  ASSUME BackupInv, NEW id \in RestoreId, ReadBackup(id) PROVE BackupInv'
  BY BackupAssumption DEF BackupInv, BackupTypes, Active, RecordId, ReadBackup, New

LEMMA RestoreInserted ==
  ASSUME BackupInv, NEW id \in RestoreId, InsertRestore(id) PROVE BackupInv'
<1>1. id \in asked /\ backupOf[id] \in BackupId /\ record[id] = "absent" /\ id \notin deleted
  BY DEF InsertRestore, BackupInv
<1>2. CASE record[backupOf[id]] # "absent"
  BY <1>1, <1>2, BackupAssumption DEF BackupInv, BackupTypes, Active, RecordId, InsertRestore, Insert
<1>3. CASE record[backupOf[id]] = "absent"
  BY <1>1, <1>3, BackupAssumption DEF BackupInv, BackupTypes, Active, RecordId, InsertRestore
<1> QED
  BY <1>2, <1>3

LEMMA Executed ==
  ASSUME BackupInv, NEW id \in RecordId, Begin(id) \/ Complete(id) PROVE BackupInv'
<1>1. record[id] \in {"pending", "in_progress"} /\ executor[id] # "none"
  BY DEF BackupInv, Active, Begin, Complete
<1>2. CASE Begin(id)
  BY <1>1, <1>2 DEF BackupInv, BackupTypes, Active, RecordId, Begin, Save
<1>3. CASE Complete(id)
  BY <1>1, <1>3 DEF BackupInv, BackupTypes, Active, RecordId, Complete, Save
<1> QED
  BY <1>2, <1>3

\* No goroutine works on what is deleted, and no restore keeps a backup that is.
LEMMA Removed ==
  ASSUME BackupInv, NEW ids \in SUBSET RecordId, RemoveRecords(ids),
         \A id \in ids : record[id] # "absent" /\ ~backupRecordActive(record[id]),
         \A r \in RestoreId : record[r] # "absent" => backupOf[r] \notin ids
  PROVE  BackupInv'
  BY DEF BackupInv, BackupTypes, Active, RecordId, RemoveRecords, backupRecordActive

LEMMA BackupStep == BackupInv /\ [BackupNext]_backupVars => BackupInv'
<1> SUFFICES ASSUME BackupInv, [BackupNext]_backupVars PROVE BackupInv'
  OBVIOUS
<1>1. ASSUME NEW id \in BackupId, CreateBackup(id) \/ RunScheduledBackup(id) \/ executeBackup(id)
      PROVE  BackupInv'
  BY <1>1, Created, Executed DEF RunScheduledBackup, executeBackup, RecordId
<1>2. ASSUME NEW id \in RestoreId, ReadBackup(id) \/ InsertRestore(id) \/ executeRestore(id)
      PROVE  BackupInv'
  BY <1>2, BackupRead, RestoreInserted, Executed DEF executeRestore, RecordId
<1>3. ASSUME NEW ids \in SUBSET BackupId, deleteBackupRecords(ids) PROVE BackupInv'
  BY <1>3, Removed DEF deleteBackupRecords, RecordId
<1>4. ASSUME NEW ids \in SUBSET RestoreId, deleteRestoreRecords(ids) PROVE BackupInv'
  <2>1. \A r \in RestoreId : record[r] # "absent" => backupOf[r] \notin ids
    BY BackupAssumption DEF BackupInv
  <2> QED
    BY <1>4, <2>1, Removed DEF deleteRestoreRecords, backupRecordActive, RecordId
<1>5. CASE BackupCrash
  BY <1>5 DEF BackupCrash, BackupInv, BackupTypes, Active, RecordId
<1>6. CASE UNCHANGED backupVars
  BY <1>6 DEF backupVars, BackupInv, BackupTypes, Active, RecordId
<1> QED
  BY <1>1, <1>2, <1>3, <1>4, <1>5, <1>6 DEF BackupNext

\* What a deletion has removed is never saved again by a goroutine that held a copy
\* of it, and no restore outlives the backup it was made from, however requests,
\* goroutines, deletions and crashes interleave.
THEOREM DeletionsLast == Spec => []RecordsStayDeleted
<1>1. Init => BackupInv
  BY BackupInitial DEF Init
<1>2. BackupInv /\ [Next]_vars => BackupInv'
  BY BackupStep, Parts
<1>3. BackupInv => RecordsStayDeleted
  BY DEF BackupInv, RecordsStayDeleted
<1> QED
  BY <1>1, <1>2, <1>3, PTL DEF Spec

-----------------------------------------------------------------------------
(* The installation of the gateway.  From its claim to its finish a worker *)
(* holds the job.  What is left of the lease covers what is left of the    *)
(* holder's limit and of its slack, so that nobody else can claim the job  *)
(* as long as it is held, and the holder's own finish finds it running.    *)

Limited == {"check", "ready", "apply", "wait"}
Holds(w) == worker[w].pc \in Limited \cup {"finish"}

WorkerType ==
  [pc : {"idle", "read", "claim", "finish"} \cup Limited, resuming : BOOLEAN,
   age : Nat, left : Nat, result : {""} \cup Settled]

GatewayTypes ==
  /\ lease \in Int
  /\ worker \in [Worker -> WorkerType]

Covered(w) ==
  Holds(w) => /\ status = "running"
              /\ worker[w].age <= Slack
              /\ lease >= (IF worker[w].pc = "finish" THEN 0 ELSE worker[w].left) + Slack - worker[w].age

OneHolder == \A v, w \in Worker : Holds(v) /\ Holds(w) => v = w

GatewayInv ==
  /\ GatewayTypes
  /\ \A w \in Worker : Covered(w) /\ (worker[w].pc = "claim" => worker[w].age <= Slack)
  /\ OneHolder

\* A step of one worker that holds the job after it only if it did before, and
\* changes nothing that the lease depends on.
LEMMA WorkerMoves ==
  ASSUME GatewayInv, NEW w \in Worker, NEW next \in WorkerType,
         worker' = [worker EXCEPT ![w] = next], UNCHANGED <<status, lease>>,
         next.pc \in Limited \cup {"finish"} => Holds(w) /\ next.age = worker[w].age /\ next.left = worker[w].left,
         worker[w].pc = "finish" => next.pc \notin Limited,
         next.pc = "claim" => next.age <= Slack
  PROVE  GatewayInv'
<1>1. GatewayTypes'
  BY DEF GatewayInv, GatewayTypes
<1>2. \A v \in Worker : Holds(v)' => Holds(v)
  BY DEF GatewayInv, GatewayTypes, Holds
<1>3. OneHolder'
  BY <1>2 DEF GatewayInv, OneHolder
<1>4. ASSUME NEW v \in Worker PROVE Covered(v)' /\ (worker'[v].pc = "claim" => worker'[v].age <= Slack)
  <2>1. Slack \in Nat
    BY GatewayAssumption
  <2>2. CASE v # w
    BY <2>2 DEF GatewayInv, GatewayTypes, Covered, Holds
  <2>3. CASE v = w
    <3>1. worker'[w] = next /\ worker[w] \in WorkerType
      BY DEF GatewayInv, GatewayTypes
    <3>2. CASE next.pc \in Limited \cup {"finish"}
      <4>1. Covered(w) /\ Holds(w) /\ next.age = worker[w].age /\ next.left = worker[w].left
        BY <3>2 DEF GatewayInv
      <4>2. worker[w].age \in Nat /\ worker[w].left \in Nat /\ lease \in Int
        BY <3>1 DEF WorkerType, GatewayInv, GatewayTypes
      <4>3. next.pc # "claim"
        BY <3>2 DEF Limited
      <4> QED
        BY <2>1, <2>3, <3>1, <3>2, <4>1, <4>2, <4>3 DEF Covered, Holds, Limited
    <3>3. CASE next.pc \notin Limited \cup {"finish"}
      BY <2>3, <3>1, <3>3 DEF Covered, Holds
    <3> QED
      BY <3>2, <3>3
  <2> QED
    BY <2>2, <2>3
<1> QED
  BY <1>1, <1>3, <1>4 DEF GatewayInv

\* A step of one worker that finds or leaves the job in nobody's hands.
LEMMA NobodyHolds ==
  ASSUME GatewayInv, NEW w \in Worker, NEW next \in WorkerType,
         worker' = [worker EXCEPT ![w] = next], lease' \in Int,
         \A v \in Worker \ {w} : ~Holds(v),
         next.pc \in {"idle", "read"}
  PROVE  GatewayInv'
<1>1. GatewayTypes'
  BY DEF GatewayInv, GatewayTypes
<1>2. \A v \in Worker : ~Holds(v)'
  BY DEF GatewayInv, GatewayTypes, Holds, Limited
<1>3. \A v \in Worker : worker'[v].pc = "claim" => worker'[v].age <= Slack
  BY DEF GatewayInv, GatewayTypes
<1> QED
  BY <1>1, <1>2, <1>3 DEF GatewayInv, OneHolder, Covered

LEMMA Installed ==
  ASSUME GatewayInv, NEW w \in Worker, InstallGatewayAPI(w) PROVE GatewayInv'
<1> DEFINE next == [worker[w] EXCEPT !.pc = "read"]
<1>1. next \in WorkerType /\ next.pc = "read"
  BY DEF GatewayInv, GatewayTypes, WorkerType
<1>2. \A v \in Worker : ~Holds(v)
  BY DEF GatewayInv, Covered, InstallGatewayAPI
<1>3. worker' = [worker EXCEPT ![w] = next] /\ lease' \in Int
  BY DEF InstallGatewayAPI, Start, GatewayInv, GatewayTypes
<1> QED
  BY <1>1, <1>2, <1>3, NobodyHolds

LEMMA Started ==
  ASSUME GatewayInv, NEW w \in Worker, StartGatewayInstallWorker(w) \/ ReadJob(w) \/ WorkerDies(w)
  PROVE  GatewayInv'
<1> DEFINE next == IF StartGatewayInstallWorker(w) THEN [worker[w] EXCEPT !.pc = "read"]
                   ELSE IF ReadJob(w)
                     THEN [worker[w] EXCEPT !.pc = "claim", !.resuming = (status = "running"), !.age = 0]
                   ELSE Idle
<1>1. next \in WorkerType
  BY DEF GatewayInv, GatewayTypes, WorkerType, Idle
<1>2. worker' = [worker EXCEPT ![w] = next] /\ UNCHANGED <<status, lease>>
  BY DEF StartGatewayInstallWorker, Start, ReadJob, WorkerDies, GatewayInv, GatewayTypes
<1>3. next.pc \in {"idle", "read"} \/ (next.pc = "claim" /\ next.age = 0)
  BY DEF GatewayInv, GatewayTypes, WorkerType, Idle
<1>4. 0 <= Slack
  BY GatewayAssumption
<1> HIDE DEF next
<1> QED
  BY <1>1, <1>2, <1>3, <1>4, WorkerMoves DEF Limited

\* The condition of the update: nobody holds a job that can be claimed, and the
\* lease it sets covers the limit and the slack.
LEMMA Claimed ==
  ASSUME GatewayInv, NEW w \in Worker, Claim(w) PROVE GatewayInv'
<1> DEFINE won == [worker[w] EXCEPT !.pc = "check", !.left = LimitTicks]
<1>0. worker[w] \in WorkerType /\ worker[w].age \in Nat /\ worker[w].age <= Slack /\ lease \in Int
  BY DEF GatewayInv, GatewayTypes, WorkerType, Claim
<1>1. CASE ~Claimable(w)
  <2>1. Idle \in WorkerType /\ Idle.pc = "idle"
    BY DEF Idle, WorkerType
  <2> QED
    BY <1>1, <2>1, WorkerMoves DEF Claim, Limited
<1>2. CASE Claimable(w)
  <2>1. ASSUME NEW v \in Worker, Holds(v) PROVE FALSE
    <3>1. worker[v].age \in Nat /\ worker[v].left \in Nat
      BY DEF GatewayInv, GatewayTypes, WorkerType
    <3>2. status = "running" /\ lease >= 0
      BY <1>0, <2>1, <3>1, GatewayAssumption DEF GatewayInv, Covered
    <3> QED
      BY <1>0, <1>2, <3>2 DEF Claimable
  <2>2. won \in WorkerType /\ won.pc = "check" /\ won.left = LimitTicks /\ won.age = worker[w].age
    BY <1>0, GatewayAssumption DEF WorkerType, Limited
  <2>3. /\ worker' = [worker EXCEPT ![w] = won]
        /\ status' = "running" /\ lease' = LeaseTicks - worker[w].age
    BY <1>2 DEF Claim, GatewayInv, GatewayTypes
  <2>4. GatewayTypes'
    BY <1>0, <2>2, <2>3, GatewayAssumption DEF GatewayInv, GatewayTypes
  <2>5. \A v \in Worker : worker'[v] = IF v = w THEN won ELSE worker[v]
    BY <2>3 DEF GatewayInv, GatewayTypes
  <2> HIDE DEF won
  <2>6. \A v \in Worker : Holds(v)' => v = w
    BY <2>1, <2>5 DEF Holds
  <2>7. Covered(w)'
    BY <1>0, <2>2, <2>3, <2>5, GatewayAssumption DEF Covered, Limited
  <2>8. \A v \in Worker : worker'[v].pc = "claim" => worker'[v].age <= Slack
    BY <2>2, <2>5 DEF GatewayInv
  <2> QED
    BY <2>4, <2>6, <2>7, <2>8 DEF GatewayInv, OneHolder, Covered
<1> QED
  BY <1>1, <1>2

\* The steps between the claim and the finish.
LEMMA Worked ==
  ASSUME GatewayInv, NEW w \in Worker,
         Abort(w) \/ ClaimNamespace(w) \/ BeginApply(w) \/ EndApply(w) \/ waitGatewayController(w)
  PROVE  GatewayInv'
<1>1. worker[w] \in WorkerType /\ worker[w].pc \in Limited /\ UNCHANGED <<status, lease>>
  BY DEF Abort, ClaimNamespace, BeginApply, EndApply, Applying, waitGatewayController, GatewayInv,
     GatewayTypes, Limited
<1>2. PICK pc \in Limited \cup {"finish"}, result \in {""} \cup Settled :
        worker' = [worker EXCEPT ![w] = [worker[w] EXCEPT !.pc = pc, !.result = result]]
  <2>1. worker[w].result \in {""} \cup Settled
    BY <1>1 DEF WorkerType
  <2>2. ASSUME NEW pc \in Limited, worker' = [worker EXCEPT ![w].pc = pc]
        PROVE  worker' = [worker EXCEPT ![w] = [worker[w] EXCEPT !.pc = pc, !.result = worker[w].result]]
    <3>1. [worker[w] EXCEPT !.pc = pc, !.result = worker[w].result] = [worker[w] EXCEPT !.pc = pc]
      BY <1>1 DEF WorkerType
    <3> QED
      BY <2>2, <3>1 DEF GatewayInv, GatewayTypes
  <2>3. ASSUME NEW result \in Settled, EndWith(w, result)
        PROVE  worker' = [worker EXCEPT ![w] = [worker[w] EXCEPT !.pc = "finish", !.result = result]]
    BY <2>3 DEF EndWith, GatewayInv, GatewayTypes
  <2>4. \/ \E pc \in Limited : worker' = [worker EXCEPT ![w].pc = pc]
        \/ \E result \in Settled : EndWith(w, result)
    BY DEF Abort, ClaimNamespace, BeginApply, EndApply, waitGatewayController, Limited, Settled
  <2>5. CASE \E pc \in Limited : worker' = [worker EXCEPT ![w].pc = pc]
    <3>1. PICK pc \in Limited : worker' = [worker EXCEPT ![w].pc = pc]
      BY <2>5
    <3>2. worker' = [worker EXCEPT ![w] = [worker[w] EXCEPT !.pc = pc, !.result = worker[w].result]]
      BY <2>2, <3>1
    <3> QED
      BY <2>1, <3>2
  <2>6. CASE \E result \in Settled : EndWith(w, result)
    BY <2>3, <2>6
  <2> QED
    BY <2>4, <2>5, <2>6
<1> DEFINE next == [worker[w] EXCEPT !.pc = pc, !.result = result]
<1>3. next \in WorkerType /\ next.age = worker[w].age /\ next.left = worker[w].left /\ next.pc = pc
  BY <1>1 DEF WorkerType
<1>4. worker' = [worker EXCEPT ![w] = next]
  BY <1>2
<1> HIDE DEF next
<1> QED
  BY <1>1, <1>3, <1>4, WorkerMoves DEF Holds, Limited

LEMMA Finished ==
  ASSUME GatewayInv, NEW w \in Worker, finish(w) PROVE GatewayInv'
<1>1. \A v \in Worker \ {w} : ~Holds(v)
  BY DEF GatewayInv, OneHolder, Holds, finish
<1>2. Idle \in WorkerType /\ Idle.pc = "idle"
  BY DEF Idle, WorkerType
<1>3. worker' = [worker EXCEPT ![w] = Idle] /\ lease' \in Int
  BY DEF finish, GatewayInv, GatewayTypes
<1> QED
  BY <1>1, <1>2, <1>3, NobodyHolds

\* Time takes as much from the lease as from the holder.
LEMMA Ticked ==
  ASSUME GatewayInv, Tick PROVE GatewayInv'
<1>0. Slack \in Nat /\ lease \in Int /\ lease' \in Int
  BY GatewayAssumption DEF Tick, GatewayInv, GatewayTypes
<1>1. ASSUME NEW w \in Worker
      PROVE  /\ worker'[w] \in WorkerType /\ worker'[w].pc = worker[w].pc
             /\ Covered(w)'
             /\ worker'[w].pc = "claim" => worker'[w].age <= Slack
  <2>1. worker[w] \in WorkerType /\ Prompt(w)
    BY DEF GatewayInv, GatewayTypes, Tick
  <2>2. worker[w].age \in Nat /\ worker[w].left \in Nat
    BY <2>1 DEF WorkerType
  <2>3. CASE worker[w].pc \in {"claim", "finish"}
    <3>1. worker'[w] = [worker[w] EXCEPT !.age = @ + 1] /\ worker[w].age < Slack
      BY <2>1, <2>3 DEF Tick, Prompt
    <3>0. worker[w].age + 1 \in Nat
      BY <2>2
    <3>2. /\ worker'[w] \in WorkerType /\ worker'[w].pc = worker[w].pc
          /\ worker'[w].age = worker[w].age + 1 /\ worker'[w].left = worker[w].left
      BY <2>1, <3>0, <3>1, Zenon DEF WorkerType
    <3>3. Covered(w)'
      <4>1. CASE worker[w].pc = "claim"
        BY <4>1, <3>2 DEF Covered, Holds, Limited
      <4>2. CASE worker[w].pc = "finish"
        <5>1. status = "running" /\ lease >= Slack - worker[w].age
          BY <4>2, <1>0, <2>2 DEF GatewayInv, Covered, Holds
        <5>2. lease' = lease - 1 /\ status' = status
          BY <1>0, <2>2, <3>1, <5>1 DEF Tick
        <5>3. lease' >= Slack - worker'[w].age /\ worker'[w].age <= Slack
          BY <1>0, <2>2, <3>1, <3>2, <5>1, <5>2
        <5> QED
          BY <4>2, <1>0, <2>2, <3>2, <5>1, <5>2, <5>3 DEF Covered
      <4> QED
        BY <2>3, <4>1, <4>2
    <3> QED
      BY <2>2, <3>1, <3>2, <3>3, <1>0
  <2>4. CASE worker[w].pc \in Limited
    <3>1. worker'[w] = [worker[w] EXCEPT !.left = @ - 1] /\ worker[w].left > 0
      BY <2>1, <2>4 DEF Tick, Prompt, Limited
    <3>0. worker[w].left - 1 \in Nat
      BY <2>2, <3>1
    <3>2. /\ worker'[w] \in WorkerType /\ worker'[w].pc = worker[w].pc
          /\ worker'[w].age = worker[w].age /\ worker'[w].left = worker[w].left - 1
      BY <2>1, <3>0, <3>1, Zenon DEF WorkerType
    <3>3. status = "running" /\ worker[w].age <= Slack /\ lease >= worker[w].left + Slack - worker[w].age
      BY <2>4, <1>0, <2>2 DEF GatewayInv, Covered, Holds, Limited
    <3>4. lease' = lease - 1 /\ status' = status
      BY <1>0, <2>2, <3>1, <3>3 DEF Tick
    <3>5. lease' >= worker'[w].left + Slack - worker'[w].age
      BY <1>0, <2>2, <3>1, <3>2, <3>3, <3>4
    <3> QED
      BY <2>4, <3>2, <3>3, <3>4, <3>5 DEF Covered, Limited
  <2>5. CASE worker[w].pc \notin {"claim", "finish"} \cup Limited
    <3>1. worker'[w] = worker[w]
      BY <2>5 DEF Tick, Limited
    <3> QED
      BY <2>1, <2>5, <3>1 DEF Covered, Holds
  <2> QED
    BY <2>3, <2>4, <2>5
<1>2. worker' \in [Worker -> WorkerType]
  <2>1. DOMAIN worker' = Worker /\ worker' = [w \in Worker |-> worker'[w]]
    BY DEF Tick
  <2> QED
    BY <1>1, <2>1
<1>3. OneHolder'
  BY <1>1 DEF GatewayInv, OneHolder, Holds
<1> QED
  BY <1>0, <1>1, <1>2, <1>3 DEF GatewayInv, GatewayTypes

LEMMA GatewayKept == GatewayInv /\ [GatewayNext]_gatewayVars => GatewayInv'
<1> SUFFICES ASSUME GatewayInv, [GatewayNext]_gatewayVars PROVE GatewayInv'
  OBVIOUS
<1>1. ASSUME NEW w \in Worker, \/ InstallGatewayAPI(w) \/ StartGatewayInstallWorker(w)
                               \/ WorkerStep(w) \/ WorkerDies(w)
      PROVE  GatewayInv'
  BY <1>1, Installed, Started, Claimed, Worked, Finished DEF WorkerStep
<1>2. CASE GetGatewayInstallJob
  <2>1. \A w \in Worker : ~Holds(w)
    BY <1>2 DEF GatewayInv, Covered, GetGatewayInstallJob
  <2> QED
    BY <1>2, <2>1 DEF GetGatewayInstallJob, GatewayInv, GatewayTypes, Covered, Holds, OneHolder
<1>3. CASE OtherInstaller \/ UNCHANGED gatewayVars
  BY <1>3 DEF OtherInstaller, gatewayVars, GatewayInv, GatewayTypes, Covered, Holds, OneHolder
<1> QED
  BY <1>1, <1>2, <1>3, Ticked DEF GatewayNext

\* Workers of any replicas may be taken for dead and replaced, and yet no two apply
\* the manifests at the same time: the conditional claim, and a limit that ends
\* before the lease, keep the job in one worker's hands.
THEOREM ApplierAlone == Spec => []OneApplier
<1>1. Init => GatewayInv
  <2> SUFFICES ASSUME GatewayInit PROVE GatewayInv
    BY DEF Init
  <2>1. Idle \in WorkerType /\ Idle.pc = "idle"
    BY DEF Idle, WorkerType
  <2>2. \A w \in Worker : worker[w].pc = "idle"
    BY <2>1 DEF GatewayInit
  <2>3. GatewayTypes
    BY <2>1 DEF GatewayInit, GatewayTypes
  <2> QED
    BY <2>2, <2>3 DEF GatewayInv, Covered, Holds, OneHolder, Limited
<1>2. GatewayInv /\ [Next]_vars => GatewayInv'
  BY GatewayKept, Parts
<1>3. GatewayInv => OneApplier
  BY DEF GatewayInv, OneHolder, Holds, OneApplier, Applying, Limited
<1> QED
  BY <1>1, <1>2, <1>3, PTL DEF Spec

-----------------------------------------------------------------------------
(* The pods of node shells.  A stream runs in a running pod.  Since the    *)
(* note of its use was written no more time has passed for the pod than    *)
(* for the stream: a pod made in between is younger still.                 *)

ShellType ==
  [pc : {"idle", "create", "note", "await", "replace", "exec", "stream"}, ticks : Nat, noted : BOOLEAN]
PodType == [phase : {"absent", "pending", "running", "failed"}, going : BOOLEAN, age : Nat]

ShellPodTypes == pod \in PodType /\ shell \in [Shell -> ShellType]

\* The note of use is at least as young as the stream that wrote it.
Fresh(s) ==
  /\ shell[s].pc = "exec" => shell[s].ticks = 0 /\ (shell[s].noted => pod.age = 0)
  /\ shell[s].pc = "stream" =>
       pod.phase = "running" /\ shell[s].ticks <= SessionTicks /\ (shell[s].noted => pod.age <= shell[s].ticks)

ShellPodInv ==
  /\ ShellPodTypes
  /\ pod.phase = "absent" => pod.age = 0
  /\ \A s \in Shell : Fresh(s)
  /\ ShellKept

\* What a deletion leaves: a pod with the same streams, or none where none was running.
LEMMA DeletedPod ==
  ASSUME ShellPodInv
  PROVE  /\ Deleted \in PodType
         /\ Deleted.phase = "absent" => Deleted.age = 0
         /\ pod.phase = "running" => Deleted.phase = "running"
         /\ Deleted.age \in {0, pod.age}
<1>1. pod \in PodType /\ pod.age \in Nat /\ (pod.phase = "absent" => pod.age = 0)
  BY DEF ShellPodInv, ShellPodTypes, PodType
<1>2. CASE pod.phase \in {"absent", "failed"}
  <2>1. Deleted = NoPod /\ pod.phase # "running"
    BY <1>2 DEF Deleted
  <2>2. NoPod \in PodType /\ NoPod.age = 0
    BY DEF NoPod, PodType
  <2> QED
    BY <2>1, <2>2
<1>3. CASE pod.phase \notin {"absent", "failed"}
  <2>1. Deleted = [pod EXCEPT !.going = TRUE]
    BY <1>3 DEF Deleted
  <2>2. Deleted \in PodType /\ Deleted.phase = pod.phase /\ Deleted.age = pod.age
    BY <1>1, <2>1 DEF PodType
  <2> QED
    BY <1>1, <2>2
<1> QED
  BY <1>2, <1>3

\* A step that only changes the pod, and makes it no older.
LEMMA PodChanges ==
  ASSUME ShellPodInv, UNCHANGED shell, pod' \in PodType, pod'.age \in {0, pod.age},
         pod'.phase = "absent" => pod'.age = 0, pod.phase = "running" => pod'.phase = "running",
         ShellKept'
  PROVE  ShellPodInv'
<1>1. ASSUME NEW s \in Shell PROVE Fresh(s)'
  <2>1. shell[s].ticks \in Nat
    BY DEF ShellPodInv, ShellPodTypes, ShellType
  <2> QED
    BY <2>1 DEF ShellPodInv, Fresh
<1> QED
  BY <1>1 DEF ShellPodInv, ShellPodTypes

\* A step that moves one shell to a place before its note and makes the pod no older.
LEMMA ShellMoves ==
  ASSUME ShellPodInv, NEW s \in Shell,
         NEW pc \in {"idle", "create", "note", "await", "replace"}, Goto(s, pc),
         pod' \in PodType, pod'.age \in {0, pod.age}, pod'.phase = "absent" => pod'.age = 0,
         pod.phase = "running" => pod'.phase = "running", UNCHANGED doomed, listed' \subseteq listed
  PROVE  ShellPodInv'
<1>1. [NoShell EXCEPT !.pc = pc] \in ShellType /\ [NoShell EXCEPT !.pc = pc].pc = pc
  BY DEF NoShell, ShellType
<1>2. \A t \in Shell : shell'[t] = IF t = s THEN [NoShell EXCEPT !.pc = pc] ELSE shell[t]
  BY DEF Goto, ShellPodInv, ShellPodTypes
<1>3. ShellPodTypes'
  BY <1>1 DEF Goto, ShellPodInv, ShellPodTypes
<1>4. ASSUME NEW t \in Shell PROVE Fresh(t)'
  <2>1. CASE t = s
    BY <1>1, <1>2, <2>1 DEF Fresh
  <2>2. CASE t # s
    <3>1. shell'[t] = shell[t] /\ shell[t].ticks \in Nat /\ Fresh(t)
      BY <1>2, <2>2 DEF ShellPodInv, ShellPodTypes, ShellType
    <3> QED
      BY <3>1 DEF Fresh
  <2> QED
    BY <2>1, <2>2
<1> QED
  BY <1>3, <1>4 DEF ShellPodInv, ShellKept

LEMMA Found ==
  ASSUME ShellPodInv, NEW s \in Shell, FindPod(s) PROVE ShellPodInv'
<1>1. pod \in PodType /\ (pod.phase = "absent" => pod.age = 0)
  BY DEF ShellPodInv, ShellPodTypes
<1>2. \E pc \in {"create", "note", "await", "replace"} : Goto(s, pc)
  <2>1. pod.phase \in {"absent", "pending", "running", "failed"}
    BY <1>1 DEF PodType
  <2> QED
    BY <2>1 DEF FindPod
<1> QED
  BY <1>1, <1>2, ShellMoves DEF FindPod

LEMMA Prepared ==
  ASSUME ShellPodInv, NEW s \in Shell, ReplacePod(s) \/ CreatePod(s) \/ AwaitPod(s) PROVE ShellPodInv'
<1>0. pod \in PodType /\ (pod.phase = "absent" => pod.age = 0)
  BY DEF ShellPodInv, ShellPodTypes
<1>1. CASE ReplacePod(s)
  BY <1>1, DeletedPod, ShellMoves DEF ReplacePod
<1>2. CASE CreatePod(s)
  <2>1. CASE pod.phase = "absent"
    <3>1. /\ [NoPod EXCEPT !.phase = "pending"] \in PodType
          /\ [NoPod EXCEPT !.phase = "pending"].age = 0
          /\ [NoPod EXCEPT !.phase = "pending"].phase = "pending"
      BY DEF NoPod, PodType
    <3> QED
      BY <1>2, <2>1, <3>1, ShellMoves DEF CreatePod
  <2>2. CASE pod.phase # "absent"
    BY <1>0, <1>2, <2>2, ShellMoves DEF CreatePod
  <2> QED
    BY <2>1, <2>2
<1>3. CASE AwaitPod(s)
  <2>1. CASE pod.phase = "running" /\ Goto(s, "note") /\ UNCHANGED pod
    BY <1>0, <1>3, <2>1, ShellMoves DEF AwaitPod
  <2>2. CASE pod.phase = "failed" /\ Goto(s, "idle") /\ pod' = Deleted
    BY <1>3, <2>2, DeletedPod, ShellMoves DEF AwaitPod
  <2>3. CASE pod.phase # "running" /\ Goto(s, "idle") /\ UNCHANGED pod
    BY <1>0, <1>3, <2>3, ShellMoves DEF AwaitPod
  <2> QED
    BY <1>3, <2>1, <2>2, <2>3 DEF AwaitPod
<1> QED
  BY <1>1, <1>2, <1>3

\* updateLastUsed makes the note new; a failed call leaves it as it was, and the
\* shell then counts on nothing.
LEMMA Noted ==
  ASSUME ShellPodInv, NEW s \in Shell, NEW written \in BOOLEAN, updateLastUsed(s, written)
  PROVE  ShellPodInv'
<1> DEFINE next == [pc |-> "exec", ticks |-> 0, noted |-> written]
<1>0. pod \in PodType /\ (pod.phase = "absent" => pod.age = 0)
  BY DEF ShellPodInv, ShellPodTypes
<1>1. pod' \in PodType /\ pod'.phase = pod.phase /\ pod'.age = IF written THEN 0 ELSE pod.age
  <2>1. CASE written
    BY <1>0, <2>1 DEF updateLastUsed, PodType
  <2>2. CASE ~written
    BY <1>0, <2>2 DEF updateLastUsed
  <2> QED
    BY <2>1, <2>2
<1>2. next \in ShellType
  BY DEF ShellType
<1>3. \A t \in Shell : shell'[t] = IF t = s THEN next ELSE shell[t]
  BY DEF updateLastUsed, ShellPodInv, ShellPodTypes
<1>4. ShellPodTypes'
  BY <1>1, <1>2 DEF updateLastUsed, ShellPodInv, ShellPodTypes
<1>5. ASSUME NEW t \in Shell PROVE Fresh(t)'
  <2>1. CASE t = s
    BY <1>1, <1>3, <2>1 DEF Fresh
  <2>2. CASE t # s
    <3>1. shell'[t] = shell[t] /\ shell[t].ticks \in Nat /\ Fresh(t)
      BY <1>3, <2>2 DEF ShellPodInv, ShellPodTypes, ShellType
    <3> QED
      BY <1>1, <3>1 DEF Fresh
  <2> QED
    BY <2>1, <2>2
<1> QED
  BY <1>0, <1>1, <1>4, <1>5 DEF ShellPodInv, ShellKept, updateLastUsed

LEMMA Executing ==
  ASSUME ShellPodInv, NEW s \in Shell, ExecShell(s) PROVE ShellPodInv'
<1>0. pod \in PodType /\ (pod.phase = "absent" => pod.age = 0) /\ UNCHANGED <<pod, doomed, listed>>
  BY DEF ShellPodInv, ShellPodTypes, ExecShell
<1>1. CASE pod.phase = "running"
  <2> DEFINE next == [shell[s] EXCEPT !.pc = "stream"]
  <2>1. shell[s] \in ShellType /\ shell[s].pc = "exec" /\ Fresh(s)
    BY DEF ShellPodInv, ShellPodTypes, ExecShell
  <2>2. next \in ShellType /\ next.pc = "stream" /\ next.ticks = shell[s].ticks /\ next.noted = shell[s].noted
    BY <2>1 DEF ShellType
  <2>3. shell' = [shell EXCEPT ![s] = next]
    BY <1>1 DEF ExecShell, ShellPodInv, ShellPodTypes
  <2>4. \A t \in Shell : shell'[t] = IF t = s THEN next ELSE shell[t]
    BY <2>3 DEF ShellPodInv, ShellPodTypes
  <2>5. ShellPodTypes'
    BY <1>0, <2>2, <2>3 DEF ShellPodInv, ShellPodTypes
  <2> HIDE DEF next
  <2>6. Fresh(s)'
    BY <1>0, <1>1, <2>1, <2>2, <2>4, ShellPodAssumption DEF Fresh
  <2>7. \A t \in Shell \ {s} : Fresh(t)'
    BY <1>0, <2>4 DEF ShellPodInv, Fresh
  <2> QED
    BY <1>0, <2>5, <2>6, <2>7 DEF ShellPodInv, ShellKept
<1>2. CASE pod.phase # "running"
  BY <1>0, <1>2, ShellMoves DEF ExecShell
<1> QED
  BY <1>1, <1>2

\* The note of a stream that wrote it is younger than the age the cleanup looks for.
LEMMA Listed ==
  ASSUME ShellPodInv, ListIdlePods PROVE ShellPodInv'
<1>1. ASSUME NEW s \in Shell, Streaming(s), shell[s].noted PROVE FALSE
  <2>1. shell[s].ticks \in Nat /\ pod.age \in Nat
    BY DEF ShellPodInv, ShellPodTypes, ShellType, PodType
  <2>2. pod.age <= shell[s].ticks /\ shell[s].ticks <= SessionTicks
    BY <1>1 DEF ShellPodInv, Fresh, Streaming
  <2> QED
    BY <2>1, <2>2, ShellPodAssumption DEF ListIdlePods
<1>2. listed' = {}
  BY <1>1 DEF ListIdlePods
<1> QED
  BY <1>2 DEF ListIdlePods, ShellPodInv, ShellPodTypes, Fresh, ShellKept

LEMMA CleanedUp ==
  ASSUME ShellPodInv, DeleteIdlePod PROVE ShellPodInv'
  BY DeletedPod, PodChanges DEF DeleteIdlePod, ShellKept

\* The kubelet ends the streams of a pod that stops running.
LEMMA KubeletActs ==
  ASSUME ShellPodInv, Kubelet PROVE ShellPodInv'
<1>0. pod \in PodType /\ (pod.phase = "absent" => pod.age = 0)
  BY DEF ShellPodInv, ShellPodTypes
<1>1. /\ pod' \in PodType /\ pod'.age \in {0, pod.age} /\ (pod'.phase = "absent" => pod'.age = 0)
      /\ pod.phase # "absent" \/ pod' = NoPod
  <2>1. CASE pod.phase = "pending" /\ pod' \in {[pod EXCEPT !.phase = p] : p \in {"running", "failed"}}
    BY <1>0, <2>1 DEF PodType
  <2>2. CASE pod.phase = "running" /\ pod' = [pod EXCEPT !.phase = "failed"]
    BY <1>0, <2>2 DEF PodType
  <2>3. CASE pod.going /\ pod' = NoPod
    BY <2>3 DEF PodType, NoPod
  <2> QED
    BY <2>1, <2>2, <2>3 DEF Kubelet
<1>2. ASSUME NEW s \in Shell
      PROVE  shell'[s] \in ShellType /\ Fresh(s)'
  <2>1. shell[s] \in ShellType /\ Fresh(s)
    BY DEF ShellPodInv, ShellPodTypes
  <2>2. NoShell \in ShellType /\ NoShell.pc = "idle"
    BY DEF NoShell, ShellType
  <2>3. CASE Streaming(s)
    <3>1. shell'[s] = NoShell
      BY <2>1, <2>3 DEF Kubelet, Streaming, Fresh
    <3> QED
      BY <2>2, <3>1 DEF Fresh
  <2>4. CASE ~Streaming(s)
    <3>1. shell'[s] = shell[s]
      BY <2>4 DEF Kubelet
    <3> QED
      BY <1>1, <2>1, <2>4, <3>1 DEF Fresh, Streaming
  <2> QED
    BY <2>3, <2>4
<1>3. shell' \in [Shell -> ShellType]
  <2>1. shell' = [s \in Shell |-> shell'[s]]
    BY DEF Kubelet
  <2> QED
    BY <1>2, <2>1
<1> QED
  BY <1>1, <1>2, <1>3 DEF ShellPodInv, ShellPodTypes, ShellKept, Kubelet

\* The pod and its streams get older together.
LEMMA Aged ==
  ASSUME ShellPodInv, ShellTick PROVE ShellPodInv'
<1>0. pod \in PodType /\ pod.age \in Nat /\ (pod.phase = "absent" => pod.age = 0)
  BY DEF ShellPodInv, ShellPodTypes, PodType
<1>1. pod'.phase = pod.phase /\ pod' \in PodType /\ pod'.age \in {pod.age, pod.age + 1}
      /\ (pod.phase = "absent" => pod'.age = 0)
  <2> DEFINE older == IF pod.phase = "absent" \/ pod.age > IdleTicks THEN pod.age ELSE pod.age + 1
  <2>1. older \in Nat /\ older \in {pod.age, pod.age + 1} /\ (pod.phase = "absent" => older = 0)
    BY <1>0
  <2>2. pod' = [pod EXCEPT !.age = older]
    BY DEF ShellTick
  <2> HIDE DEF older
  <2>3. pod'.phase = pod.phase /\ pod'.age = older /\ pod' \in PodType
    BY <1>0, <2>1, <2>2 DEF PodType
  <2> QED
    BY <2>1, <2>3
<1>2. ASSUME NEW s \in Shell PROVE shell'[s] \in ShellType /\ Fresh(s)'
  <2>1. shell[s] \in ShellType /\ Fresh(s) /\ shell[s].ticks \in Nat
    BY DEF ShellPodInv, ShellPodTypes, ShellType
  <2>2. CASE Streaming(s)
    <3>0. shell[s].ticks + 1 \in Nat
      BY <2>1
    <3>1. shell'[s] = [shell[s] EXCEPT !.ticks = @ + 1] /\ shell[s].ticks < SessionTicks
      BY <2>2 DEF ShellTick, Streaming
    <3>2. /\ shell'[s] \in ShellType /\ shell'[s].pc = "stream" /\ shell'[s].noted = shell[s].noted
          /\ shell'[s].ticks = shell[s].ticks + 1
      BY <2>1, <2>2, <3>0, <3>1 DEF ShellType, Streaming
    <3>3. pod.phase = "running" /\ (shell[s].noted => pod.age <= shell[s].ticks)
      BY <2>1, <2>2 DEF Fresh, Streaming
    <3>4. shell'[s].ticks <= SessionTicks
      BY <2>1, <3>1, <3>2, ShellPodAssumption
    <3>5. shell[s].noted => pod'.age <= shell'[s].ticks
      BY <1>0, <1>1, <2>1, <3>2, <3>3
    <3> QED
      BY <1>1, <3>2, <3>3, <3>4, <3>5 DEF Fresh
  <2>3. CASE ~Streaming(s)
    BY <2>1, <2>3 DEF ShellTick, Fresh, Streaming
  <2> QED
    BY <2>2, <2>3
<1>3. shell' \in [Shell -> ShellType]
  <2>1. shell' = [s \in Shell |-> shell'[s]]
    BY DEF ShellTick
  <2> QED
    BY <1>2, <2>1
<1> QED
  BY <1>1, <1>2, <1>3 DEF ShellPodInv, ShellPodTypes, ShellKept, ShellTick

LEMMA ShellPodStep == ShellPodInv /\ [ShellPodNext]_shellPodVars => ShellPodInv'
<1> SUFFICES ASSUME ShellPodInv, [ShellPodNext]_shellPodVars PROVE ShellPodInv'
  OBVIOUS
<1>1. ASSUME NEW s \in Shell, LeaveShell(s) PROVE ShellPodInv'
  <2>1. pod' \in PodType /\ pod' = pod /\ (pod.phase = "absent" => pod.age = 0)
    BY <1>1 DEF LeaveShell, ShellPodInv, ShellPodTypes
  <2> QED
    BY <1>1, <2>1, ShellMoves DEF LeaveShell
<1>2. CASE UNCHANGED shellPodVars
  BY <1>2 DEF shellPodVars, ShellPodInv, ShellPodTypes, Fresh, ShellKept
<1> QED
  BY <1>1, <1>2, Found, Prepared, Noted, Executing, Listed, CleanedUp, KubeletActs, Aged DEF ShellPodNext

\* The cleanup lists no pod under a stream whose note of use was written, whatever
\* other shells, kubelet and failed calls do to the pod they share.
THEOREM ShellsKept == Spec => []ShellKept
<1>1. Init => ShellPodInv
  <2> SUFFICES ASSUME ShellPodInit PROVE ShellPodInv
    BY DEF Init
  <2>1. NoShell \in ShellType /\ NoShell.pc = "idle" /\ NoPod \in PodType /\ NoPod.age = 0
    BY DEF NoShell, ShellType, NoPod, PodType
  <2> QED
    BY <2>1 DEF ShellPodInit, ShellPodInv, ShellPodTypes, Fresh, ShellKept
<1>2. ShellPodInv /\ [Next]_vars => ShellPodInv'
  BY ShellPodStep, Parts
<1>3. ShellPodInv => ShellKept
  BY DEF ShellPodInv
<1> QED
  BY <1>1, <1>2, <1>3, PTL DEF Spec

-----------------------------------------------------------------------------
(* Inspections.  The goroutine's copy holds a status for each object of    *)
(* its list, "fail" for a broken one; a report is running as long as its   *)
(* goroutine does, so neither its deletion nor a second run can come       *)
(* between the results and the report.                                     *)

Statuses == {"pass", "warn", "fail"}
ListFailed == [kind |-> "error"]
AnyObject == Node \cup Pod \cup Deployment \cup Service \cup {ListFailed}

InspectionTypes ==
  /\ report \in [ReportId -> {"absent", "running", "failed", "completed"}]
  /\ inspecting \in [ReportId -> {"none", "started", "checked", "saved", "unsaved"}]
  /\ cluster \in [ReportId -> Seq(AnyObject)]
  /\ outcome \in [ReportId -> Seq(Statuses)]
  /\ results \in [ReportId -> Seq(Statuses)]

\* What the goroutine found agrees with what the list has answered.
FoundIn(list, found) ==
  /\ Len(found) = Len(list)
  /\ \A i \in 1..Len(list) : found[i] # "fail" => Sound(list[i])

Reported(r) ==
  /\ FoundIn(cluster[r], outcome[r])
  /\ inspecting[r] # "none" => report[r] = "running"
  /\ inspecting[r] = "saved" => results[r] = outcome[r]
  /\ report[r] = "completed" => /\ results[r] = outcome[r]
                                /\ summarizeInspectionResults(outcome[r]) = "completed"
  /\ report[r] = "absent" => results[r] = <<>>

InspectionInv == InspectionTypes /\ \A r \in ReportId : Reported(r)

\* A check that does not fail an object has seen that it is not broken.
LEMMA CheckIsSound ==
  ASSUME NEW k \in Kinds, NEW object \in Objects(k)
  PROVE  Check(object) \in Statuses /\ (Check(object) # "fail" => Sound(object))
<1>1. CASE k = "node"
  <2>1. object \in Node
    BY <1>1 DEF Objects
  <2> QED
    BY <2>1 DEF Node, Check, checkNodes, Sound, Statuses
<1>2. CASE k = "pod"
  <2>1. object \in Pod
    BY <1>2 DEF Objects
  <2>2. object.kind = "pod" /\ Check(object) = checkPods(object)
    BY <2>1 DEF Pod, Check
  <2> QED
    BY <2>1, <2>2 DEF Pod, checkPods, Sound, Statuses
<1>3. CASE k = "deployment"
  <2>1. object \in Deployment
    BY <1>3 DEF Objects
  <2> QED
    BY <2>1 DEF Deployment, Check, checkDeployments, Sound, Statuses
<1>4. CASE k = "service"
  <2>1. object \in Service
    BY <1>4 DEF Objects
  <2> QED
    BY <2>1 DEF Service, Check, checkServices, Sound, Statuses
<1> QED
  BY <1>1, <1>2, <1>3, <1>4 DEF Kinds

\* A report that is completed has looked at something and found none of it broken.
LEMMA CompletedIsTrue ==
  ASSUME NEW list \in Seq(AnyObject), NEW found \in Seq(Statuses), FoundIn(list, found),
         summarizeInspectionResults(found) = "completed"
  PROVE  list # <<>> /\ \A i \in DOMAIN list : Sound(list[i])
<1>1. found # <<>> /\ \A i \in 1..Len(found) : found[i] # "fail"
  BY DEF summarizeInspectionResults, ToSet
<1>2. DOMAIN list = 1..Len(list)
  OBVIOUS
<1> QED
  BY <1>1, <1>2 DEF FoundIn

\* A step that changes the state of one report only.
LEMMA OneReport ==
  ASSUME InspectionInv, NEW r \in ReportId, InspectionTypes',
         \A q \in ReportId \ {r} : /\ report'[q] = report[q] /\ results'[q] = results[q]
                                   /\ inspecting'[q] = inspecting[q]
                                   /\ cluster'[q] = cluster[q] /\ outcome'[q] = outcome[q],
         Reported(r)'
  PROVE  InspectionInv'
  BY DEF InspectionInv, Reported

LEMMA Ran ==
  ASSUME InspectionInv, NEW r \in ReportId, RunInspection(r) \/ Refuse(r) PROVE InspectionInv'
<1>1. InspectionTypes'
  BY DEF InspectionInv, InspectionTypes, RunInspection, Refuse
<1>2. Reported(r)'
  BY DEF InspectionInv, InspectionTypes, Reported, RunInspection, Refuse
<1> QED
  BY <1>1, <1>2, OneReport DEF InspectionInv, InspectionTypes, RunInspection, Refuse

LEMMA Inspected ==
  ASSUME InspectionInv, NEW r \in ReportId, Inspect(r) PROVE InspectionInv'
<1>1. PICK list \in Seq(AnyObject), found \in Seq(Statuses) :
        /\ FoundIn(list, found)
        /\ cluster' = [cluster EXCEPT ![r] = list]
        /\ outcome' = [outcome EXCEPT ![r] = found]
  <2>1. PICK checked \in Rule :
        /\ ~inspectionRuleError(checked)
        /\ \/ \E n \in 0..MaxObjects : \E list \in [1..n -> Objects(checked.kind)] :
                /\ cluster' = [cluster EXCEPT ![r] = list]
                /\ outcome' = [outcome EXCEPT ![r] = [i \in 1..n |-> Check(list[i])]]
           \/ /\ cluster' = [cluster EXCEPT ![r] = <<ListFailed>>]
              /\ outcome' = [outcome EXCEPT ![r] = <<"fail">>]
    BY DEF Inspect, ListFailed
  <2>2. checked.kind \in Kinds
    BY <2>1 DEF inspectionRuleError
  <2>3. CASE \E n \in 0..MaxObjects : \E list \in [1..n -> Objects(checked.kind)] :
                /\ cluster' = [cluster EXCEPT ![r] = list]
                /\ outcome' = [outcome EXCEPT ![r] = [i \in 1..n |-> Check(list[i])]]
    <3>0. PICK n \in 0..MaxObjects : \E list \in [1..n -> Objects(checked.kind)] :
                /\ cluster' = [cluster EXCEPT ![r] = list]
                /\ outcome' = [outcome EXCEPT ![r] = [i \in 1..n |-> Check(list[i])]]
      BY <2>3
    <3>1. PICK list \in [1..n -> Objects(checked.kind)] :
                /\ cluster' = [cluster EXCEPT ![r] = list]
                /\ outcome' = [outcome EXCEPT ![r] = [i \in 1..n |-> Check(list[i])]]
      BY <3>0
    <3> DEFINE found == [i \in 1..n |-> Check(list[i])]
    <3>2. n \in Nat /\ Objects(checked.kind) \subseteq AnyObject
      BY <2>2, InspectionAssumption DEF Kinds, Objects, AnyObject
    <3>3. list \in Seq(AnyObject) /\ Len(list) = n
      BY <3>2
    <3>4. \A i \in 1..n : Check(list[i]) \in Statuses /\ (Check(list[i]) # "fail" => Sound(list[i]))
      BY <2>2, CheckIsSound
    <3>5. found \in Seq(Statuses) /\ Len(found) = n
      BY <3>2, <3>4
    <3>6. FoundIn(list, found)
      BY <3>3, <3>4, <3>5 DEF FoundIn
    <3> QED
      BY <3>1, <3>3, <3>5, <3>6
  <2>4. CASE /\ cluster' = [cluster EXCEPT ![r] = <<ListFailed>>]
             /\ outcome' = [outcome EXCEPT ![r] = <<"fail">>]
    <3>1. <<ListFailed>> \in Seq(AnyObject) /\ <<"fail">> \in Seq(Statuses)
      BY DEF AnyObject, Statuses
    <3>2. FoundIn(<<ListFailed>>, <<"fail">>)
      BY DEF FoundIn
    <3> QED
      BY <2>4, <3>1, <3>2
  <2> QED
    BY <2>1, <2>3, <2>4
<1>2. InspectionTypes'
  BY <1>1 DEF InspectionInv, InspectionTypes, Inspect
<1>3. Reported(r)'
  BY <1>1 DEF InspectionInv, InspectionTypes, Reported, Inspect
<1> QED
  BY <1>1, <1>2, <1>3, OneReport DEF InspectionInv, InspectionTypes, Inspect

LEMMA Saved ==
  ASSUME InspectionInv, NEW r \in ReportId,
         SaveReport(r) \/ \E stored \in BOOLEAN : SaveResults(r, stored)
  PROVE  InspectionInv'
<1>1. CASE SaveReport(r)
  <2>1. PICK s \in {"failed", "completed"} :
          /\ report' = [report EXCEPT ![r] = s]
          /\ s = "completed" => inspecting[r] = "saved" /\ summarizeInspectionResults(outcome[r]) = "completed"
    BY <1>1 DEF SaveReport, summarizeInspectionResults
  <2>2. InspectionTypes'
    BY <1>1, <2>1 DEF InspectionInv, InspectionTypes, SaveReport
  <2>3. Reported(r)'
    BY <1>1, <2>1 DEF InspectionInv, InspectionTypes, Reported, SaveReport
  <2> QED
    BY <1>1, <2>1, <2>2, <2>3, OneReport DEF InspectionInv, InspectionTypes, SaveReport
<1>2. ASSUME NEW stored \in BOOLEAN, SaveResults(r, stored) PROVE InspectionInv'
  <2>1. InspectionTypes'
    BY <1>2 DEF InspectionInv, InspectionTypes, SaveResults
  <2>2. Reported(r)'
    BY <1>2 DEF InspectionInv, InspectionTypes, Reported, SaveResults
  <2> QED
    BY <1>2, <2>1, <2>2, OneReport DEF InspectionInv, InspectionTypes, SaveResults
<1> QED
  BY <1>1, <1>2

LEMMA InspectionStep == InspectionInv /\ [InspectionNext]_inspectionVars => InspectionInv'
<1> SUFFICES ASSUME InspectionInv, [InspectionNext]_inspectionVars PROVE InspectionInv'
  OBVIOUS
<1>1. ASSUME NEW ids \in SUBSET ReportId, deleteReports(ids) PROVE InspectionInv'
  <2>1. InspectionTypes'
    BY <1>1 DEF InspectionInv, InspectionTypes, deleteReports
  <2>2. \A r \in ReportId : Reported(r)'
    BY <1>1 DEF InspectionInv, InspectionTypes, Reported, deleteReports
  <2> QED
    BY <2>1, <2>2 DEF InspectionInv
<1>2. CASE InspectionCrash \/ UNCHANGED inspectionVars
  BY <1>2 DEF InspectionCrash, inspectionVars, InspectionInv, InspectionTypes, Reported
<1> QED
  BY <1>1, <1>2, Ran, Inspected, Saved DEF InspectionNext, RunScheduledInspection

\* A report that says completed is true of the cluster it looked at and has all its
\* results on record, whatever checks, writes, deletions and crashes came between.
THEOREM ReportsTrue == Spec => []ReportIsTrue
<1>1. Init => InspectionInv
  <2> SUFFICES ASSUME InspectionInit PROVE InspectionInv
    BY DEF Init
  <2>1. <<>> \in Seq(AnyObject) /\ <<>> \in Seq(Statuses) /\ FoundIn(<<>>, <<>>)
    BY DEF FoundIn
  <2>2. InspectionTypes
    BY <2>1 DEF InspectionInit, InspectionTypes
  <2> QED
    BY <2>1, <2>2 DEF InspectionInit, InspectionInv, Reported
<1>2. InspectionInv /\ [Next]_vars => InspectionInv'
  BY InspectionStep, Parts
<1>3. InspectionInv => ReportIsTrue
  <2> SUFFICES ASSUME InspectionInv, NEW r \in ReportId
               PROVE  /\ report[r] = "completed" =>
                           /\ cluster[r] # <<>>
                           /\ \A i \in DOMAIN cluster[r] : Sound(cluster[r][i])
                           /\ Len(results[r]) = Len(cluster[r])
                      /\ report[r] = "absent" => results[r] = <<>>
    BY DEF ReportIsTrue
  <2>1. Reported(r) /\ cluster[r] \in Seq(AnyObject) /\ outcome[r] \in Seq(Statuses)
    BY DEF InspectionInv, InspectionTypes
  <2>2. FoundIn(cluster[r], outcome[r])
    BY <2>1 DEF Reported
  <2>3. Len(outcome[r]) = Len(cluster[r])
    BY <2>2 DEF FoundIn
  <2> QED
    BY <2>1, <2>2, <2>3, CompletedIsTrue DEF Reported
<1> QED
  BY <1>1, <1>2, <1>3, PTL DEF Spec

-----------------------------------------------------------------------------
(* The longest of the durations: a finite set of numbers that is not empty *)
(* has a greatest.  A least counterexample, by cardinality, would have a   *)
(* smaller one inside it.                                                  *)

LEMMA Least ==
  ASSUME NEW S \in SUBSET Nat, S # {}
  PROVE  \E n \in S : \A m \in S : n <= m
<1> DEFINE less == {p \in Nat \X Nat : p[1] < p[2]}
<1>1. IsWellFoundedOn(less, Nat)
  BY NatLessThanWellFounded DEF OpToRel
<1>2. PICK n \in S : \A m \in S : ~ (<<m, n>> \in less)
  BY <1>1, WFMin
<1>3. \A m \in S : ~ (m < n)
  BY <1>2
<1> QED
  BY <1>3

HasGreatest(S) == \E m \in S : \A n \in S : n <= m

LEMMA Greatest ==
  ASSUME NEW S \in SUBSET Nat, S # {}, IsFiniteSet(S) PROVE HasGreatest(S)
<1> DEFINE Bad(T) == T # {} /\ IsFiniteSet(T) /\ ~HasGreatest(T)
           sizes == {k \in Nat : \E T \in SUBSET Nat : Bad(T) /\ Cardinality(T) = k}
<1> SUFFICES ASSUME Bad(S) PROVE FALSE
  OBVIOUS
<1>1. sizes # {}
  BY FS_CardinalityType
<1>2. PICK k \in sizes : \A j \in sizes : k <= j
  BY <1>1, Least
<1>3. PICK T \in SUBSET Nat : Bad(T) /\ Cardinality(T) = k
  OBVIOUS
<1>4. PICK x \in T : TRUE
  BY <1>3
<1> DEFINE U == T \ {x}
<1>5. IsFiniteSet(U) /\ Cardinality(U) = k - 1
  BY <1>3, <1>4, FS_RemoveElement
<1>6. ~Bad(U)
  <2> SUFFICES ASSUME Bad(U) PROVE FALSE
    OBVIOUS
  <2>1. Cardinality(U) \in Nat
    BY <1>5, FS_CardinalityType
  <2>2. k - 1 \in sizes
    BY <1>5, <2>1
  <2> QED
    BY <1>2, <2>2
<1>7. HasGreatest(T)
  <2>1. CASE U = {}
    BY <1>4, <2>1 DEF HasGreatest
  <2>2. CASE U # {}
    <3>1. PICK m \in U : \A n \in U : n <= m
      BY <1>5, <1>6, <2>2 DEF HasGreatest
    <3>2. CASE m <= x
      BY <1>4, <3>1, <3>2 DEF HasGreatest
    <3>3. CASE x <= m
      BY <1>4, <3>1, <3>3 DEF HasGreatest
    <3> QED
      BY <3>2, <3>3
  <2> QED
    BY <2>1, <2>2
<1> QED
  BY <1>3, <1>7

LEMMA LongestDuration == Longest \in Durations /\ \A d \in Durations : d <= Longest
  BY Greatest, AlertingAssumption DEF HasGreatest, Longest

-----------------------------------------------------------------------------
(* Alerts.  The evaluator's entry for a resource is no older than the run  *)
(* of breaches that was really found, and last_alert, as the row or the    *)
(* loaded copy has it, is no older than the last alert unless its write    *)
(* was lost.                                                               *)

RuleType ==
  [present : BOOLEAN, enabled : BOOLEAN, condition : Conditions, duration : Durations,
   channels : SUBSET Channel, last : 0..Cooldown]

AlertTypes ==
  /\ rule \in RuleType /\ loaded \in RuleType
  /\ pending \in [Resource -> Int] /\ steady \in [Resource -> Int]
  /\ gap \in 0..Cooldown
  /\ unstamped \in BOOLEAN

NoOlderThanFound == \A r \in Resource : -1 <= pending[r] /\ pending[r] <= steady[r]
LastKnown ==
  \/ unstamped
  \/ rule.last <= gap /\ (evaluator = "loaded" => loaded.last <= gap)

AlertInv == AlertTypes /\ NoOlderThanFound /\ LastKnown

LEMMA NoRuleType == NoRule \in RuleType /\ NoRule.last = Cooldown
<1>1. (CHOOSE d \in Durations : TRUE) \in Durations
  BY AlertingAssumption
<1>2. Cooldown \in 0..Cooldown
  BY AlertingAssumption
<1> QED
  BY <1>1, <1>2 DEF NoRule, RuleType, Conditions

\* The handlers, the notifier and the evaluator's own comings and goings keep
\* last_alert.
LEMMA RuleEdited ==
  ASSUME AlertInv, UNCHANGED <<evaluator, loaded, pending, ghosts>>,
         rule' \in RuleType, rule'.last = rule.last
  PROVE  AlertInv'
  BY DEF AlertInv, AlertTypes, NoOlderThanFound, LastKnown, ghosts

LEMMA Administration ==
  ASSUME AlertInv,
         \/ CreateAlertRule \/ UpdateAlertRule \/ DeleteAlertRule \/ EditNotificationChannels
         \/ deleteAlertHistory \/ ReceiveAlertmanager
  PROVE  AlertInv' /\ UNCHANGED raised
<1>0. rule \in RuleType
  BY DEF AlertInv, AlertTypes
<1>1. UNCHANGED <<evaluator, loaded, pending, ghosts>>
  BY DEF CreateAlertRule, UpdateAlertRule, DeleteAlertRule, EditNotificationChannels,
     deleteAlertHistory, ReceiveAlertmanager
<1>2. CASE CreateAlertRule
  <2>1. PICK enabled \in BOOLEAN, d \in Durations, c \in Conditions, ids \in SUBSET Channel :
          rule' = [present |-> TRUE, enabled |-> enabled, condition |-> c, duration |-> d,
                   channels |-> ids, last |-> Cooldown]
    BY <1>2 DEF CreateAlertRule
  <2>2. rule.last = Cooldown /\ Cooldown \in 0..Cooldown
    BY <1>2, NoRuleType, AlertingAssumption DEF CreateAlertRule
  <2>3. rule' \in RuleType /\ rule'.last = rule.last
    BY <2>1, <2>2 DEF RuleType
  <2> QED
    BY <1>1, <2>3, RuleEdited DEF ghosts
<1>3. CASE UpdateAlertRule \/ DeleteAlertRule
  <2>1. rule' \in RuleType /\ rule'.last = rule.last
    <3>1. CASE \E enabled \in BOOLEAN : rule' = [rule EXCEPT !.enabled = enabled]
      BY <1>0, <3>1 DEF RuleType
    <3>2. CASE \E d \in Durations : rule' = [rule EXCEPT !.duration = d]
      BY <1>0, <3>2 DEF RuleType
    <3>3. CASE \E c \in Conditions : rule' = [rule EXCEPT !.condition = c]
      BY <1>0, <3>3 DEF RuleType
    <3>4. CASE rule' = [rule EXCEPT !.present = FALSE]
      BY <1>0, <3>4 DEF RuleType
    <3> QED
      BY <1>3, <3>1, <3>2, <3>3, <3>4 DEF UpdateAlertRule, DeleteAlertRule
  <2> QED
    BY <1>1, <2>1, RuleEdited DEF ghosts
<1>4. CASE EditNotificationChannels \/ deleteAlertHistory \/ ReceiveAlertmanager
  <2>1. rule' = rule
    BY <1>4 DEF EditNotificationChannels, deleteAlertHistory, ReceiveAlertmanager
  <2> QED
    BY <1>0, <1>1, <2>1, RuleEdited DEF ghosts
<1> QED
  BY <1>2, <1>3, <1>4

LEMMA Turned ==
  ASSUME AlertInv, StartEvaluator \/ StopEvaluator \/ LoadRules \/ markEval \/ AlertCrash
  PROVE  AlertInv' /\ raised' \in {raised, Nothing}
<1>1. CASE StartEvaluator \/ StopEvaluator
  BY <1>1 DEF StartEvaluator, StopEvaluator, AlertInv, AlertTypes, NoOlderThanFound, LastKnown, ghosts
<1>2. CASE LoadRules
  BY <1>2 DEF LoadRules, AlertInv, AlertTypes, NoOlderThanFound, LastKnown
<1>3. CASE markEval
  BY <1>3, NoRuleType DEF markEval, AlertInv, AlertTypes, NoOlderThanFound, LastKnown, ghosts
<1>4. CASE AlertCrash
  BY <1>4, NoRuleType DEF AlertCrash, AlertInv, AlertTypes, NoOlderThanFound, LastKnown, ghosts
<1> QED
  BY <1>1, <1>2, <1>3, <1>4

\* What an evaluation with these samples makes of the entries, and of the runs of
\* breaches.
LEMMA Evaluated ==
  ASSUME AlertInv, evaluateRule
  PROVE  /\ AlertInv'
         /\ \A r \in Resource : raised' = r /\ raised # r =>
              steady'[r] >= loaded.duration /\ (gap >= Cooldown \/ unstamped)
<1>0. loaded \in RuleType /\ rule \in RuleType /\ loaded.duration \in Nat /\ loaded.last \in 0..Cooldown
      /\ gap \in 0..Cooldown /\ Cooldown \in Nat /\ evaluator = "loaded"
  BY AlertingAssumption DEF AlertInv, AlertTypes, RuleType, evaluateRule
<1>1. PICK samples \in Samples :
        /\ pending' = Observed(samples)
        /\ steady' = [r \in Resource |-> IF r \notin Breaching(samples) THEN -1
                                         ELSE IF steady[r] = -1 THEN 0 ELSE steady[r]]
        /\ fire(Ripe(samples))
  BY DEF evaluateRule
<1>2. \A r \in Resource : pending[r] \in Int /\ steady[r] \in Int /\ -1 <= pending[r] /\ pending[r] <= steady[r]
  BY DEF AlertInv, AlertTypes, NoOlderThanFound
<1>3. pending' \in [Resource -> Int] /\ steady' \in [Resource -> Int]
  BY <1>1, <1>2 DEF Observed
<1>4. NoOlderThanFound'
  <2> SUFFICES ASSUME NEW r \in Resource PROVE -1 <= pending'[r] /\ pending'[r] <= steady'[r]
    BY DEF NoOlderThanFound
  <2>1. pending'[r] = IF r \in Breaching(samples)
                        THEN IF pending[r] = -1 /\ loaded.duration > 0 THEN 0 ELSE pending[r]
                        ELSE -1
    BY <1>1 DEF Observed
  <2>2. steady'[r] = IF r \notin Breaching(samples) THEN -1 ELSE IF steady[r] = -1 THEN 0 ELSE steady[r]
    BY <1>1
  <2> QED
    BY <1>2, <2>1, <2>2
<1>5. loaded' \in RuleType /\ evaluator' = "idle"
  BY NoRuleType DEF evaluateRule
<1>6. CASE UNCHANGED <<rule, history, raised, gap, unstamped>>
  BY <1>0, <1>3, <1>4, <1>5, <1>6 DEF AlertInv, AlertTypes, LastKnown
<1>7. CASE ~UNCHANGED <<rule, history, raised, gap, unstamped>>
  <2>1. PICK r \in Ripe(samples), stamped \in BOOLEAN :
          /\ raised' = r
          /\ rule' = IF stamped THEN [rule EXCEPT !.last = 0] ELSE rule
          /\ unstamped' = ~stamped
    BY <1>1, <1>7 DEF fire
  <2>2. loaded.last >= Cooldown /\ gap' = 0
    BY <1>1, <1>7 DEF fire
  <2>3. gap >= Cooldown \/ unstamped
    BY <1>0, <2>2 DEF AlertInv, LastKnown
  <2>4. r \in Resource /\ r \in Breaching(samples) /\ (loaded.duration = 0 \/ pending[r] >= loaded.duration)
    BY <2>1 DEF Ripe, Breaching
  <2>5. steady'[r] >= loaded.duration
    <3>1. steady'[r] = IF steady[r] = -1 THEN 0 ELSE steady[r]
      BY <1>1, <2>4
    <3> QED
      BY <1>0, <1>2, <2>4, <3>1
  <2>6. rule' \in RuleType /\ (stamped => rule'.last = 0) /\ gap' \in 0..Cooldown /\ unstamped' \in BOOLEAN
    <3>1. 0 \in 0..Cooldown
      BY <1>0
    <3>2. CASE stamped
      BY <1>0, <2>1, <2>2, <3>1, <3>2 DEF RuleType
    <3>3. CASE ~stamped
      BY <1>0, <2>1, <2>2, <3>1, <3>3
    <3> QED
      BY <3>2, <3>3
  <2>7. LastKnown'
    <3>1. CASE stamped
      BY <1>5, <2>2, <2>6, <3>1 DEF LastKnown
    <3>2. CASE ~stamped
      BY <2>1, <3>2 DEF LastKnown
    <3> QED
      BY <3>1, <3>2
  <2> QED
    BY <1>3, <1>4, <1>5, <2>1, <2>3, <2>5, <2>6, <2>7 DEF AlertInv, AlertTypes
<1> QED
  BY <1>6, <1>7

LEMMA NextInterval ==
  ASSUME AlertInv, AlertTick PROVE AlertInv'
<1>0. rule \in RuleType /\ rule.last \in 0..Cooldown /\ gap \in 0..Cooldown /\ Cooldown \in Nat
  BY AlertingAssumption DEF AlertInv, AlertTypes, RuleType
<1>1. Longest \in Nat
  BY LongestDuration, AlertingAssumption
<1>2. NoOlderThanFound' /\ pending' \in [Resource -> Int] /\ steady' \in [Resource -> Int]
  <2>1. ASSUME NEW r \in Resource
        PROVE  /\ pending'[r] \in Int /\ steady'[r] \in Int
               /\ -1 <= pending'[r] /\ pending'[r] <= steady'[r]
    <3>1. pending[r] \in Int /\ steady[r] \in Int /\ -1 <= pending[r] /\ pending[r] <= steady[r]
      BY DEF AlertInv, AlertTypes, NoOlderThanFound
    <3>2. pending'[r] = Older(pending[r], Longest) /\ steady'[r] = Older(steady[r], Longest)
      BY DEF AlertTick
    <3> QED
      BY <1>1, <3>1, <3>2 DEF Older
  <2>2. pending' = [r \in Resource |-> pending'[r]] /\ steady' = [r \in Resource |-> steady'[r]]
    BY DEF AlertTick
  <2> QED
    BY <2>1, <2>2 DEF NoOlderThanFound
<1>3. /\ rule' \in RuleType /\ gap' \in 0..Cooldown
      /\ rule'.last = Older(rule.last, Cooldown) /\ gap' = Older(gap, Cooldown)
  <2>1. Older(rule.last, Cooldown) \in 0..Cooldown /\ Older(gap, Cooldown) \in 0..Cooldown
    BY <1>0 DEF Older
  <2>2. rule' = [rule EXCEPT !.last = Older(rule.last, Cooldown)] /\ gap' = Older(gap, Cooldown)
    BY DEF AlertTick
  <2> QED
    BY <1>0, <2>1, <2>2 DEF RuleType
<1>4. rule.last <= gap => rule'.last <= gap'
  BY <1>0, <1>3 DEF Older
<1>5. LastKnown'
  BY <1>4 DEF AlertInv, LastKnown, AlertTick
<1> QED
  BY <1>2, <1>3, <1>5 DEF AlertInv, AlertTypes, AlertTick

\* An alert is raised only for a resource that every evaluation of the last duration
\* has found in breach, and a cooldown after the last one, whatever handlers, stops
\* and crashes do between the evaluations.
THEOREM AlertsJustified == Spec => AlertJustified
<1>1. Init => AlertInv
  <2> SUFFICES ASSUME AlertInit PROVE AlertInv
    BY DEF Init
  <2>1. gap \in 0..Cooldown /\ NoRule.last <= gap
    BY NoRuleType, AlertingAssumption DEF AlertInit
  <2>2. pending \in [Resource -> Int] /\ steady \in [Resource -> Int] /\ NoOlderThanFound
    BY DEF AlertInit, NoOlderThanFound
  <2> QED
    BY <2>1, <2>2, NoRuleType DEF AlertInit, AlertInv, AlertTypes, LastKnown
<1>2. AlertInv /\ [AlertNext]_alertVars => AlertInv' /\ [RaisedWithCause]_alertVars
  <2> SUFFICES ASSUME AlertInv, [AlertNext]_alertVars PROVE AlertInv' /\ [RaisedWithCause]_alertVars
    OBVIOUS
  <2>0. \A r \in Resource : r # Nothing
    BY AlertingAssumption
  <2>1. CASE \/ CreateAlertRule \/ UpdateAlertRule \/ DeleteAlertRule \/ EditNotificationChannels
             \/ deleteAlertHistory \/ ReceiveAlertmanager
    BY <2>0, <2>1, Administration DEF RaisedWithCause
  <2>2. CASE StartEvaluator \/ StopEvaluator \/ LoadRules \/ markEval \/ AlertCrash
    BY <2>0, <2>2, Turned DEF RaisedWithCause
  <2>3. CASE evaluateRule
    BY <2>0, <2>3, Evaluated DEF RaisedWithCause
  <2>4. CASE AlertTick
    BY <2>0, <2>4, NextInterval DEF AlertTick, RaisedWithCause
  <2>5. CASE UNCHANGED alertVars
    BY <2>5 DEF alertVars, AlertInv, AlertTypes, NoOlderThanFound, LastKnown
  <2> QED
    BY <2>1, <2>2, <2>3, <2>4, <2>5 DEF AlertNext
<1>3. AlertInv /\ [Next]_vars => AlertInv' /\ [RaisedWithCause]_alertVars
  BY <1>2, Parts
<1> QED
  BY <1>1, <1>3, PTL DEF Spec, AlertJustified
=============================================================================
