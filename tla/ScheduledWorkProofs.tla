------------------------ MODULE ScheduledWorkProofs ------------------------
(***************************************************************************)
(* WorkOnlyWithLock and InspectionBeginsWithLock for any number of         *)
(* replicas, modules, schedules, edits and disruptions.                    *)
(***************************************************************************)
EXTENDS ScheduledWork, TLAPS

-----------------------------------------------------------------------------
(* The election.  What a replica is doing says which modules it has        *)
(* started and whether it needs the lock.                                  *)

ElectionTypes ==
  /\ role \in [Replica -> {"down", "standby", "starting", "leading", "stopping"}]
  /\ started \in [Replica -> 0 .. Mods]
  /\ halted \in [Replica -> BOOLEAN]
  /\ closing \in [Replica -> BOOLEAN]
  /\ lost \in [Replica -> BOOLEAN]
  /\ holder \in Replica \cup {None}
  /\ session \in {"free", "used", "again", "pooled", "dead"}
  /\ disruptions \in 0 .. MaxDisruptions

\* A replica that does not serve has no module and no broken session.
Idles == \A p \in Replica : ~Serving(p) => started[p] = 0 /\ ~lost[p]
\* There is a module left to start, and to stop.
StartsLeft == \A p \in Replica : role[p] = "starting" => started[p] < Mods
StopsLeft == \A p \in Replica : halted[p] => role[p] = "stopping" /\ started[p] > 0
\* Whoever serves with a sound session holds the lock in use.
LockHeld == \A p \in Replica : Serving(p) /\ ~lost[p] => holder = p /\ session \in {"used", "again"}

ElectionInv == ElectionTypes /\ Idles /\ StartsLeft /\ StopsLeft /\ LockHeld

LEMMA ElectionStarts == ElectionInit => ElectionInv
  BY ElectionAssumption DEF ElectionInit, ElectionInv, ElectionTypes, Idles, StartsLeft, StopsLeft, LockHeld, Serving

LEMMA ElectionStays == ElectionInv /\ UNCHANGED electionVars => ElectionInv'
  BY DEF ElectionInv, ElectionTypes, Idles, StartsLeft, StopsLeft, LockHeld, Serving, electionVars

ElectionMove(p) ==
  \/ Boot(p) \/ TryLock(p) \/ StartModule(p) \/ StartFailed(p) \/ LeaveLeadership(p)
  \/ HaltModule(p) \/ StopModule(p) \/ Unlock(p) \/ UnlockTimedOut(p) \/ SessionLost(p)
  \/ Shutdown(p) \/ Exit(p) \/ Crash(p) \/ PooledSessionEnds \/ SessionReaped

\* The steps of the election, whatever the schedulers do meanwhile.
LEMMA ElectionMoves ==
  ASSUME ElectionInv, NEW p \in Replica, ElectionMove(p)
  PROVE  ElectionInv'
<1> USE ElectionAssumption
        DEF ElectionInv, ElectionTypes, Idles, StartsLeft, StopsLeft, LockHeld, Serving
<1>1. CASE Boot(p)
  BY <1>1 DEF Boot
<1>2. CASE TryLock(p)
  BY <1>2 DEF TryLock
<1>3. CASE StartModule(p)
  BY <1>3 DEF StartModule
<1>4. CASE StartFailed(p)
  BY <1>4 DEF StartFailed, Disrupt
<1>5. CASE LeaveLeadership(p)
  BY <1>5 DEF LeaveLeadership
<1>6. CASE HaltModule(p)
  BY <1>6 DEF HaltModule
<1>7. CASE StopModule(p)
  BY <1>7 DEF StopModule
<1>8. CASE Unlock(p)
  BY <1>8 DEF Unlock, Released, Freed
<1>9. CASE UnlockTimedOut(p)
  BY <1>9 DEF UnlockTimedOut, Released
<1>10. CASE SessionLost(p)
  BY <1>10 DEF SessionLost, SessionGone, Freed, Disrupt
<1>11. CASE Shutdown(p)
  BY <1>11 DEF Shutdown, Disrupt
<1>12. CASE Exit(p)
  BY <1>12 DEF Exit, Freed
<1>13. CASE Crash(p)
  <2>1. ElectionTypes' /\ Idles' /\ StartsLeft' /\ StopsLeft'
    BY <1>13 DEF Crash, ProcessGone, SessionGone, Freed, Disrupt
  <2>2. LockHeld'
    BY <1>13 DEF Crash, ProcessGone, SessionGone, Freed
  <2> QED
    BY <2>1, <2>2
<1>14. CASE PooledSessionEnds \/ SessionReaped
  BY <1>14 DEF PooledSessionEnds, SessionReaped, Freed
<1> QED
  BY <1>1, <1>2, <1>3, <1>4, <1>5, <1>6, <1>7, <1>8, <1>9, <1>10, <1>11, <1>12, <1>13, <1>14
     DEF ElectionMove

-----------------------------------------------------------------------------
(* The schedulers.  A replica has entries, a Refresh under way or jobs     *)
(* only of modules that are started.                                       *)

Row == [state : {"new", "active", "paused", "deleted"}, spec : CronExpr \cup {""}]
RowTypes ==
  /\ row \in [Item -> Row]
  /\ resuming \subseteq Item
  /\ edits \in 0 .. MaxEdits
CronTypes ==
  /\ entries \in [Replica -> [Item -> CronExpr \cup {None}]]
  /\ copy \in [Replica -> [Item -> CronExpr \cup {None, "unread"}]]
  /\ job \in [Replica -> [Item -> {"none", "fired", "removing", "running"}]]

\* What a scheduler does for an item.
Handles(p, i) == entries[p][i] # None \/ copy[p][i] # "unread" \/ job[p][i] # "none"
WorkStarted == \A p \in Replica : \A i \in Item : Handles(p, i) => ModuleOf(i) <= started[p]
\* No Refresh is under way in a module that takes no new work.
HaltedStill ==
  \A p \in Replica : halted[p] => \A i \in Item : ModuleOf(i) = started[p] => copy[p][i] = "unread"

WorkInv == RowTypes /\ CronTypes /\ WorkStarted /\ HaltedStill
Inv == ElectionInv /\ WorkInv

LEMMA WantedType == ASSUME RowTypes, NEW i \in Item PROVE Wanted(i) \in CronExpr \cup {None}
<1>1. row[i] \in Row
  BY DEF RowTypes
<1>2. row[i].spec # "" => row[i].spec \in CronExpr
  BY <1>1 DEF Row
<1> QED
  BY <1>2 DEF Wanted

LEMMA ModuleNumber == \A i : ModuleOf(i) \in Nat /\ ModuleOf(i) > 0
  BY ElectionAssumption DEF ModuleOf, BackupModule, InspectionModule

LEMMA Below == \A m, n \in Nat : m <= n /\ m # n => m <= n - 1
  OBVIOUS

LEMMA StartedNumber == ElectionInv => started \in [Replica -> Nat] /\ halted \in [Replica -> BOOLEAN]
  BY ElectionAssumption DEF ElectionInv, ElectionTypes

LEMMA EditsNumber == MaxEdits \in Nat
  BY WorkAssumption

LEMMA RowWritten ==
  ASSUME RowTypes, NEW i \in Item, NEW new \in Row, row' = [row EXCEPT ![i] = new],
         edits < MaxEdits, edits' = edits + 1, resuming' \subseteq Item
  PROVE  RowTypes'
<1>1. edits' \in 0 .. MaxEdits
  <2>1. edits \in 0 .. MaxEdits
    BY DEF RowTypes
  <2> QED
    BY <2>1, EditsNumber
<1> QED
  BY <1>1 DEF RowTypes

LEMMA WorkStays ==
  ASSUME WorkInv, UNCHANGED <<rowVars, cronVars, started, halted>>
  PROVE  WorkInv'
  BY DEF WorkInv, RowTypes, CronTypes, WorkStarted, HaltedStill, Handles, rowVars, cronVars

\* A handler changes one row at most.
LEMMA RowEdited ==
  ASSUME WorkInv, NEW i \in Item, EditBackup(i) \/ EditInspection(i)
  PROVE  UNCHANGED electionVars /\ WorkInv'
<1>1. UNCHANGED electionVars /\ UNCHANGED cronVars
  BY DEF EditBackup, EditInspection, CreateBackupSchedule, UpdateBackupSchedule, PauseBackupSchedule,
         ResumeBackupSchedule, ResumeWrite, ClearBackupCron, DeleteBackupSchedule, CreateRule,
         UpdateRule, ClearSchedule, DeleteRule, Edit
<1>2. RowTypes'
  <2> USE DEF WorkInv, RowTypes, Edit
  <2>1. ASSUME NEW state \in {"active", "paused", "deleted"}, NEW spec \in CronExpr \cup {""},
               Edit(i, state, spec), resuming' = resuming
        PROVE  RowTypes'
    <3>1. [state |-> state, spec |-> spec] \in Row
      BY DEF Row
    <3> QED
      BY <2>1, <3>1, RowWritten
  <2>2. ASSUME NEW s \in CronExpr \cup {""},
               CreateBackupSchedule(i, s) \/ CreateRule(i, s)
        PROVE  RowTypes'
    BY <2>1, <2>2 DEF CreateBackupSchedule, CreateRule
  <2>3. ASSUME NEW st \in {"active", "paused"}, NEW s \in CronExpr \cup {""},
               UpdateBackupSchedule(i, st, s) \/ UpdateRule(i, st, s)
        PROVE  RowTypes'
    BY <2>1, <2>3 DEF UpdateBackupSchedule, UpdateRule
  <2>4. row[i].spec \in CronExpr \cup {""} /\ (Exists(i) => row[i].state \in {"active", "paused"})
    BY DEF Exists, Row
  <2>5. CASE PauseBackupSchedule(i) \/ ClearBackupCron(i) \/ DeleteBackupSchedule(i)
             \/ ClearSchedule(i) \/ DeleteRule(i)
    BY <2>1, <2>4, <2>5 DEF PauseBackupSchedule, ClearBackupCron, DeleteBackupSchedule, ClearSchedule, DeleteRule
  <2>6. CASE ResumeBackupSchedule(i)
    BY <2>6 DEF ResumeBackupSchedule
  <2>7. CASE ResumeWrite(i)
    <3>1. CASE Exists(i)
      <4> DEFINE new == [state |-> "active", spec |-> row[i].spec]
      <4>1. new \in Row
        BY <2>4 DEF Row
      <4>2. row' = [row EXCEPT ![i] = new] /\ edits' = edits + 1 /\ edits < MaxEdits /\ resuming' = resuming \ {i}
        BY <2>7, <3>1 DEF ResumeWrite
      <4> HIDE DEF new
      <4> QED
        BY <4>1, <4>2, RowWritten
    <3>2. CASE ~Exists(i)
      BY <2>7, <3>2 DEF ResumeWrite
    <3> QED
      BY <3>1, <3>2
  <2> QED
    BY <2>2, <2>3, <2>5, <2>6, <2>7 DEF EditBackup, EditInspection
<1> QED
  BY <1>1, <1>2 DEF WorkInv, CronTypes, WorkStarted, HaltedStill, Handles, cronVars, electionVars

\* A goroutine of a scheduler changes what it does for one item, or reads the rows of
\* its module.
LEMMA Scheduled ==
  ASSUME Inv, NEW p \in Replica,
         \/ \E i \in Item : Fire(p, i) \/ Working(p, i)
         \/ \E m \in {BackupModule, InspectionModule} : Refresh(p, m)
  PROVE  UNCHANGED electionVars /\ WorkInv'
<1> USE DEF Inv, WorkInv, CronTypes, WorkStarted, HaltedStill, Handles
<1>1. ASSUME NEW i \in Item, Fire(p, i)
      PROVE  UNCHANGED electionVars /\ WorkInv'
  BY <1>1 DEF Fire, RowTypes, rowVars, electionVars
<1>2. ASSUME NEW i \in Item, RefreshItem(p, i)
      PROVE  UNCHANGED electionVars /\ WorkInv'
  <2>1. CronTypes'
    BY <1>2 DEF RefreshItem, Add
  <2>2. WorkStarted' /\ HaltedStill'
    BY <1>2 DEF RefreshItem, Add, electionVars
  <2> QED
    BY <1>2, <2>1, <2>2 DEF RefreshItem, RowTypes, rowVars
<1>3. ASSUME NEW i \in Item, Trigger(p, i) \/ RemoveEntry(p, i) \/ BackupDone(p, i) \/ InspectionDetached(p, i)
      PROVE  UNCHANGED electionVars /\ WorkInv'
  <2>1. /\ UNCHANGED <<electionVars, rowVars, copy>>
        /\ \E to \in {"none", "removing", "running"} : job[p][i] # "none" /\ job' = [job EXCEPT ![p][i] = to]
        /\ entries' = entries \/ entries' = [entries EXCEPT ![p][i] = None]
    BY <1>3 DEF Trigger, RemoveEntry, BackupDone, InspectionDetached, Advance
  <2>2. CronTypes'
    <3>1. job' \in [Replica -> [Item -> {"none", "fired", "removing", "running"}]]
      <4> PICK to \in {"none", "removing", "running"} : job' = [job EXCEPT ![p][i] = to]
        BY <2>1
      <4> QED
        OBVIOUS
    <3>2. entries' \in [Replica -> [Item -> CronExpr \cup {None}]]
      <4>1. CASE entries' = entries
        BY <4>1
      <4>2. CASE entries' = [entries EXCEPT ![p][i] = None]
        BY <4>2
      <4> QED
        BY <2>1, <4>1, <4>2
    <3> QED
      BY <2>1, <3>1, <3>2
  <2>3. WorkStarted'
    BY <2>1 DEF electionVars
  <2>4. HaltedStill'
    BY <2>1 DEF electionVars
  <2> QED
    BY <2>1, <2>2, <2>3, <2>4 DEF RowTypes, rowVars
<1>5. ASSUME NEW i \in Item, InspectionEnds(p, i)
      PROVE  UNCHANGED electionVars /\ WorkInv'
  BY <1>5 DEF InspectionEnds, RowTypes, rowVars, electionVars
<1>4. ASSUME NEW m \in {BackupModule, InspectionModule}, Refresh(p, m)
      PROVE  UNCHANGED electionVars /\ WorkInv'
  <2>1. \A i \in Item : Wanted(i) \in CronExpr \cup {None}
    BY WantedType
  <2>2. CronTypes'
    BY <1>4, <2>1 DEF Refresh
  <2>3. WorkStarted'
    BY <1>4 DEF Refresh, Ticking, Running, electionVars
  <2>4. HaltedStill'
    BY <1>4 DEF Refresh, Ticking, electionVars, ElectionInv, StopsLeft
  <2> QED
    BY <1>4, <2>2, <2>3, <2>4 DEF Refresh, RowTypes, rowVars
<1> QED
  BY <1>1, <1>2, <1>3, <1>4, <1>5 DEF Working

\* Start, the two halves of Stop, and the end of the process.
LEMMA SchedulerMoved ==
  ASSUME Inv, NEW p \in Replica,
         \/ StartScheduler(p) \/ HaltScheduler(p) \/ StopScheduler(p)
         \/ CrashWithWork(p) \/ BootAnew(p)
  PROVE  WorkInv'
<1> USE DEF Inv, WorkInv, CronTypes, WorkStarted, HaltedStill, Handles
<1>1. \A i \in Item : Wanted(i) \in CronExpr \cup {None} /\ ModuleOf(i) \in Nat
  BY WantedType, ModuleNumber
<1>2. started \in [Replica -> Nat] /\ halted \in [Replica -> BOOLEAN]
  BY StartedNumber
<1>3. CASE StartScheduler(p)
  <2>1. ~halted[p]
    BY <1>3 DEF StartScheduler, StartModule, ElectionInv, StopsLeft
  <2> QED
    <3>1. CronTypes'
      BY <1>1, <1>3 DEF StartScheduler
    <3>2. WorkStarted'
      BY <1>1, <1>2, <1>3 DEF StartScheduler, StartModule
    <3>3. HaltedStill'
      BY <1>2, <1>3, <2>1 DEF StartScheduler, StartModule
    <3> QED
      BY <1>3, <3>1, <3>2, <3>3 DEF StartScheduler, RowTypes, rowVars
<1>4. CASE HaltScheduler(p)
  BY <1>1, <1>2, <1>4 DEF HaltScheduler, HaltModule, Refreshing, ItemsOf, RowTypes, rowVars, cronVars
<1>5. CASE StopScheduler(p)
  <2>1. \A i \in Item : ModuleOf(i) = started[p] => copy[p][i] = "unread" /\ job[p][i] = "none"
    BY <1>5 DEF StopScheduler, StopModule, Busy, ItemsOf
  <2> QED
    <3>1. CronTypes'
      BY <1>5 DEF StopScheduler
    <3>2. WorkStarted'
      <4> SUFFICES ASSUME NEW q \in Replica, NEW i \in Item, Handles(q, i)'
                   PROVE  ModuleOf(i) <= started'[q]
        OBVIOUS
      <4>1. CASE q # p
        BY <1>5, <4>1 DEF StopScheduler, StopModule
      <4>2. CASE q = p
        <5>1. ModuleOf(i) # started[p]
          BY <1>5, <2>1, <4>2 DEF StopScheduler
        <5>2. ModuleOf(i) <= started[p]
          BY <1>5, <4>2, <5>1 DEF StopScheduler
        <5>3. started'[p] = started[p] - 1
          BY <1>2, <1>5 DEF StopScheduler, StopModule
        <5> QED
          <6>1. ModuleOf(i) \in Nat /\ started[p] \in Nat
            BY <1>1, <1>2
          <6>2. ModuleOf(i) <= started[p] - 1
            BY <5>1, <5>2, <6>1, Below
          <6> QED
            BY <4>2, <5>3, <6>2
      <4> QED
        BY <4>1, <4>2
    <3>3. HaltedStill'
      BY <1>2, <1>5 DEF StopScheduler, StopModule
    <3> QED
      BY <1>5, <3>1, <3>2, <3>3 DEF StopScheduler, RowTypes, rowVars
<1>6. CASE CrashWithWork(p)
  BY <1>2, <1>6 DEF CrashWithWork, Crash, RowTypes, rowVars
<1>7. CASE BootAnew(p)
  BY <1>7 DEF BootAnew, Boot, RowTypes, rowVars
<1> QED
  BY <1>3, <1>4, <1>5, <1>6, <1>7

LEMMA InvStep == Inv /\ [Next]_vars => Inv'
<1> SUFFICES ASSUME Inv, [Next]_vars PROVE Inv'
  OBVIOUS
<1> USE DEF Inv
<1>1. ASSUME NEW i \in Item, EditBackup(i) \/ EditInspection(i)
      PROVE  Inv'
  BY <1>1, RowEdited, ElectionStays
<1>2. ASSUME NEW p \in Replica,
             \/ \E i \in Item : Fire(p, i) \/ Working(p, i)
             \/ \E m \in {BackupModule, InspectionModule} : Refresh(p, m)
      PROVE  Inv'
  BY <1>2, Scheduled, ElectionStays
<1>3. ASSUME NEW p \in Replica,
             \/ StartScheduler(p) \/ HaltScheduler(p) \/ StopScheduler(p)
             \/ CrashWithWork(p) \/ BootAnew(p)
      PROVE  Inv'
  <2>1. ElectionMove(p)
    BY <1>3 DEF ElectionMove, StartScheduler, HaltScheduler, StopScheduler, CrashWithWork, BootAnew
  <2> QED
    BY <1>3, <2>1, SchedulerMoved, ElectionMoves
<1>4. ASSUME NEW p \in Replica, ElectionStep(p)
      PROVE  Inv'
  <2>1. ElectionMove(p)
    BY <1>4 DEF ElectionMove, ElectionStep
  <2>2. UNCHANGED <<rowVars, cronVars>>
    BY <1>4 DEF ElectionStep
  <2>3. UNCHANGED <<started, halted>>
    BY <1>4 DEF ElectionStep, TryLock, StartFailed, LeaveLeadership, Unlock, UnlockTimedOut,
                Released, SessionLost, Shutdown, Exit
  <2> QED
    BY <2>1, <2>2, <2>3, ElectionMoves, WorkStays
<1>5. CASE SessionStep
  <2>1. PooledSessionEnds \/ SessionReaped
    BY <1>5 DEF SessionStep
  <2>2. UNCHANGED <<rowVars, cronVars, started, halted>>
    BY <1>5 DEF SessionStep, PooledSessionEnds, SessionReaped
  <2>3. ElectionInv'
    BY <2>1 DEF PooledSessionEnds, SessionReaped, Freed, ElectionInv, ElectionTypes, Idles, StartsLeft,
                StopsLeft, LockHeld, Serving
  <2> QED
    BY <2>2, <2>3, WorkStays
<1>6. CASE UNCHANGED vars
  BY <1>6, ElectionStays, WorkStays DEF vars, electionVars
<1> QED
  BY <1>1, <1>2, <1>3, <1>4, <1>5, <1>6 DEF Next, Item

LEMMA InvInit == Init => Inv
<1> SUFFICES ASSUME Init PROVE Inv
  OBVIOUS
<1>1. ElectionInv
  BY ElectionStarts DEF Init
<1>2. RowTypes
  <2>1. InitialRow \subseteq Row
    <3>1. NewRow \in Row
      BY DEF NewRow, Row
    <3>2. [state : {"active"}, spec : OldExpr] \subseteq Row
      BY WorkAssumption DEF Row
    <3> QED
      BY <3>1, <3>2 DEF InitialRow
  <2>2. row \in [Item -> InitialRow]
    BY DEF Init
  <2> QED
    BY <2>1, <2>2, EditsNumber DEF Init, RowTypes
<1>3. CronTypes /\ WorkStarted /\ HaltedStill
  BY DEF Init, ElectionInit, CronTypes, WorkStarted, HaltedStill, Handles
<1> QED
  BY <1>1, <1>2, <1>3 DEF Inv, WorkInv

LEMMA InvAlways == Spec => []Inv
  BY InvInit, InvStep, PTL DEF Spec

\* A module that is started, and so any cron entry or job, needs the lock.
LEMMA WorkLocked ==
  ASSUME Inv, NEW p \in Replica, Works(p), ~lost[p]
  PROVE  Locked(p)
<1>1. started[p] > 0
  <2>1. started[p] \in Nat
    BY StartedNumber DEF Inv
  <2> QED
    BY <2>1, ModuleNumber DEF Inv, WorkInv, WorkStarted, Handles, Works
<1> QED
  BY <1>1 DEF Inv, ElectionInv, Idles, LockHeld, Locked

\* However replicas start, stop, crash or lose their sessions, a replica whose
\* session is sound runs a singleton module, a cron entry or a cron job only
\* while that session holds the advisory lock.
THEOREM WorkUnderLock == Spec => []WorkOnlyWithLock
<1>1. Inv => WorkOnlyWithLock
  BY WorkLocked DEF WorkOnlyWithLock
<1> QED
  BY <1>1, InvAlways, PTL

-----------------------------------------------------------------------------
(* The inspections.                                                        *)

DetachedType == detached \in [Replica -> SUBSET Inspection]

DetachedMove(p) ==
  \/ CrashWithWork(p) \/ BootAnew(p)
  \/ \E i \in Item : InspectionDetached(p, i) \/ InspectionEnds(p, i)

LEMMA DetachedMoves ==
  ASSUME Next
  PROVE  detached' = detached \/ \E p \in Replica : DetachedMove(p)
  BY DEF Next, DetachedMove, EditBackup, EditInspection, SessionStep, ElectionStep, StartScheduler,
         HaltScheduler, StopScheduler, Refresh, Fire, Working, RefreshItem, Trigger, RemoveEntry,
         BackupDone, cronVars, CreateBackupSchedule, UpdateBackupSchedule, PauseBackupSchedule,
         ResumeBackupSchedule, ResumeWrite, ClearBackupCron, DeleteBackupSchedule, CreateRule,
         UpdateRule, ClearSchedule, DeleteRule, Edit

LEMMA DetachedStep == DetachedType /\ [Next]_vars => DetachedType'
<1> SUFFICES ASSUME DetachedType, [Next]_vars PROVE DetachedType'
  OBVIOUS
<1>1. CASE detached' = detached
  BY <1>1 DEF DetachedType
<1>2. ASSUME NEW p \in Replica, NEW S \in SUBSET Inspection, detached' = [detached EXCEPT ![p] = S]
      PROVE  DetachedType'
  BY <1>2 DEF DetachedType
<1>3. ASSUME NEW p \in Replica, DetachedMove(p)
      PROVE  detached' = detached \/ \E S \in SUBSET Inspection : detached' = [detached EXCEPT ![p] = S]
  <2>0. detached[p] \in SUBSET Inspection
    BY DEF DetachedType
  <2>1. CASE CrashWithWork(p) \/ BootAnew(p)
    BY <2>1 DEF CrashWithWork, BootAnew
  <2>2. ASSUME NEW i \in Item, InspectionDetached(p, i)
        PROVE  detached' = detached \/ (i \in Inspection /\ detached' = [detached EXCEPT ![p] = detached[p] \cup {i}])
    BY <2>2 DEF InspectionDetached
  <2>3. ASSUME NEW i \in Item, InspectionEnds(p, i)
        PROVE  detached' = [detached EXCEPT ![p] = detached[p] \ {i}]
    BY <2>3 DEF InspectionEnds
  <2> QED
    BY <1>3, <2>0, <2>1, <2>2, <2>3 DEF DetachedMove
<1> QED
  BY <1>1, <1>2, <1>3, DetachedMoves DEF vars, cronVars

\* A scheduled inspection outlives its cron job and perhaps the leadership, but
\* begins only on a replica that holds the lock or whose session broke unnoticed.
THEOREM InspectionUnderLock == Spec => InspectionBeginsWithLock
<1>1. Init => DetachedType
  BY DEF Init, DetachedType
<1>2. Inv /\ DetachedType /\ [Next]_vars =>
        [\A p \in Replica : ~(detached'[p] \subseteq detached[p]) => lost[p] \/ Locked(p)]_vars
  <2> SUFFICES ASSUME Inv, DetachedType, Next, NEW p \in Replica, ~(detached'[p] \subseteq detached[p]), ~lost[p]
               PROVE  Locked(p)
    OBVIOUS
  <2>1. PICK q \in Replica : DetachedMove(q)
    BY DetachedMoves
  <2>2. ~(CrashWithWork(q) \/ BootAnew(q))
    BY DEF CrashWithWork, BootAnew, DetachedType
  <2>3. ASSUME NEW i \in Item, InspectionEnds(q, i) PROVE FALSE
    BY <2>3 DEF InspectionEnds, DetachedType
  <2>4. ASSUME NEW i \in Item, InspectionDetached(q, i) PROVE q = p /\ job[p][i] = "running"
    <3>1. job[q][i] = "running"
      BY <2>4 DEF InspectionDetached, Advance
    <3>2. detached' = [detached EXCEPT ![q] = detached[q] \cup {i}]
      BY <2>4 DEF InspectionDetached
    <3>3. q = p
      BY <3>2 DEF DetachedType
    <3> QED
      BY <3>1, <3>3
  <2>5. PICK i \in Item : job[p][i] = "running"
    BY <2>1, <2>2, <2>3, <2>4 DEF DetachedMove
  <2> QED
    BY <2>5, WorkLocked DEF Works
<1> QED
  BY <1>1, <1>2, DetachedStep, InvAlways, PTL DEF Spec, InspectionBeginsWithLock
=============================================================================
