------------------------- MODULE AgentActionProofs -------------------------
(***************************************************************************)
(* Proofs about AgentAction for every set of users, rows, conversations    *)
(* and concurrent requests: the change center, the staging of              *)
(* conversations, and that both implement ChangeLifecycle.                 *)
(***************************************************************************)
EXTENDS AgentAction, TLAPS

-----------------------------------------------------------------------------
(* Type correctness.  A handler under way knows its user, its row and its  *)
(* conversation, and a staged row has an owner.                            *)

RequestsBound ==
  \A r \in Request : pc[r] # "idle" =>
    /\ cur[r].action \in Action /\ cur[r].user \in User
    /\ status[cur[r].action] # "absent"
TurnsBound == \A t \in Turn : turn[t].pc # "idle" => turn[t].user \in User
RowsOwned == \A a \in Action : status[a] # "absent" => meta[a].owner \in User
SweepsBound == \A s \in Sweep : sweep[s].op # "idle" => sweep[s].conv \in Conv

TypeInv == TypeOK /\ RequestsBound /\ TurnsBound /\ RowsOwned /\ SweepsBound

\* The records a handler starts with are well typed.
LEMMA IdleRecords ==
  NoSnap \in SnapType /\ IdleTurn \in TurnType /\ NoMeta \in MetaType /\ IdleSweep \in SweepType
<1>1. NoSnap \in SnapType
  BY DEF NoSnap, SnapType, Status, Outcome, Cancellable
<1>2. IdleTurn \in TurnType
  BY DEF IdleTurn, TurnType
<1>3. NoMeta \in MetaType
  BY DEF NoMeta, MetaType
<1>4. IdleSweep \in SweepType
  BY DEF IdleSweep, SweepType
<1> QED BY <1>1, <1>2, <1>3, <1>4

\* The updates a turn makes to its own state keep its type.
LEMMA TurnDiagnosed == ASSUME NEW x \in TurnType PROVE [x EXCEPT !.diagnosed = TRUE] \in TurnType
  BY DEF TurnType

LEMMA TurnPreviewed ==
  ASSUME NEW x \in TurnType, NEW p \in Params
  PROVE  [x EXCEPT !.pc = "previewed", !.params = p] \in TurnType
  BY DEF TurnType

LEMMA TurnStaged ==
  ASSUME NEW x \in TurnType, NEW S \in SUBSET Action PROVE [x EXCEPT !.staged = S] \in TurnType
  BY DEF TurnType

\* Back to the tool loop, or done.
LEMMA AfterStagingType ==
  ASSUME NEW t \in Turn, NEW S \in SUBSET Action, turn[t] \in TurnType
  PROVE  /\ AfterStaging(t, S) \in TurnType
         /\ AfterStaging(t, S).pc # "idle" => AfterStaging(t, S).user = turn[t].user
<1>1. CASE turn[t].via = "manual"
  BY <1>1, IdleRecords DEF AfterStaging, IdleTurn
<1>2. CASE turn[t].via # "manual"
  BY <1>2 DEF AfterStaging, TurnType
<1> QED BY <1>1, <1>2

\* The updates a confirmation makes to its copy keep the copy's type.
LEMMA SnapScoped ==
  ASSUME NEW x \in SnapType, NEW b \in BOOLEAN PROVE [x EXCEPT !.prod = b] \in SnapType
  BY DEF SnapType

LEMMA SnapChecked ==
  ASSUME NEW x \in SnapType, NEW b \in BOOLEAN, NEW e \in BOOLEAN
  PROVE  [x EXCEPT !.approval = b, !.evidence = e] \in SnapType
  BY DEF SnapType

LEMMA SnapExecuted ==
  ASSUME NEW x \in SnapType, NEW o \in Outcome
  PROVE  /\ [x EXCEPT !.outcome = o] \in SnapType
         /\ [x EXCEPT !.outcome = o].action = x.action
         /\ [x EXCEPT !.outcome = o].user = x.user
  BY DEF SnapType

\* The initial state is well typed.
LEMMA TypeInit == Init => TypeInv
<1> SUFFICES ASSUME Init PROVE TypeInv
  OBVIOUS
<1>1. TypeOK
  BY IdleRecords, ConstantsAssumption DEF Init, TypeOK, Status
<1>2. RequestsBound /\ TurnsBound /\ RowsOwned /\ SweepsBound
  BY DEF Init, RequestsBound, TurnsBound, RowsOwned, SweepsBound, IdleTurn, IdleSweep
<1> QED BY <1>1, <1>2 DEF TypeInv

\* Every handler keeps the types.
LEMMA TypeNext == TypeInv /\ [Next]_vars => TypeInv'
<1> SUFFICES ASSUME TypeInv, [Next]_vars PROVE TypeInv'
  OBVIOUS
<1> USE ConstantsAssumption
    DEF TypeInv, TypeOK, RequestsBound, TurnsBound, RowsOwned, SweepsBound
<1>1. CASE UNCHANGED vars
  BY <1>1 DEF vars, rowVars, policyVars, convVars
<1>2. ASSUME NEW b \in PolicyValues, UpdateApprovalSettings(b) \/ UpdateClusterEnvironment(b)
      PROVE  TypeInv'
  BY <1>2 DEF UpdateApprovalSettings, UpdateClusterEnvironment, rowVars, policyVars, convVars
<1>3. ASSUME NEW t \in Turn, Staging(t) PROVE TypeInv'
  <2>1. ASSUME NEW u \in User, NEW c \in Conv \cup {None}, StartTurn(t, u, c) PROVE TypeInv'
    BY <2>1 DEF StartTurn, CaptureVersion, IdleTurn, TurnType, rowVars, policyVars, convVars
  <2>2. CASE DiagnoseTool(t)
    <3>1. turn' \in [Turn -> TurnType] /\ TurnsBound'
      <4>1. turn[t].pc = "running" /\ turn' = [turn EXCEPT ![t] = [turn[t] EXCEPT !.diagnosed = TRUE]]
        BY <2>2 DEF DiagnoseTool
      <4>2. [turn[t] EXCEPT !.diagnosed = TRUE] \in TurnType
        BY TurnDiagnosed
      <4>3. turn' \in [Turn -> TurnType]
        BY <4>1, <4>2
      <4>4. TurnsBound'
        BY <4>1 DEF TurnType
      <4> QED BY <4>3, <4>4
    <3> QED BY <2>2, <3>1 DEF DiagnoseTool, rowVars, policyVars, convVars
  <2>3. ASSUME NEW p \in Params, PreviewMutation(t, p) PROVE TypeInv'
    <3>1. turn' \in [Turn -> TurnType] /\ TurnsBound'
      <4>1. CASE turn' = [turn EXCEPT ![t].pc = "previewed", ![t].params = p]
        <5>1. [turn[t] EXCEPT !.pc = "previewed", !.params = p] \in TurnType
          BY TurnPreviewed
        <5>2. turn' = [turn EXCEPT ![t] = [turn[t] EXCEPT !.pc = "previewed", !.params = p]]
          BY <4>1
        <5>3. turn[t].user \in User
          BY <2>3 DEF PreviewMutation
        <5> QED BY <5>1, <5>2, <5>3 DEF TurnType
      <4>2. ASSUME NEW a \in Action, turn' = [turn EXCEPT ![t].staged = @ \cup {a}]
            PROVE  turn' \in [Turn -> TurnType] /\ TurnsBound'
        <5>1. turn[t].staged \cup {a} \in SUBSET Action
          BY DEF TurnType
        <5>2. [turn[t] EXCEPT !.staged = turn[t].staged \cup {a}] \in TurnType
          BY <5>1, TurnStaged
        <5>3. turn[t].user \in User
          BY <2>3 DEF PreviewMutation
        <5> QED BY <4>2, <5>2, <5>3 DEF TurnType
      <4> QED BY <2>3, <4>1, <4>2 DEF PreviewMutation, Identical
    <3> QED BY <2>3, <3>1 DEF PreviewMutation, rowVars, policyVars, convVars
  <2>4. ASSUME NEW u \in User, NEW c \in Conv \cup {None}, NEW p \in Params, AgentExecute(t, u, c, p)
        PROVE  TypeInv'
    BY <2>4 DEF AgentExecute, CaptureVersion, IdleTurn, TurnType, rowVars, policyVars, convVars
  <2>5. ASSUME NEW a \in Action, StageAction(t, a) PROVE TypeInv'
    <3>1. turn' \in [Turn -> TurnType] /\ TurnsBound'
      BY <2>5, AfterStagingType DEF StageAction
    <3>2. status' \in [Action -> Status]
      BY <2>5 DEF StageAction, WithCancelled, Status, Cancellable
    <3>3. meta' \in [Action -> MetaType] /\ meta'[a].owner \in User
      BY <2>5 DEF StageAction, MetaType, TurnType
    <3>5. RowsOwned' /\ RequestsBound'
      BY <2>5, <3>3 DEF StageAction, WithCancelled, Replaced
    <3>4. audit' \in [Action -> SUBSET (Event \X User)]
      BY <2>5 DEF StageAction, Event
    <3> QED BY <2>5, <3>1, <3>2, <3>3, <3>4, <3>5 DEF StageAction, policyVars, convVars
  <2>6. CASE StageRefused(t)
    <3>1. turn' \in [Turn -> TurnType] /\ TurnsBound'
      BY <2>6, AfterStagingType DEF StageRefused
    <3> QED BY <2>6, <3>1 DEF StageRefused, rowVars, policyVars, convVars
  <2>7. ASSUME NEW S \in SUBSET Action, DropIncompleteMountDeployments(t, S) PROVE TypeInv'
    <3>1. turn' \in [Turn -> TurnType] /\ TurnsBound'
      <4>1. turn[t].staged \ S \in SUBSET Action
        BY DEF TurnType
      <4>2. [turn[t] EXCEPT !.staged = turn[t].staged \ S] \in TurnType
        BY <4>1, TurnStaged
      <4>3. turn' = [turn EXCEPT ![t] = [turn[t] EXCEPT !.staged = turn[t].staged \ S]]
        BY <2>7 DEF DropIncompleteMountDeployments
      <4>4. turn[t].user \in User
        BY <2>7 DEF DropIncompleteMountDeployments
      <4> QED BY <4>2, <4>3, <4>4 DEF TurnType
    <3>2. status' \in [Action -> Status] /\ RowsOwned' /\ RequestsBound'
      BY <2>7 DEF DropIncompleteMountDeployments, WithCancelled, Status
    <3> QED BY <2>7, <3>1, <3>2 DEF DropIncompleteMountDeployments, policyVars, convVars
  <2>8. CASE EndTurn(t)
    BY <2>8 DEF EndTurn, IdleTurn, TurnType, rowVars, policyVars
  <2>9. CASE TurnLost(t)
    BY <2>9 DEF TurnLost, IdleTurn, TurnType, rowVars, policyVars, convVars
  <2> QED BY <1>3, <2>1, <2>2, <2>3, <2>4, <2>5, <2>6, <2>7, <2>8, <2>9 DEF Staging
<1>4. ASSUME NEW r \in Request, Confirming(r) \/ RequestLost(r) PROVE TypeInv'
  <2>1. CASE ConfirmCluster(r)
    <3>1. cur' \in [Request -> SnapType] /\ RequestsBound'
      <4>1. CASE MayConfirm(r)
        <5>1. [cur[r] EXCEPT !.prod = production] \in SnapType
          BY SnapScoped
        <5>2. cur' = [cur EXCEPT ![r] = [cur[r] EXCEPT !.prod = production]]
          BY <2>1, <4>1 DEF ConfirmCluster
        <5>3. cur'[r].action = cur[r].action /\ cur'[r].user = cur[r].user
          BY <5>2 DEF SnapType
        <5> QED BY <2>1, <5>1, <5>2, <5>3 DEF ConfirmCluster, Goto, rowVars
      <4>2. CASE ~MayConfirm(r)
        BY <2>1, <4>2, IdleRecords DEF ConfirmCluster, Goto, rowVars
      <4> QED BY <4>1, <4>2
    <3> QED BY <2>1, <3>1 DEF ConfirmCluster, Goto, rowVars, policyVars, convVars
  <2>2. CASE ConfirmPolicy(r)
    <3>1. cur' \in [Request -> SnapType] /\ RequestsBound'
      <4>1. CASE pc'[r] = "ready"
        <5>1. /\ (cur[r].prod /\ approvalEnabled) \in BOOLEAN
              /\ (cur[r].evidence \/ NeedsEvidence(r)) \in BOOLEAN
          BY Zenon
        <5>2. cur' = [cur EXCEPT ![r] = [cur[r] EXCEPT !.approval = cur[r].prod /\ approvalEnabled,
                                           !.evidence = cur[r].evidence \/ NeedsEvidence(r)]]
          BY <2>2, <4>1 DEF ConfirmPolicy, Goto
        <5>3. cur'[r] \in SnapType
          BY <5>1, <5>2, SnapChecked
        <5>4. cur'[r].action = cur[r].action /\ cur'[r].user = cur[r].user
          BY <5>2 DEF SnapType
        <5> QED BY <2>2, <5>2, <5>3, <5>4 DEF ConfirmPolicy, Goto, rowVars
      <4>2. CASE pc'[r] = "idle"
        BY <2>2, <4>2, IdleRecords DEF ConfirmPolicy, Goto, rowVars
      <4> QED BY <2>2, <4>1, <4>2 DEF ConfirmPolicy, Goto
    <3> QED BY <2>2, <3>1 DEF ConfirmPolicy, Goto, rowVars, policyVars, convVars
  <2>3. CASE SubmitForApproval(r)
    <3>1. cur' \in [Request -> SnapType] /\ RequestsBound'
      BY <2>3, IdleRecords DEF SubmitForApproval, Goto
    <3>2. status' \in [Action -> Status]
      BY <2>3 DEF SubmitForApproval, Status, Cancellable
    <3>5. evidence' \in [Action -> BOOLEAN]
      BY <2>3 DEF SubmitForApproval
    <3>4. RowsOwned'
      BY <2>3 DEF SubmitForApproval
    <3>3. audit' \in [Action -> SUBSET (Event \X User)]
      BY <2>3 DEF SubmitForApproval, Event
    <3> QED BY <2>3, <3>1, <3>2, <3>3, <3>4, <3>5 DEF SubmitForApproval, Goto, policyVars, convVars
  <2>4. CASE ClaimAction(r)
    BY <2>4 DEF ClaimAction, NeedsEvidence, Goto, Status, Event, ClaimWins, ExpectedStatus,
                policyVars, convVars
  <2>5. CASE ClaimRefused(r)
    BY <2>5 DEF ClaimRefused, Goto, NoSnap, SnapType, Status, Outcome, rowVars, policyVars, convVars
  <2>6. ASSUME NEW outcome \in Outcomes(r), ExecuteAction(r, outcome) PROVE TypeInv'
    <3>1. outcome \in Outcome
      BY DEF Outcomes, Outcome
    <3>2. cur' = [cur EXCEPT ![r] = [cur[r] EXCEPT !.outcome = outcome]]
      BY <2>6 DEF ExecuteAction
    <3>3. /\ cur'[r] \in SnapType
          /\ cur'[r].action = cur[r].action /\ cur'[r].user = cur[r].user
      BY <3>1, <3>2, SnapExecuted
    <3>4. cur' \in [Request -> SnapType] /\ RequestsBound'
      BY <2>6, <3>2, <3>3 DEF ExecuteAction, Goto, rowVars
    <3> QED BY <2>6, <3>4 DEF ExecuteAction, Goto, rowVars, policyVars, convVars
  <2>7. CASE RecordActionOutcome(r)
    <3>1. cur' \in [Request -> SnapType] /\ RequestsBound'
      BY <2>7, IdleRecords DEF RecordActionOutcome, Goto, SnapType, Outcome
    <3>2. cur[r].outcome \in Outcome /\ cur[r].approvedBy \in User \cup {None} /\ cur[r].evidence \in BOOLEAN
      BY DEF SnapType
    <3>3. status' \in [Action -> Status] /\ RowsOwned'
      BY <2>7, <3>2 DEF RecordActionOutcome, Status, Outcome
    <3>4. approvedBy' \in [Action -> User \cup {None}] /\ evidence' \in [Action -> BOOLEAN]
      BY <2>7, <3>2 DEF RecordActionOutcome, SavedColumns
    <3>5. audit' \in [Action -> SUBSET (Event \X User)]
      BY <2>7, <3>2 DEF RecordActionOutcome, Event, OutcomeEvent
    <3> QED BY <2>7, <3>1, <3>3, <3>4, <3>5 DEF RecordActionOutcome, Goto, policyVars, convVars
  <2>8. CASE RequestLost(r)
    BY <2>8 DEF RequestLost, Goto, NoSnap, SnapType, Status, Outcome, rowVars, policyVars, convVars
  <2> QED BY <1>4, <2>1, <2>2, <2>3, <2>4, <2>5, <2>6, <2>7, <2>8 DEF Confirming
<1>5. ASSUME NEW r \in Request, NEW u \in User, NEW a \in Action, ConfirmRead(r, u, a)
      PROVE  TypeInv'
  BY <1>5 DEF ConfirmRead, Goto, NoSnap, SnapType, Outcome, rowVars, policyVars, convVars
<1>6. ASSUME NEW a \in Action, Reviewing(a) PROVE TypeInv'
  BY <1>6 DEF Reviewing, AgentDecideChange, AgentCancelChange, Status, Cancellable, Event,
              policyVars, convVars
<1>7. ASSUME NEW s \in Sweep, Sweeping(s) PROVE TypeInv'
  <2>1. ASSUME NEW c \in Conv, NEW op \in {"clear", "delete", "cancel"}, NEW ids \in SUBSET Action,
               SweepSelect(s, c, op, ids)
        PROVE  TypeInv'
    BY <2>1 DEF SweepSelect, Selected, SweepType, rowVars, policyVars
  <2>2. CASE SweepCommit(s)
    BY <2>2 DEF SweepCommit, StillSeen, WithCancelled, AuditAll, IdleSweep, SweepType, Status,
                Cancellable, Event, policyVars
  <2>3. CASE SweepRollback(s)
    BY <2>3 DEF SweepRollback, IdleSweep, SweepType, rowVars, policyVars
  <2> QED BY <1>7, <2>1, <2>2, <2>3 DEF Sweeping
<1> QED BY <1>1, <1>2, <1>3, <1>4, <1>5, <1>6, <1>7 DEF Next

LEMMA TypeInvariant == Spec => []TypeInv
  BY TypeInit, TypeNext, PTL DEF Spec

\* Every column and every handler's local state keeps its type, in particular
\* a row only ever has a status the handlers know.
THEOREM TypeCorrect == Spec => []TypeOK
  BY TypeInvariant, PTL DEF TypeInv
-----------------------------------------------------------------------------
(* Execution.  A row that has changed the cluster is executing or settled, *)
(* and no request that still has to execute holds it.                      *)

Started == {"executing"} \cup Outcome

WritesAccounted ==
  \A a \in Action : writes[a] # 0 =>
    /\ writes[a] = 1 /\ status[a] \in Started
    /\ \A r \in Request : pc[r] = "claimed" => cur[r].action # a

ExecInv == OneExecutor /\ WritesAccounted

LEMMA ExecInit == Init => ExecInv
  BY DEF Init, ExecInv, OneExecutor, Executing, WritesAccounted

\* A step that starts nothing and leaves every started row alone.
LEMMA ExecFrame ==
  ASSUME TypeInv, ExecInv, UNCHANGED <<pc, cur, writes>>,
         \A a \in Action : status[a] \in Started => status'[a] = status[a]
  PROVE  ExecInv'
<1>1. \A r \in Request : Executing(r) => cur[r].action \in Action /\ "executing" \in Started
  BY DEF TypeInv, RequestsBound, Executing, Started
<1>2. OneExecutor'
  BY <1>1 DEF ExecInv, OneExecutor, Executing
<1>3. WritesAccounted'
  BY DEF ExecInv, WritesAccounted, Started
<1> QED BY <1>2, <1>3 DEF ExecInv

\* A request that is not executing afterwards, and touches no started row.
LEMMA ExecLocal ==
  ASSUME TypeInv, ExecInv, NEW r \in Request, UNCHANGED writes,
         pc'[r] \notin {"claimed", "executed"},
         \A q \in Request \ {r} : pc'[q] = pc[q] /\ cur'[q] = cur[q],
         \A a \in Action : status[a] \in Started => status'[a] = status[a]
  PROVE  ExecInv'
<1>1. \A q \in Request : Executing(q) => cur[q].action \in Action /\ "executing" \in Started
  BY DEF TypeInv, RequestsBound, Executing, Started
<1>2. OneExecutor'
  BY <1>1 DEF ExecInv, OneExecutor, Executing
<1>3. WritesAccounted'
  BY DEF ExecInv, WritesAccounted, Started
<1> QED BY <1>2, <1>3 DEF ExecInv

\* Two requests never execute the same action, and nothing changes the cluster
\* twice: every step keeps it so.
LEMMA ExecNext == TypeInv /\ ExecInv /\ [Next]_vars => ExecInv'
<1> SUFFICES ASSUME TypeInv, ExecInv, [Next]_vars PROVE ExecInv'
  OBVIOUS
<1>1. CASE UNCHANGED vars
  BY <1>1, ExecFrame DEF vars, rowVars
<1>2. ASSUME NEW b \in PolicyValues, UpdateApprovalSettings(b) \/ UpdateClusterEnvironment(b)
      PROVE  ExecInv'
  BY <1>2, ExecFrame DEF UpdateApprovalSettings, UpdateClusterEnvironment, rowVars
<1>3. ASSUME NEW t \in Turn, Staging(t) PROVE ExecInv'
  <2>1. ASSUME NEW a \in Action, StageAction(t, a) PROVE ExecInv'
    BY <2>1, ExecFrame DEF StageAction, WithCancelled, Replaced, Started, Outcome, TypeInv, TypeOK
  <2>2. ASSUME NEW S \in SUBSET Action, DropIncompleteMountDeployments(t, S) PROVE ExecInv'
    BY <2>2, ExecFrame DEF DropIncompleteMountDeployments, WithCancelled, Started, Outcome
  <2>3. CASE UNCHANGED <<status, pc, cur, writes>>
    BY <2>3, ExecFrame
  <2> QED BY <1>3, <2>1, <2>2, <2>3
          DEF Staging, StartTurn, DiagnoseTool, PreviewMutation, AgentExecute, StageRefused, EndTurn,
              TurnLost, rowVars
<1>4. ASSUME NEW r \in Request, Confirming(r) \/ RequestLost(r) PROVE ExecInv'
  <2> USE DEF Goto, TypeInv, TypeOK
  <2>1. CASE ConfirmCluster(r)
    BY <2>1, ExecLocal DEF ConfirmCluster, rowVars
  <2>2. CASE ConfirmPolicy(r)
    BY <2>2, ExecLocal DEF ConfirmPolicy, rowVars
  <2>3. CASE SubmitForApproval(r)
    BY <2>3, ExecLocal DEF SubmitForApproval, Started, Outcome
  <2>4. CASE ClaimAction(r)
    <3> DEFINE a == cur[r].action
    <3>1. a \in Action /\ status[a] \in {"pending", "approved"}
      BY <2>4 DEF ClaimAction, ClaimWins, ExpectedStatus, RequestsBound
    <3>2. \A q \in Request : Executing(q) => cur[q].action # a
      BY <3>1 DEF ExecInv, OneExecutor
    <3>3. writes[a] = 0
      BY <3>1 DEF ExecInv, WritesAccounted, Started, Outcome
    <3>4. OneExecutor'
      BY <2>4, <3>1, <3>2 DEF ClaimAction, ExecInv, OneExecutor, Executing
    <3>5. WritesAccounted'
      BY <2>4, <3>1, <3>3 DEF ClaimAction, ExecInv, WritesAccounted, Started, Outcome
    <3> QED BY <3>4, <3>5 DEF ExecInv
  <2>5. CASE ClaimRefused(r)
    BY <2>5, ExecLocal DEF ClaimRefused, rowVars
  <2>6. ASSUME NEW outcome \in Outcomes(r), ExecuteAction(r, outcome) PROVE ExecInv'
    <3> DEFINE a == cur[r].action
    <3>1. a \in Action /\ status[a] = "executing"
      BY <2>6 DEF ExecuteAction, RequestsBound, ExecInv, OneExecutor, Executing
    <3>2. \A q \in Request : cur'[q].action = cur[q].action
      BY <2>6 DEF ExecuteAction, SnapType
    <3>3. writes[a] = 0
      BY <2>6, <3>1 DEF ExecuteAction, ExecInv, WritesAccounted
    <3>4. \A q \in Request \ {r} : pc[q] = "claimed" => cur[q].action # a
      BY <2>6 DEF ExecuteAction, ExecInv, OneExecutor, Executing
    <3>5. OneExecutor'
      BY <2>6, <3>2 DEF ExecuteAction, ExecInv, OneExecutor, Executing, rowVars
    <3>6. WritesAccounted'
      BY <2>6, <3>1, <3>2, <3>3, <3>4 DEF ExecuteAction, ExecInv, WritesAccounted, Started, rowVars
    <3> QED BY <3>5, <3>6 DEF ExecInv
  <2>7. CASE RecordActionOutcome(r)
    <3> DEFINE a == cur[r].action
    <3>1. a \in Action /\ cur[r].outcome \in Outcome
      BY <2>7 DEF RecordActionOutcome, RequestsBound, SnapType
    <3>2. \A q \in Request \ {r} : Executing(q) => cur[q].action # a /\ cur[q].action \in Action
      BY <2>7 DEF RecordActionOutcome, ExecInv, OneExecutor, Executing, RequestsBound
    <3>3. OneExecutor'
      BY <2>7, <3>1, <3>2 DEF RecordActionOutcome, ExecInv, OneExecutor, Executing
    <3>4. WritesAccounted'
      BY <2>7, <3>1 DEF RecordActionOutcome, ExecInv, WritesAccounted, Started
    <3> QED BY <3>3, <3>4 DEF ExecInv
  <2>8. CASE RequestLost(r)
    BY <2>8, ExecLocal DEF RequestLost, rowVars
  <2> QED BY <1>4, <2>1, <2>2, <2>3, <2>4, <2>5, <2>6, <2>7, <2>8 DEF Confirming
<1>5. ASSUME NEW r \in Request, NEW u \in User, NEW a \in Action, ConfirmRead(r, u, a)
      PROVE  ExecInv'
  BY <1>5, ExecLocal DEF ConfirmRead, Goto, rowVars, TypeInv, TypeOK
<1>6. ASSUME NEW a \in Action, Reviewing(a) PROVE ExecInv'
  <2>1. UNCHANGED <<pc, cur, writes>>
    BY <1>6 DEF Reviewing, AgentDecideChange, AgentCancelChange
  <2>2. status[a] \notin Started /\ \A b \in Action \ {a} : status'[b] = status[b]
    BY <1>6 DEF Reviewing, AgentDecideChange, AgentCancelChange, Cancellable, Started, Outcome,
                TypeInv, TypeOK
  <2> QED BY <2>1, <2>2, ExecFrame
<1>7. ASSUME NEW s \in Sweep, Sweeping(s) PROVE ExecInv'
  <2>1. CASE SweepCommit(s)
    <3>1. \A a \in Action : status[a] \in Started => a \notin StillSeen(s)
      BY DEF StillSeen, Started, Outcome, Cancellable, TypeInv, TypeOK, SweepType
    <3> QED BY <2>1, <3>1, ExecFrame DEF SweepCommit, WithCancelled
  <2>2. CASE UNCHANGED <<status, pc, cur, writes>>
    BY <2>2, ExecFrame
  <2> QED BY <1>7, <2>1, <2>2 DEF Sweeping, SweepSelect, SweepRollback, rowVars
<1> QED BY <1>1, <1>2, <1>3, <1>4, <1>5, <1>6, <1>7 DEF Next

LEMMA ExecInvariant == Spec => []ExecInv
  BY TypeInvariant, ExecInit, ExecNext, PTL DEF Spec

\* While one request executes an action its row says so and no other request
\* executes it.
THEOREM ExecutionExclusive == Spec => []OneExecutor
  BY ExecInvariant, PTL DEF ExecInv

\* A staged action changes the cluster at most once.
THEOREM ExecutionOnce == Spec => []WrittenAtMostOnce
<1>1. ExecInv => WrittenAtMostOnce
  <2> SUFFICES ASSUME ExecInv, NEW a \in Action PROVE writes[a] <= 1
    BY DEF WrittenAtMostOnce
  <2>1. writes[a] = 0 \/ writes[a] = 1
    BY DEF ExecInv, WritesAccounted
  <2> QED BY <2>1
<1> QED BY <1>1, ExecInvariant, PTL

\* A cancelled or rejected action never changed the cluster.
THEOREM WithdrawalSafe == Spec => []WithdrawnNeverWritten
<1>1. ExecInv => WithdrawnNeverWritten
  BY DEF ExecInv, WritesAccounted, WithdrawnNeverWritten, Started, Outcome
<1> QED BY <1>1, ExecInvariant, PTL

-----------------------------------------------------------------------------
(* Approval and evidence.                                                  *)

\* The second person who let the change through.
ApprovedByAnother(a) ==
  \E u \in (Admin \cup Reviewer) \ {meta[a].owner} :
     <<"approved", u>> \in audit[a] /\ approvedBy[a] = u

\* What a row's status says about its approval and its evidence.
RowReviewed(a) ==
  /\ status[a] \in {"absent", "pending"} => ~Submitted(a)
  /\ status[a] \in {"absent", "pending", "approval_pending"} => approvedBy[a] = None
  /\ status[a] = "approved" => ApprovedByAnother(a)
  /\ status[a] \in {"approval_pending", "approved"} => Supported(meta[a].params) /\ evidence[a]
  /\ Submitted(a) /\ status[a] \in Started => ApprovedByAnother(a)
  /\ Submitted(a) \/ status[a] \in {"rolled_back", "rollback_pending"} =>
       Supported(meta[a].params) /\ evidence[a]

\* What a confirmation's copy still says truly about its row.
CopyAgrees(r) ==
  LET a == cur[r].action IN
  /\ cur[r].status = "pending" => cur[r].approvedBy = None
  /\ cur[r].status = "approved" =>
       /\ status[a] \notin {"absent", "pending", "approval_pending"}
       /\ cur[r].approvedBy = approvedBy[a]
       /\ Supported(meta[a].params) /\ cur[r].evidence
  /\ NeedsEvidence(r) /\ pc[r] \in {"ready", "claimed", "executed"} =>
       Supported(meta[a].params) /\ cur[r].evidence

\* What is known once a claim is won.
ClaimJustified(r) ==
  LET a == cur[r].action IN
  /\ cur[r].status = ExpectedStatus(r)
  /\ cur[r].approvedBy = approvedBy[a]
  /\ cur[r].status = "pending" => ~Submitted(a)
  /\ pc[r] = "executed" => cur[r].outcome \in Outcomes(r)

RowsReviewed == \A a \in Action : RowReviewed(a)
CopiesAgree == \A r \in Request : pc[r] # "idle" => CopyAgrees(r)
ClaimsJustified == \A r \in Request : Executing(r) => ClaimJustified(r)

ReviewInv == RowsReviewed /\ CopiesAgree /\ ClaimsJustified

LEMMA ReviewInit == Init => ReviewInv
  BY DEF Init, ReviewInv, RowsReviewed, RowReviewed, CopiesAgree, ClaimsJustified, Executing,
         Submitted, Started, Outcome

\* How a step other than a confirmation's treats a row it does not review.
RowKept(a) == status'[a] = status[a] /\ meta'[a] = meta[a] /\ audit'[a] = audit[a]
RowWithdrawn(a) ==
  /\ status[a] \in Cancellable /\ status'[a] = "cancelled" /\ meta'[a] = meta[a]
  /\ \A u \in User : <<"submitted", u>> \in audit'[a] => <<"submitted", u>> \in audit[a]
RowStaged(a) ==
  /\ status[a] = "absent" /\ status'[a] = "pending"
  /\ \A u \in User : <<"submitted", u>> \notin audit'[a]

\* Staging and withdrawing rows keeps what is known about approvals.
LEMMA ReviewFrame ==
  ASSUME TypeInv, ExecInv, ReviewInv, UNCHANGED <<pc, cur, approvedBy, evidence>>,
         \A a \in Action : RowKept(a) \/ RowWithdrawn(a) \/ RowStaged(a)
  PROVE  ReviewInv'
<1>1. RowsReviewed'
  <2> SUFFICES ASSUME NEW a \in Action PROVE RowReviewed(a)'
    BY DEF RowsReviewed
  <2>1. RowReviewed(a)
    BY DEF ReviewInv, RowsReviewed
  <2>2. CASE RowKept(a)
    BY <2>1, <2>2 DEF RowKept, RowReviewed, Submitted, ApprovedByAnother, Supported
  <2>3. CASE RowWithdrawn(a)
    BY <2>1, <2>3 DEF RowWithdrawn, RowReviewed, Submitted, Supported, Started, Outcome
  <2>4. CASE RowStaged(a)
    BY <2>1, <2>4 DEF RowStaged, RowReviewed, Submitted, Started, Outcome
  <2> QED BY <2>2, <2>3, <2>4
<1>2. CopiesAgree'
  <2> SUFFICES ASSUME NEW r \in Request, pc[r] # "idle" PROVE CopyAgrees(r)'
    BY DEF CopiesAgree
  <2>1. CopyAgrees(r) /\ cur[r].action \in Action /\ status[cur[r].action] # "absent"
    BY DEF ReviewInv, CopiesAgree, TypeInv, RequestsBound
  <2> QED BY <2>1 DEF CopyAgrees, NeedsEvidence, Supported, RowKept, RowWithdrawn, RowStaged, Cancellable
<1>3. ClaimsJustified'
  <2> SUFFICES ASSUME NEW r \in Request, Executing(r) PROVE ClaimJustified(r)'
    BY DEF ClaimsJustified, Executing
  <2>1. ClaimJustified(r) /\ cur[r].action \in Action /\ status[cur[r].action] = "executing"
    BY DEF ReviewInv, ClaimsJustified, TypeInv, RequestsBound, Executing, ExecInv, OneExecutor
  <2>2. RowKept(cur[r].action)
    BY <2>1 DEF RowWithdrawn, RowStaged, Cancellable
  <2> QED BY <2>1, <2>2 DEF ClaimJustified, ExpectedStatus, Outcomes, Submitted, RowKept
<1> QED BY <1>1, <1>2, <1>3 DEF ReviewInv

\* A step of one request that leaves the rows alone.
LEMMA ReviewLocal ==
  ASSUME TypeInv, ReviewInv, NEW r \in Request, UNCHANGED rowVars,
         \A q \in Request \ {r} : pc'[q] = pc[q] /\ cur'[q] = cur[q],
         pc'[r] # "idle" => CopyAgrees(r)',
         pc'[r] \in {"claimed", "executed"} => ClaimJustified(r)'
  PROVE  ReviewInv'
<1>1. RowsReviewed'
  BY DEF ReviewInv, RowsReviewed, RowReviewed, Submitted, ApprovedByAnother, Supported, rowVars
<1>2. \A q \in Request \ {r} : pc[q] # "idle" => CopyAgrees(q)'
  BY DEF ReviewInv, CopiesAgree, CopyAgrees, NeedsEvidence, Supported, rowVars
<1>3. \A q \in Request \ {r} : Executing(q) => ClaimJustified(q)'
  BY DEF ReviewInv, ClaimsJustified, ClaimJustified, Executing, ExpectedStatus, Outcomes, Submitted,
         rowVars
<1> QED BY <1>1, <1>2, <1>3 DEF ReviewInv, CopiesAgree, ClaimsJustified, Executing

\* The steps of a confirmation.
LEMMA ReviewConfirming ==
  ASSUME TypeInv, ExecInv, ReviewInv, NEW r \in Request, Confirming(r) \/ RequestLost(r)
  PROVE  ReviewInv'
<1> DEFINE a == cur[r].action
<1> USE DEF Goto
<1>0. /\ pc \in [Request -> {"idle", "loaded", "scoped", "ready", "claimed", "executed"}]
      /\ cur \in [Request -> SnapType]
      /\ pc[r] # "idle" => a \in Action /\ CopyAgrees(r) /\ RowReviewed(a)
      /\ Executing(r) => ClaimJustified(r)
  BY DEF TypeInv, TypeOK, RequestsBound, ReviewInv, RowsReviewed, CopiesAgree, ClaimsJustified
<1>1. CASE ConfirmCluster(r)
  <2>1. CASE MayConfirm(r)
    <3>1. /\ cur'[r].action = a /\ cur'[r].status = cur[r].status
          /\ cur'[r].approvedBy = cur[r].approvedBy /\ cur'[r].evidence = cur[r].evidence
      BY <1>0, <1>1, <2>1 DEF ConfirmCluster, SnapType
    <3>2. CopyAgrees(r)'
      BY <1>0, <1>1, <2>1, <3>1 DEF ConfirmCluster, CopyAgrees, Supported, rowVars
    <3> QED BY <1>0, <1>1, <2>1, <3>2, ReviewLocal DEF ConfirmCluster
  <2>2. CASE ~MayConfirm(r)
    BY <1>0, <1>1, <2>2, ReviewLocal DEF ConfirmCluster
  <2> QED BY <2>1, <2>2
<1>2. CASE ConfirmPolicy(r)
  <2>1. CASE pc'[r] = "ready"
    <3>1. /\ cur'[r].action = a /\ cur'[r].status = cur[r].status
          /\ cur'[r].approvedBy = cur[r].approvedBy /\ cur'[r].prod = cur[r].prod
      BY <1>0, <1>2, <2>1 DEF ConfirmPolicy, SnapType
    <3>2. cur'[r].evidence = (cur[r].evidence \/ NeedsEvidence(r))
      BY <1>0, <1>2, <2>1 DEF ConfirmPolicy, SnapType
    <3>3. NeedsEvidence(r) => Supported(meta[a].params)
      BY <1>0, <1>2, <2>1 DEF ConfirmPolicy, HasEvidence
    <3>4. CopyAgrees(r)'
      BY <1>0, <1>2, <3>1, <3>2, <3>3 DEF ConfirmPolicy, CopyAgrees, NeedsEvidence, Supported, rowVars
    <3> QED BY <1>0, <1>2, <2>1, <3>4, ReviewLocal DEF ConfirmPolicy
  <2>2. CASE pc'[r] = "idle"
    BY <1>0, <1>2, <2>2, ReviewLocal DEF ConfirmPolicy
  <2> QED BY <1>0, <1>2, <2>1, <2>2 DEF ConfirmPolicy
<1>3. CASE SubmitForApproval(r)
  <2>1. CASE status[a] = "pending" /\ meta[a].owner = cur[r].user
    <3>1. /\ Supported(meta[a].params) /\ approvedBy[a] = None
      BY <1>0, <1>3, <2>1 DEF SubmitForApproval, NeedsApproval, CopyAgrees, RowReviewed
    <3>5. /\ meta' = meta /\ approvedBy' = approvedBy /\ status'[a] = "approval_pending"
          /\ \A b \in Action \ {a} : status'[b] = status[b] /\ audit'[b] = audit[b]
      BY <1>0, <1>3, <2>1 DEF SubmitForApproval, TypeInv, TypeOK
    <3>2. RowsReviewed'
      <4> SUFFICES ASSUME NEW b \in Action PROVE RowReviewed(b)'
        BY DEF RowsReviewed
      <4>1. CASE b = a
        BY <1>3, <2>1, <3>1, <4>1
        DEF SubmitForApproval, RowReviewed, Supported, Started, Outcome, TypeInv, TypeOK
      <4>2. CASE b # a
        <5>1. evidence'[b] = evidence[b]
          BY <1>0, <1>3, <2>1, <4>2 DEF SubmitForApproval, TypeInv, TypeOK
        <5>2. RowReviewed(b)
          BY DEF ReviewInv, RowsReviewed
        <5> QED BY <3>5, <4>2, <5>1, <5>2 DEF RowReviewed, Supported, Submitted, ApprovedByAnother
      <4> QED BY <4>1, <4>2
    <3>3. CopiesAgree'
      <4> SUFFICES ASSUME NEW q \in Request, pc'[q] # "idle" PROVE CopyAgrees(q)'
        BY DEF CopiesAgree
      <4>1. q # r /\ pc'[q] = pc[q] /\ cur'[q] = cur[q] /\ CopyAgrees(q) /\ cur[q].action \in Action
        BY <1>0, <1>3 DEF SubmitForApproval, ReviewInv, CopiesAgree, TypeInv, RequestsBound
      <4> QED BY <2>1, <3>5, <4>1 DEF CopyAgrees, NeedsEvidence, Supported
    <3>4. ClaimsJustified'
      <4> SUFFICES ASSUME NEW q \in Request, Executing(q)' PROVE ClaimJustified(q)'
        BY DEF ClaimsJustified
      <4>1. q # r /\ pc'[q] = pc[q] /\ cur'[q] = cur[q] /\ ClaimJustified(q) /\ cur[q].action \in Action
        BY <1>0, <1>3
        DEF SubmitForApproval, Executing, ReviewInv, ClaimsJustified, TypeInv, RequestsBound
      <4>2. cur[q].action # a
        BY <2>1, <4>1 DEF Executing, ExecInv, OneExecutor
      <4> QED BY <3>5, <4>1, <4>2 DEF ClaimJustified, ExpectedStatus, Outcomes, Submitted
    <3> QED BY <3>2, <3>3, <3>4 DEF ReviewInv
  <2>2. CASE ~(status[a] = "pending" /\ meta[a].owner = cur[r].user)
    BY <1>0, <1>3, <2>2, ReviewLocal DEF SubmitForApproval, rowVars
  <2> QED BY <2>1, <2>2
<1>4. CASE ClaimAction(r)
  <2>1. /\ a \in Action /\ status[a] = cur[r].status /\ cur[r].status = ExpectedStatus(r)
        /\ status[a] \in {"pending", "approved"}
    BY <1>0, <1>4 DEF ClaimAction, ReadyForExecution, ClaimWins, ExpectedStatus
  <2>2. /\ cur[r].approvedBy = approvedBy[a]
        /\ status[a] = "pending" => ~Submitted(a)
        /\ status[a] = "approved" => ApprovedByAnother(a)
    BY <1>0, <1>4, <2>1 DEF ClaimAction, CopyAgrees, RowReviewed
  <2>3. /\ evidence[a] => evidence'[a]
        /\ \A u \in User : <<"submitted", u>> \in audit'[a] <=> <<"submitted", u>> \in audit[a]
        /\ audit[a] \subseteq audit'[a] /\ status'[a] = "executing"
        /\ meta' = meta /\ approvedBy' = approvedBy
        /\ \A b \in Action \ {a} :
             status'[b] = status[b] /\ evidence'[b] = evidence[b] /\ audit'[b] = audit[b]
    BY <1>4, <2>1 DEF ClaimAction, TypeInv, TypeOK
  <2>4. RowsReviewed'
    <3> SUFFICES ASSUME NEW b \in Action PROVE RowReviewed(b)'
      BY DEF RowsReviewed
    <3>0. RowReviewed(b)
      BY DEF ReviewInv, RowsReviewed
    <3>1. CASE b = a
      BY <2>1, <2>2, <2>3, <3>0, <3>1
      DEF RowReviewed, Supported, Submitted, ApprovedByAnother, Started, Outcome
    <3>2. CASE b # a
      BY <2>3, <3>0, <3>2 DEF RowReviewed, Supported, Submitted, ApprovedByAnother
    <3> QED BY <3>1, <3>2
  <2>5. CopiesAgree'
    <3> SUFFICES ASSUME NEW q \in Request, pc'[q] # "idle" PROVE CopyAgrees(q)'
      BY DEF CopiesAgree
    <3>1. cur'[q] = cur[q] /\ CopyAgrees(q) /\ cur[q].action \in Action
      BY <1>0, <1>4 DEF ClaimAction, ReviewInv, CopiesAgree, TypeInv, RequestsBound
    <3>2. pc'[q] = pc[q] \/ (pc[q] = "ready" /\ pc'[q] = "claimed")
      BY <1>0, <1>4 DEF ClaimAction
    <3> QED BY <2>1, <2>3, <3>1, <3>2 DEF CopyAgrees, NeedsEvidence, Supported
  <2>6. ClaimsJustified'
    <3> SUFFICES ASSUME NEW q \in Request, Executing(q)' PROVE ClaimJustified(q)'
      BY DEF ClaimsJustified
    <3>1. cur' = cur /\ (q # r => pc'[q] = pc[q]) /\ (q = r => pc'[q] = "claimed")
      BY <1>0, <1>4 DEF ClaimAction
    <3>2. CASE q = r
      BY <2>1, <2>2, <2>3, <3>1, <3>2 DEF ClaimJustified, ExpectedStatus, Submitted
    <3>3. CASE q # r
      <4>1. ClaimJustified(q) /\ cur[q].action \in Action
        BY <3>1, <3>3 DEF ReviewInv, ClaimsJustified, Executing, TypeInv, RequestsBound
      <4> QED BY <2>3, <3>1, <3>3, <4>1 DEF ClaimJustified, ExpectedStatus, Submitted, Outcomes
    <3> QED BY <3>2, <3>3
  <2> QED BY <2>4, <2>5, <2>6 DEF ReviewInv
<1>5. CASE ClaimRefused(r)
  BY <1>0, <1>5, ReviewLocal DEF ClaimRefused
<1>6. ASSUME NEW outcome \in Outcomes(r), ExecuteAction(r, outcome) PROVE ReviewInv'
  <2>1. /\ cur'[r].action = a /\ cur'[r].status = cur[r].status /\ cur'[r].prod = cur[r].prod
        /\ cur'[r].approvedBy = cur[r].approvedBy /\ cur'[r].evidence = cur[r].evidence
        /\ cur'[r].outcome = outcome
    BY <1>0, <1>6 DEF ExecuteAction, SnapType
  <2>2. CopyAgrees(r)'
    BY <1>0, <1>6, <2>1 DEF ExecuteAction, CopyAgrees, NeedsEvidence, Supported, rowVars
  <2>3. ClaimJustified(r)'
    BY <1>0, <1>6, <2>1
    DEF ExecuteAction, ClaimJustified, Executing, ExpectedStatus, Outcomes, Submitted, rowVars
  <2> QED BY <1>0, <1>6, <2>2, <2>3, ReviewLocal DEF ExecuteAction
<1>7. CASE RecordActionOutcome(r)
  <2>1. /\ a \in Action /\ ClaimJustified(r) /\ CopyAgrees(r) /\ RowReviewed(a)
        /\ cur[r].outcome \in Outcomes(r) /\ cur[r].outcome \in Outcome
        /\ status[a] = "executing"
    BY <1>0, <1>7 DEF RecordActionOutcome, Executing, ClaimJustified, ExecInv, OneExecutor, SnapType
  <2>2. approvedBy' = approvedBy
    BY <1>7, <2>1 DEF RecordActionOutcome, SavedColumns, ClaimJustified, TypeInv, TypeOK
  <2>3. Submitted(a) \/ cur[r].outcome \in {"rolled_back", "rollback_pending"} =>
          Supported(meta[a].params) /\ cur[r].evidence
    BY <1>7, <2>1
    DEF RecordActionOutcome, ClaimJustified, CopyAgrees, ExpectedStatus, Outcomes, NeedsEvidence
  <2>4. /\ status'[a] = cur[r].outcome /\ evidence'[a] = cur[r].evidence /\ meta' = meta
        /\ \A u \in User : <<"submitted", u>> \in audit'[a] <=> <<"submitted", u>> \in audit[a]
        /\ audit[a] \subseteq audit'[a]
        /\ \A b \in Action \ {a} :
             status'[b] = status[b] /\ evidence'[b] = evidence[b] /\ audit'[b] = audit[b]
    BY <1>7, <2>1 DEF RecordActionOutcome, OutcomeEvent, SavedColumns, Outcome, TypeInv, TypeOK
  <2>5. RowsReviewed'
    <3> SUFFICES ASSUME NEW b \in Action PROVE RowReviewed(b)'
      BY DEF RowsReviewed
    <3>0. RowReviewed(b)
      BY DEF ReviewInv, RowsReviewed
    <3>1. CASE b = a
      BY <2>1, <2>2, <2>3, <2>4, <3>0, <3>1
      DEF RowReviewed, Supported, Submitted, ApprovedByAnother, Started, Outcome
    <3>2. CASE b # a
      BY <2>2, <2>4, <3>0, <3>2 DEF RowReviewed, Supported, Submitted, ApprovedByAnother
    <3> QED BY <3>1, <3>2
  <2>6. CopiesAgree'
    <3> SUFFICES ASSUME NEW q \in Request, pc'[q] # "idle" PROVE CopyAgrees(q)'
      BY DEF CopiesAgree
    <3>1. q # r /\ pc'[q] = pc[q] /\ cur'[q] = cur[q] /\ CopyAgrees(q) /\ cur[q].action \in Action
      BY <1>0, <1>7 DEF RecordActionOutcome, ReviewInv, CopiesAgree, TypeInv, RequestsBound
    <3> QED BY <2>1, <2>2, <2>4, <3>1 DEF CopyAgrees, NeedsEvidence, Supported, Outcome
  <2>7. ClaimsJustified'
    <3> SUFFICES ASSUME NEW q \in Request, Executing(q)' PROVE ClaimJustified(q)'
      BY DEF ClaimsJustified
    <3>1. q # r /\ pc'[q] = pc[q] /\ cur'[q] = cur[q] /\ ClaimJustified(q) /\ cur[q].action \in Action
      BY <1>0, <1>7
      DEF RecordActionOutcome, Executing, ReviewInv, ClaimsJustified, TypeInv, RequestsBound
    <3> QED BY <2>2, <2>4, <3>1 DEF ClaimJustified, ExpectedStatus, Submitted, Outcomes
  <2> QED BY <2>5, <2>6, <2>7 DEF ReviewInv
<1>8. CASE RequestLost(r)
  BY <1>0, <1>8, ReviewLocal DEF RequestLost
<1> QED BY <1>1, <1>2, <1>3, <1>4, <1>5, <1>6, <1>7, <1>8 DEF Confirming

\* Every step keeps what is known about approvals and evidence.
LEMMA ReviewNext == TypeInv /\ ExecInv /\ ReviewInv /\ [Next]_vars => ReviewInv'
<1> SUFFICES ASSUME TypeInv, ExecInv, ReviewInv, [Next]_vars PROVE ReviewInv'
  OBVIOUS
<1>0. CASE UNCHANGED <<rowVars, pc, cur>>
  BY <1>0, ReviewFrame DEF rowVars, RowKept
<1>1. ASSUME NEW t \in Turn, Staging(t) PROVE ReviewInv'
  <2>1. ASSUME NEW a \in Action, StageAction(t, a) PROVE ReviewInv'
    <3>1. RowStaged(a)
      BY <2>1 DEF StageAction, WithCancelled, RowStaged, TypeInv, TypeOK
    <3>2. \A b \in Action \ {a} : RowKept(b) \/ RowWithdrawn(b)
      BY <2>1 DEF StageAction, WithCancelled, Replaced, RowKept, RowWithdrawn, Cancellable, TypeInv, TypeOK
    <3> QED BY <2>1, <3>1, <3>2, ReviewFrame DEF StageAction
  <2>2. ASSUME NEW S \in SUBSET Action, DropIncompleteMountDeployments(t, S) PROVE ReviewInv'
    <3>1. \A b \in Action : RowKept(b) \/ RowWithdrawn(b)
      BY <2>2 DEF DropIncompleteMountDeployments, WithCancelled, RowKept, RowWithdrawn, Cancellable
    <3> QED BY <2>2, <3>1, ReviewFrame DEF DropIncompleteMountDeployments
  <2> QED BY <1>0, <1>1, <2>1, <2>2
          DEF Staging, StartTurn, DiagnoseTool, PreviewMutation, AgentExecute, StageRefused, EndTurn,
              TurnLost, rowVars
<1>2. ASSUME NEW r \in Request, NEW u \in User, NEW a \in Action, ConfirmRead(r, u, a)
      PROVE  ReviewInv'
  <2>1. /\ cur'[r].action = a /\ cur'[r].status = status[a] /\ cur'[r].approvedBy = approvedBy[a]
        /\ cur'[r].evidence = evidence[a] /\ pc'[r] = "loaded"
        /\ \A q \in Request \ {r} : pc'[q] = pc[q] /\ cur'[q] = cur[q]
    BY <1>2 DEF ConfirmRead, Goto, NoSnap, TypeInv, TypeOK
  <2>2. RowReviewed(a)
    BY DEF ReviewInv, RowsReviewed
  <2>3. CopyAgrees(r)'
    BY <1>2, <2>1, <2>2 DEF ConfirmRead, CopyAgrees, RowReviewed, Supported, rowVars
  <2> QED BY <1>2, <2>1, <2>3, ReviewLocal DEF ConfirmRead
<1>3. ASSUME NEW a \in Action, NEW u \in User, NEW d \in {"approved", "rejected"},
             AgentDecideChange(u, a, d)
      PROVE  ReviewInv'
  <2>1. /\ status[a] = "approval_pending" /\ status'[a] = d /\ meta' = meta
        /\ evidence' = evidence /\ pc' = pc /\ cur' = cur
        /\ d = "approved" => approvedBy'[a] = u
        /\ <<d, u>> \in audit'[a]
        /\ \A v \in User : <<"submitted", v>> \in audit'[a] <=> <<"submitted", v>> \in audit[a]
        /\ \A b \in Action \ {a} :
             status'[b] = status[b] /\ approvedBy'[b] = approvedBy[b] /\ audit'[b] = audit[b]
    BY <1>3 DEF AgentDecideChange, TypeInv, TypeOK
  <2>2. u \in (Admin \cup Reviewer) \ {meta[a].owner}
    BY <1>3 DEF AgentDecideChange, CanReview
  <2>3. RowsReviewed'
    <3> SUFFICES ASSUME NEW b \in Action PROVE RowReviewed(b)'
      BY DEF RowsReviewed
    <3>0. RowReviewed(b)
      BY DEF ReviewInv, RowsReviewed
    <3>1. CASE b = a
      BY <2>1, <2>2, <3>0, <3>1
      DEF RowReviewed, Supported, Submitted, ApprovedByAnother, Started, Outcome
    <3>2. CASE b # a
      BY <2>1, <3>0, <3>2 DEF RowReviewed, Supported, Submitted, ApprovedByAnother
    <3> QED BY <3>1, <3>2
  <2>4. CopiesAgree'
    <3> SUFFICES ASSUME NEW q \in Request, pc[q] # "idle" PROVE CopyAgrees(q)'
      BY <2>1 DEF CopiesAgree
    <3>1. CopyAgrees(q) /\ cur[q].action \in Action
      BY DEF ReviewInv, CopiesAgree, TypeInv, RequestsBound
    <3> QED BY <2>1, <3>1 DEF CopyAgrees, NeedsEvidence, Supported
  <2>5. ClaimsJustified'
    <3> SUFFICES ASSUME NEW q \in Request, Executing(q) PROVE ClaimJustified(q)'
      BY <2>1 DEF ClaimsJustified, Executing
    <3>1. ClaimJustified(q) /\ cur[q].action \in Action /\ cur[q].action # a
      BY <2>1 DEF ReviewInv, ClaimsJustified, TypeInv, RequestsBound, Executing, ExecInv, OneExecutor
    <3> QED BY <2>1, <3>1 DEF ClaimJustified, ExpectedStatus, Submitted, Outcomes
  <2> QED BY <2>3, <2>4, <2>5 DEF ReviewInv
<1>4. ASSUME NEW a \in Action, AgentCancelChange(a) PROVE ReviewInv'
  <2>1. RowWithdrawn(a) /\ \A b \in Action \ {a} : RowKept(b)
    BY <1>4 DEF AgentCancelChange, RowKept, RowWithdrawn, TypeInv, TypeOK
  <2> QED BY <1>4, <2>1, ReviewFrame DEF AgentCancelChange
<1>5. ASSUME NEW s \in Sweep, Sweeping(s) PROVE ReviewInv'
  <2>1. CASE SweepCommit(s)
    <3>1. \A b \in StillSeen(s) : b \in Action /\ status[b] \in Cancellable
      BY DEF StillSeen, TypeInv, TypeOK, SweepType
    <3>2. \A b \in Action : RowKept(b) \/ RowWithdrawn(b)
      BY <2>1, <3>1 DEF SweepCommit, WithCancelled, AuditAll, RowKept, RowWithdrawn
    <3> QED BY <2>1, <3>2, ReviewFrame DEF SweepCommit
  <2> QED BY <1>0, <1>5, <2>1 DEF Sweeping, SweepSelect, SweepRollback
<1>6. ASSUME NEW b \in PolicyValues, UpdateApprovalSettings(b) \/ UpdateClusterEnvironment(b)
      PROVE  ReviewInv'
  BY <1>0, <1>6 DEF UpdateApprovalSettings, UpdateClusterEnvironment
<1>7. CASE UNCHANGED vars
  BY <1>0, <1>7 DEF vars
<1> QED BY <1>1, <1>2, <1>3, <1>4, <1>5, <1>6, <1>7, ReviewConfirming DEF Next, Reviewing

LEMMA ReviewInvariant == Spec => []ReviewInv
  BY TypeInvariant, ExecInvariant, ReviewInit, ReviewNext, PTL DEF Spec

\* An action that entered approval is executed only after another person
\* approved it, whatever happens to the policy meanwhile.
THEOREM ApprovalRespected == Spec => []ApprovalHonoured
<1>1. ReviewInv => ApprovalHonoured
  BY DEF ReviewInv, RowsReviewed, RowReviewed, ApprovalHonoured, ApprovedByAnother, Started
<1> QED BY <1>1, ReviewInvariant, PTL

\* What went through approval or was rolled back keeps its evidence.
THEOREM EvidencePreserved == Spec => []EvidenceKept
<1>1. ReviewInv => EvidenceKept
  BY DEF ReviewInv, RowsReviewed, RowReviewed, EvidenceKept
<1> QED BY <1>1, ReviewInvariant, PTL

-----------------------------------------------------------------------------
(* While a clear or a delete holds the row lock nothing is staged in the   *)
(* conversation, so every pending row is among those it selected.          *)

ClearsSeeEverything ==
  \A s \in Sweep : sweep[s].op \in {"clear", "delete"} =>
    /\ lock[sweep[s].conv] = s
    /\ \A a \in Action : status[a] = "pending" /\ meta[a].conv = sweep[s].conv =>
         sweep[s].seen[a] = "pending"

StagingInv == PendingIsCurrent /\ ClearsSeeEverything /\ OnePendingCreate

LEMMA StagingInit == Init => StagingInv
  BY DEF Init, StagingInv, PendingIsCurrent, ClearsSeeEverything, OnePendingCreate, IdleSweep

\* A step that makes no row pending and leaves conversations and sweeps alone.
LEMMA StagingFrame ==
  ASSUME TypeInv, StagingInv, UNCHANGED <<meta, version, alive, lock, sweep>>,
         \A a \in Action : status'[a] = "pending" => status[a] = "pending"
  PROVE  StagingInv'
<1>1. PendingIsCurrent'
  BY DEF StagingInv, PendingIsCurrent
<1>2. ClearsSeeEverything'
  BY DEF StagingInv, ClearsSeeEverything
<1>3. OnePendingCreate'
  BY DEF StagingInv, OnePendingCreate
<1> QED BY <1>1, <1>2, <1>3 DEF StagingInv

\* stageOneMutation and AgentExecute against a concurrent clear.
LEMMA StagingStage ==
  ASSUME TypeInv, StagingInv, NEW t \in Turn, NEW a \in Action, StageAction(t, a)
  PROVE  StagingInv'
<1>1. /\ status'[a] = "pending" /\ a \notin Replaced(t)
      /\ meta'[a] = [owner |-> turn[t].user, conv |-> turn[t].conv, params |-> turn[t].params,
                     version |-> turn[t].version, via |-> turn[t].via]
      /\ \A b \in Action \ {a} : meta'[b] = meta[b]
      /\ \A b \in Action \ {a} : status'[b] = "pending" => status[b] = "pending" /\ b \notin Replaced(t)
      /\ UNCHANGED <<version, alive, lock, sweep>>
  BY DEF StageAction, WithCancelled, Replaced, TypeInv, TypeOK, convVars
<1>2. PendingIsCurrent'
  BY <1>1 DEF StageAction, ValidRun, StagingInv, PendingIsCurrent
<1>3. ClearsSeeEverything'
  <2> SUFFICES ASSUME NEW s \in Sweep, sweep[s].op \in {"clear", "delete"}
               PROVE  /\ lock[sweep[s].conv] = s
                      /\ \A b \in Action : status'[b] = "pending" /\ meta'[b].conv = sweep[s].conv =>
                           sweep[s].seen[b] = "pending"
    BY <1>1 DEF ClearsSeeEverything
  <2>1. lock[sweep[s].conv] = s /\ sweep[s].conv \in Conv /\ s # None /\ sweep[s].conv # None
    BY ConstantsAssumption DEF StagingInv, ClearsSeeEverything, TypeInv, SweepsBound
  <2>2. turn[t].conv # sweep[s].conv
    BY <2>1 DEF StageAction, UnlockedConv
  <2> QED BY <1>1, <2>1, <2>2 DEF StagingInv, ClearsSeeEverything
<1>4. OnePendingCreate'
  <2>1. \A b \in Action \ {a} :
          ~(/\ status'[b] = "pending" /\ meta'[a].conv # None
            /\ meta'[a].via = "agent" /\ meta'[b].via = "agent"
            /\ meta'[a].params \in CreateParams /\ meta'[b].params \in CreateParams
            /\ meta'[a].conv = meta'[b].conv /\ meta'[a].owner = meta'[b].owner)
    BY <1>1 DEF Replaced
  <2> QED BY <1>1, <2>1 DEF StagingInv, OnePendingCreate
<1> QED BY <1>2, <1>3, <1>4 DEF StagingInv

\* clearConversationContent and CancelPendingActions.
LEMMA StagingSweep ==
  ASSUME TypeInv, StagingInv, NEW s \in Sweep, Sweeping(s)
  PROVE  StagingInv'
<1>1. ASSUME NEW c \in Conv, NEW op \in {"clear", "delete", "cancel"}, NEW ids \in SUBSET Action,
             SweepSelect(s, c, op, ids)
      PROVE  StagingInv'
  <2>1. /\ UNCHANGED <<status, meta, version, alive>> /\ sweep[s].op = "idle"
        /\ sweep'[s].op = op /\ sweep'[s].conv = c
        /\ \A q \in Sweep \ {s} : sweep'[q] = sweep[q]
    BY <1>1 DEF SweepSelect, rowVars, TypeInv, TypeOK
  <2>2. PendingIsCurrent' /\ OnePendingCreate'
    BY <2>1 DEF StagingInv, PendingIsCurrent, OnePendingCreate
  <2>3. op \in {"clear", "delete"} =>
          /\ lock[c] = None /\ lock'[c] = s /\ \A d \in Conv \ {c} : lock'[d] = lock[d]
          /\ \A a \in Action : status[a] = "pending" /\ meta[a].conv = c => sweep'[s].seen[a] = "pending"
    BY <1>1 DEF SweepSelect, Selected, Cancellable, TypeInv, TypeOK
  <2>4. op = "cancel" => lock' = lock
    BY <1>1 DEF SweepSelect
  <2>5. \A q \in Sweep \ {s} : sweep[q].op \in {"clear", "delete"} =>
          sweep[q].conv \in Conv /\ (op \in {"clear", "delete"} => sweep[q].conv # c)
    BY <2>3, ConstantsAssumption DEF StagingInv, ClearsSeeEverything, TypeInv, SweepsBound
  <2>6. ClearsSeeEverything'
    BY <2>1, <2>3, <2>4, <2>5 DEF StagingInv, ClearsSeeEverything
  <2> QED BY <2>2, <2>6 DEF StagingInv
<1>2. CASE SweepCommit(s)
  <2> DEFINE c == sweep[s].conv
  <2>1. c \in Conv /\ sweep[s].op \in {"clear", "delete", "cancel"}
    BY <1>2 DEF SweepCommit, TypeInv, TypeOK, SweepType, SweepsBound
  <2>2. /\ meta' = meta /\ sweep'[s].op = "idle" /\ \A q \in Sweep \ {s} : sweep'[q] = sweep[q]
        /\ \A a \in Action : status'[a] = "pending" => status[a] = "pending" /\ a \notin StillSeen(s)
    BY <1>2 DEF SweepCommit, WithCancelled, IdleSweep, TypeInv, TypeOK
  <2>3. sweep[s].op \in {"clear", "delete"} =>
          \A a \in Action : status'[a] = "pending" => meta[a].conv # c
    BY <2>2 DEF StagingInv, ClearsSeeEverything, StillSeen
  <2>4. \A d \in Conv : sweep[s].op = "cancel" \/ d # c =>
          version'[d] = version[d] /\ alive'[d] = alive[d] /\ lock'[d] = lock[d]
    BY <1>2, <2>1 DEF SweepCommit, TypeInv, TypeOK
  <2>5. PendingIsCurrent'
    <3> SUFFICES ASSUME NEW a \in Action, status'[a] = "pending", meta[a].conv # None
                 PROVE  alive'[meta[a].conv] /\ version'[meta[a].conv] = meta[a].version
      BY <2>2 DEF PendingIsCurrent
    <3>1. meta[a].conv \in Conv
      BY DEF TypeInv, TypeOK, MetaType
    <3> QED BY <2>1, <2>2, <2>3, <2>4, <3>1 DEF StagingInv, PendingIsCurrent
  <2>6. ClearsSeeEverything'
    <3> SUFFICES ASSUME NEW q \in Sweep \ {s}, sweep[q].op \in {"clear", "delete"}
                 PROVE  /\ lock'[sweep[q].conv] = q
                        /\ \A a \in Action : status'[a] = "pending" /\ meta[a].conv = sweep[q].conv =>
                             sweep[q].seen[a] = "pending"
      BY <2>2 DEF ClearsSeeEverything
    <3>1. sweep[q].conv \in Conv /\ lock[sweep[q].conv] = q
      BY DEF StagingInv, ClearsSeeEverything, TypeInv, SweepsBound
    <3>2. sweep[s].op = "cancel" \/ sweep[q].conv # c
      BY <2>1, <3>1 DEF StagingInv, ClearsSeeEverything
    <3> QED BY <2>2, <2>4, <3>1, <3>2 DEF StagingInv, ClearsSeeEverything
  <2>7. OnePendingCreate'
    BY <2>2 DEF StagingInv, OnePendingCreate
  <2> QED BY <2>5, <2>6, <2>7 DEF StagingInv
<1>3. CASE SweepRollback(s)
  <2>1. sweep[s].conv \in Conv
    BY <1>3 DEF SweepRollback, TypeInv, SweepsBound
  <2>2. /\ UNCHANGED <<status, meta, version, alive>>
        /\ sweep'[s].op = "idle" /\ \A q \in Sweep \ {s} : sweep'[q] = sweep[q]
        /\ \A d \in Conv : sweep[s].op = "cancel" \/ d # sweep[s].conv => lock'[d] = lock[d]
    BY <1>3 DEF SweepRollback, IdleSweep, rowVars, TypeInv, TypeOK
  <2>3. PendingIsCurrent' /\ OnePendingCreate'
    BY <2>2 DEF StagingInv, PendingIsCurrent, OnePendingCreate
  <2>4. \A q \in Sweep \ {s} : sweep[q].op \in {"clear", "delete"} =>
          sweep[q].conv \in Conv /\ (sweep[s].op = "cancel" \/ sweep[q].conv # sweep[s].conv)
    BY <1>3, <2>1 DEF SweepRollback, StagingInv, ClearsSeeEverything, TypeInv, TypeOK, SweepType, SweepsBound
  <2>5. ClearsSeeEverything'
    BY <2>2, <2>4 DEF StagingInv, ClearsSeeEverything
  <2> QED BY <2>3, <2>5 DEF StagingInv
<1> QED BY <1>1, <1>2, <1>3 DEF Sweeping

\* Every step keeps what is pending current and unique.
LEMMA StagingNext == TypeInv /\ StagingInv /\ [Next]_vars => StagingInv'
<1> SUFFICES ASSUME TypeInv, StagingInv, [Next]_vars PROVE StagingInv'
  OBVIOUS
<1>0. CASE UNCHANGED <<rowVars, convVars, sweep>>
  BY <1>0, StagingFrame DEF rowVars, convVars
<1>1. ASSUME NEW t \in Turn, Staging(t) PROVE StagingInv'
  <2>1. ASSUME NEW S \in SUBSET Action, DropIncompleteMountDeployments(t, S) PROVE StagingInv'
    BY <2>1, StagingFrame DEF DropIncompleteMountDeployments, WithCancelled, convVars
  <2>2. CASE EndTurn(t)
    BY <2>2, StagingFrame DEF EndTurn, rowVars
  <2> QED BY <1>0, <1>1, <2>1, <2>2, StagingStage
          DEF Staging, StartTurn, DiagnoseTool, PreviewMutation, AgentExecute, StageRefused, TurnLost
<1>2. ASSUME NEW r \in Request, Confirming(r) \/ RequestLost(r) PROVE StagingInv'
  <2>1. CASE SubmitForApproval(r)
    BY <2>1, StagingFrame DEF SubmitForApproval, convVars, TypeInv, TypeOK
  <2>2. CASE ClaimAction(r)
    BY <2>2, StagingFrame DEF ClaimAction, convVars, TypeInv, TypeOK
  <2>3. CASE RecordActionOutcome(r)
    <3>1. cur[r].outcome # "pending"
      BY DEF TypeInv, TypeOK, SnapType, Outcome
    <3> QED BY <2>3, <3>1, StagingFrame DEF RecordActionOutcome, convVars, TypeInv, TypeOK
  <2> QED BY <1>0, <1>2, <2>1, <2>2, <2>3
          DEF Confirming, ConfirmCluster, ConfirmPolicy, ClaimRefused, ExecuteAction, RequestLost
<1>3. ASSUME NEW r \in Request, NEW u \in User, NEW a \in Action, ConfirmRead(r, u, a)
      PROVE  StagingInv'
  BY <1>0, <1>3 DEF ConfirmRead
<1>4. ASSUME NEW a \in Action, Reviewing(a) PROVE StagingInv'
  BY <1>4, StagingFrame DEF Reviewing, AgentDecideChange, AgentCancelChange, convVars, TypeInv, TypeOK
<1>5. ASSUME NEW b \in PolicyValues, UpdateApprovalSettings(b) \/ UpdateClusterEnvironment(b)
      PROVE  StagingInv'
  BY <1>0, <1>5 DEF UpdateApprovalSettings, UpdateClusterEnvironment
<1>6. CASE UNCHANGED vars
  BY <1>0, <1>6 DEF vars
<1> QED BY <1>1, <1>2, <1>3, <1>4, <1>5, <1>6, StagingSweep DEF Next

LEMMA StagingInvariant == Spec => []StagingInv
  BY TypeInvariant, StagingInit, StagingNext, PTL DEF Spec

\* An action awaiting confirmation belongs to the conversation's present
\* context: a turn overtaken by a clear or a delete stages nothing.
THEOREM StagingCurrent == Spec => []PendingIsCurrent
  BY StagingInvariant, PTL DEF StagingInv

\* At most one agent-staged create of a resource awaits confirmation.
THEOREM StagingUnique == Spec => []OnePendingCreate
  BY StagingInvariant, PTL DEF StagingInv
-----------------------------------------------------------------------------
(* AgentAction implements ChangeLifecycle, with the owner of a change read *)
(* off its row.                                                            *)

\* A step that touches no row is a stuttering step of the life cycle.
LEMMA LifecycleStutter == UNCHANGED rowVars => UNCHANGED Lifecycle!cvars
  BY DEF rowVars, Lifecycle!cvars

\* Withdrawing cancellable rows is the abstract Cancel.
LEMMA LifecycleCancel ==
  ASSUME NEW S \in SUBSET Action, \A a \in S : status[a] \in Cancellable,
         status' = WithCancelled(S), UNCHANGED <<meta, approvedBy>>
  PROVE  Lifecycle!CNext
<1>1. Lifecycle!Cancel(S)
  BY DEF Lifecycle!Cancel, Lifecycle!Withdrawn, Lifecycle!Cancellable, Cancellable, WithCancelled
<1> QED BY <1>1 DEF Lifecycle!CNext

\* Every step of AgentAction is one of the life cycle, or leaves it as it is.
LEMMA LifecycleNext ==
  TypeInv /\ ExecInv /\ ReviewInv /\ [Next]_vars => [Lifecycle!CNext]_(Lifecycle!cvars)
<1> SUFFICES ASSUME TypeInv, ExecInv, ReviewInv, [Next]_vars
             PROVE  Lifecycle!CNext \/ UNCHANGED Lifecycle!cvars
  OBVIOUS
<1> DEFINE Goal == Lifecycle!CNext \/ UNCHANGED Lifecycle!cvars
<1>1. ASSUME NEW t \in Turn, Staging(t) PROVE Goal
  <2>1. ASSUME NEW a \in Action, StageAction(t, a) PROVE Goal
    <3>1. Replaced(t) \in SUBSET Action /\ a \notin Replaced(t) /\ turn[t].user \in User
      BY <2>1 DEF Replaced, StageAction, TypeInv, TurnsBound
    <3>2. PICK u \in User, S \in SUBSET Action : u = turn[t].user /\ S = Replaced(t)
      BY <3>1
    <3>3. Lifecycle!Propose(a, u, S)
      BY <2>1, <3>1, <3>2
      DEF Lifecycle!Propose, Lifecycle!Withdrawn, StageAction, WithCancelled, Replaced, TypeInv, TypeOK
    <3> QED BY <3>3 DEF Lifecycle!CNext
  <2>2. ASSUME NEW S \in SUBSET Action, DropIncompleteMountDeployments(t, S) PROVE Goal
    <3>1. {a \in S : status[a] = "pending"} \in SUBSET Action
      OBVIOUS
    <3> QED BY <2>2, <3>1, LifecycleCancel DEF DropIncompleteMountDeployments, Cancellable
  <2> QED BY <1>1, <2>1, <2>2, LifecycleStutter
          DEF Staging, StartTurn, DiagnoseTool, PreviewMutation, AgentExecute, StageRefused, EndTurn,
              TurnLost
<1>2. ASSUME NEW r \in Request, Confirming(r) \/ RequestLost(r) PROVE Goal
  <2> DEFINE a == cur[r].action
  <2>0. pc[r] # "idle" => a \in Action
    BY DEF TypeInv, RequestsBound
  <2>1. CASE SubmitForApproval(r)
    <3>1. CASE status[a] = "pending" /\ meta[a].owner = cur[r].user
      <4>1. a \in Action /\ Lifecycle!Submit(a)
        BY <2>0, <2>1, <3>1 DEF SubmitForApproval, Lifecycle!Submit
      <4> QED BY <4>1 DEF Lifecycle!CNext
    <3>2. CASE ~(status[a] = "pending" /\ meta[a].owner = cur[r].user)
      BY <2>1, <3>2, LifecycleStutter DEF SubmitForApproval, rowVars
    <3> QED BY <3>1, <3>2
  <2>2. CASE ClaimAction(r)
    <3>1. a \in Action /\ Lifecycle!Start(a)
      BY <2>0, <2>2 DEF ClaimAction, ClaimWins, ExpectedStatus, Lifecycle!Start
    <3> QED BY <3>1 DEF Lifecycle!CNext
  <2>3. CASE RecordActionOutcome(r)
    <3>1. a \in Action /\ status[a] = "executing" /\ cur[r].approvedBy = approvedBy[a]
      BY <2>0, <2>3
      DEF RecordActionOutcome, ExecInv, OneExecutor, Executing, ReviewInv, ClaimsJustified, ClaimJustified
    <3>2. cur[r].outcome \in Outcome
      BY DEF TypeInv, TypeOK, SnapType
    <3>3. approvedBy' = approvedBy
      BY <2>3, <3>1 DEF RecordActionOutcome, SavedColumns, TypeInv, TypeOK
    <3>4. cur[r].outcome \in Lifecycle!Settled /\ Lifecycle!Finish(a, cur[r].outcome)
      BY <2>3, <3>1, <3>2, <3>3 DEF RecordActionOutcome, Lifecycle!Finish, Lifecycle!Settled, Outcome
    <3> QED BY <3>1, <3>4 DEF Lifecycle!CNext
  <2> QED BY <1>2, <2>1, <2>2, <2>3, LifecycleStutter
          DEF Confirming, ConfirmCluster, ConfirmPolicy, ClaimRefused, ExecuteAction, RequestLost
<1>3. ASSUME NEW r \in Request, NEW u \in User, NEW a \in Action, ConfirmRead(r, u, a) PROVE Goal
  BY <1>3, LifecycleStutter DEF ConfirmRead
<1>4. ASSUME NEW a \in Action, Reviewing(a) PROVE Goal
  <2>1. ASSUME NEW u \in User, AgentDecideChange(u, a, "approved") PROVE Goal
    <3>1. Lifecycle!Approve(a, u)
      BY <2>1 DEF AgentDecideChange, CanReview, Lifecycle!Approve
    <3> QED BY <3>1 DEF Lifecycle!CNext
  <2>2. ASSUME NEW u \in User, AgentDecideChange(u, a, "rejected") PROVE Goal
    <3>1. Lifecycle!Reject(a)
      BY <2>2 DEF AgentDecideChange, Lifecycle!Reject
    <3> QED BY <3>1 DEF Lifecycle!CNext
  <2>3. CASE AgentCancelChange(a)
    <3>1. status' = WithCancelled({a})
      BY <2>3 DEF AgentCancelChange, WithCancelled, TypeInv, TypeOK
    <3> QED BY <2>3, <3>1, LifecycleCancel DEF AgentCancelChange
  <2> QED BY <1>4, <2>1, <2>2, <2>3 DEF Reviewing
<1>5. ASSUME NEW s \in Sweep, Sweeping(s) PROVE Goal
  <2>1. CASE SweepCommit(s)
    <3>1. StillSeen(s) \in SUBSET Action /\ \A a \in StillSeen(s) : status[a] \in Cancellable
      BY DEF StillSeen, TypeInv, TypeOK, SweepType
    <3> QED BY <2>1, <3>1, LifecycleCancel DEF SweepCommit
  <2> QED BY <1>5, <2>1, LifecycleStutter DEF Sweeping, SweepSelect, SweepRollback
<1>6. ASSUME NEW b \in PolicyValues, UpdateApprovalSettings(b) \/ UpdateClusterEnvironment(b) PROVE Goal
  BY <1>6, LifecycleStutter DEF UpdateApprovalSettings, UpdateClusterEnvironment
<1>7. CASE UNCHANGED vars
  BY <1>7, LifecycleStutter DEF vars
<1> QED BY <1>1, <1>2, <1>3, <1>4, <1>5, <1>6, <1>7 DEF Next

\* The handlers of the change center, on any number of replicas, implement the
\* abstract life cycle: proposed once, reviewed by another person, started at
\* most once, settled for good.
THEOREM LifecycleImplemented == Spec => ImplementsLifecycle
<1>1. Init => Lifecycle!CInit
  BY DEF Init, Lifecycle!CInit, NoMeta
<1> QED BY <1>1, LifecycleNext, TypeInvariant, ExecInvariant, ReviewInvariant, PTL
        DEF Spec, ImplementsLifecycle, Lifecycle!CSpec
=============================================================================
