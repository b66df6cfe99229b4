---------------------------- MODULE AgentAction ----------------------------
(***************************************************************************)
(* The staged write actions of the AI agent: how a row of agent_actions is *)
(* staged by an agent turn or by hand, confirmed, submitted for a second   *)
(* person's approval, cancelled, executed and settled, while the policy,   *)
(* the cluster's environment and the conversation change underneath.       *)
(*                                                                         *)
(* The database is PostgreSQL at its default isolation: every statement    *)
(* sees what is committed when it starts.  A handler is therefore split    *)
(* where another transaction can commit between two of its statements and  *)
(* make a difference; a transaction whose outcome is decided by one        *)
(* conditional UPDATE is one step.                                         *)
(***************************************************************************)
EXTENDS Naturals

CONSTANTS Action,        \* ids of agent_actions rows
          User,
          Admin,         \* users whose role is system or "admin"
          Reviewer,      \* users with a write grant on the cluster, or Admin
          Conv,          \* chat conversations
          ConvOwner,     \* their owners
          Turn,          \* agent turns and manual staging requests under way
          Request,       \* confirmation requests under way, on any replica
          Sweep,         \* clear, delete and cancel-pending requests under way
          CreateParams,  \* parameters of create_deployment for one name
          UpdateParams,  \* parameters of scale_deployment, update_deployment
          OtherParams,   \* every action production automation refuses
          PolicyValues,  \* values an administrator gives to each of the two switches
          MaxVersion,    \* bound on the context version of a conversation
          None

Params == CreateParams \cup UpdateParams \cup OtherParams

\* The sets of ids are arbitrary; what the proofs need of them.
ASSUME ConstantsAssumption ==
  /\ Admin \subseteq User
  /\ Reviewer \subseteq User
  /\ None \notin User /\ None \notin Conv /\ None \notin Params
  /\ None \notin Action /\ None \notin Sweep
  /\ ConvOwner \in [Conv -> User]
  /\ PolicyValues \subseteq BOOLEAN
  /\ MaxVersion \in Nat

VARIABLES
  \* agent_actions, agent_action_audits
  status, approvedBy, evidence, meta, audit,
  \* agent_approval_settings, clusters.environment
  approvalEnabled, production,
  \* chat_conversations (version, existence, row lock), agent_tool_traces
  version, alive, lock, traced,
  \* handlers under way
  turn, pc, cur, sweep,
  \* history: how often an action was handed to the code that writes to the cluster
  writes

rowVars  == <<status, approvedBy, evidence, meta, audit>>
convVars == <<version, alive, lock, traced>>
policyVars == <<approvalEnabled, production>>
vars == <<rowVars, policyVars, convVars, turn, pc, cur, sweep, writes>>

Cancellable == {"pending", "approval_pending", "approved"}
Outcome == {"executed", "failed", "rolled_back", "rollback_pending"}
Status == {"absent", "executing", "cancelled", "rejected"} \cup Cancellable \cup Outcome
Event == {"staged", "submitted", "approved", "rejected", "cancelled",
          "executing", "executed", "failed"}

NoMeta == [owner |-> None, conv |-> None, params |-> None, version |-> 0, via |-> "agent"]
IdleTurn == [pc |-> "idle", user |-> None, conv |-> None, version |-> 0,
             params |-> None, via |-> "agent", diagnosed |-> FALSE, staged |-> {}]
NoSnap == [action |-> None, user |-> None, status |-> "absent", approvedBy |-> None,
           evidence |-> FALSE, prod |-> FALSE, approval |-> FALSE, outcome |-> "failed"]
IdleSweep == [op |-> "idle", conv |-> None, seen |-> [a \in Action |-> "absent"]]

Init ==
  /\ status = [a \in Action |-> "absent"]
  /\ approvedBy = [a \in Action |-> None]
  /\ evidence = [a \in Action |-> FALSE]
  /\ meta = [a \in Action |-> NoMeta]
  /\ audit = [a \in Action |-> {}]
  /\ approvalEnabled = FALSE
  /\ production \in PolicyValues
  /\ version = [c \in Conv |-> 0]
  /\ alive = [c \in Conv |-> TRUE]
  /\ lock = [c \in Conv |-> None]
  /\ traced = {}
  /\ turn = [t \in Turn |-> IdleTurn]
  /\ pc = [r \in Request |-> "idle"]
  /\ cur = [r \in Request |-> NoSnap]
  /\ sweep = [s \in Sweep |-> IdleSweep]
  /\ writes = [a \in Action |-> 0]

\* Cancel the rows of S, with or without the audit record the handler writes.
WithCancelled(S) == [a \in Action |-> IF a \in S THEN "cancelled" ELSE status[a]]
AuditAll(S, e) == [a \in Action |-> IF a \in S THEN audit[a] \cup {e} ELSE audit[a]]

-----------------------------------------------------------------------------
(* Policy and environment.                                                 *)

UpdateApprovalSettings(b) ==
  /\ approvalEnabled' = b
  /\ UNCHANGED <<rowVars, production, convVars, turn, pc, cur, sweep, writes>>

UpdateClusterEnvironment(b) ==
  /\ production' = b
  /\ UNCHANGED <<rowVars, approvalEnabled, convVars, turn, pc, cur, sweep, writes>>

-----------------------------------------------------------------------------
(* Staging: an agent turn, or AgentExecute by hand.                        *)

\* captureConversationRun: the version a turn may write under is read once.
CaptureVersion(c) == IF c = None THEN 0 ELSE version[c]

\* AgentChat, AgentChatStream: a conversation is optional; a user may only
\* continue one of their own (validateAgentConversation).
OwnConversation(u, c) == c # None => alive[c] /\ u = ConvOwner[c]

StartTurn(t, u, c) ==
  /\ turn[t].pc = "idle"
  /\ OwnConversation(u, c)
  /\ turn' = [turn EXCEPT ![t] = [IdleTurn EXCEPT !.pc = "running", !.user = u,
                                    !.conv = c, !.version = CaptureVersion(c)]]
  /\ UNCHANGED <<rowVars, policyVars, convVars, pc, cur, sweep, writes>>

\* A diagnostic read tool succeeds; its result ends up in the turn's trace,
\* which is only ever looked up by conversation (actionEvidence).
DiagnoseTool(t) ==
  /\ turn[t].pc = "running" /\ ~turn[t].diagnosed /\ turn[t].conv # None
  /\ turn' = [turn EXCEPT ![t].diagnosed = TRUE]
  /\ UNCHANGED <<rowVars, policyVars, convVars, pc, cur, sweep, writes>>

\* The pending rows an agent staging finds with the very same parameters.
Identical(t, p) ==
  {a \in Action : /\ turn[t].conv # None
                  /\ status[a] = "pending" /\ meta[a].params = p
                  /\ meta[a].conv = turn[t].conv /\ meta[a].owner = turn[t].user}

\* stageOneMutation up to its transaction: server dry-run, then the search
\* for an identical pending row, which is answered instead of staging again.
PreviewMutation(t, p) ==
  /\ turn[t].pc = "running"
  /\ \/ /\ Identical(t, p) = {}
        /\ turn' = [turn EXCEPT ![t].pc = "previewed", ![t].params = p]
     \/ \E a \in Identical(t, p) : turn' = [turn EXCEPT ![t].staged = @ \cup {a}]
  /\ UNCHANGED <<rowVars, policyVars, convVars, pc, cur, sweep, writes>>

\* AgentExecute up to its transaction.
AgentExecute(t, u, c, p) ==
  /\ turn[t].pc = "idle"
  /\ OwnConversation(u, c)
  /\ turn' = [turn EXCEPT ![t] = [IdleTurn EXCEPT !.pc = "previewed", !.user = u, !.conv = c,
                                    !.version = CaptureVersion(c), !.params = p, !.via = "manual"]]
  /\ UNCHANGED <<rowVars, policyVars, convVars, pc, cur, sweep, writes>>

\* WithConversationWrite: the row lock is free (else the transaction waits for
\* clear or delete), the conversation exists and is the one the turn started in.
UnlockedConv(t) == turn[t].conv # None => lock[turn[t].conv] = None
ValidRunUnchecked(t) == turn[t].conv # None => alive[turn[t].conv]
ValidRun(t) == turn[t].conv # None => /\ alive[turn[t].conv]
                                      /\ version[turn[t].conv] = turn[t].version

\* In a conversation an agent create replaces the pending agent create of the
\* same resource.
ReplacedNothing(t) == {}
Replaced(t) ==
  {a \in Action : /\ turn[t].conv # None /\ turn[t].via = "agent" /\ turn[t].params \in CreateParams
                  /\ status[a] = "pending" /\ meta[a].via = "agent"
                  /\ meta[a].params \in CreateParams
                  /\ meta[a].conv = turn[t].conv /\ meta[a].owner = turn[t].user}

\* Where a turn stands after a staging tool call; a manual request is over.
AfterStaging(t, S) ==
  IF turn[t].via = "manual" THEN IdleTurn
  ELSE [turn[t] EXCEPT !.pc = "running", !.params = None, !.staged = @ \cup S]

StageAction(t, a) ==
  /\ turn[t].pc = "previewed"
  /\ UnlockedConv(t) /\ ValidRun(t)
  /\ status[a] = "absent"
  /\ status' = [WithCancelled(Replaced(t)) EXCEPT ![a] = "pending"]
  /\ meta' = [meta EXCEPT ![a] = [owner |-> turn[t].user, conv |-> turn[t].conv,
                                  params |-> turn[t].params, version |-> turn[t].version,
                                  via |-> turn[t].via]]
  /\ audit' = [audit EXCEPT ![a] = {<<"staged", turn[t].user>>}]
  /\ turn' = [turn EXCEPT ![t] = AfterStaging(t, {a})]
  /\ UNCHANGED <<approvedBy, evidence, policyVars, convVars, pc, cur, sweep, writes>>

\* The transaction is refused: "conversation was cleared".
StageRefused(t) ==
  /\ turn[t].pc = "previewed"
  /\ UnlockedConv(t) /\ ~ValidRun(t)
  /\ turn' = [turn EXCEPT ![t] = AfterStaging(t, {})]
  /\ UNCHANGED <<rowVars, policyVars, convVars, pc, cur, sweep, writes>>

\* dropIncompleteMountDeployments: creates the turn staged without the mounts
\* the user asked for are withdrawn, without an audit record.
DropIncompleteMountDeployments(t, S) ==
  /\ turn[t].pc = "running"
  /\ S # {} /\ S \subseteq turn[t].staged
  /\ \A a \in S : meta[a].params \in CreateParams
  /\ status' = WithCancelled({a \in S : status[a] = "pending"})
  /\ turn' = [turn EXCEPT ![t].staged = @ \ S]
  /\ UNCHANGED <<approvedBy, evidence, meta, audit, policyVars, convVars, pc, cur, sweep, writes>>

\* The end of AgentChatStream: reply, trace and state are written in one
\* guarded transaction; a stale turn leaves nothing behind.
EndTurn(t) ==
  /\ turn[t].pc = "running"
  /\ UnlockedConv(t)
  /\ traced' = IF ValidRun(t) /\ turn[t].diagnosed THEN traced \cup turn[t].staged ELSE traced
  /\ turn' = [turn EXCEPT ![t] = IdleTurn]
  /\ UNCHANGED <<rowVars, policyVars, version, alive, lock, pc, cur, sweep, writes>>

\* The client goes away, the model fails, or the process dies.
TurnLost(t) ==
  /\ turn[t].pc # "idle"
  /\ turn' = [turn EXCEPT ![t] = IdleTurn]
  /\ UNCHANGED <<rowVars, policyVars, convVars, pc, cur, sweep, writes>>

-----------------------------------------------------------------------------
(* AgentConfirmAction.                                                     *)

Goto(r, label) == pc' = [pc EXCEPT ![r] = label]

\* The row is read; everything below works on this copy.
ConfirmRead(r, u, a) ==
  /\ pc[r] = "idle"
  /\ status[a] # "absent"
  /\ cur' = [cur EXCEPT ![r] = [NoSnap EXCEPT !.action = a, !.user = u, !.status = status[a],
                                  !.approvedBy = approvedBy[a], !.evidence = evidence[a]]]
  /\ Goto(r, "loaded")
  /\ UNCHANGED <<rowVars, policyVars, convVars, turn, sweep, writes>>

\* In production only the requester, elsewhere also an administrator.
MayConfirm(r) ==
  \/ cur[r].user = meta[cur[r].action].owner
  \/ ~production /\ cur[r].user \in Admin

ConfirmCluster(r) ==
  /\ pc[r] = "loaded"
  /\ IF MayConfirm(r)
     THEN cur' = [cur EXCEPT ![r].prod = production] /\ Goto(r, "scoped")
     ELSE cur' = [cur EXCEPT ![r] = NoSnap] /\ Goto(r, "idle")
  /\ UNCHANGED <<rowVars, policyVars, convVars, turn, sweep, writes>>

\* ProductionAutoRollbackSupported.
Supported(p) == p \in CreateParams \cup UpdateParams

\* productionChangeEvidence: a change staged in a conversation needs a trace
\* with diagnostic results; any other counts as made by hand.
HasEvidence(a) == Supported(meta[a].params) /\ (meta[a].conv = None \/ a \in traced)

NeedsEvidence(r) == cur[r].prod /\ cur[r].status = "pending"

\* dualApprovalEnabled, then the evidence of a production change.
ConfirmPolicy(r) ==
  /\ pc[r] = "scoped"
  /\ IF NeedsEvidence(r) => HasEvidence(cur[r].action)
     THEN /\ cur' = [cur EXCEPT ![r].approval = cur[r].prod /\ approvalEnabled,
                                ![r].evidence = @ \/ NeedsEvidence(r)]
          /\ Goto(r, "ready")
     ELSE cur' = [cur EXCEPT ![r] = NoSnap] /\ Goto(r, "idle")
  /\ UNCHANGED <<rowVars, policyVars, convVars, turn, sweep, writes>>

NeedsApproval(r) == NeedsEvidence(r) /\ cur[r].approval

\* submitActionForApproval.
SubmitForApproval(r) ==
  LET a == cur[r].action IN
  /\ pc[r] = "ready" /\ NeedsApproval(r)
  /\ IF status[a] = "pending" /\ meta[a].owner = cur[r].user
     THEN /\ status' = [status EXCEPT ![a] = "approval_pending"]
          /\ evidence' = [evidence EXCEPT ![a] = TRUE]
          /\ audit' = [audit EXCEPT ![a] = @ \cup {<<"submitted", cur[r].user>>}]
     ELSE UNCHANGED <<status, evidence, audit>>
  /\ cur' = [cur EXCEPT ![r] = NoSnap] /\ Goto(r, "idle")
  /\ UNCHANGED <<approvedBy, meta, policyVars, convVars, turn, sweep, writes>>

\* The status the copy must have for the change to be executed.
ExpectWhatWasRead(r) == IF cur[r].prod THEN cur[r].status ELSE "pending"
ExpectedStatus(r) ==
  IF cur[r].prod /\ cur[r].status = "approved" THEN "approved" ELSE "pending"

IndependentlyApproved(r) ==
  cur[r].approvedBy # None /\ cur[r].approvedBy # meta[cur[r].action].owner

ReadyForExecution(r) ==
  /\ cur[r].status = ExpectedStatus(r)
  /\ ExpectedStatus(r) = "approved" => IndependentlyApproved(r)

\* The conditional UPDATE that makes this request the one that executes.
ClaimsAnything(r) == TRUE
ClaimWins(r) == status[cur[r].action] = ExpectedStatus(r)

ClaimAction(r) ==
  LET a == cur[r].action IN
  /\ pc[r] = "ready" /\ ~NeedsApproval(r)
  /\ ReadyForExecution(r) /\ ClaimWins(r)
  /\ status' = [status EXCEPT ![a] = "executing"]
  /\ evidence' = [evidence EXCEPT ![a] = @ \/ NeedsEvidence(r)]
  /\ audit' = [audit EXCEPT ![a] = @ \cup {<<"executing", cur[r].user>>}]
  /\ Goto(r, "claimed")
  /\ UNCHANGED <<approvedBy, meta, policyVars, convVars, turn, cur, sweep, writes>>

ClaimRefused(r) ==
  /\ pc[r] = "ready" /\ ~NeedsApproval(r)
  /\ ~(ReadyForExecution(r) /\ ClaimWins(r))
  /\ cur' = [cur EXCEPT ![r] = NoSnap] /\ Goto(r, "idle")
  /\ UNCHANGED <<rowVars, policyVars, convVars, turn, sweep, writes>>

\* What execution can end in: production changes are observed and rolled
\* back (ExecuteObservedDeploymentChange), others are only retried.
OutcomesConfirmed(r) == {"confirmed"}
OutcomesObservedOnly(r) == IF cur[r].prod THEN Outcome ELSE {}
Outcomes(r) == IF cur[r].prod THEN Outcome ELSE {"executed", "failed"}

ExecuteAction(r, outcome) ==
  /\ pc[r] = "claimed"
  /\ writes' = [writes EXCEPT ![cur[r].action] = @ + 1]
  /\ cur' = [cur EXCEPT ![r].outcome = outcome]
  /\ Goto(r, "executed")
  /\ UNCHANGED <<rowVars, policyVars, convVars, turn, sweep>>

\* recordActionOutcome saves the whole row from the copy read at the start.
SavedWithoutEvidence(r, a) == [approvedBy |-> cur[r].approvedBy, evidence |-> FALSE]
SavedColumns(r, a) == [approvedBy |-> cur[r].approvedBy, evidence |-> cur[r].evidence]

\* Whatever a rollback achieved, the audit calls an unsuccessful change failed.
OutcomeEvent(r) == IF cur[r].outcome = "executed" THEN "executed" ELSE "failed"

RecordActionOutcome(r) ==
  LET a == cur[r].action IN
  /\ pc[r] = "executed"
  /\ status' = [status EXCEPT ![a] = cur[r].outcome]
  /\ approvedBy' = [approvedBy EXCEPT ![a] = SavedColumns(r, a).approvedBy]
  /\ evidence' = [evidence EXCEPT ![a] = SavedColumns(r, a).evidence]
  /\ audit' = [audit EXCEPT ![a] = @ \cup {<<OutcomeEvent(r), cur[r].user>>}]
  /\ cur' = [cur EXCEPT ![r] = NoSnap] /\ Goto(r, "idle")
  /\ UNCHANGED <<meta, policyVars, convVars, turn, sweep, writes>>

\* The process dies, or the database refuses: the row stays as it is.
RequestLost(r) ==
  /\ pc[r] # "idle"
  /\ cur' = [cur EXCEPT ![r] = NoSnap] /\ Goto(r, "idle")
  /\ UNCHANGED <<rowVars, policyVars, convVars, turn, sweep, writes>>

-----------------------------------------------------------------------------
(* Review and cancellation.                                                *)

\* canReviewChange.
CanReview(u, a) == u \in Admin \cup Reviewer /\ u # meta[a].owner

\* AgentDecideChange.  The status it checks first is checked again by the
\* UPDATE, and a change never returns to approval_pending: one step.
AgentDecideChange(u, a, decision) ==
  /\ status[a] = "approval_pending"
  /\ CanReview(u, a)
  /\ decision \in {"approved", "rejected"}
  /\ status' = [status EXCEPT ![a] = decision]
  /\ approvedBy' = IF decision = "approved" THEN [approvedBy EXCEPT ![a] = u] ELSE approvedBy
  /\ audit' = [audit EXCEPT ![a] = @ \cup {<<decision, u>>}]
  /\ UNCHANGED <<evidence, meta, policyVars, convVars, turn, pc, cur, sweep, writes>>

AgentCancelChange(a) ==
  /\ status[a] \in Cancellable
  /\ status' = [status EXCEPT ![a] = "cancelled"]
  /\ audit' = [audit EXCEPT ![a] = @ \cup {<<"cancelled", meta[a].owner>>}]
  /\ UNCHANGED <<approvedBy, evidence, meta, policyVars, convVars, turn, pc, cur, sweep, writes>>

\* The rows a clear, a delete or a cancel-pending request selects.
Selected(c) == {a \in Action : status[a] \in Cancellable /\ meta[a].conv = c}

\* clearConversationContent (op "clear", "delete") takes the conversation's row
\* lock with its first UPDATE; CancelPendingActions ("cancel") takes none and may
\* name some of the ids.  Both then select the rows and their statuses.
SweepSelect(s, c, op, ids) ==
  /\ sweep[s].op = "idle"
  /\ op \in {"clear", "delete"} => /\ alive[c] /\ lock[c] = None
                                   /\ version[c] < MaxVersion
                                   /\ ids = Action
  /\ lock' = IF op = "cancel" THEN lock ELSE [lock EXCEPT ![c] = s]
  /\ sweep' = [sweep EXCEPT ![s] =
       [op |-> op, conv |-> c,
        seen |-> [a \in Action |-> IF a \in Selected(c) \cap ids THEN status[a] ELSE "absent"]]]
  /\ UNCHANGED <<rowVars, policyVars, version, alive, traced, turn, pc, cur, writes>>

\* Each selected row is cancelled if it still has the status that was read.
StillSeenUnchecked(s) == {a \in Action : sweep[s].seen[a] # "absent"}
StillSeen(s) == {a \in Action : sweep[s].seen[a] # "absent" /\ status[a] = sweep[s].seen[a]}

SweepCommit(s) ==
  LET c == sweep[s].conv
      clears == sweep[s].op \in {"clear", "delete"} IN
  /\ sweep[s].op # "idle"
  /\ status' = WithCancelled(StillSeen(s))
  /\ audit' = AuditAll(StillSeen(s), <<"cancelled", ConvOwner[c]>>)
  /\ version' = IF clears THEN [version EXCEPT ![c] = @ + 1] ELSE version
  /\ alive' = IF sweep[s].op = "delete" THEN [alive EXCEPT ![c] = FALSE] ELSE alive
  /\ lock' = IF clears THEN [lock EXCEPT ![c] = None] ELSE lock
  /\ traced' = IF clears THEN {a \in traced : meta[a].conv # c} ELSE traced
  /\ sweep' = [sweep EXCEPT ![s] = IdleSweep]
  /\ UNCHANGED <<approvedBy, evidence, meta, policyVars, turn, pc, cur, writes>>

\* The transaction is rolled back.
SweepRollback(s) ==
  /\ sweep[s].op # "idle"
  /\ lock' = IF sweep[s].op = "cancel" THEN lock ELSE [lock EXCEPT ![sweep[s].conv] = None]
  /\ sweep' = [sweep EXCEPT ![s] = IdleSweep]
  /\ UNCHANGED <<rowVars, policyVars, version, alive, traced, turn, pc, cur, writes>>

-----------------------------------------------------------------------------
Staging(t) ==
  \/ \E u \in User, c \in Conv \cup {None} : StartTurn(t, u, c)
  \/ DiagnoseTool(t)
  \/ \E p \in Params : PreviewMutation(t, p)
  \/ \E u \in User, c \in Conv \cup {None}, p \in Params : AgentExecute(t, u, c, p)
  \/ \E a \in Action : StageAction(t, a)
  \/ StageRefused(t)
  \/ \E S \in SUBSET Action : DropIncompleteMountDeployments(t, S)
  \/ EndTurn(t)
  \/ TurnLost(t)

\* What a confirmation request does by itself once it is under way.
Confirming(r) ==
  \/ ConfirmCluster(r)
  \/ ConfirmPolicy(r)
  \/ SubmitForApproval(r)
  \/ ClaimAction(r)
  \/ ClaimRefused(r)
  \/ \E outcome \in Outcomes(r) : ExecuteAction(r, outcome)
  \/ RecordActionOutcome(r)

Reviewing(a) ==
  \/ \E u \in User, d \in {"approved", "rejected"} : AgentDecideChange(u, a, d)
  \/ AgentCancelChange(a)

Sweeping(s) ==
  \/ \E c \in Conv, op \in {"clear", "delete", "cancel"}, ids \in SUBSET Action :
       SweepSelect(s, c, op, ids)
  \/ SweepCommit(s)
  \/ SweepRollback(s)

Next ==
  \/ \E b \in PolicyValues : UpdateApprovalSettings(b) \/ UpdateClusterEnvironment(b)
  \/ \E t \in Turn : Staging(t)
  \/ \E r \in Request : Confirming(r) \/ RequestLost(r)
  \/ \E r \in Request, u \in User, a \in Action : ConfirmRead(r, u, a)
  \/ \E a \in Action : Reviewing(a)
  \/ \E s \in Sweep : Sweeping(s)

Spec == Init /\ [][Next]_vars

\* A request runs on its own goroutine: nothing but a crash or a lost database
\* keeps it from going on.  Nobody is obliged to start one.
FairSpec == Spec /\ \A r \in Request : WF_vars(Confirming(r))

-----------------------------------------------------------------------------
(* Properties.                                                             *)

MetaType == [owner : User \cup {None}, conv : Conv \cup {None}, params : Params \cup {None},
             version : Nat, via : {"agent", "manual"}]
TurnType == [pc : {"idle", "running", "previewed"}, user : User \cup {None},
             conv : Conv \cup {None}, version : Nat, params : Params \cup {None},
             via : {"agent", "manual"}, diagnosed : BOOLEAN, staged : SUBSET Action]
SnapType == [action : Action \cup {None}, user : User \cup {None}, status : Status,
             approvedBy : User \cup {None}, evidence : BOOLEAN, prod : BOOLEAN,
             approval : BOOLEAN, outcome : Outcome]
SweepType == [op : {"idle", "clear", "delete", "cancel"}, conv : Conv \cup {None},
              seen : [Action -> {"absent"} \cup Cancellable]]

\* Type correctness: every column and every handler's local state keeps its
\* type; in particular a row only ever has a status the handlers know.
TypeOK ==
  /\ status \in [Action -> Status]
  /\ approvedBy \in [Action -> User \cup {None}]
  /\ evidence \in [Action -> BOOLEAN]
  /\ meta \in [Action -> MetaType]
  /\ audit \in [Action -> SUBSET (Event \X User)]
  /\ approvalEnabled \in BOOLEAN
  /\ production \in BOOLEAN
  /\ version \in [Conv -> Nat]
  /\ alive \in [Conv -> BOOLEAN]
  /\ lock \in [Conv -> Sweep \cup {None}]
  /\ traced \in SUBSET Action
  /\ turn \in [Turn -> TurnType]
  /\ pc \in [Request -> {"idle", "loaded", "scoped", "ready", "claimed", "executed"}]
  /\ cur \in [Request -> SnapType]
  /\ sweep \in [Sweep -> SweepType]
  /\ writes \in [Action -> Nat]

Executing(r) == pc[r] \in {"claimed", "executed"}
Submitted(a) == \E u \in User : <<"submitted", u>> \in audit[a]

\* AgentConfirmAction: while one request executes an action the row says so and
\* no other request executes it, however many confirmations, cancellations and
\* clears arrive meanwhile, on any replica.
OneExecutor ==
  \A r \in Request : Executing(r) =>
    /\ status[cur[r].action] = "executing"
    /\ \A q \in Request \ {r} : Executing(q) => cur[q].action # cur[r].action

\* A staged action changes the cluster at most once, even when a confirmation
\* is repeated or the process dies after executing and before recording.
WrittenAtMostOnce == \A a \in Action : writes[a] <= 1

\* A cancelled or rejected action never changed the cluster: no cancellation
\* path (AgentCancelChange, CancelPendingActions, clear, delete, re-staging,
\* dropIncompleteMountDeployments) overtakes a confirmation that has won its claim.
WithdrawnNeverWritten ==
  \A a \in Action : status[a] \in {"cancelled", "rejected"} => writes[a] = 0

\* An action that entered approval is executed only after another person
\* approved it, also when dual approval is switched off or the cluster stops
\* being a production cluster meanwhile; the saved row still names that person.
ApprovalHonoured ==
  \A a \in Action : Submitted(a) /\ status[a] \in {"executing"} \cup Outcome =>
    \E u \in (Admin \cup Reviewer) \ {meta[a].owner} :
       <<"approved", u>> \in audit[a] /\ approvedBy[a] = u

\* What went through approval or through observed execution was of a kind with
\* a safe rollback, had its evidence checked, and keeps it on the row after
\* recordActionOutcome has saved the whole row from an old copy.
EvidenceKept ==
  \A a \in Action : Submitted(a) \/ status[a] \in {"rolled_back", "rollback_pending"} =>
    Supported(meta[a].params) /\ evidence[a]

\* clearConversationContent against WithConversationWrite: an action awaiting
\* confirmation always belongs to the conversation's present context.  A turn
\* that was under way when the conversation was cleared cannot stage into it.
PendingIsCurrent ==
  \A a \in Action : status[a] = "pending" /\ meta[a].conv # None =>
    alive[meta[a].conv] /\ version[meta[a].conv] = meta[a].version

\* stageOneMutation: however many turns run in one conversation, at most one
\* agent-staged create of the same resource awaits confirmation.
OnePendingCreate ==
  \A a, b \in Action :
    (/\ status[a] = "pending" /\ status[b] = "pending" /\ meta[a].conv # None
     /\ meta[a].via = "agent" /\ meta[b].via = "agent"
     /\ meta[a].params \in CreateParams /\ meta[b].params \in CreateParams
     /\ meta[a].conv = meta[b].conv /\ meta[a].owner = meta[b].owner) => a = b

\* "Clearing or deleting a conversation ... cancels the writes awaiting
\* confirmation": nothing staged in an earlier context can still be executed.
ClearWithdrawsEverything ==
  \A a \in Action : status[a] \in Cancellable /\ meta[a].conv # None =>
    alive[meta[a].conv] /\ version[meta[a].conv] = meta[a].version

\* The change center implements its abstract specification.
Lifecycle == INSTANCE ChangeLifecycle WITH owner <- [a \in Action |-> meta[a].owner]
ImplementsLifecycle == Lifecycle!CSpec

\* A claimed action is settled, unless the request that claimed it was lost.
Orphaned(a) == status[a] = "executing" /\ \A r \in Request : Executing(r) => cur[r].action # a
SettledUnlessLost ==
  \A a \in Action : status[a] = "executing" ~> (status[a] # "executing" \/ Orphaned(a))
=============================================================================
