# A TLA+ model of KubePilot

KubePilot is a Go server that manages Kubernetes clusters: an HTTP API over
PostgreSQL, an AI agent that stages write operations for confirmation, and
background workers that one elected replica runs. This directory holds TLA+
modules translated from that code, the TLC configurations that check them on
small instances, and proofs, checked by TLAPS, that hold for every instance.

`PROJECT.json` lists components, runs, mutants, the map from definitions to source
lines, findings, hazards and theorems. Run a check with
`tlc -workers 2 -config MCApproval.cfg MCAgentAction`, a proof with
`tlapm AgentActionProofs.tla`.

## 1. Inventory

| component | state | operations | what is hard | what makes it correct |
|---|---|---|---|---|
| agent change center (`handler/aiops/handler.go`, `change.go`) | `agent_actions`, `agent_action_audits`, the approval switch, `clusters.environment` | confirm, submit, approve, reject, cancel, claim, execute, record | confirmations racing on several replicas; policy changing between check and claim; a whole-row save of an old copy; a crash after the execution | executed at most once, never around its approval, never after a withdrawal; evidence kept |
| conversations and staging (`handler/aiops/conversation.go`, `service/aiops/conversation_run.go`, `agent_stream.go`, `tools.go`) | `chat_conversations.context_version`, row lock, tool traces | start turn, diagnose, stage, end turn, clear, delete, cancel pending | a turn outlives a clear; two turns stage the same create; clear selects and updates in two statements | nothing staged in an old context awaits confirmation; one pending create per resource |
| Deployment change executor (`service/aiops/change_observation.go`) | the Deployment (API server), the executor's copies | read, write, check after a lost answer, retry, observe, roll back, verify | lost answers, requests that arrive late, edits of others | applied once, nobody's edit overwritten, outcome truthful, always ends |
| event forwarding (`handler/eventforward`, `modules/eventforward`) | `event_forward_rules`; per replica a map of cancel functions; goroutines | create, update, delete rule; start and stop all; watch, send | handlers, leader start/stop and returning goroutines share the map | the map is exactly the running watchers; a cancelled watcher stops |
| leader election and modules (`module/leader.go`, `registry.go`) | advisory lock, database session, started modules | acquire, start, ping, stop, release | session lost before the leader notices; unlock fails; the pool keeps a locked session | singleton work only under the lock, but for an inspection that outlives its job; takeover after a loss |
| schedules of backup and inspection (`handler/backup/scheduler.go`, `handler/inspection/scheduler.go`) | schedule rows; per replica cron entries and running jobs | CRUD on any replica, refresh, trigger, stop | edits on a standby; an edit while a refresh applies what it has read | the leader's entries converge to the rows |
| backup and inspection records (`handler/backup`, `handler/inspection`) | record, report and result rows; one goroutine each | create, run, restore, delete | delete against a goroutine that saves its copy; restore against delete; a failing statement | what was deleted stays deleted; a report tells what was found |
| task scheduler (`handler/scheduler`) | queues, tasks, Jobs, reservations | create, cancel, retry, delete, execute, monitor | whole-row saves by goroutines; lost monitors | no Job runs unseen; a reported success happened; tasks are settled |
| Gateway API installation (`handler/workload/gateway_api_install*.go`) | install job rows with a lease | start, renew, finish, recover | takeover of a job that is only slow | one installer per cluster |
| alerting (`service/alert`, `handler/alert`) | rules, histories, evaluator's memory | evaluate, fire, notify, receive | rule edits during an evaluation, a lost stamp | an alert was due |
| authentication (`service/auth`, `handler/auth`, `pkg/wsticket`, `router/oauth.go`) | users, session versions, second factors, one-use cache entries | log in, second factor, OAuth, ticket, password changes | a login under way while the password changes; reuse of one-time values | no session outlives its password; each value is used once |
| authorization (`authz`, `service/access`, `middleware`) | roles, grants, groups, route policies | decide, filter, gate | three reads with administrators in between; a list filtered by an empty set; a handler that names another target than the middleware | every answer is justified by rows in force meanwhile |
| workload and operations handlers (`handler/workload`, `handler/ops`), executors of the agent's actions (`service/aiops/executor.go`) | the API server's objects | create, update, patch, scale, restart, roll back, delete, batches, clean up | read-modify-write; half of a batch; an answer that is lost | no accepted change is lost; a rollback restores what ran before |
| deployment form (`handler/workload/handler.go`, `create.go`, the web client) | the form between load and save | show, edit, build | each field is dropped, merged or defaulted in its own way on both sides | nothing says what a save must preserve: not modelled |
| terminals and node shells (`handler/terminal`) | registry counts, pipes, channel, shell pods | open, stream, close, clean up | five goroutines that wait for one another; cleanup against use | every session ends; a used pod is kept |
| tenants, system, webhooks, LLM and memory code | one row | one statement per request | none that a later step depends on | see `components` in `PROJECT.json` |

Interactions: an HTTP handler of any replica reads and writes PostgreSQL (default
isolation, READ COMMITTED) and calls the API servers; the agent's turns stage rows
that the change center's handlers settle; confirming a production change calls the
Deployment executor; the elected leader starts the singleton modules, whose rows
the handlers of every replica edit.

## 2. Modules

| module | role |
|---|---|
| `ChangeLifecycle` | abstract: what the change center promises about one staged change |
| `AgentAction` | change center, conversations and staging |
| `DeploymentChange` | execution, observation and rollback of a production change |
| `EventForward` | rules, watchers and the map of cancel functions |
| `TaskScheduler` | queues, tasks, their goroutines and Jobs |
| `LeaderElection`, `ScheduledWork` | the advisory lock and the singleton modules; on top of it the cron schedulers and the rows they follow |
| `ClusterObjects`, `WorkloadHandlers` | an API server's objects and the calls a handler can make; each handler as its list of calls |
| `BackupRecords`, `InspectionReports`, `GatewayInstall`, `Alerting`, `TerminalSession`, `NodeShellPod`; `BackgroundWork` | the parts that work behind the requests; their composition |
| `Sessions`, `AccessControl`; `RequestWork` | what is done for a request; their composition |
| `MC*` | instances for TLC |
| `*Proofs` | theorems |

### AgentAction

Columns are functions from rows (`status`, `approvedBy`, `evidence`, `audit`, and
`meta` for what never changes after staging). Handlers under way are `turn` (agent
turns and manual staging), `pc`/`cur` (confirmations with the copy they read) and
`sweep` (clear, delete, cancel pending). A handler is split where another
transaction can commit in between and matter: `AgentConfirmAction` is
`ConfirmRead`, `ConfirmCluster`, `ConfirmPolicy`, then `SubmitForApproval` or
`ClaimAction`/`ClaimRefused`, `ExecuteAction`, `RecordActionOutcome`; a transaction
decided by one conditional UPDATE is one step. `RequestLost` and `TurnLost` stand
for a crash, a lost client, and every refusal that only returns an error (scope
checks included). `lock` is the row lock a clear holds from its first UPDATE to its
commit; `WithConversationWrite` waits for it. Parameters of an action are reduced to
the three kinds the code tells apart. `writes` counts how often a row is handed to
the code that writes to the cluster; what happens there is `DeploymentChange`.
Texts, plans and the trace's content are left out.

### DeploymentChange

One execution of `ExecuteObservedDeploymentChange` against an API server (external)
with optimistic concurrency control. A write whose answer is lost was refused, was
applied, or is in `inflight` and arrives at any later time. Timeouts are
nondeterministic choices. The model assumes that the change really changes the spec
(`BaseSpec # NewSpec`). Other clients write any spec of `EditSpec`, the approved one
included. Then the executor can be wrong about whose write it sees: after a lost answer
it takes any object of the same uid, the next generation and an equal spec for its own
(`TookEffect`, `change_observation.go:89`). `IsTwin` is that object, and the properties
say what it does to them: "executed" means that the executor's write took effect or that
another client made the approved change as the very next generation (`twin`), and the
executor may roll such a change back. Any other foreign edit is neither overwritten nor
reported as its own work. `applied`, `foreign`, `twin` and `clobbered` are history
variables.

### EventForward

`cancels[p][r]` is the goroutine whose cancel function replica `p` keeps for rule
`r`; `watcher[w]` is a goroutine. One step is one critical section, one statement or
one turn of `select`. `select` picks any ready case, so an event may win over the
cancellation. `WatcherExit` is the deferred `stopWatcher`, by rule id, as in the code.
The election is external here: any replica may start its watchers, also two at once
(a leader that lost its session notices later). What an event contains, matching,
the webhook body and the counters are left out.

### TaskScheduler

`row[t]` is the task's row, `job[t]` the Job of the same name, `worker[w]` a
goroutine: `executeTask`, which goes on as `monitorTask`, with its own copy of the
row. A handler is a read (`CancelTask`, `RetryTask`, `DeleteTask`), a call of the API
server where there is one, and a write. `Save` is GORM's: it updates the row or
inserts it again, and an insertion needs the queue, because AutoMigrate creates the
foreign key of `tasks.queue_id`. The same key refuses the deletion of a queue that
any task refers to. The production-write policy, read again by `executeTask`, may
allow or refuse. `status.failed` of a Job counts pods, so a Job that retries under
its backoff limit (`retrying`) counts as failed. A goroutine that is lost in a
restart, or that meets a failing API server, puts its task in `astray`. Resource
quotas, reservations, logs and the content of the Job are left out.

### LeaderElection and ScheduledWork

`role[p]` follows `runLeader` and `serveLeader`; `holder` and `session` are the
advisory lock and the state of the session that has it: in use, in use with the lock
taken twice, back in the pool with the lock, or dead and not yet reaped by the
server. Modules start in order and stop in reverse, each stop in two halves
(`HaltModule`, `StopModule`), because work that runs may still end in between.
`UnlockTimedOut` is the stop that exceeds its ten seconds: the session goes back to
the pool with the lock. `ScheduledWork` conjoins these actions with what a module's
scheduler does: `Refresh` reads the rows, `RefreshItem` applies one of them, `Fire`
and `Trigger` are a cron job. A scheduled backup runs within its job (`BackupDone`);
`RunScheduledInspection` starts a goroutine and returns (`InspectionDetached`), and that
goroutine runs on in `detached` whatever becomes of the job, the scheduler or the lock,
until `InspectionEnds`. So there are two properties: `WorkOnlyWithLock` for modules,
entries and cron jobs, which includes the whole of a backup, and
`InspectionBeginsWithLock` for what the code does guarantee of an inspection.
`OldExpr` are the expressions of schedules that the replicas find when they start. A
crash, a lost session, a failing start and a shutdown are bounded together by
`MaxDisruptions`.

### ClusterObjects and WorkloadHandlers

`ClusterObjects` is an API server (external) with one object per kind and namespace,
optimistic concurrency, and the verbs the handlers use: get and update, create,
patch, delete, list, rollback, ensure, find and delete, create or update. A field's
value is the number of the write that set it, so a lost write shows. `accepted` (history) is what accepted writes
have asked for. `WorkloadHandlers` has one operator per handler, each the list of its
calls and of what it does when one fails (stop or go on), and one per executor of the
agent's actions (`ExecuteStagedAction`). The executors write next to the handlers: a
delete looks first and takes what is gone for deleted (`Find`); a manifest is created,
or where it exists overwritten as a whole at the version just read (`PostOrPut`). The
loop around them, `ExecuteStagedActionWithRetry`, only repeats an executor, and each
attempt is a request here. The objects' content is reduced to the fields a handler
overwrites. `Reconcile` is the deployment controller, external. The search for idle
objects is left out: it reads lists one after the other, and what it may call idle is
nowhere said. Its cleanup, `CleanIdleResource`, is there.

### The background parts

Each of the six modules has its own variables and an action per handler or goroutine
step. They share no state, so the server's behaviours are the interleavings of
theirs, and a property of one part holds of the server when it holds of the part;
`BackgroundWork` therefore explores one part per behaviour (`part`) instead of their
product. `Save` inserts a row that is gone, as GORM's does. `GatewayInstall`,
`Alerting` and `NodeShellPod` count time in ticks; an action that the code bounds by a
timeout shorter than a tick ends before the next. `GatewayInstall` makes one
assumption of its own: between reading the clock and the claim, and for the writes
that end a job, a live process takes no longer than the 15 seconds the code leaves
between its limit (165 s) and the lease (180 s). `TerminalSession` has the handler,
the pump, the reader and the forwarders with unbuffered pipes and the bounded channel
that joins them. `Alerting` models the evaluator as written, though nothing in the
server starts it.

### Sessions and AccessControl

`Sessions` follows one user: a request is split at every statement that another can
come between, so a password change can fall between a login's check and its token.
The version in a token is compared with the row on each request
(`authenticateUser`). Cache entries are taken by one atomic operation. `proof` of a
session and `uses` are history. Signatures, hashes and codes are taken to be
unforgeable.

`AccessControl` follows one request through the questions it asks and ends at each
answer. The middleware asks about the route: the namespace it checks is the first of
`:ns`, `?namespace` and `?ns` that is not empty (`firstNonEmpty`). A handler may then ask
about a target it takes from its own parameters, a body or a row (`EnsureScope`,
`RequireScope`), where the cluster id 0 is decided by the role alone. A tool of the
agent asks with the user's present role (`ensureToolAccess`), and the review of a change
asks as well (`canReviewChange`); both look at direct grants only. Role, direct grants
and inherited grants are read by separate statements with steps of administrators in
between; `held` (history) collects what was in force meanwhile. The production gate
decides by method and path.

The property is about answers. It does not say that a handler uses the
parameters that were checked, nor that it asks at all: `ListDeployments` reads only
`?ns`, and `CreateEnterpriseDeployment` writes the namespace of its body. Nor does it
cover the gate that some handlers call themselves (`AllowProductionWrite`).
`RequestWork` composes the two as `BackgroundWork` does.

## 3. Runs

| run | shows | bounds |
|---|---|---|
| `approval` | `TypeOK`, `OneExecutor`, `WrittenAtMostOnce`, `ApprovalHonoured`, `EvidenceKept` | two confirmations, requester and reviewer, one row, both switches free |
| `conversation` | `WithdrawnNeverWritten`, `ImplementsLifecycle` (refinement), `SettledUnlessLost` (liveness) | one conversation, turn, confirmation and sweep |
| `staging` | `PendingIsCurrent`, `OnePendingCreate` | two turns, two rows, two create parameters, one sweep, two versions |
| `clear_race` | violation of `ClearWithdrawsEverything` | as `conversation` |
| `deployment_change` | `TypeOK`, `AppliedAtMostOnce`, `NoEditClobbered`, `ExecutedMeansApplied`, `RolledBackStays`, `ExecutionEnds` (liveness) | other clients write the old spec, the approved one and a third; revisions of others up to 6 |
| `event_forward` | `MapIsExact`, `CancelledStops` (liveness) | one replica, one rule, two requests, three goroutines, two edits |
| `event_restart` | violation of `EnabledRuleWatched` | one request, three goroutines |
| `task_scheduler` | `JobIsWatched`, `SucceededIsTrue`, `TaskSettles` (liveness) | one task, two requests, two goroutines, one retry |
| `scheduled_work` | `WorkOnlyWithLock`, `InspectionBeginsWithLock` (action), `CronConverges` and `TakesOver` (liveness) | two replicas, two modules, one schedule of either kind, two edits, one disruption |
| `workloads` | `NoWriteLost`, `UndoIsPrevious` | two requests of any handlers or executors, two namespaces, batches of two |
| `requests` | `SessionsRevoked`, `UsedOnce`, `AnswerAsGranted` | two requests, one password change, one setup of the second factor with two codes, two cache entries; a cluster and the id 0, two namespaces given in any of the three places, a route of every scope, a question of every asker, one grant of the user and one of the group, two steps of administrators |
| `background` | `RecordsStayDeleted`, `ReportIsTrue`, `OneApplier`, `ShellKept`, `AlertJustified` (action), `InstallSettles` and `SessionEnds` (liveness) | two backups and a restore; a report over two objects; two installers, two deaths, lease 3 and limit 2 ticks; two resources; three sessions and a channel of two; two shells |

Two concurrent actors of each kind are enough for every race the code has: each
conflict is between one reader-then-writer and one writer of the same row. A third
goroutine in `event_forward` lets a successor be replaced again; two goroutines in
`task_scheduler` are the monitor of one attempt and that of its retry. Tasks share
only the count of their queue. One disruption in `scheduled_work` is a crash, a lost session, a
failing start or a shutdown, with everything that follows; stops that time out and
pooled sessions that break are not counted. In `background` the lease, the
limit, the queue and the registry keep the order of the code's numbers
(limit < lease, per-user < total) and are small enough to be reached. In
`requests` two steps of administrators are enough to take a right away between two reads
and to give another, and "platform" routes are decided as "handler" routes are. Bounds are
constants (`MaxVersion`, `MaxRev`, `MaxEdits`, ...) or the sizes of the sets of ids.
Replicas are not
distinguished in `AgentAction` because handlers share only the database; the maps of
`EventForward` are per replica and independent. Deadlock is checked in
`scheduled_work` and `background`, and not in the others, where requests may stop
arriving and bounded ids run out.

### Disagreements found

* `clear_race`: clear and delete read the cancellable rows and cancel each only if
  its status is unchanged; a row submitted or approved in between is skipped, though
  the README says the writes awaiting confirmation are cancelled.
* `event_restart`: a replaced watcher's deferred `stopWatcher(rule.ID)` cancels its
  successor, so restarting a rule can leave it enabled and unwatched.
* Not a run of its own: `executeTask` and `monitorTask` save their own copy of the row
  (`scheduler/handler.go:701`, `:824`), so a task that `CancelTask` reported as
  cancelled (`:446`) can be queued and run, or marked failed, later. `TaskScheduler`
  has this behaviour; `JobIsWatched` and `SucceededIsTrue` hold in spite of it.

## 4. Fairness

* `AgentAction!FairSpec`: weak fairness of a confirmation's own steps. A request is a
  goroutine; only a crash or a failing database stops it, which is `RequestLost`.
  Nobody is obliged to start a request, to review or to clear.
* `DeploymentChange!FairSpec`: weak fairness of the executor: it runs detached from
  the request, and every wait has a timeout.
* `EventForward!FairSpec`: weak fairness of a goroutine's own steps (the webhook
  client has a timeout) and strong fairness of `ContextDone`: `select` chooses at
  random among ready cases and the done channel stays ready. The arrival of events is
  not assumed.
* `TaskScheduler!FairSpec`: weak fairness of a goroutine's own steps while the API
  server answers: polls repeat every ten seconds and every task has a timeout, so a
  Job need not end by itself. Failing calls and restarts are never obliged.
* `ScheduledWork!FairSpec`: weak fairness of the goroutines of a living process, of
  the election's retry every three seconds, and of the database server's reaping of
  dead sessions. Crashes, shutdowns, lost sessions, edits and cron times are never
  obliged.
* `BackgroundWork!FairSpec`: for an installation, weak fairness of a living worker's
  steps, of time, and of the scan that every replica makes every 15 seconds; a worker
  that dies is not obliged. For a terminal, weak fairness of its goroutines, of the
  session's time limit, and of the end of the exec stream once the context is done;
  nothing is asked of the browser or the pod.

## 5. Proofs

Every invariant and every action property of the passing runs is a theorem, for all
values of the constants allowed by the `ASSUME`s of the modules: the bounds are
natural numbers, sets of ids that share a column are disjoint, and an order of two
numbers is assumed where the code has it (`GatewayAssumption`: the limit and the slack
fit into the lease; `ShellPodAssumption`: a session is no longer than the idle limit).

* `AgentActionProofs`. `TypeInv` adds to `TypeOK` that requests, turns and sweeps in
  progress name real rows, users and conversations. `ExecInv` adds to `OneExecutor`
  how many writes a row may have in each status (`WritesAccounted`): a row not yet
  started has none, one being executed by a request that has not written yet has
  none, and no row has two. `WrittenAtMostOnce` and `WithdrawnNeverWritten` follow.
  `ReviewInv` relates row, audit and the copies of requests: what a copy says of the
  approval is still true when the row is claimed, because a row that left
  `approval_pending` never returns and its approver never changes; so the save of the
  old copy loses neither approver nor evidence (`ApprovalHonoured`, `EvidenceKept`).
  `StagingInv` adds `ClearsSeeEverything`: while a clear holds the lock, every pending
  row of the conversation is among those it selected. `PendingIsCurrent` is not
  inductive without it. `LifecycleImplemented` is the refinement of `ChangeLifecycle`,
  one case per action.
* `DeploymentChangeProofs`. Revisions and uids only grow (`Evolves`), so a write that
  insists on a version meets the object that was read with it. `SafetyInv` says what
  the executor's copies and the requests in flight know of the object. `OutcomeInv`
  adds that the new spec, and every place beyond the write, show that the change was
  counted or was made by another client (`Accounted`); with it a late attempt after a rollback finds the version it
  insists on gone (`Restored`).
* `EventForwardProofs`. `MapIsExact` is inductive with `TypeOK`.
* `TaskSchedulerProofs`. `TypeInv` adds that goroutines and requests under way name
  their task or queue. `JobIsWatched` is inductive with it: whoever stops watching
  has seen the Job gone or ended, has deleted it, or leaves the task in `astray`.
  `Honest` strengthens `SucceededIsTrue` by what the Jobs, the verdicts of monitors
  and the copies of handlers say, since any of them can reach the row later.
* `ScheduledWorkProofs`. `ElectionInv` says what a role implies: a replica that does
  not serve has started nothing, and one that serves with a sound session holds the
  lock in use (`LockHeld`), so the session others could take or that the pool keeps is
  nobody's. `WorkInv` ties the schedulers to it: entries, refreshes and jobs belong to
  started modules (`WorkStarted`), and a halted module has no refresh under way
  (`HaltedStill`), without which Stop could leave an entry behind. `WorkUnderLock`
  follows, and `InspectionUnderLock`: only the end of a running cron job adds to
  `detached`, and a running job is under the lock.
* `WorkloadProofs`. First, every handler is a plan of well-formed calls
  (`EveryHandler`), so the rest is about the calls alone. The inductive invariant says
  that versions are given out in order and never twice, so that a copy which still has
  the version of its object still has its fields (`RequestOK`): a read-modify-write
  that is accepted loses nothing (`WritesKept`). For the rollback it says that the
  ReplicaSet of the template seen last is the newest, and the one before it either
  comes right before it or is itself the newest (`HistoryOK`); when the target is
  listed that makes it the previous template, and every step that could make it wrong
  later also changes the version (`UndoExact`). `TypeInv` adds the fields of
  objects and copies; a clone needs that it copies between objects of one kind. That a
  newest ReplicaSet exists is the least-number principle, from the library's
  `WFMin`.
* `BackgroundProofs`. A step of the whole is a step of one part (`Parts`).
  `BackupInv`: a goroutine works only on a row that cannot be deleted. `GatewayInv`:
  the lease of whoever holds the job covers what is left of his limit and the slack
  (`Covered`), so when the clock lets another claim it nobody holds it. `ShellPodInv`:
  no more time has passed for the pod since its note than for the stream that wrote it
  (`Fresh`), and a stream ends before the idle limit. `InspectionInv`: the results in a
  goroutine's hands agree with the lists it got (`FoundIn`), and a check that does not
  fail an object has seen it sound (`CheckIsSound`). `AlertInv`: a pending mark is no
  older than the breach has lasted (`NoOlderThanFound`), and the time of the last alert,
  in the row and in the evaluator's copy, is not before the true one (`LastKnown`).
* `RequestWorkProofs`. `SessionsPart` and `AccessPart` reduce the composition to its
  parts. `Revoked` needs only `SessionsProved`: a token carries the version that was
  proved, because the login compares the row again before it signs. `Once` rests on
  `UseInv`: entries still in the cache, numbers not given out, codes on the row and
  codes of later setups are all unused (`EntriesUnused`, `CodesUnused`), and a request
  about to consume a code has it from the list it will compare (`CodeFromList`).
  `AsGranted`: first the decision, what `NewEffectiveAccess` allows one single row allows
  (`AllowsGives`, `NamespacesGive`); then `AccessInv`: the rows a request has read were in
  force while it was decided (`HistoryComplete`), a request on its way to the grants has
  passed the role (`GrantsNext`), and an answer given is justified (`Justified`); `held`
  only grows while the request lasts, so no step of an administrator can break it.

Only model-checked: liveness (`SettledUnlessLost`, `ExecutionEnds`, `CancelledStops`,
`TaskSettles`, `CronConverges`, `TakesOver`, `InstallSettles`, `SessionEnds`), which
needs fairness and ENABLED, beyond the reach of the provers.

Every property of a passing run has a mutant in `PROJECT.json`: a plausible bug in a
mapped definition under which TLC finds the property violated.

## 6. Plan

1. The composition of `ScheduledWork` with `EventForward`, whose watchers are a
   singleton module too: there the election is still external.
2. Abstract specifications of the installation (one applier at a time) and of the
   elected work, and the refinements as theorems.
3. The map of cluster clients, with the registration and removal of clusters while
   requests use a client.

## 7. Not modelled

* Frontend, deployment files, LLM requests and their clients, prompt and manifest
  text, agent memory and traces (read back only as prompt text), the agent's tool loop
  (sequential; its staging calls are actions of `AgentAction`), and what its retry loop
  reads before it repeats an executor.
* The deployment form: what `GetDeployment` shows, what `UpdateDeployment` makes of it,
  and the web client's conversion in between. They handle dozens of fields, each
  dropped, merged or defaulted in its own way (an unedited save copies the deployment's
  annotations into the template), and no document says what a save must preserve.
  `WorkloadHandlers` has the write itself.
* The search for idle resources, and the parameters a handler uses after its scope was
  checked (section 2).
* Read-only pages: lists, details, metrics, graphs, trends, effective-permission views.
* Single-statement CRUD that no other step depends on: tenants, storage locations,
  menus, webhook logs, audit rows.
* Code nothing calls: `handler/backup/velero.go`.
* The rate limiter, configuration and wiring; `middleware/rbac.go`, which repeats the
  role check on two routes of the user administration.
* Pod files: one exec per request with no state of its own; the bytes of terminals.
* The map of cluster clients: every module takes a working client as given.

`components` in `PROJECT.json` gives the reason for each part.
