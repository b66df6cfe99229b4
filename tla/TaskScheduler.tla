--------------------------- MODULE TaskScheduler ---------------------------
(***************************************************************************)
(* The task scheduler: a task is a row, a Kubernetes Job of the same name, *)
(* and a goroutine (executeTask, which becomes monitorTask) that creates   *)
(* the Job, polls it and saves the whole row from its own copy.  Handlers  *)
(* cancel, retry and delete the task meanwhile, also from their own copy.  *)
(* GORM's Save updates the row or, when there is none, inserts it again.   *)
(***************************************************************************)
EXTENDS Naturals, FiniteSets

CONSTANTS Task,
          Queue,
          Request,   \* HTTP requests under way
          Worker,    \* identities for the goroutines that are ever started
          Limits,    \* values of max_tasks
          MaxRetry,
          None

ASSUME SchedulerAssumption ==
  /\ None \notin Task /\ None \notin Queue
  /\ Limits \subseteq Nat
  /\ MaxRetry \in Nat

VARIABLES
  queue,    \* task_queues
  row,      \* tasks
  job,      \* the Job named after the task, on the API server: "retrying" if a
            \* pod of it failed and its backoff limit leaves more attempts
  worker,   \* the goroutines
  request,
  astray,   \* history: tasks a goroutine of which was lost or met a failing API server
  ran       \* history: tasks a Job of which has succeeded

vars == <<queue, row, job, worker, request, astray, ran>>

Active == {"pending", "queued", "running"}
Completed == {"succeeded", "failed", "cancelled"}
Status == Active \cup Completed

\* A row: "absent" before it is created, "deleted" after it was; ids are not reused.
NoRow == [status |-> "absent", queue |-> None, retries |-> 0, named |-> FALSE]
DeletedRow == [NoRow EXCEPT !.status = "deleted"]
NewRow(q) == [status |-> "pending", queue |-> q, retries |-> 0, named |-> FALSE]
NoQueue == [state |-> "absent", max |-> 0]
DeletedQueue == [state |-> "deleted", max |-> 0]
QueueRow(m) == [state |-> "present", max |-> m]
NoWorker == [pc |-> "unused", task |-> None, copy |-> NoRow]
Returned == [NoWorker EXCEPT !.pc = "done"]
IdleRequest == [pc |-> "idle", task |-> None, queue |-> None, max |-> 0, copy |-> NoRow]

Init ==
  /\ queue = [q \in Queue |-> NoQueue]
  /\ row = [t \in Task |-> NoRow]
  /\ job = [t \in Task |-> "none"]
  /\ worker = [w \in Worker |-> NoWorker]
  /\ request = [r \in Request |-> IdleRequest]
  /\ astray = {}
  /\ ran = {}

Exists(t) == row[t].status \in Status
QueueExists(q) == q \in Queue /\ queue[q].state = "present"

\* db.Save; inserting the row again needs the queue it refers to.
Save(t, copy) ==
  row' = IF Exists(t) \/ QueueExists(copy.queue) THEN [row EXCEPT ![t] = copy] ELSE row

\* go h.executeTask(&task).
Spawn(t, copy) ==
  LET unused == {w \in Worker : worker[w].pc = "unused"} IN
  /\ unused # {}
  /\ worker' = [worker EXCEPT ![CHOOSE w \in unused : TRUE] = [pc |-> "start", task |-> t, copy |-> copy]]

Respond(r) == request' = [request EXCEPT ![r] = IdleRequest]
Proceed(r, pc) == request' = [request EXCEPT ![r].pc = pc]

-----------------------------------------------------------------------------
(* Queues.                                                                 *)

CreateQueue(q, m) ==
  /\ queue[q].state = "absent"
  /\ queue' = [queue EXCEPT ![q] = QueueRow(m)]
  /\ UNCHANGED <<row, job, worker, request, astray, ran>>

\* UpdateQueue reads the row and saves it.
UpdateQueue(r, q, m) ==
  /\ request[r].pc = "idle" /\ QueueExists(q)
  /\ request' = [request EXCEPT ![r] = [IdleRequest EXCEPT !.pc = "update queue", !.queue = q, !.max = m]]
  /\ UNCHANGED <<queue, row, job, worker, astray, ran>>

SaveQueue(r) ==
  /\ request[r].pc = "update queue"
  /\ queue' = [queue EXCEPT ![request[r].queue] = QueueRow(request[r].max)]
  /\ Respond(r)
  /\ UNCHANGED <<row, job, worker, astray, ran>>

ActiveTasks(q) == {t \in Task : row[t].queue = q /\ row[t].status \in Active}

\* DeleteQueue counts the active tasks and then deletes the row, which the foreign
\* key of tasks refuses while a task of whatever status refers to it.
DeleteQueue(r, q) ==
  /\ request[r].pc = "idle" /\ queue[q].state # "absent" /\ ActiveTasks(q) = {}
  /\ request' = [request EXCEPT ![r] = [IdleRequest EXCEPT !.pc = "delete queue", !.queue = q]]
  /\ UNCHANGED <<queue, row, job, worker, astray, ran>>

DeleteQueueRow(r) ==
  /\ request[r].pc = "delete queue"
  /\ queue' = IF \E t \in Task : Exists(t) /\ row[t].queue = request[r].queue
               THEN queue ELSE [queue EXCEPT ![request[r].queue] = DeletedQueue]
  /\ Respond(r)
  /\ UNCHANGED <<row, job, worker, astray, ran>>

-----------------------------------------------------------------------------
(* Task handlers.  One that is refused by a scope or by the policy on      *)
(* production writes changes nothing.                                      *)

\* CreateTask: the queue exists and has room.
CreateTask(r, t, q) ==
  /\ request[r].pc = "idle"
  /\ row[t] = NoRow
  /\ QueueExists(q) /\ Cardinality(ActiveTasks(q)) < queue[q].max
  /\ request' = [request EXCEPT ![r] =
       [IdleRequest EXCEPT !.pc = "create", !.task = t, !.copy = NewRow(q)]]
  /\ UNCHANGED <<queue, row, job, worker, astray, ran>>

InsertTask(r) ==
  LET t == request[r].task IN
  /\ request[r].pc = "create"
  /\ IF row[t] = NoRow /\ QueueExists(request[r].copy.queue)
     THEN Save(t, request[r].copy) /\ Spawn(t, request[r].copy)
     ELSE UNCHANGED <<row, worker>>   \* task_uid is unique, queue_id a foreign key
  /\ Respond(r)
  /\ UNCHANGED <<queue, job, astray, ran>>

\* The handlers of an existing task read it; copy is what they go on with.
ReadTask(r, t, pc, copy) ==
  /\ request[r].pc = "idle"
  /\ Exists(t)
  /\ request' = [request EXCEPT ![r] = [IdleRequest EXCEPT !.pc = pc, !.task = t, !.copy = copy]]
  /\ UNCHANGED <<queue, row, job, worker, astray, ran>>

HasJob(t, statuses) == row[t].status \in statuses /\ row[t].named

\* The deletion of the Job by CancelTask or DeleteTask; a failing call is ignored.
DeleteJob(r, pc) ==
  LET t == request[r].task IN
  /\ \/ job' = [job EXCEPT ![t] = "none"] /\ UNCHANGED astray
     \/ UNCHANGED job /\ astray' = astray \cup {t}
  /\ Proceed(r, pc)
  /\ UNCHANGED <<queue, row, worker, ran>>

CancelTask(r, t) ==
  /\ row[t].status \in Active
  /\ ReadTask(r, t, IF HasJob(t, {"running"}) THEN "cancel" ELSE "cancelled",
              [row[t] EXCEPT !.status = "cancelled"])
CancelJob(r) == request[r].pc = "cancel" /\ DeleteJob(r, "cancelled")
SaveCancelled(r) ==
  /\ request[r].pc = "cancelled"
  /\ Save(request[r].task, request[r].copy)
  /\ Respond(r)
  /\ UNCHANGED <<queue, job, worker, astray, ran>>

MayRetryAlways(copy) == copy.status \in {"failed", "cancelled"}
MayRetry(copy) == copy.status \in {"failed", "cancelled"} /\ copy.retries < MaxRetry

RetryTask(r, t) ==
  /\ MayRetry(row[t])
  /\ ReadTask(r, t, "retry", [row[t] EXCEPT !.status = "pending", !.retries = @ + 1])
SaveRetried(r) ==
  /\ request[r].pc = "retry"
  /\ Save(request[r].task, request[r].copy)
  /\ Spawn(request[r].task, request[r].copy)
  /\ Respond(r)
  /\ UNCHANGED <<queue, job, astray, ran>>

DeleteTask(r, t) == ReadTask(r, t, IF HasJob(t, {"queued", "running"}) THEN "delete" ELSE "deleted", NoRow)
DeleteTaskJob(r) == request[r].pc = "delete" /\ DeleteJob(r, "deleted")
DeleteTaskRow(r) ==
  /\ request[r].pc = "deleted"
  /\ row' = [row EXCEPT ![request[r].task] = DeletedRow]
  /\ Respond(r)
  /\ UNCHANGED <<queue, job, worker, astray, ran>>

-----------------------------------------------------------------------------
(* executeTask and monitorTask.                                            *)

At(w, pc) == worker[w].pc = pc

\* Save the goroutine's copy with a new status and go on at pc.
SaveAs(w, status, pc) ==
  LET copy == [worker[w].copy EXCEPT !.status = status] IN
  /\ Save(worker[w].task, copy)
  /\ worker' = [worker EXCEPT ![w] =
       IF pc = "done" THEN Returned ELSE [pc |-> pc, task |-> worker[w].task, copy |-> copy]]

\* The policy on production writes, which may change at any time, is checked
\* again; a check that fails counts as a refusal.
ExecuteTask(w) ==
  /\ At(w, "start")
  /\ \/ SaveAs(w, "queued", "queued")
     \/ SaveAs(w, "failed", "done")
  /\ UNCHANGED <<queue, job, request, astray, ran>>

\* No client, or the API server refuses the Job, also because it is there already.
JobRefused(w) ==
  /\ At(w, "queued")
  /\ SaveAs(w, "failed", "done")
  /\ UNCHANGED <<queue, job, request, astray, ran>>

CreateJob(w) ==
  /\ At(w, "queued")
  /\ job[worker[w].task] = "none"
  /\ job' = [job EXCEPT ![worker[w].task] = "active"]
  /\ worker' = [worker EXCEPT ![w].pc = "created"]
  /\ UNCHANGED <<queue, row, request, astray, ran>>

\* The Job is created and the answer lost.
CreateJobUnanswered(w) ==
  /\ At(w, "queued")
  /\ job[worker[w].task] = "none"
  /\ job' = [job EXCEPT ![worker[w].task] = "active"]
  /\ SaveAs(w, "failed", "done")
  /\ astray' = astray \cup {worker[w].task}
  /\ UNCHANGED <<queue, request, ran>>

SaveRunning(w) ==
  LET copy == [worker[w].copy EXCEPT !.status = "running", !.named = TRUE] IN
  /\ At(w, "created")
  /\ Save(worker[w].task, copy)
  /\ worker' = [worker EXCEPT ![w] = [pc |-> "monitor", task |-> worker[w].task, copy |-> copy]]
  /\ UNCHANGED <<queue, job, request, astray, ran>>

\* What a poll makes of the state of the Job: go on, or the row's last status.
\* status.failed counts pods, so a Job that retries counts as failed.
VerdictMissingIsDone(state) ==
  CASE state \in {"none", "succeeded"} -> "succeeded"
    [] state \in {"failed", "retrying"} -> "failed"
    [] state = "active" -> "monitor"
VerdictMissingIgnored(state) ==
  CASE state = "succeeded" -> "succeeded"
    [] state \in {"failed", "retrying"} -> "failed"
    [] state \in {"active", "none"} -> "monitor"
Verdict(state) ==
  CASE state = "succeeded" -> "succeeded"
    [] state \in {"failed", "retrying", "none"} -> "failed"
    [] state = "active" -> "monitor"

PollJob(w) ==
  /\ At(w, "monitor")
  /\ job[worker[w].task] # "active"
  /\ worker' = [worker EXCEPT ![w].pc = Verdict(job[worker[w].task])]
  /\ UNCHANGED <<queue, row, job, request, astray, ran>>

\* Get fails for another reason: the Job passes for deleted.
PollFails(w) ==
  /\ At(w, "monitor")
  /\ worker' = [worker EXCEPT ![w].pc = "failed"]
  /\ astray' = astray \cup {worker[w].task}
  /\ UNCHANGED <<queue, row, job, request, ran>>

\* monitorTask finds no client and returns.
MonitorGivesUp(w) ==
  /\ At(w, "monitor")
  /\ worker' = [worker EXCEPT ![w] = Returned]
  /\ astray' = astray \cup {worker[w].task}
  /\ UNCHANGED <<queue, row, job, request, ran>>

\* The timeout: a poll finds the Job active, then the Job is deleted by its name.
Timeout(w) ==
  /\ At(w, "monitor")
  /\ job[worker[w].task] = "active"
  /\ worker' = [worker EXCEPT ![w].pc = "expired"]
  /\ UNCHANGED <<queue, row, job, request, astray, ran>>

TimedOutJobKept(t) == job[t]
TimedOutJob(t) == "none"
DeleteExpired(w) ==
  /\ At(w, "expired")
  /\ job' = [job EXCEPT ![worker[w].task] = TimedOutJob(worker[w].task)]
  /\ worker' = [worker EXCEPT ![w].pc = "failed"]
  /\ UNCHANGED <<queue, row, request, astray, ran>>

DeleteExpiredFails(w) ==
  /\ At(w, "expired")
  /\ worker' = [worker EXCEPT ![w].pc = "failed"]
  /\ astray' = astray \cup {worker[w].task}
  /\ UNCHANGED <<queue, row, job, request, ran>>

SaveVerdict(w) ==
  /\ worker[w].pc \in {"succeeded", "failed"}
  /\ SaveAs(w, worker[w].pc, "done")
  /\ UNCHANGED <<queue, job, request, astray, ran>>

-----------------------------------------------------------------------------
(* The cluster and the process.                                            *)

JobMoves(t, state) ==
  /\ job[t] \in {"active", "retrying"}
  /\ state = "retrying" => job[t] = "active" /\ MaxRetry > 0
  /\ job' = [job EXCEPT ![t] = state]
  /\ ran' = IF state = "succeeded" THEN ran \cup {t} ELSE ran
  /\ UNCHANGED <<queue, row, worker, request, astray>>

\* The server restarts: its goroutines are gone and nothing starts them again.
Restart ==
  /\ astray' = astray \cup {worker[w].task : w \in {x \in Worker : worker[x].pc \notin {"unused", "done"}}}
  /\ worker' = [w \in Worker |-> IF At(w, "unused") THEN NoWorker ELSE Returned]
  /\ request' = [r \in Request |-> IdleRequest]
  /\ UNCHANGED <<queue, row, job, ran>>

-----------------------------------------------------------------------------
\* What a goroutine does while the API server answers.
Progress(w) ==
  \/ ExecuteTask(w)
  \/ JobRefused(w)
  \/ CreateJob(w)
  \/ SaveRunning(w)
  \/ PollJob(w)
  \/ Timeout(w)
  \/ DeleteExpired(w)
  \/ SaveVerdict(w)

Failing(w) ==
  \/ CreateJobUnanswered(w)
  \/ PollFails(w)
  \/ MonitorGivesUp(w)
  \/ DeleteExpiredFails(w)

HandlingQueue(r) ==
  \/ \E q \in Queue, m \in Limits : UpdateQueue(r, q, m)
  \/ SaveQueue(r)
  \/ \E q \in Queue : DeleteQueue(r, q)
  \/ DeleteQueueRow(r)

HandlingTask(r) ==
  \/ \E t \in Task, q \in Queue : CreateTask(r, t, q)
  \/ InsertTask(r)
  \/ \E t \in Task : CancelTask(r, t) \/ RetryTask(r, t) \/ DeleteTask(r, t)
  \/ CancelJob(r)
  \/ SaveCancelled(r)
  \/ SaveRetried(r)
  \/ DeleteTaskJob(r)
  \/ DeleteTaskRow(r)

Next ==
  \/ \E q \in Queue, m \in Limits : CreateQueue(q, m)
  \/ \E r \in Request : HandlingQueue(r) \/ HandlingTask(r)
  \/ \E w \in Worker : Progress(w) \/ Failing(w)
  \/ \E t \in Task, s \in {"retrying", "succeeded", "failed"} : JobMoves(t, s)
  \/ Restart

Spec == Init /\ [][Next]_vars

\* A goroutine keeps running; polls repeat, and a task has a timeout.
FairSpec == Spec /\ \A w \in Worker : WF_vars(Progress(w))

-----------------------------------------------------------------------------
(* Properties.                                                             *)

RowType == [status : Status \cup {"absent", "deleted"}, queue : Queue \cup {None},
            retries : 0 .. MaxRetry, named : BOOLEAN]
WorkerType ==
  [pc : {"unused", "start", "queued", "created", "monitor", "expired", "succeeded", "failed", "done"},
   task : Task \cup {None}, copy : RowType]
RequestType ==
  [pc : {"idle", "update queue", "delete queue", "create", "cancel", "cancelled",
         "retry", "delete", "deleted"},
   task : Task \cup {None}, queue : Queue \cup {None}, max : Nat, copy : RowType]

\* Type correctness; no row, and no copy of one, ever counts more than
\* MaxRetry retries.
TypeOK ==
  /\ queue \in [Queue -> [state : {"absent", "present", "deleted"}, max : Nat]]
  /\ row \in [Task -> RowType]
  /\ job \in [Task -> {"none", "active", "retrying", "succeeded", "failed"}]
  /\ worker \in [Worker -> WorkerType]
  /\ request \in [Request -> RequestType]
  /\ astray \in SUBSET Task
  /\ ran \in SUBSET Task

\* However cancellations, retries, deletions and timeouts interleave, an active
\* Job no pod of which has failed has a goroutine that watches it, unless one was
\* lost or the API server failed: no Job is left to run unseen.
JobIsWatched ==
  \A t \in Task : job[t] = "active" /\ t \notin astray =>
    \E w \in Worker : worker[w].task = t /\ worker[w].pc \in {"created", "monitor", "expired"}

\* A task is reported as succeeded only if a Job of it has succeeded, whatever
\* copies of the row were saved over one another.
SucceededIsTrue == \A t \in Task : row[t].status = "succeeded" => t \in ran

\* An active task is settled, unless its goroutine was lost.
TaskSettles == \A t \in Task : row[t].status \in Active ~> (row[t].status \notin Active \/ t \in astray)
=============================================================================
