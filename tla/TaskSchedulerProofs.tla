------------------------ MODULE TaskSchedulerProofs ------------------------
(***************************************************************************)
(* Proofs about TaskScheduler, for any number of tasks, queues, requests   *)
(* and goroutines and any number of retries.                               *)
(***************************************************************************)
EXTENDS TaskScheduler, TLAPS

-----------------------------------------------------------------------------
(* Type correctness.                                                       *)

\* TypeOK in parts; goroutines and requests under way name what they work on.
Workers ==
  /\ worker \in [Worker -> WorkerType]
  /\ \A w \in Worker : worker[w].pc \notin {"unused", "done"} => worker[w].task \in Task
Requests ==
  /\ request \in [Request -> RequestType]
  /\ \A r \in Request :
       request[r].pc \in {"create", "cancel", "cancelled", "retry", "delete", "deleted"} => request[r].task \in Task
  /\ \A r \in Request : request[r].pc \in {"update queue", "delete queue"} => request[r].queue \in Queue
Rows == row \in [Task -> RowType]
Queues == queue \in [Queue -> [state : {"absent", "present", "deleted"}, max : Nat]]
Jobs == job \in [Task -> {"none", "active", "retrying", "succeeded", "failed"}]
History == astray \in SUBSET Task /\ ran \in SUBSET Task

TypeInv == Workers /\ Requests /\ Rows /\ Queues /\ Jobs /\ History

LEMMA Constants ==
  /\ NoRow \in RowType /\ DeletedRow \in RowType
  /\ \A q \in Queue : NewRow(q) \in RowType
  /\ NoWorker \in WorkerType /\ Returned \in WorkerType
  /\ IdleRequest \in RequestType
  /\ NoWorker.pc = "unused" /\ Returned.pc = "done" /\ IdleRequest.pc = "idle"
<1>1. 0 \in 0 .. MaxRetry
  BY SchedulerAssumption
<1>2. NoRow \in RowType
  BY <1>1 DEF NoRow, RowType
<1>3. DeletedRow \in RowType
  BY <1>1 DEF DeletedRow, NoRow, RowType
<1>4. \A q \in Queue : NewRow(q) \in RowType
  BY <1>1 DEF NewRow, RowType, Status, Active
<1>5. NoWorker \in WorkerType /\ NoWorker.pc = "unused"
  BY <1>2 DEF NoWorker, WorkerType
<1>6. Returned \in WorkerType /\ Returned.pc = "done"
  BY <1>2 DEF NoWorker, Returned, WorkerType
<1>7. IdleRequest \in RequestType /\ IdleRequest.pc = "idle"
  BY <1>2 DEF IdleRequest, RequestType
<1> QED BY <1>2, <1>3, <1>4, <1>5, <1>6, <1>7

LEMMA InitType == Init => TypeInv
<1> SUFFICES ASSUME Init PROVE TypeInv
  OBVIOUS
<1>1. Workers
  BY Constants DEF Init, Workers
<1>2. Requests
  BY Constants DEF Init, Requests
<1>3. Rows
  BY Constants DEF Init, Rows
<1>4. Queues
  BY DEF Init, Queues, NoQueue
<1>5. Jobs /\ History
  BY DEF Init, Jobs, History
<1> QED BY <1>1, <1>2, <1>3, <1>4, <1>5 DEF TypeInv

\* Statuses a copy may be given.
LEMMA RowStatus ==
  ASSUME NEW x \in RowType, NEW s \in Status \cup {"absent", "deleted"}
  PROVE  [x EXCEPT !.status = s] \in RowType
  BY DEF RowType

LEMMA SaveType ==
  ASSUME Rows, NEW t \in Task, NEW copy \in RowType, Save(t, copy)
  PROVE  Rows'
  BY DEF Rows, Save

LEMMA SpawnType ==
  ASSUME Workers, NEW t \in Task, NEW copy \in RowType, Spawn(t, copy)
  PROVE  Workers'
<1>1. [pc |-> "start", task |-> t, copy |-> copy] \in WorkerType
  BY DEF WorkerType
<1> QED BY <1>1 DEF Workers, Spawn

LEMMA RespondType == ASSUME Requests, NEW r \in Request, Respond(r) PROVE Requests'
  BY Constants DEF Requests, Respond

LEMMA ProceedType ==
  ASSUME Requests, NEW r \in Request, NEW pc \in {"cancelled", "deleted"}, request[r].task \in Task, Proceed(r, pc)
  PROVE  Requests'
  BY DEF Requests, Proceed, RequestType

LEMMA SaveAsType ==
  ASSUME TypeInv, NEW w \in Worker, NEW s \in Status, NEW pc \in {"queued", "done"},
         worker[w].task \in Task, SaveAs(w, s, pc)
  PROVE  Rows' /\ Workers'
<1> DEFINE copy == [worker[w].copy EXCEPT !.status = s]
<1>1. copy \in RowType
  BY RowStatus DEF TypeInv, Workers, WorkerType
<1>2. Rows'
  BY <1>1, SaveType DEF SaveAs, TypeInv
<1>3. [pc |-> pc, task |-> worker[w].task, copy |-> copy] \in WorkerType
  BY <1>1 DEF WorkerType
<1>4. Workers'
  BY <1>3, Constants DEF SaveAs, TypeInv, Workers
<1> QED BY <1>2, <1>4

\* A step of a goroutine that only moves its program counter.
LEMMA MoveType ==
  ASSUME Workers, NEW w \in Worker, worker[w].task \in Task,
         NEW pc \in {"created", "monitor", "expired", "succeeded", "failed"},
         worker' = [worker EXCEPT ![w].pc = pc]
  PROVE  Workers'
  BY DEF Workers, WorkerType

LEMMA ReadType ==
  ASSUME TypeInv, NEW r \in Request, NEW t \in Task, NEW copy \in RowType,
         NEW pc \in {"cancel", "cancelled", "retry", "delete", "deleted"}, ReadTask(r, t, pc, copy)
  PROVE  TypeInv'
<1>1. [IdleRequest EXCEPT !.pc = pc, !.task = t, !.copy = copy] \in RequestType
  BY Constants DEF RequestType
<1>2. Requests'
  BY <1>1 DEF TypeInv, Requests, ReadTask, IdleRequest
<1> QED BY <1>2 DEF TypeInv, ReadTask, Workers, Rows, Queues, Jobs, History

LEMMA DeleteJobType ==
  ASSUME TypeInv, NEW r \in Request, NEW pc \in {"cancelled", "deleted"}, request[r].task \in Task, DeleteJob(r, pc)
  PROVE  TypeInv'
<1>1. Requests'
  BY ProceedType DEF TypeInv, DeleteJob
<1>2. Jobs' /\ History'
  BY DEF TypeInv, DeleteJob, Jobs, History
<1> QED BY <1>1, <1>2 DEF TypeInv, DeleteJob, Workers, Rows, Queues

LEMMA QueueHandlersType ==
  ASSUME TypeInv, NEW r \in Request, HandlingQueue(r)
  PROVE  TypeInv'
<1> USE DEF TypeInv
<1>1. ASSUME NEW q \in Queue, NEW m \in Limits, UpdateQueue(r, q, m) PROVE TypeInv'
  <2>1. [IdleRequest EXCEPT !.pc = "update queue", !.queue = q, !.max = m] \in RequestType
    BY Constants, SchedulerAssumption DEF RequestType
  <2>2. Requests'
    BY <1>1, <2>1, Constants DEF UpdateQueue, Requests, RequestType
  <2> QED BY <1>1, <2>2 DEF UpdateQueue, Workers, Rows, Queues, Jobs, History
<1>2. CASE SaveQueue(r)
  <2>1. Requests'
    BY <1>2, RespondType DEF SaveQueue
  <2>2. request[r].queue \in Queue /\ request[r].max \in Nat
    BY <1>2 DEF SaveQueue, Requests, RequestType
  <2>3. Queues'
    BY <1>2, <2>2 DEF SaveQueue, Queues, QueueRow
  <2> QED BY <1>2, <2>1, <2>3 DEF SaveQueue, Workers, Rows, Jobs, History
<1>3. ASSUME NEW q \in Queue, DeleteQueue(r, q) PROVE TypeInv'
  <2>1. [IdleRequest EXCEPT !.pc = "delete queue", !.queue = q] \in RequestType
    BY Constants DEF RequestType
  <2>2. Requests'
    BY <1>3, <2>1, Constants DEF DeleteQueue, Requests, RequestType
  <2> QED BY <1>3, <2>2 DEF DeleteQueue, Workers, Rows, Queues, Jobs, History
<1>4. CASE DeleteQueueRow(r)
  <2>1. Requests'
    BY <1>4, RespondType DEF DeleteQueueRow
  <2>2. Queues'
    BY <1>4 DEF DeleteQueueRow, Queues, DeletedQueue
  <2> QED BY <1>4, <2>1, <2>2 DEF DeleteQueueRow, Workers, Rows, Jobs, History
<1> QED BY <1>1, <1>2, <1>3, <1>4 DEF HandlingQueue

LEMMA TaskHandlersType ==
  ASSUME TypeInv, NEW r \in Request, HandlingTask(r)
  PROVE  TypeInv'
<1>0. request[r].copy \in RowType
  BY DEF TypeInv, Requests, RequestType
<1>1. ASSUME NEW t \in Task, NEW q \in Queue, CreateTask(r, t, q) PROVE TypeInv'
  <2>1. [IdleRequest EXCEPT !.pc = "create", !.task = t, !.copy = NewRow(q)] \in RequestType
    BY Constants DEF RequestType
  <2>2. Requests'
    BY <1>1, <2>1, Constants DEF TypeInv, CreateTask, Requests, RequestType
  <2> QED BY <1>1, <2>2 DEF TypeInv, CreateTask, Workers, Rows, Queues, Jobs, History
<1>2. CASE InsertTask(r)
  <2>1. request[r].task \in Task
    BY <1>2 DEF TypeInv, InsertTask, Requests
  <2>2. Requests'
    BY <1>2, RespondType DEF TypeInv, InsertTask
  <2>3. CASE row[request[r].task] = NoRow /\ QueueExists(request[r].copy.queue)
    <3>1. Rows'
      BY <1>0, <1>2, <2>1, <2>3, SaveType DEF TypeInv, InsertTask
    <3>2. Workers'
      BY <1>0, <1>2, <2>1, <2>3, SpawnType DEF TypeInv, InsertTask
    <3> QED BY <1>2, <2>2, <3>1, <3>2 DEF TypeInv, InsertTask, Queues, Jobs, History
  <2>4. CASE ~(row[request[r].task] = NoRow /\ QueueExists(request[r].copy.queue))
    BY <1>2, <2>2, <2>4 DEF TypeInv, InsertTask, Workers, Rows, Queues, Jobs, History
  <2> QED BY <2>3, <2>4
<1>3. ASSUME NEW t \in Task, CancelTask(r, t) PROVE TypeInv'
  <2>1. [row[t] EXCEPT !.status = "cancelled"] \in RowType
    BY RowStatus DEF TypeInv, Rows, Status, Completed
  <2> QED BY <1>3, <2>1, ReadType DEF CancelTask
<1>4. ASSUME NEW t \in Task, RetryTask(r, t) PROVE TypeInv'
  <2>1. row[t] \in RowType /\ row[t].retries < MaxRetry
    BY <1>4 DEF TypeInv, Rows, RetryTask, MayRetry
  <2>2. row[t].retries + 1 \in 0 .. MaxRetry
    BY <2>1, SchedulerAssumption DEF RowType
  <2>3. [row[t] EXCEPT !.status = "pending", !.retries = @ + 1] \in RowType
    BY <2>1, <2>2 DEF RowType, Status, Active
  <2> QED BY <1>4, <2>3, ReadType DEF RetryTask
<1>5. ASSUME NEW t \in Task, DeleteTask(r, t) PROVE TypeInv'
  BY <1>5, Constants, ReadType DEF DeleteTask
<1>6. CASE CancelJob(r)
  <2>1. request[r].task \in Task
    BY <1>6 DEF TypeInv, CancelJob, Requests
  <2> QED BY <1>6, <2>1, DeleteJobType DEF CancelJob
<1>7. CASE SaveCancelled(r)
  <2>1. request[r].task \in Task
    BY <1>7 DEF TypeInv, SaveCancelled, Requests
  <2>2. Rows' /\ Requests'
    BY <1>0, <1>7, <2>1, SaveType, RespondType DEF TypeInv, SaveCancelled
  <2> QED BY <1>7, <2>2 DEF TypeInv, SaveCancelled, Workers, Queues, Jobs, History
<1>8. CASE SaveRetried(r)
  <2>1. request[r].task \in Task
    BY <1>8 DEF TypeInv, SaveRetried, Requests
  <2>2. Rows' /\ Requests'
    BY <1>0, <1>8, <2>1, SaveType, RespondType DEF TypeInv, SaveRetried
  <2>3. Workers'
    BY <1>0, <1>8, <2>1, SpawnType DEF TypeInv, SaveRetried
  <2> QED BY <1>8, <2>2, <2>3 DEF TypeInv, SaveRetried, Queues, Jobs, History
<1>9. CASE DeleteTaskJob(r)
  <2>1. request[r].task \in Task
    BY <1>9 DEF TypeInv, DeleteTaskJob, Requests
  <2> QED BY <1>9, <2>1, DeleteJobType DEF DeleteTaskJob
<1>10. CASE DeleteTaskRow(r)
  <2>1. Rows' /\ Requests'
    BY <1>10, RespondType, Constants DEF TypeInv, DeleteTaskRow, Rows
  <2> QED BY <1>10, <2>1 DEF TypeInv, DeleteTaskRow, Workers, Queues, Jobs, History
<1> QED BY <1>1, <1>2, <1>3, <1>4, <1>5, <1>6, <1>7, <1>8, <1>9, <1>10 DEF HandlingTask

LEMMA GoroutineType ==
  ASSUME TypeInv, NEW w \in Worker, Progress(w) \/ Failing(w)
  PROVE  TypeInv'
<1>0. worker[w].task \in Task /\ worker[w].copy \in RowType
  BY DEF TypeInv, Workers, WorkerType, Progress, Failing, ExecuteTask, JobRefused, CreateJob, SaveRunning,
         PollJob, Timeout, SaveVerdict, CreateJobUnanswered, PollFails, MonitorGivesUp, DeleteExpired, DeleteExpiredFails, At
<1>s. {"queued", "failed", "succeeded"} \subseteq Status
  BY DEF Status, Active, Completed
<1>1. CASE ExecuteTask(w)
  <2>1. Rows' /\ Workers'
    BY <1>0, <1>s, <1>1, SaveAsType DEF ExecuteTask
  <2> QED BY <1>1, <2>1 DEF TypeInv, ExecuteTask, Requests, Queues, Jobs, History
<1>2. CASE JobRefused(w)
  <2>1. Rows' /\ Workers'
    BY <1>0, <1>s, <1>2, SaveAsType DEF JobRefused
  <2> QED BY <1>2, <2>1 DEF TypeInv, JobRefused, Requests, Queues, Jobs, History
<1>3. CASE CreateJob(w)
  <2>1. Workers'
    BY <1>0, <1>3, MoveType DEF TypeInv, CreateJob
  <2>2. Jobs'
    BY <1>3 DEF TypeInv, CreateJob, Jobs
  <2> QED BY <1>3, <2>1, <2>2 DEF TypeInv, CreateJob, Rows, Requests, Queues, History
<1>4. CASE SaveRunning(w)
  <2> DEFINE copy == [worker[w].copy EXCEPT !.status = "running", !.named = TRUE]
  <2>1. copy \in RowType
    BY <1>0 DEF RowType, Status, Active
  <2>2. Rows'
    BY <1>0, <1>4, <2>1, SaveType DEF TypeInv, SaveRunning
  <2>3. [pc |-> "monitor", task |-> worker[w].task, copy |-> copy] \in WorkerType
    BY <1>0, <2>1 DEF WorkerType
  <2>4. Workers'
    BY <1>0, <1>4, <2>3 DEF TypeInv, SaveRunning, Workers
  <2> QED BY <1>4, <2>2, <2>4 DEF TypeInv, SaveRunning, Requests, Queues, Jobs, History
<1>5. CASE PollJob(w)
  <2>1. Verdict(job[worker[w].task]) \in {"succeeded", "failed"}
    BY <1>0, <1>5 DEF TypeInv, Jobs, PollJob, Verdict
  <2>2. Workers'
    BY <1>0, <1>5, <2>1, MoveType DEF TypeInv, PollJob
  <2> QED BY <1>5, <2>2 DEF TypeInv, PollJob, Rows, Requests, Queues, Jobs, History
<1>6. CASE Timeout(w)
  <2>1. Workers'
    BY <1>0, <1>6, MoveType DEF TypeInv, Timeout
  <2> QED BY <1>6, <2>1 DEF TypeInv, Timeout, Rows, Requests, Queues, Jobs, History
<1>7. CASE SaveVerdict(w)
  <2>1. Rows' /\ Workers'
    BY <1>0, <1>s, <1>7, SaveAsType DEF SaveVerdict
  <2> QED BY <1>7, <2>1 DEF TypeInv, SaveVerdict, Requests, Queues, Jobs, History
<1>8. CASE CreateJobUnanswered(w)
  <2>1. Rows' /\ Workers'
    BY <1>0, <1>s, <1>8, SaveAsType DEF CreateJobUnanswered
  <2>2. Jobs' /\ History'
    BY <1>0, <1>8 DEF TypeInv, CreateJobUnanswered, Jobs, History
  <2> QED BY <1>8, <2>1, <2>2 DEF TypeInv, CreateJobUnanswered, Requests, Queues
<1>9. CASE PollFails(w)
  <2>1. Workers'
    BY <1>0, <1>9, MoveType DEF TypeInv, PollFails
  <2>2. History'
    BY <1>0, <1>9 DEF TypeInv, PollFails, History
  <2> QED BY <1>9, <2>1, <2>2 DEF TypeInv, PollFails, Rows, Requests, Queues, Jobs
<1>10. CASE MonitorGivesUp(w)
  <2>1. Workers'
    BY <1>10, Constants DEF TypeInv, MonitorGivesUp, Workers
  <2>2. History'
    BY <1>0, <1>10 DEF TypeInv, MonitorGivesUp, History
  <2> QED BY <1>10, <2>1, <2>2 DEF TypeInv, MonitorGivesUp, Rows, Requests, Queues, Jobs
<1>11. CASE DeleteExpired(w)
  <2>1. Workers'
    BY <1>0, <1>11, MoveType DEF TypeInv, DeleteExpired
  <2>2. Jobs'
    BY <1>11 DEF TypeInv, DeleteExpired, Jobs, TimedOutJob
  <2> QED BY <1>11, <2>1, <2>2 DEF TypeInv, DeleteExpired, Rows, Requests, Queues, History
<1>12. CASE DeleteExpiredFails(w)
  <2>1. Workers'
    BY <1>0, <1>12, MoveType DEF TypeInv, DeleteExpiredFails
  <2>2. History'
    BY <1>0, <1>12 DEF TypeInv, DeleteExpiredFails, History
  <2> QED BY <1>12, <2>1, <2>2 DEF TypeInv, DeleteExpiredFails, Rows, Requests, Queues, Jobs
<1> QED BY <1>1, <1>2, <1>3, <1>4, <1>5, <1>6, <1>7, <1>8, <1>9, <1>10, <1>11, <1>12 DEF Progress, Failing

LEMMA NextType == TypeInv /\ [Next]_vars => TypeInv'
<1> SUFFICES ASSUME TypeInv, [Next]_vars PROVE TypeInv'
  OBVIOUS
<1>1. ASSUME NEW q \in Queue, NEW m \in Limits, CreateQueue(q, m) PROVE TypeInv'
  <2>1. Queues'
    BY <1>1, SchedulerAssumption DEF TypeInv, CreateQueue, Queues, QueueRow
  <2> QED BY <1>1, <2>1 DEF TypeInv, CreateQueue, Workers, Requests, Rows, Jobs, History
<1>2. ASSUME NEW t \in Task, NEW s \in {"retrying", "succeeded", "failed"}, JobMoves(t, s) PROVE TypeInv'
  <2>1. Jobs' /\ History'
    BY <1>2 DEF TypeInv, JobMoves, Jobs, History
  <2> QED BY <1>2, <2>1 DEF TypeInv, JobMoves, Workers, Requests, Rows, Queues
<1>3. CASE Restart
  <2>1. Workers' /\ Requests'
    BY <1>3, Constants DEF TypeInv, Restart, Workers, Requests
  <2>2. History'
    BY <1>3 DEF TypeInv, Restart, History, Workers
  <2> QED BY <1>3, <2>1, <2>2 DEF TypeInv, Restart, Rows, Queues, Jobs
<1>4. CASE UNCHANGED vars
  BY <1>4 DEF TypeInv, vars, Workers, Requests, Rows, Queues, Jobs, History
<1> QED BY <1>1, <1>2, <1>3, <1>4, QueueHandlersType, TaskHandlersType, GoroutineType DEF Next

LEMMA TypeInductive == Spec => []TypeInv
  BY InitType, NextType, PTL DEF Spec

\* Type correctness: whatever number of retries is allowed, no row and no copy of
\* a row that a handler or a goroutine goes on with ever exceeds it.
THEOREM TypeCorrect == Spec => []TypeOK
<1>1. TypeInv => TypeOK
  BY DEF TypeInv, TypeOK, Workers, Requests, Rows, Queues, Jobs, History
<1> QED BY <1>1, TypeInductive, PTL

-----------------------------------------------------------------------------
(* No Job runs unseen.  JobIsWatched is inductive with the types.           *)

Watching(w, t) == worker[w].task = t /\ worker[w].pc \in {"created", "monitor", "expired"}

\* A step that activates no Job and takes no watcher from an active one.
LEMMA WatchKept ==
  ASSUME JobIsWatched,
         \A t \in Task : job'[t] = "active" /\ t \notin astray' => job[t] = "active" /\ t \notin astray,
         \A t \in Task, w \in Worker :
           job'[t] = "active" /\ t \notin astray' /\ Watching(w, t) => Watching(w, t)'
  PROVE  JobIsWatched'
  BY DEF JobIsWatched, Watching

\* Starting a goroutine replaces none that watches.
LEMMA SpawnKeepsWatch ==
  ASSUME Workers, NEW u \in Task, NEW copy, Spawn(u, copy), NEW t \in Task, NEW w \in Worker, Watching(w, t)
  PROVE  Watching(w, t)'
<1> DEFINE x == CHOOSE v \in {v \in Worker : worker[v].pc = "unused"} : TRUE
<1>1. x \in Worker /\ worker[x].pc = "unused"
  BY DEF Spawn
<1>2. w # x
  BY <1>1 DEF Watching
<1>3. worker'[w] = worker[w]
  BY <1>1, <1>2 DEF Spawn, Workers
<1> QED BY <1>3 DEF Watching

LEMMA HandlersKeepWatch ==
  ASSUME TypeInv, JobIsWatched, NEW r \in Request, HandlingQueue(r) \/ HandlingTask(r)
  PROVE  JobIsWatched'
<1>1. CASE HandlingQueue(r)
  BY <1>1, WatchKept DEF HandlingQueue, UpdateQueue, SaveQueue, DeleteQueue, DeleteQueueRow, Watching
<1>2. CASE InsertTask(r)
  <2>1. request[r].task \in Task
    BY <1>2 DEF TypeInv, InsertTask, Requests
  <2>2. \A t \in Task, w \in Worker : Watching(w, t) => Watching(w, t)'
    <3>1. CASE row[request[r].task] = NoRow /\ QueueExists(request[r].copy.queue)
      BY <1>2, <2>1, <3>1, SpawnKeepsWatch DEF TypeInv, InsertTask
    <3>2. CASE ~(row[request[r].task] = NoRow /\ QueueExists(request[r].copy.queue))
      BY <1>2, <3>2 DEF InsertTask, Watching
    <3> QED BY <3>1, <3>2
  <2> QED BY <1>2, <2>2, WatchKept DEF InsertTask
<1>3. CASE SaveRetried(r)
  <2>1. request[r].task \in Task
    BY <1>3 DEF TypeInv, SaveRetried, Requests
  <2>2. \A t \in Task, w \in Worker : Watching(w, t) => Watching(w, t)'
    BY <1>3, <2>1, SpawnKeepsWatch DEF TypeInv, SaveRetried
  <2> QED BY <1>3, <2>2, WatchKept DEF SaveRetried
<1>4. CASE CancelJob(r) \/ DeleteTaskJob(r)
  <2>1. \A t \in Task : job'[t] = "active" /\ t \notin astray' => job[t] = "active" /\ t \notin astray
    BY <1>4 DEF TypeInv, Jobs, CancelJob, DeleteTaskJob, DeleteJob
  <2>2. UNCHANGED worker
    BY <1>4 DEF CancelJob, DeleteTaskJob, DeleteJob
  <2> QED BY <2>1, <2>2, WatchKept DEF Watching
<1>5. CASE \/ \E t \in Task, q \in Queue : CreateTask(r, t, q)
           \/ \E t \in Task : CancelTask(r, t) \/ RetryTask(r, t) \/ DeleteTask(r, t)
           \/ SaveCancelled(r)
           \/ DeleteTaskRow(r)
  <2>1. UNCHANGED <<job, worker, astray>>
    BY <1>5 DEF CreateTask, CancelTask, RetryTask, DeleteTask, ReadTask, SaveCancelled, DeleteTaskRow
  <2> QED BY <2>1, WatchKept DEF Watching
<1> QED BY <1>1, <1>2, <1>3, <1>4, <1>5 DEF HandlingTask

LEMMA GoroutineKeepsWatch ==
  ASSUME TypeInv, JobIsWatched, NEW w \in Worker, Progress(w) \/ Failing(w)
  PROVE  JobIsWatched'
<1>0. worker[w].task \in Task
  BY DEF TypeInv, Workers, WorkerType, Progress, Failing, ExecuteTask, JobRefused, CreateJob, SaveRunning,
         PollJob, Timeout, SaveVerdict, CreateJobUnanswered, PollFails, MonitorGivesUp, DeleteExpired, DeleteExpiredFails, At
\* Steps of a goroutine that does not watch.
<1>1. CASE ExecuteTask(w) \/ JobRefused(w) \/ SaveVerdict(w)
  <2>1. worker[w].pc \notin {"created", "monitor", "expired"} /\ UNCHANGED <<job, astray>>
    BY <1>1 DEF ExecuteTask, JobRefused, SaveVerdict, At
  <2>2. \A x \in Worker : x # w => worker'[x] = worker[x]
    BY <1>1 DEF TypeInv, Workers, ExecuteTask, JobRefused, SaveVerdict, SaveAs
  <2> QED BY <2>1, <2>2, WatchKept DEF Watching
<1>2. CASE CreateJob(w)
  <2>1. worker'[w].task = worker[w].task /\ worker'[w].pc = "created"
    BY <1>2 DEF TypeInv, Workers, WorkerType, CreateJob
  <2>2. \A x \in Worker : x # w => worker'[x] = worker[x]
    BY <1>2 DEF TypeInv, Workers, CreateJob
  <2>3. \A t \in Task : t # worker[w].task => job'[t] = job[t]
    BY <1>2 DEF TypeInv, Jobs, CreateJob
  <2>4. worker[w].pc = "queued" /\ astray' = astray
    BY <1>2 DEF CreateJob, At
  <2> QED BY <2>1, <2>2, <2>3, <2>4 DEF JobIsWatched
<1>3. CASE CreateJobUnanswered(w)
  <2>1. \A x \in Worker : x # w => worker'[x] = worker[x]
    BY <1>3 DEF TypeInv, Workers, CreateJobUnanswered, SaveAs
  <2>2. \A t \in Task : t \notin astray' => job'[t] = job[t] /\ t \notin astray
    BY <1>3 DEF TypeInv, Jobs, CreateJobUnanswered
  <2>3. worker[w].pc = "queued"
    BY <1>3 DEF CreateJobUnanswered, At
  <2> QED BY <2>1, <2>2, <2>3, WatchKept DEF Watching
<1>4. CASE SaveRunning(w) \/ Timeout(w)
  <2>1. worker'[w].task = worker[w].task /\ worker'[w].pc \in {"monitor", "expired"}
    BY <1>4 DEF TypeInv, Workers, WorkerType, SaveRunning, Timeout
  <2>2. \A x \in Worker : x # w => worker'[x] = worker[x]
    BY <1>4 DEF TypeInv, Workers, SaveRunning, Timeout
  <2>3. UNCHANGED <<job, astray>>
    BY <1>4 DEF SaveRunning, Timeout
  <2> QED BY <2>1, <2>2, <2>3, WatchKept DEF Watching
\* Steps of a goroutine that stops watching: its Job is not active, or the task is astray.
<1>5. CASE PollJob(w) \/ DeleteExpired(w) \/ PollFails(w) \/ MonitorGivesUp(w) \/ DeleteExpiredFails(w)
  <2>1. job'[worker[w].task] # "active" \/ worker[w].task \in astray'
    BY <1>0, <1>5 DEF TypeInv, Jobs, PollJob, DeleteExpired, TimedOutJob, PollFails, MonitorGivesUp, DeleteExpiredFails
  <2>2. \A x \in Worker : x # w => worker'[x] = worker[x]
    BY <1>5 DEF TypeInv, Workers, PollJob, DeleteExpired, PollFails, MonitorGivesUp, DeleteExpiredFails
  <2>3. \A t \in Task : job'[t] = "active" /\ t \notin astray' => job[t] = "active" /\ t \notin astray
    BY <1>5 DEF TypeInv, Jobs, PollJob, DeleteExpired, TimedOutJob, PollFails, MonitorGivesUp, DeleteExpiredFails
  <2> QED BY <2>1, <2>2, <2>3, WatchKept DEF Watching
<1> QED BY <1>1, <1>2, <1>3, <1>4, <1>5 DEF Progress, Failing

LEMMA NextWatched == TypeInv /\ JobIsWatched /\ [Next]_vars => JobIsWatched'
<1> SUFFICES ASSUME TypeInv, JobIsWatched, [Next]_vars PROVE JobIsWatched'
  OBVIOUS
<1>1. ASSUME NEW q \in Queue, NEW m \in Limits, CreateQueue(q, m) PROVE JobIsWatched'
  BY <1>1, WatchKept DEF CreateQueue, Watching
<1>2. ASSUME NEW t \in Task, NEW s \in {"retrying", "succeeded", "failed"}, JobMoves(t, s) PROVE JobIsWatched'
  <2>1. \A u \in Task : job'[u] = "active" => job[u] = "active"
    BY <1>2 DEF TypeInv, Jobs, JobMoves
  <2> QED BY <1>2, <2>1, WatchKept DEF JobMoves, Watching
<1>3. CASE Restart
  <2>1. \A t \in Task, w \in Worker : Watching(w, t) => t \in astray'
    BY <1>3 DEF Restart, Watching
  <2> QED BY <1>3, <2>1 DEF Restart, JobIsWatched, Watching
<1>4. CASE UNCHANGED vars
  BY <1>4 DEF vars, JobIsWatched
<1> QED BY <1>1, <1>2, <1>3, <1>4, HandlersKeepWatch, GoroutineKeepsWatch DEF Next

\* Whatever cancellations, retries, deletions and timeouts do, an active Job has a
\* goroutine of the server polling it, unless a restart or a failing call lost it.
THEOREM JobsWatched == Spec => []JobIsWatched
<1>1. Init => JobIsWatched
  BY DEF Init, JobIsWatched
<1> QED BY <1>1, NextWatched, TypeInductive, PTL DEF Spec

-----------------------------------------------------------------------------
(* A success that is reported happened.                                    *)

\* What the verdict of a monitor, and what a handler may save, must satisfy.
Honest ==
  /\ SucceededIsTrue
  /\ \A t \in Task : job[t] = "succeeded" => t \in ran
  /\ \A w \in Worker : worker[w].pc = "succeeded" => worker[w].task \in ran
  /\ \A r \in Request :
       request[r].pc \in {"create", "cancel", "cancelled", "retry"} => request[r].copy.status # "succeeded"

\* A handler: the copy it saves is not a success, and it gives no verdict.
LEMMA HonestHandlers ==
  ASSUME TypeInv, Honest, NEW r \in Request, HandlingQueue(r) \/ HandlingTask(r)
  PROVE  Honest'
<1> USE DEF HandlingQueue, HandlingTask
<1>1. UNCHANGED ran
  BY DEF UpdateQueue, SaveQueue, DeleteQueue, DeleteQueueRow, CreateTask, InsertTask, CancelTask, RetryTask,
         DeleteTask, ReadTask, CancelJob, SaveCancelled, SaveRetried, DeleteTaskJob, DeleteJob, DeleteTaskRow
<1>2. \A t \in Task : job'[t] = "succeeded" => job[t] = "succeeded"
  BY DEF TypeInv, Jobs, UpdateQueue, SaveQueue, DeleteQueue, DeleteQueueRow, CreateTask, InsertTask, CancelTask,
         RetryTask, DeleteTask, ReadTask, CancelJob, SaveCancelled, SaveRetried, DeleteTaskJob, DeleteJob, DeleteTaskRow
<1>3. \A w \in Worker : worker'[w].pc = "succeeded" => worker'[w] = worker[w]
  <2>1. ASSUME NEW t \in Task, NEW copy, Spawn(t, copy)
        PROVE  \A w \in Worker : worker'[w].pc = "succeeded" => worker'[w] = worker[w]
    BY <2>1 DEF Spawn, TypeInv, Workers
  <2>2. CASE InsertTask(r) \/ SaveRetried(r)
    <3>1. request[r].task \in Task
      BY <2>2 DEF TypeInv, InsertTask, SaveRetried, Requests
    <3> QED BY <2>1, <2>2, <3>1 DEF InsertTask, SaveRetried
  <2>3. CASE ~(InsertTask(r) \/ SaveRetried(r))
    BY <2>3 DEF UpdateQueue, SaveQueue, DeleteQueue, DeleteQueueRow, CreateTask, CancelTask, RetryTask,
                DeleteTask, ReadTask, CancelJob, SaveCancelled, DeleteTaskJob, DeleteJob, DeleteTaskRow
  <2> QED BY <2>2, <2>3
<1>4. \A t \in Task : row'[t].status = "succeeded" => row[t].status = "succeeded"
  <2>1. CASE InsertTask(r) \/ SaveCancelled(r) \/ SaveRetried(r)
    <3>1. request[r].copy.status # "succeeded"
      BY <2>1 DEF Honest, InsertTask, SaveCancelled, SaveRetried
    <3> QED BY <2>1, <3>1 DEF InsertTask, SaveCancelled, SaveRetried, Save, TypeInv, Rows
  <2>2. CASE DeleteTaskRow(r)
    BY <2>2 DEF DeleteTaskRow, DeletedRow, NoRow, TypeInv, Rows
  <2>3. CASE ~(InsertTask(r) \/ SaveCancelled(r) \/ SaveRetried(r) \/ DeleteTaskRow(r))
    BY <2>3 DEF UpdateQueue, SaveQueue, DeleteQueue, DeleteQueueRow, CreateTask, CancelTask, RetryTask,
                DeleteTask, ReadTask, CancelJob, DeleteTaskJob, DeleteJob
  <2> QED BY <2>1, <2>2, <2>3
<1>5. \A x \in Request : x # r => request'[x] = request[x]
  BY DEF TypeInv, Requests, UpdateQueue, SaveQueue, DeleteQueue, DeleteQueueRow, CreateTask, InsertTask, CancelTask,
         RetryTask, DeleteTask, ReadTask, CancelJob, SaveCancelled, SaveRetried, DeleteTaskJob, DeleteJob, DeleteTaskRow,
         Respond, Proceed
<1>6. request'[r].pc \in {"create", "cancel", "cancelled", "retry"} => request'[r].copy.status # "succeeded"
  <2>1. ASSUME NEW t \in Task, NEW q \in Queue, CreateTask(r, t, q) PROVE request'[r].copy.status # "succeeded"
    BY <2>1 DEF CreateTask, IdleRequest, NewRow, TypeInv, Requests
  <2>2. ASSUME NEW t \in Task, CancelTask(r, t) \/ RetryTask(r, t) PROVE request'[r].copy.status # "succeeded"
    <3>1. row[t] \in RowType
      BY DEF TypeInv, Rows
    <3>2. CASE CancelTask(r, t)
      <4>1. [row[t] EXCEPT !.status = "cancelled"].status = "cancelled"
        BY <3>1 DEF RowType
      <4>2. request'[r].copy = [row[t] EXCEPT !.status = "cancelled"]
        BY <3>2 DEF CancelTask, ReadTask, IdleRequest, TypeInv, Requests
      <4> QED BY <4>1, <4>2
    <3>3. CASE RetryTask(r, t)
      <4>1. [row[t] EXCEPT !.status = "pending", !.retries = @ + 1].status = "pending"
        BY <3>1 DEF RowType
      <4>2. request'[r].copy = [row[t] EXCEPT !.status = "pending", !.retries = @ + 1]
        BY <3>3 DEF RetryTask, ReadTask, IdleRequest, TypeInv, Requests
      <4> QED BY <4>1, <4>2
    <3> QED BY <2>2, <3>2, <3>3
  <2>3. ASSUME NEW t \in Task, DeleteTask(r, t) PROVE request'[r].copy.status # "succeeded"
    BY <2>3 DEF DeleteTask, ReadTask, IdleRequest, NoRow, TypeInv, Requests
  <2>4. CASE CancelJob(r) \/ DeleteTaskJob(r)
    BY <2>4 DEF CancelJob, DeleteTaskJob, DeleteJob, Proceed, Honest, TypeInv, Requests, RequestType
  <2>5. CASE \/ \E q \in Queue, m \in Limits : UpdateQueue(r, q, m)
             \/ \E q \in Queue : DeleteQueue(r, q)
    <3>1. ASSUME NEW q \in Queue, NEW m \in Limits, UpdateQueue(r, q, m) PROVE request'[r].pc = "update queue"
      BY <3>1 DEF UpdateQueue, IdleRequest, TypeInv, Requests
    <3>2. ASSUME NEW q \in Queue, DeleteQueue(r, q) PROVE request'[r].pc = "delete queue"
      BY <3>2 DEF DeleteQueue, IdleRequest, TypeInv, Requests
    <3> QED BY <2>5, <3>1, <3>2
  <2>6. CASE \/ SaveQueue(r) \/ DeleteQueueRow(r) \/ InsertTask(r) \/ SaveCancelled(r)
             \/ SaveRetried(r) \/ DeleteTaskRow(r)
    BY <2>6, Constants DEF SaveQueue, DeleteQueueRow, InsertTask, SaveCancelled, SaveRetried, DeleteTaskRow,
                           Respond, TypeInv, Requests
  <2> QED BY <2>1, <2>2, <2>3, <2>4, <2>5, <2>6
<1> QED BY <1>1, <1>2, <1>3, <1>4, <1>5, <1>6 DEF Honest, SucceededIsTrue

\* A goroutine: a verdict of success comes from a Job that succeeded.
LEMMA HonestGoroutine ==
  ASSUME TypeInv, Honest, NEW w \in Worker, Progress(w) \/ Failing(w)
  PROVE  Honest'
<1> USE DEF Progress, Failing
<1>0. worker[w].task \in Task /\ worker[w].copy \in RowType
  BY DEF TypeInv, Workers, WorkerType, ExecuteTask, JobRefused, CreateJob, SaveRunning,
         PollJob, Timeout, SaveVerdict, CreateJobUnanswered, PollFails, MonitorGivesUp, DeleteExpired, DeleteExpiredFails, At
<1>1. UNCHANGED <<ran, request>>
  BY DEF ExecuteTask, JobRefused, CreateJob, SaveRunning, PollJob, Timeout, SaveVerdict, CreateJobUnanswered,
         PollFails, MonitorGivesUp, DeleteExpired, DeleteExpiredFails
<1>2. \A t \in Task : job'[t] = "succeeded" => job[t] = "succeeded"
  BY DEF TypeInv, Jobs, ExecuteTask, JobRefused, CreateJob, SaveRunning, PollJob, Timeout, TimedOutJob, SaveVerdict,
         CreateJobUnanswered, PollFails, MonitorGivesUp, DeleteExpired, DeleteExpiredFails
<1>3. \A x \in Worker : x # w => worker'[x] = worker[x]
  BY DEF TypeInv, Workers, ExecuteTask, JobRefused, CreateJob, SaveRunning, PollJob, Timeout, SaveVerdict,
         CreateJobUnanswered, PollFails, MonitorGivesUp, DeleteExpired, DeleteExpiredFails, SaveAs
<1>4. worker'[w].pc = "succeeded" => worker'[w].task \in ran
  <2>1. CASE PollJob(w)
    <3>1. worker'[w].task = worker[w].task /\ worker'[w].pc = Verdict(job[worker[w].task])
      BY <2>1 DEF PollJob, TypeInv, Workers, WorkerType
    <3>2. job[worker[w].task] \in {"none", "active", "retrying", "succeeded", "failed"}
      BY <1>0 DEF TypeInv, Jobs
    <3>3. Verdict(job[worker[w].task]) = "succeeded" => job[worker[w].task] = "succeeded"
      BY <3>2 DEF Verdict
    <3> QED BY <1>0, <3>1, <3>3 DEF Honest
  <2>2. CASE CreateJob(w) \/ Timeout(w) \/ PollFails(w) \/ DeleteExpired(w) \/ DeleteExpiredFails(w)
    BY <2>2 DEF CreateJob, Timeout, PollFails, DeleteExpired, DeleteExpiredFails, TypeInv, Workers, WorkerType
  <2>3. CASE ~(PollJob(w) \/ CreateJob(w) \/ Timeout(w) \/ PollFails(w) \/ DeleteExpired(w) \/ DeleteExpiredFails(w))
    BY <2>3, Constants DEF ExecuteTask, JobRefused, SaveRunning, SaveVerdict, CreateJobUnanswered, MonitorGivesUp,
                           SaveAs, TypeInv, Workers
  <2> QED BY <2>1, <2>2, <2>3
<1>5. \A t \in Task : row'[t].status = "succeeded" => t \in ran
  <2>1. ASSUME NEW s, NEW pc, SaveAs(w, s, pc), s = "succeeded" => worker[w].task \in ran
        PROVE  \A t \in Task : row'[t].status = "succeeded" => t \in ran
    <3>1. \A t \in Task : t # worker[w].task => row'[t] = row[t]
      BY <2>1 DEF SaveAs, Save, TypeInv, Rows
    <3>2. row'[worker[w].task].status = s \/ row' = row
      BY <1>0, <2>1 DEF SaveAs, Save, TypeInv, Rows, RowType
    <3> QED BY <2>1, <3>1, <3>2 DEF Honest, SucceededIsTrue
  <2>2. CASE ExecuteTask(w) \/ JobRefused(w) \/ CreateJobUnanswered(w)
    BY <2>1, <2>2 DEF ExecuteTask, JobRefused, CreateJobUnanswered
  <2>3. CASE SaveVerdict(w)
    BY <2>1, <2>3 DEF SaveVerdict, Honest
  <2>4. CASE SaveRunning(w)
    BY <1>0, <2>4 DEF SaveRunning, Save, Honest, SucceededIsTrue, TypeInv, Rows, RowType
  <2>5. CASE \/ CreateJob(w) \/ PollJob(w) \/ Timeout(w) \/ PollFails(w) \/ MonitorGivesUp(w)
             \/ DeleteExpired(w) \/ DeleteExpiredFails(w)
    BY <2>5 DEF CreateJob, PollJob, Timeout, PollFails, MonitorGivesUp, DeleteExpired, DeleteExpiredFails,
                Honest, SucceededIsTrue
  <2> QED BY <2>2, <2>3, <2>4, <2>5
<1> QED BY <1>1, <1>2, <1>3, <1>4, <1>5 DEF Honest, SucceededIsTrue

LEMMA NextHonest == TypeInv /\ Honest /\ [Next]_vars => Honest'
<1> SUFFICES ASSUME TypeInv, Honest, [Next]_vars PROVE Honest'
  OBVIOUS
<1>1. ASSUME NEW q \in Queue, NEW m \in Limits, CreateQueue(q, m) PROVE Honest'
  BY <1>1 DEF CreateQueue, Honest, SucceededIsTrue
<1>2. ASSUME NEW t \in Task, NEW s \in {"retrying", "succeeded", "failed"}, JobMoves(t, s) PROVE Honest'
  BY <1>2 DEF JobMoves, Honest, SucceededIsTrue, TypeInv, Jobs
<1>3. CASE Restart
  BY <1>3, Constants DEF Restart, Honest, SucceededIsTrue
<1>4. CASE UNCHANGED vars
  BY <1>4 DEF vars, Honest, SucceededIsTrue
<1> QED BY <1>1, <1>2, <1>3, <1>4, HonestHandlers, HonestGoroutine DEF Next

\* However the copies of handlers and goroutines are saved over one another, a row
\* says "succeeded" only if a Job of that task succeeded.
THEOREM SuccessesAreTrue == Spec => []SucceededIsTrue
<1>1. Init => Honest
  BY Constants DEF Init, Honest, SucceededIsTrue, NoRow, NoWorker
<1>2. Honest => SucceededIsTrue
  BY DEF Honest
<1> QED BY <1>1, <1>2, NextHonest, TypeInductive, PTL DEF Spec
=============================================================================
