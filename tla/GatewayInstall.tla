--------------------------- MODULE GatewayInstall ---------------------------
(***************************************************************************)
(* The installation of Envoy Gateway in one cluster.  The request inserts  *)
(* a job; any replica may work on it, by the request's goroutine or by the *)
(* scan of StartGatewayInstallWorker, and takes it over when the lease of  *)
(* a worker that died has run out.                                         *)
(*                                                                         *)
(* Time is counted in ticks.  The lease begins with the time read before   *)
(* the claim, the worker's own limit with the claim; the code leaves 15    *)
(* of the lease's 180 seconds for what lies between, and for the writes    *)
(* that end the job.  A live process is assumed to keep to that: a tick    *)
(* waits for it.                                                           *)
(***************************************************************************)
EXTENDS Integers, FiniteSets

CONSTANTS Worker,      \* goroutines, on any replica
          LeaseTicks,  \* gatewayJobLease, 180 s
          LimitTicks,  \* the limit of the execution, 165 s
          Slack,       \* what is left of the lease beyond the limit, 15 s
          MaxFaults    \* bound on the workers that die

ASSUME GatewayAssumption ==
  /\ LeaseTicks \in Nat /\ LimitTicks \in Nat /\ Slack \in Nat /\ MaxFaults \in Nat
  /\ LimitTicks + Slack <= LeaseTicks

VARIABLES
  status,     \* of the job, "none" without a row
  lease,      \* ticks until lease_until, at least -Slack - 1
  namespace,  \* envoy-gateway-system: "absent", "ours" (by annotation), "theirs"
  worker,     \* per goroutine: its place, resuming, the ticks its claim and its last
              \* write have taken, those left of its limit, the status it will write
  faults

gatewayVars == <<status, lease, namespace, worker, faults>>

Idle == [pc |-> "idle", resuming |-> FALSE, age |-> 0, left |-> 0, result |-> ""]
Settled == {"failed", "pending_controller", "ready"}

\* A worker is applying from the moment it has the namespace until kubectl ends.
Applying(w) == worker[w].pc = "apply"

GatewayInit ==
  /\ status = "none"
  /\ lease = 0
  /\ namespace \in {"absent", "theirs"}
  /\ worker = [w \in Worker |-> Idle]
  /\ faults = 0

\* The goroutine a request or a scan starts.
Start(w) == worker[w].pc = "idle" /\ worker' = [worker EXCEPT ![w].pc = "read"]

\* buildGatewayAPIInstallPlan: versions, manifest and CRDs may refuse; an existing
\* namespace always does.
Installable == namespace = "absent"

\* A new row, or the row of a failed job queued again; the unique index and the
\* condition of the update refuse any other.
InstallGatewayAPI(w) ==
  /\ Installable
  /\ status \in {"none", "failed"}
  /\ status' = "pending"
  /\ Start(w)
  /\ UNCHANGED <<lease, namespace, faults>>

\* Mutant: only jobs never claimed are looked for.
DuePending(now) == status = "pending"
Due(now) == status = "pending" \/ (status = "running" /\ lease < now)

StartGatewayInstallWorker(w) ==
  /\ Due(0)
  /\ Start(w)
  /\ UNCHANGED <<status, lease, namespace, faults>>

\* runGatewayInstallJob reads the row, and the clock.
ReadJob(w) ==
  /\ worker[w].pc = "read"
  /\ worker' = [worker EXCEPT ![w].pc = "claim", ![w].resuming = (status = "running"),
                              ![w].age = 0]
  /\ UNCHANGED <<status, lease, namespace, faults>>

\* The conditional update.  Its clock reading is age ticks old.
\* Mutant: a running job is claimed whatever its lease.
ClaimableRunning(w) == status \in {"pending", "running"}
Claimable(w) == status = "pending" \/ (status = "running" /\ lease < -worker[w].age)

Claim(w) ==
  /\ worker[w].pc = "claim"
  /\ IF Claimable(w)
       THEN /\ status' = "running"
            /\ lease' = LeaseTicks - worker[w].age
            /\ worker' = [worker EXCEPT ![w].pc = "check", ![w].left = LimitTicks]
       ELSE /\ worker' = [worker EXCEPT ![w] = Idle]
            /\ UNCHANGED <<status, lease>>
  /\ UNCHANGED <<namespace, faults>>

\* The end of the job is decided; the row is written by a later step.
EndWith(w, result) ==
  worker' = [worker EXCEPT ![w].pc = "finish", ![w].result = result]

\* Between the claim and the manifest: the client, the production policy (twice),
\* the plan unless the job is resumed, the manifest and its file may fail it.
Abort(w) ==
  /\ worker[w].pc \in {"check", "ready"}
  /\ EndWith(w, "failed")
  /\ UNCHANGED <<status, lease, namespace, faults>>

\* The preflight and, on the same answer of the API server or a later one, the
\* namespace: created, taken over when resuming, or refused.
ClaimNamespace(w) ==
  /\ worker[w].pc = "check" /\ worker[w].left > 0
  /\ \/ /\ namespace = "absent"
        /\ namespace' = "ours"
        /\ worker' = [worker EXCEPT ![w].pc = "ready"]
     \/ /\ namespace = "ours" /\ worker[w].resuming
        /\ worker' = [worker EXCEPT ![w].pc = "ready"]
        /\ UNCHANGED namespace
     \/ /\ namespace # "absent" /\ ~(namespace = "ours" /\ worker[w].resuming)
        /\ EndWith(w, "failed")
        /\ UNCHANGED namespace
  /\ UNCHANGED <<status, lease, faults>>

\* runGatewayInstall: kubectl apply, killed when the limit is reached, then the
\* wait for the controller.
BeginApply(w) ==
  /\ worker[w].pc = "ready" /\ worker[w].left > 0
  /\ worker' = [worker EXCEPT ![w].pc = "apply"]
  /\ UNCHANGED <<status, lease, namespace, faults>>

EndApply(w) ==
  /\ Applying(w)
  /\ \/ EndWith(w, "failed")
     \/ worker[w].left > 0 /\ worker' = [worker EXCEPT ![w].pc = "wait"]
  /\ UNCHANGED <<status, lease, namespace, faults>>

waitGatewayController(w) ==
  /\ worker[w].pc = "wait"
  /\ \E result \in {"ready", "pending_controller"} :
       /\ result = "ready" => worker[w].left > 0
       /\ EndWith(w, result)
  /\ UNCHANGED <<status, lease, namespace, faults>>

\* finish writes any running job, its own or not.
finish(w) ==
  /\ worker[w].pc = "finish"
  /\ IF status = "running" THEN status' = worker[w].result /\ lease' = 0
                           ELSE UNCHANGED <<status, lease>>
  /\ worker' = [worker EXCEPT ![w] = Idle]
  /\ UNCHANGED <<namespace, faults>>

\* A look at the job after the controller has come up.
GetGatewayInstallJob ==
  /\ status = "pending_controller"
  /\ status' = "ready"
  /\ UNCHANGED <<lease, namespace, worker, faults>>

\* Someone else creates or removes the namespace.
OtherInstaller ==
  /\ namespace' \in {"absent", "theirs"} \ {namespace}
  /\ UNCHANGED <<status, lease, worker, faults>>

\* The process of a worker ends, and kubectl with it.
WorkerDies(w) ==
  /\ worker[w].pc # "idle"
  /\ faults < MaxFaults
  /\ faults' = faults + 1
  /\ worker' = [worker EXCEPT ![w] = Idle]
  /\ UNCHANGED <<status, lease, namespace>>

\* A tick waits for claims and finishes under way, and for a worker at its limit.
Prompt(w) == CASE worker[w].pc \in {"claim", "finish"} -> worker[w].age < Slack
               [] worker[w].pc \in {"check", "ready", "apply", "wait"} -> worker[w].left > 0
               [] OTHER -> TRUE
Tick ==
  /\ \A w \in Worker : Prompt(w)
  /\ lease' = IF lease > -Slack - 1 THEN lease - 1 ELSE lease
  /\ worker' = [w \in Worker |->
       CASE worker[w].pc \in {"claim", "finish"} -> [worker[w] EXCEPT !.age = @ + 1]
         [] worker[w].pc \in {"check", "ready", "apply", "wait"} -> [worker[w] EXCEPT !.left = @ - 1]
         [] OTHER -> worker[w]]
  /\ UNCHANGED <<status, namespace, faults>>

WorkerStep(w) ==
  \/ ReadJob(w) \/ Claim(w) \/ Abort(w) \/ ClaimNamespace(w) \/ BeginApply(w)
  \/ EndApply(w) \/ waitGatewayController(w) \/ finish(w)

GatewayNext ==
  \/ \E w \in Worker : \/ InstallGatewayAPI(w) \/ StartGatewayInstallWorker(w)
                       \/ WorkerStep(w) \/ WorkerDies(w)
  \/ GetGatewayInstallJob \/ OtherInstaller \/ Tick

-----------------------------------------------------------------------------
\* No two workers apply the manifests at once, though one may be taken for dead and
\* replaced: the claim is conditional, and a worker's limit ends before its lease.
OneApplier == \A v, w \in Worker : Applying(v) /\ Applying(w) => v = w

\* A job that was queued ends, whatever worker dies over it.
InstallSettles == status \in {"pending", "running"} ~> status \in Settled
=============================================================================
