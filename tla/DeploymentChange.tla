-------------------------- MODULE DeploymentChange --------------------------
(***************************************************************************)
(* Execution of one confirmed production change of a Deployment:           *)
(* executeApprovedDeployment, then the observation of the rollout, its     *)
(* automatic rollback and the verification of the rollback, against an API *)
(* server that other clients use at the same time and whose answers get    *)
(* lost.  A request whose answer was lost may have been refused, applied,  *)
(* or may still be on its way and arrive at any later moment.              *)
(***************************************************************************)
EXTENDS Naturals

CONSTANTS BaseSpec,   \* the spec the change was previewed against
          NewSpec,    \* the spec the change asks for
          EditSpec,   \* specs other clients write, the approved one too perhaps
          MaxRev      \* bound on the server's revision for steps of others

ASSUME SpecsAssumption ==
  /\ BaseSpec # NewSpec
  /\ MaxRev \in Nat

VARIABLES
  kind,      \* "create" or "update" (scale_deployment, update_deployment)
  rev,       \* the API server's revision
  obj,       \* the Deployment
  inflight,  \* writes sent whose answer was lost and that may still arrive
  pc,        \* where the executor is
  attempt,   \* of the write loop
  before,    \* the copy read before the write
  after,     \* uid and generation the executor believes it produced
  seen,      \* the copy read before the rollback
  rollbackGeneration,
  outcome,   \* the status AgentConfirmAction derives
  applied,   \* history: how often a write of the executor put the new spec in place
  foreign,   \* history: the Deployment's spec was written by another client
  twin,      \* history: another client made the approved change itself
  clobbered  \* history: a write of the executor replaced another client's spec

server == <<rev, obj>>
locals == <<kind, attempt, before, after, seen, rollbackGeneration>>
history == <<applied, foreign, twin, clobbered>>
vars == <<server, locals, inflight, pc, outcome, history>>

Specs == {BaseSpec, NewSpec} \cup EditSpec

Absent == [exists |-> FALSE, uid |-> 0, generation |-> 0, rv |-> 0,
           spec |-> BaseSpec, ready |-> FALSE]

\* The object the preview saw: resource_uid = 1, base_generation = 1.
BaseUID == 1
BaseGeneration == 1
Previewed == [exists |-> TRUE, uid |-> BaseUID, generation |-> BaseGeneration, rv |-> 1,
              spec |-> BaseSpec, ready |-> TRUE]

Init ==
  /\ kind \in {"create", "update"}
  /\ rev = 1
  /\ obj = IF kind = "create" THEN Absent ELSE Previewed
  /\ inflight = {}
  /\ pc = "read"
  /\ attempt = 0
  /\ before = Absent
  /\ after = [uid |-> 0, generation |-> 0]
  /\ seen = Absent
  /\ rollbackGeneration = 0
  /\ outcome = "executing"
  /\ applied = 0
  /\ foreign = FALSE /\ twin = FALSE /\ clobbered = FALSE

-----------------------------------------------------------------------------
(* The API server (external): what it does with a write.                   *)

Created(spec) == [exists |-> TRUE, uid |-> rev + 1, generation |-> 1, rv |-> rev + 1,
                  spec |-> spec, ready |-> FALSE]

\* Updating the spec moves generation and resourceVersion; an update that
\* changes nothing moves neither.
Updated(spec) ==
  IF spec = obj.spec THEN obj
  ELSE [obj EXCEPT !.generation = @ + 1, !.rv = rev + 1, !.spec = spec, !.ready = FALSE]

\* A write: what it does, and the resourceVersion (and uid) it insists on.
Write == [op : {"create", "update", "delete"}, uid : Nat, rv : Nat, spec : Specs]

\* Optimistic concurrency control and the delete preconditions.
Accepts(w) ==
  CASE w.op = "create" -> ~obj.exists
    [] w.op = "update" -> obj.exists /\ obj.rv = w.rv
    [] w.op = "delete" -> obj.exists /\ obj.rv = w.rv /\ obj.uid = w.uid

Result(w) ==
  CASE w.op = "create" -> Created(w.spec)
    [] w.op = "update" -> Updated(w.spec)
    [] w.op = "delete" -> Absent

\* The approved change as another client may have made it: the new spec as the
\* generation that follows the previewed one.  Nothing in the object tells it
\* from the executor's own write.
IsTwin(o) == o.uid = BaseUID /\ o.generation = BaseGeneration + 1 /\ o.spec = NewSpec

\* The server processes w; the history variables note what happened.
Process(w) ==
  IF Accepts(w)
  THEN /\ obj' = Result(w)
       /\ rev' = rev + 1
       /\ applied' = IF w.op # "delete" /\ w.spec = NewSpec /\ Result(w) # obj
                     THEN applied + 1 ELSE applied
       /\ foreign' = (foreign /\ Result(w) = obj)
       /\ clobbered' = (clobbered \/ (obj.exists /\ foreign /\ ~IsTwin(obj)))
       /\ UNCHANGED twin
  ELSE UNCHANGED <<server, history>>

\* A write whose answer was lost reaches the server after all.
LateArrival(w) ==
  /\ w \in inflight
  /\ Process(w)
  /\ inflight' = inflight \ {w}
  /\ UNCHANGED <<locals, pc, outcome>>

\* Rollout progress, and edits that leave the spec alone.
StatusChange(b) ==
  /\ obj.exists /\ rev < MaxRev
  /\ rev' = rev + 1
  /\ obj' = [obj EXCEPT !.rv = rev + 1, !.ready = b]
  /\ UNCHANGED <<locals, inflight, pc, outcome, history>>

\* Another client creates, edits or deletes the Deployment.
OtherClient(new) ==
  /\ rev < MaxRev
  /\ new # obj
  /\ rev' = rev + 1
  /\ obj' = new
  /\ foreign' = TRUE
  /\ twin' = (twin \/ IsTwin(new))
  /\ UNCHANGED <<locals, inflight, pc, outcome, applied, clobbered>>

OtherClientStep ==
  \/ obj.exists /\ OtherClient(Absent)
  \/ \E spec \in EditSpec : OtherClient(IF obj.exists THEN Updated(spec) ELSE Created(spec))

-----------------------------------------------------------------------------
(* executeApprovedDeployment.                                              *)

Finish(status) == pc' = "done" /\ outcome' = status

\* Get, and the comparison with what was previewed and approved.
MatchesPreview(o) == o.uid = BaseUID /\ o.generation = BaseGeneration

ReadBefore ==
  /\ pc = "read"
  /\ \/ /\ IF kind = "create" THEN ~obj.exists ELSE obj.exists /\ MatchesPreview(obj)
        /\ before' = obj
        /\ pc' = "write"
        /\ UNCHANGED outcome
     \/ /\ Finish("failed")          \* changed since the preview, or Get failed
        /\ UNCHANGED before
  /\ UNCHANGED <<server, kind, attempt, after, seen, rollbackGeneration, inflight, history>>

\* Every attempt sends the object read before, with its resourceVersion.
ChangeWriteRefreshed ==
  [op |-> kind, uid |-> obj.uid, rv |-> obj.rv, spec |-> NewSpec]
ChangeWrite ==
  [op |-> kind, uid |-> before.uid, rv |-> before.rv, spec |-> NewSpec]

\* The answer arrives: success, or a conflict that is not retried.
WriteAnswered ==
  /\ pc = "write"
  /\ Process(ChangeWrite)
  /\ IF Accepts(ChangeWrite)
     THEN /\ after' = [uid |-> obj'.uid, generation |-> obj'.generation]
          /\ pc' = "observe" /\ UNCHANGED outcome
     ELSE Finish("failed") /\ UNCHANGED after
  /\ UNCHANGED <<kind, attempt, before, seen, rollbackGeneration, inflight>>

\* The answer is lost: applied or refused by now, or still on its way.
WriteUnanswered ==
  /\ pc = "write"
  /\ \/ Process(ChangeWrite) /\ UNCHANGED inflight
     \/ inflight' = inflight \cup {ChangeWrite} /\ UNCHANGED <<server, history>>
  /\ pc' = "check"
  /\ UNCHANGED <<locals, outcome>>

\* The server refuses it for another reason (validation, permissions).
WriteRejected ==
  /\ pc = "write"
  /\ Finish("failed")
  /\ UNCHANGED <<server, locals, inflight, history>>

\* current is what the failed write would have produced: by the executor's own
\* late write, or by another client's identical edit.
TookEffectIfTouched == obj.exists /\ obj.uid = before.uid /\ obj.rv # before.rv
TookEffect == /\ obj.exists /\ obj.uid = before.uid
              /\ obj.generation = before.generation + 1 /\ obj.spec = NewSpec

\* At most three attempts are made.
MayRetryAlways == TRUE
MayRetry == attempt < 2

\* current is provably what it was before the write.
ProvablyUntouched == IF kind = "create" THEN ~obj.exists
                     ELSE obj.exists /\ obj.uid = before.uid /\ obj.rv = before.rv

\* The Get after an attempt whose answer was lost.
CheckFailedWrite ==
  /\ pc = "check"
  /\ \/ /\ kind = "update" /\ TookEffect
        /\ after' = [uid |-> obj.uid, generation |-> obj.generation]
        /\ pc' = "observe"
        /\ UNCHANGED <<attempt, outcome>>
     \/ /\ ProvablyUntouched /\ MayRetry
        /\ attempt' = attempt + 1
        /\ pc' = "write"
        /\ UNCHANGED <<after, outcome>>
     \/ /\ Finish("failed")          \* uncertain, changed, out of attempts or of time
        /\ UNCHANGED <<attempt, after>>
  /\ UNCHANGED <<server, kind, before, seen, rollbackGeneration, inflight, history>>

-----------------------------------------------------------------------------
(* Observation, rollback and its verification.                             *)

IsOurs == obj.exists /\ obj.uid = after.uid /\ obj.generation = after.generation

ObserveReady ==
  /\ pc = "observe"
  /\ IsOurs /\ obj.ready
  /\ Finish("executed")
  /\ UNCHANGED <<server, locals, inflight, history>>

\* Changed by others, progress deadline, failed Get, or 60 seconds are over.
ObservationEndsOnChange == ~IsOurs
ObservationEnds == TRUE

ObserveGiveUp ==
  /\ pc = "observe"
  /\ ObservationEnds
  /\ pc' = "rollback_read"
  /\ UNCHANGED <<server, locals, inflight, outcome, history>>

\* The rollback only starts from the very generation the change produced.
MayRollBackAnything == obj.exists
MayRollBack == IsOurs

RollbackRead ==
  /\ pc = "rollback_read"
  /\ \/ MayRollBack /\ seen' = obj /\ pc' = "rollback" /\ UNCHANGED outcome
     \/ Finish("failed") /\ UNCHANGED seen     \* manual rollback required
  /\ UNCHANGED <<server, kind, attempt, before, after, rollbackGeneration, inflight, history>>

RollbackWriteAsFound ==
  [op |-> IF kind = "create" THEN "delete" ELSE "update", uid |-> seen.uid, rv |-> seen.rv,
   spec |-> seen.spec]
RollbackWrite ==
  IF kind = "create"
  THEN [op |-> "delete", uid |-> after.uid, rv |-> seen.rv, spec |-> BaseSpec]
  ELSE [op |-> "update", uid |-> seen.uid, rv |-> seen.rv, spec |-> before.spec]

RollbackAnswered ==
  /\ pc = "rollback"
  /\ Process(RollbackWrite)
  /\ IF Accepts(RollbackWrite)
     THEN /\ rollbackGeneration' = IF kind = "create" THEN 0 ELSE obj'.generation
          /\ pc' = "verify" /\ UNCHANGED outcome
     ELSE Finish("failed") /\ UNCHANGED rollbackGeneration
  /\ UNCHANGED <<kind, attempt, before, after, seen, inflight>>

\* "automatic rollback failed", whatever became of the request.
RollbackUnanswered ==
  /\ pc = "rollback"
  /\ \/ Process(RollbackWrite) /\ UNCHANGED inflight
     \/ inflight' = inflight \cup {RollbackWrite} /\ UNCHANGED <<server, history>>
     \/ UNCHANGED <<server, inflight, history>>
  /\ Finish("failed")
  /\ UNCHANGED locals

Verified == IF kind = "create" THEN ~obj.exists
            ELSE /\ obj.exists /\ obj.uid = after.uid
                 /\ obj.generation = rollbackGeneration /\ obj.ready

\* Verified, or left to a person: changed by others, or 45 seconds are over.
VerifyRollback ==
  /\ pc = "verify"
  /\ \/ Verified /\ Finish("rolled_back")
     \/ Finish("rollback_pending")
  /\ UNCHANGED <<server, locals, inflight, history>>

-----------------------------------------------------------------------------
Executor ==
  \/ ReadBefore
  \/ WriteAnswered
  \/ WriteUnanswered
  \/ WriteRejected
  \/ CheckFailedWrite
  \/ ObserveReady
  \/ ObserveGiveUp
  \/ RollbackRead
  \/ RollbackAnswered
  \/ RollbackUnanswered
  \/ VerifyRollback

Next ==
  \/ Executor
  \/ \E w \in inflight : LateArrival(w)
  \/ \E b \in BOOLEAN : StatusChange(b)
  \/ OtherClientStep

Spec == Init /\ [][Next]_vars

\* The executor runs detached from the HTTP request under a 3 minute deadline,
\* and every wait in it has its own timeout.
FairSpec == Spec /\ WF_vars(Executor)

-----------------------------------------------------------------------------
(* Properties.                                                             *)

ObjType == [exists : BOOLEAN, uid : Nat, generation : Nat, rv : Nat, spec : Specs, ready : BOOLEAN]

\* Type correctness of the executor's state and of the Deployment.
TypeOK ==
  /\ kind \in {"create", "update"}
  /\ rev \in Nat
  /\ obj \in ObjType
  /\ inflight \in SUBSET Write
  /\ pc \in {"read", "write", "check", "observe", "rollback_read", "rollback", "verify", "done"}
  /\ attempt \in 0 .. 2
  /\ before \in ObjType
  /\ after \in [uid : Nat, generation : Nat]
  /\ seen \in ObjType
  /\ rollbackGeneration \in Nat
  /\ outcome \in {"executing", "executed", "failed", "rolled_back", "rollback_pending"}
  /\ applied \in Nat
  /\ foreign \in BOOLEAN /\ twin \in BOOLEAN /\ clobbered \in BOOLEAN

\* executeApprovedDeployment: however many attempts are made, answers lost and
\* requests delayed, an approved update takes effect at most once, and not at all
\* when another client has made the very same change first.
AppliedAtMostOnce == kind = "update" => applied <= 1 /\ (twin => applied = 0)

\* Neither the change, nor a late attempt of it, nor the automatic rollback ever
\* replaces a spec that another client has written since the preview.  The one
\* exception is the approved change itself made by another client: the executor
\* takes it for its own and may roll it back.
NoEditClobbered == ~clobbered

\* "executed" is reported only for a change that was made: by a write of the
\* executor, or by another client that stored the approved spec as the very next
\* generation.  An ambiguous answer is never taken for success because the
\* Deployment has merely moved or was edited in some other way.
ExecutedMeansApplied == outcome = "executed" => applied >= 1 \/ twin

\* A rollback reported as verified really put the old spec back, and no late
\* attempt of the change brings the new spec back: if the Deployment has it
\* later, another client wrote it.
RolledBackStays ==
  kind = "update" /\ outcome = "rolled_back" => (obj.exists /\ obj.spec = NewSpec => foreign)

\* Every execution ends with an outcome to record.
ExecutionEnds == <>(pc = "done")
=============================================================================
