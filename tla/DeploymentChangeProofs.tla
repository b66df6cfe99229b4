----------------------- MODULE DeploymentChangeProofs -----------------------
(***************************************************************************)
(* Proofs about DeploymentChange for every number of edits by others and   *)
(* every delay of a lost request.  The argument is optimistic concurrency  *)
(* control: resourceVersion and uid are never reused, so a write that      *)
(* insists on a version it has read meets the very object that was read.   *)
(***************************************************************************)
EXTENDS DeploymentChange, TLAPS

-----------------------------------------------------------------------------
(* Type correctness.                                                       *)

LEMMA AbsentType == Absent \in ObjType
  BY DEF Absent, ObjType, Specs

LEMMA ObjUpdates ==
  ASSUME NEW x \in ObjType, NEW g \in Nat, NEW n \in Nat, NEW spec \in Specs, NEW b \in BOOLEAN
  PROVE  /\ [x EXCEPT !.generation = g, !.rv = n, !.spec = spec, !.ready = b] \in ObjType
         /\ [x EXCEPT !.rv = n, !.ready = b] \in ObjType
  BY DEF ObjType

LEMMA ServerType ==
  ASSUME rev \in Nat, obj \in ObjType, NEW spec \in Specs
  PROVE  Created(spec) \in ObjType /\ Updated(spec) \in ObjType
<1>1. Created(spec) \in ObjType
  BY DEF Created, ObjType
<1>2. Updated(spec) \in ObjType
  <2>1. obj.generation + 1 \in Nat /\ rev + 1 \in Nat
    BY DEF ObjType
  <2> QED BY <2>1, ObjUpdates DEF Updated
<1> QED BY <1>1, <1>2

LEMMA ProcessType ==
  ASSUME TypeOK, NEW w \in Write, Process(w)
  PROVE  /\ rev' \in Nat /\ obj' \in ObjType /\ applied' \in Nat
         /\ foreign' \in BOOLEAN /\ twin' \in BOOLEAN /\ clobbered' \in BOOLEAN
<1>1. w.spec \in Specs /\ w.op \in {"create", "update", "delete"}
  BY DEF Write
<1>2. Result(w) \in ObjType
  BY <1>1, ServerType, AbsentType DEF TypeOK, Result
<1>3. CASE Accepts(w)
  BY <1>2, <1>3 DEF Process, TypeOK
<1>4. CASE ~Accepts(w)
  BY <1>4 DEF Process, TypeOK, server, history
<1> QED BY <1>3, <1>4

LEMMA WritesType == TypeOK => ChangeWrite \in Write /\ RollbackWrite \in Write
  BY DEF TypeOK, ChangeWrite, RollbackWrite, Write, ObjType, Specs

LEMMA TypeInit == Init => TypeOK
<1>1. Previewed \in ObjType
  BY DEF Previewed, ObjType, BaseUID, BaseGeneration, Specs
<1>2. Init => obj \in ObjType
  BY <1>1, AbsentType DEF Init
<1>3. [uid |-> 0, generation |-> 0] \in [uid : Nat, generation : Nat]
  OBVIOUS
<1> SUFFICES ASSUME Init PROVE TypeOK
  OBVIOUS
<1>4. kind \in {"create", "update"} /\ rev \in Nat /\ inflight \in SUBSET Write
  BY DEF Init
<1>5. before \in ObjType /\ seen \in ObjType /\ after \in [uid : Nat, generation : Nat]
  BY <1>3, AbsentType DEF Init
<1>6. /\ pc = "read" /\ attempt \in 0 .. 2 /\ rollbackGeneration \in Nat /\ applied \in Nat
      /\ outcome = "executing"
  BY DEF Init
<1>7. foreign \in BOOLEAN /\ twin \in BOOLEAN /\ clobbered \in BOOLEAN
  BY DEF Init
<1> QED BY <1>2, <1>4, <1>5, <1>6, <1>7 DEF TypeOK

LEMMA TypeNext == TypeOK /\ [Next]_vars => TypeOK'
<1> SUFFICES ASSUME TypeOK, [Next]_vars PROVE TypeOK'
  OBVIOUS
<1> USE DEF Finish, locals, history
<1>1. ASSUME NEW w \in inflight, LateArrival(w) PROVE TypeOK'
  BY <1>1, ProcessType DEF LateArrival, TypeOK
<1>2. ASSUME NEW b \in BOOLEAN, StatusChange(b) PROVE TypeOK'
  <2>1. obj' \in ObjType /\ rev' \in Nat
    <3>1. rev + 1 \in Nat /\ obj.spec \in Specs /\ obj.generation \in Nat
      BY DEF TypeOK, ObjType
    <3> QED BY <1>2, <3>1, ObjUpdates DEF StatusChange, TypeOK
  <2> QED BY <1>2, <2>1 DEF StatusChange, TypeOK
<1>3. ASSUME OtherClientStep PROVE TypeOK'
  <2>1. obj' \in ObjType /\ rev' \in Nat
    BY <1>3, ServerType, AbsentType DEF OtherClientStep, OtherClient, TypeOK, Specs
  <2>2. foreign' \in BOOLEAN /\ twin' \in BOOLEAN
    BY <1>3 DEF OtherClientStep, OtherClient, TypeOK
  <2> QED BY <1>3, <2>1, <2>2 DEF OtherClientStep, OtherClient, TypeOK
<1>4. CASE ReadBefore
  BY <1>4 DEF ReadBefore, TypeOK, server
<1>5. CASE WriteAnswered
  <2>1. /\ rev' \in Nat /\ obj' \in ObjType /\ applied' \in Nat
        /\ foreign' \in BOOLEAN /\ twin' \in BOOLEAN /\ clobbered' \in BOOLEAN
    BY <1>5, ProcessType, WritesType DEF WriteAnswered
  <2>2. obj'.uid \in Nat /\ obj'.generation \in Nat
    BY <2>1 DEF ObjType
  <2> QED BY <1>5, <2>1, <2>2 DEF WriteAnswered, TypeOK
<1>6. CASE WriteUnanswered
  BY <1>6, ProcessType, WritesType DEF WriteUnanswered, TypeOK, server
<1>7. CASE WriteRejected
  BY <1>7 DEF WriteRejected, TypeOK, server
<1>8. CASE CheckFailedWrite
  <2>1. obj.uid \in Nat /\ obj.generation \in Nat
    BY DEF TypeOK, ObjType
  <2> QED BY <1>8, <2>1 DEF CheckFailedWrite, MayRetry, TypeOK, server
<1>9. CASE ObserveReady \/ ObserveGiveUp \/ VerifyRollback
  BY <1>9 DEF ObserveReady, ObserveGiveUp, VerifyRollback, TypeOK, server
<1>10. CASE RollbackRead
  BY <1>10 DEF RollbackRead, TypeOK, server
<1>11. CASE RollbackAnswered
  <2>1. /\ rev' \in Nat /\ obj' \in ObjType /\ applied' \in Nat
        /\ foreign' \in BOOLEAN /\ twin' \in BOOLEAN /\ clobbered' \in BOOLEAN
    BY <1>11, ProcessType, WritesType DEF RollbackAnswered
  <2>2. obj'.generation \in Nat
    BY <2>1 DEF ObjType
  <2> QED BY <1>11, <2>1, <2>2 DEF RollbackAnswered, TypeOK
<1>12. CASE RollbackUnanswered
  BY <1>12, ProcessType, WritesType DEF RollbackUnanswered, TypeOK, server
<1>13. CASE UNCHANGED vars
  BY <1>13 DEF vars, server, TypeOK
<1> QED BY <1>1, <1>2, <1>3, <1>4, <1>5, <1>6, <1>7, <1>8, <1>9, <1>10, <1>11, <1>12, <1>13
        DEF Next, Executor

\* The executor's state and the Deployment keep their types; the write is
\* attempted at most three times.
THEOREM TypeCorrect == Spec => []TypeOK
  BY TypeInit, TypeNext, PTL DEF Spec

-----------------------------------------------------------------------------
(* What the API server guarantees: a version or a uid is never reused, and *)
(* the generation counts the specs of one object.                          *)

Evolves ==
  /\ rev' \in Nat /\ rev' >= rev
  /\ \/ obj' = obj /\ foreign' = foreign
     \/ /\ rev' = rev + 1
        /\ \/ obj' = Absent
           \/ /\ obj'.exists /\ obj'.rv = rev'
              /\ \/ obj'.uid = rev' /\ obj'.generation = 1
                 \/ /\ obj.exists /\ obj'.uid = obj.uid
                    /\ \/ obj'.generation = obj.generation + 1
                       \/ /\ obj'.generation = obj.generation /\ obj'.spec = obj.spec
                          /\ foreign' = foreign

LEMMA UpdatedEvolves ==
  ASSUME TypeOK, NEW spec \in Specs, obj.exists, obj' = Updated(spec), rev' = rev + 1,
         obj' = obj => foreign' = foreign
  PROVE  Evolves
  BY DEF TypeOK, ObjType, Updated, Evolves

LEMMA CreatedEvolves ==
  ASSUME TypeOK, NEW spec \in Specs, obj' = Created(spec), rev' = rev + 1
  PROVE  Evolves
  BY DEF TypeOK, Created, Evolves

LEMMA ProcessEvolves ==
  ASSUME TypeOK, NEW w \in Write, Process(w)
  PROVE  Evolves
<1>1. w.spec \in Specs /\ w.op \in {"create", "update", "delete"}
  BY DEF Write
<1>0. Accepts(w) /\ obj' = obj => foreign' = foreign
  BY DEF Process, TypeOK
<1>2. CASE ~Accepts(w)
  BY <1>2 DEF Process, server, history, Evolves, TypeOK
<1>3. CASE Accepts(w) /\ w.op = "create"
  BY <1>1, <1>3, CreatedEvolves DEF Process, Result
<1>4. CASE Accepts(w) /\ w.op = "update"
  BY <1>0, <1>1, <1>4, UpdatedEvolves DEF Process, Result, Accepts
<1>5. CASE Accepts(w) /\ w.op = "delete"
  BY <1>5 DEF Process, Result, Evolves, TypeOK
<1> QED BY <1>1, <1>2, <1>3, <1>4, <1>5

\* Every step of the system treats the server that way.
LEMMA NextEvolves ==
  ASSUME TypeOK, [Next]_vars
  PROVE  Evolves
<1>1. ASSUME NEW w \in inflight, LateArrival(w) PROVE Evolves
  BY <1>1, ProcessEvolves DEF LateArrival, TypeOK
<1>2. ASSUME NEW b \in BOOLEAN, StatusChange(b) PROVE Evolves
  BY <1>2 DEF StatusChange, Evolves, TypeOK, ObjType, history
<1>3. ASSUME OtherClientStep PROVE Evolves
  <2>1. CASE obj.exists /\ OtherClient(Absent)
    BY <2>1 DEF OtherClient, Evolves, TypeOK
  <2>2. ASSUME NEW spec \in EditSpec, OtherClient(IF obj.exists THEN Updated(spec) ELSE Created(spec))
        PROVE  Evolves
    BY <2>2, UpdatedEvolves, CreatedEvolves DEF OtherClient, Specs, TypeOK
  <2> QED BY <1>3, <2>1, <2>2 DEF OtherClientStep
<1>4. ASSUME NEW w \in Write, Process(w) PROVE Evolves
  BY <1>4, ProcessEvolves
<1>5. CASE UNCHANGED <<server, history>>
  BY <1>5 DEF server, history, Evolves, TypeOK
<1> QED BY <1>1, <1>2, <1>3, <1>4, <1>5, WritesType
        DEF Next, Executor, ReadBefore, WriteAnswered, WriteUnanswered, WriteRejected, CheckFailedWrite,
            ObserveReady, ObserveGiveUp, RollbackRead, RollbackAnswered, RollbackUnanswered,
            VerifyRollback, vars

-----------------------------------------------------------------------------
(* Safety.                                                                 *)

\* A write that insists on version v replaces nothing another client wrote,
\* except the approved change itself.
SafeAt(v) == obj.exists /\ obj.rv = v => (foreign => IsTwin(obj))

\* Versions and uids seen so far are not ahead of the server.
Fresh ==
  /\ rev >= 1 /\ obj.rv <= rev /\ obj.uid <= rev
  /\ before.rv <= rev /\ seen.rv <= rev /\ after.uid <= rev
  /\ \A w \in inflight : w.rv <= rev

\* An object that is gone leaves nothing; the previewed generation has the
\* previewed spec, which nobody else wrote.
Intact ==
  /\ ~obj.exists => obj = Absent
  /\ obj.exists => obj.generation >= 1 /\ obj.rv >= 1
  /\ obj.exists /\ obj.uid = BaseUID /\ obj.generation = BaseGeneration =>
       obj.spec = BaseSpec /\ ~foreign

\* The copy read before the write is the previewed object, and the Deployment
\* is still that copy as long as it has its version.
Based ==
  /\ before.spec = BaseSpec
  /\ kind = "update" =>
       /\ before.exists => MatchesPreview(before)
       /\ obj.exists /\ obj.rv = before.rv => obj = before
       /\ pc \in {"write", "check"} => before.exists

\* The generation the executor believes it produced carries the new spec: its
\* own write, or the approved change made by another client.
Produced ==
  pc \in {"observe", "rollback_read", "rollback", "verify"} /\ obj.exists /\ obj.uid = after.uid =>
    /\ obj.generation >= after.generation
    /\ obj.generation = after.generation => obj.spec = NewSpec /\ (foreign => IsTwin(obj))

\* Every write under way or about to be sent is safe.
WritesSafe ==
  /\ \A w \in inflight : w.op # "create" => SafeAt(w.rv)
  /\ kind = "update" /\ pc \in {"write", "check"} => SafeAt(before.rv)
  /\ pc = "rollback" => SafeAt(seen.rv)

\* The previewed generation is gone for good.
Passed == obj.exists /\ obj.uid = BaseUID => obj.generation > BaseGeneration

\* The approved update follows the previewed generation, by whomever it is made:
\* once made it cannot be made again.
MadeOnce ==
  kind = "update" =>
    /\ applied <= 1
    /\ twin => applied = 0
    /\ applied >= 1 \/ twin => Passed

\* Every attempt of an update insists on the version read before it.
UpdateAttempts ==
  kind = "update" =>
    /\ \A w \in inflight : w.spec = NewSpec => w.op = "update" /\ w.rv = before.rv
    /\ pc = "read" => applied = 0 /\ inflight = {}

SafetyInv ==
  Fresh /\ Intact /\ Based /\ Produced /\ WritesSafe /\ MadeOnce /\ UpdateAttempts /\ NoEditClobbered

LEMMA SafetyInit == Init => SafetyInv
  BY SpecsAssumption
  DEF Init, SafetyInv, Fresh, Intact, Based, MatchesPreview, Produced, WritesSafe, MadeOnce,
      UpdateAttempts, NoEditClobbered, Absent, Previewed, BaseUID, BaseGeneration

\* A version that was safe stays safe: whatever moves the object gives it a
\* version nobody has read yet.
LEMMA SafeStays ==
  ASSUME TypeOK, Evolves, NEW v \in Nat, v <= rev, SafeAt(v)
  PROVE  SafeAt(v)'
<1>1. CASE obj' = obj /\ foreign' = foreign
  BY <1>1 DEF SafeAt, IsTwin
<1>2. CASE obj' = Absent \/ obj'.rv = rev + 1
  BY <1>2 DEF SafeAt, Absent, TypeOK
<1> QED BY <1>1, <1>2 DEF Evolves

\* The server's part of Fresh, and Intact.
LEMMA ServerFresh ==
  ASSUME TypeOK, Evolves, Fresh, Intact
  PROVE  /\ rev' >= rev /\ rev' >= 1 /\ obj'.rv <= rev' /\ obj'.uid <= rev'
         /\ Intact'
<1>0. rev \in Nat /\ obj.rv \in Nat /\ obj.uid \in Nat /\ obj.generation \in Nat
  BY DEF TypeOK, ObjType
<1>1. CASE obj' = obj /\ foreign' = foreign
  BY <1>0, <1>1 DEF Evolves, Fresh, Intact
<1>2. CASE obj' = Absent /\ rev' = rev + 1
  BY <1>0, <1>2 DEF Absent, Fresh, Intact
<1>3. CASE obj'.exists /\ obj'.rv = rev' /\ rev' = rev + 1 /\ obj'.uid = rev' /\ obj'.generation = 1
  BY <1>0, <1>3 DEF Fresh, BaseUID, Intact
<1>4. CASE /\ obj'.exists /\ obj'.rv = rev' /\ rev' = rev + 1 /\ obj.exists /\ obj'.uid = obj.uid
           /\ \/ obj'.generation = obj.generation + 1
              \/ /\ obj'.generation = obj.generation /\ obj'.spec = obj.spec
                 /\ foreign' = foreign
  BY <1>0, <1>4 DEF Fresh, Intact, BaseUID, BaseGeneration
<1> QED BY <1>1, <1>2, <1>3, <1>4 DEF Evolves

\* The generation that was produced keeps its spec and its author.
LEMMA ProducedStays ==
  ASSUME TypeOK, Evolves, Fresh, obj'.exists, obj'.uid = after.uid,
         obj.exists /\ obj.uid = after.uid =>
           /\ obj.generation >= after.generation
           /\ obj.generation = after.generation => obj.spec = NewSpec /\ (foreign => IsTwin(obj))
  PROVE  /\ obj'.generation >= after.generation
         /\ obj'.generation = after.generation => obj'.spec = NewSpec /\ (foreign' => IsTwin(obj'))
<1>0. /\ rev \in Nat /\ obj.generation \in Nat /\ after.uid \in Nat /\ after.generation \in Nat
      /\ after.uid <= rev
  BY DEF TypeOK, ObjType, Fresh
<1>1. CASE obj' = obj /\ foreign' = foreign
  BY <1>1 DEF IsTwin
<1>2. CASE /\ obj.exists /\ obj'.uid = obj.uid
           /\ \/ obj'.generation = obj.generation + 1
              \/ /\ obj'.generation = obj.generation /\ obj'.spec = obj.spec
                 /\ foreign' = foreign
  BY <1>0, <1>2 DEF IsTwin
<1> QED BY <1>0, <1>1, <1>2 DEF Evolves, Absent

\* The previewed generation never comes back: a uid is not reused.
LEMMA PassedStays ==
  ASSUME TypeOK, Evolves, Fresh, Passed
  PROVE  Passed'
<1>0. rev \in Nat /\ obj.generation \in Nat /\ rev >= 1
  BY DEF TypeOK, ObjType, Fresh
<1>1. CASE obj' = obj
  BY <1>1 DEF Passed
<1>2. CASE obj' = Absent
  BY <1>2 DEF Passed, Absent
<1>3. CASE rev' = rev + 1 /\ obj'.uid = rev'
  BY <1>0, <1>3 DEF Passed, BaseUID
<1>4. CASE /\ obj.exists /\ obj'.uid = obj.uid
           /\ obj'.generation = obj.generation + 1 \/ obj'.generation = obj.generation
  BY <1>0, <1>4 DEF Passed, BaseGeneration
<1> QED BY <1>1, <1>2, <1>3, <1>4 DEF Evolves

\* A version that was read is the object that was read.
LEMMA BasedStays ==
  ASSUME TypeOK, Evolves, Fresh, obj.exists /\ obj.rv = before.rv => obj = before,
         obj'.exists, obj'.rv = before.rv
  PROVE  obj' = before
<1>0. rev \in Nat /\ before.rv \in Nat /\ before.rv <= rev
  BY DEF TypeOK, ObjType, Fresh
<1> QED BY <1>0 DEF Evolves, Absent

\* Processing a safe write clobbers nothing and makes the update once.
LEMMA ProcessSafe ==
  ASSUME TypeOK, SafetyInv, NEW w \in Write, Process(w), kind' = kind,
         w.op # "create" => SafeAt(w.rv),
         kind = "update" /\ w.spec = NewSpec => w.op = "update" /\ w.rv = before.rv
  PROVE  NoEditClobbered' /\ MadeOnce'
<1>0. /\ Evolves /\ rev \in Nat /\ applied \in Nat /\ obj \in ObjType
      /\ w.op \in {"create", "update", "delete"}
  BY ProcessEvolves DEF TypeOK, Write
<1>1. NoEditClobbered'
  BY <1>0 DEF Process, Accepts, SafeAt, SafetyInv, NoEditClobbered, server, history
<1>2. twin' = twin
  BY DEF Process, history
<1>3. ASSUME kind = "update" PROVE MadeOnce'
  <2>1. CASE applied' = applied
    BY <1>0, <1>2, <1>3, <2>1, PassedStays DEF SafetyInv, MadeOnce
  <2>2. CASE applied' # applied
    <3>1. /\ Accepts(w) /\ w.spec = NewSpec /\ obj' # obj /\ applied' = applied + 1
          /\ obj' = Result(w)
      BY <2>2 DEF Process, history
    <3>2. obj.exists /\ obj = before /\ MatchesPreview(obj)
      BY <1>3, <3>1 DEF Accepts, SafetyInv, Based
    <3>3. applied = 0 /\ ~twin
      BY <1>0, <1>3, <3>2 DEF SafetyInv, MadeOnce, Passed, MatchesPreview, BaseGeneration
    <3>4. Passed'
      <4>1. obj' = Updated(NewSpec)
        BY <1>3, <3>1 DEF Result
      <4>2. obj'.generation = BaseGeneration + 1
        BY <1>0, <3>1, <3>2, <4>1 DEF Updated, MatchesPreview, ObjType
      <4> QED BY <4>2 DEF Passed, BaseGeneration
    <3> QED BY <1>2, <3>1, <3>3, <3>4 DEF MadeOnce
  <2> QED BY <2>1, <2>2
<1>4. kind # "update" => MadeOnce'
  <2> SUFFICES ASSUME kind # "update", kind' = "update" PROVE FALSE
    BY Zenon DEF MadeOnce
  <2> QED OBVIOUS
<1> QED BY <1>1, <1>3, <1>4

\* Another client makes the approved change before the executor has, or never.
LEMMA OtherSafe ==
  ASSUME TypeOK, SafetyInv, OtherClientStep
  PROVE  MadeOnce'
<1>0. Evolves /\ applied \in Nat /\ rev \in Nat /\ obj \in ObjType /\ UNCHANGED <<kind, applied>>
  BY NextEvolves DEF TypeOK, Next, OtherClientStep, OtherClient, locals
<1>1. CASE twin' = twin
  BY <1>0, <1>1, PassedStays DEF SafetyInv, MadeOnce
<1>2. CASE twin' # twin
  <2>1. IsTwin(obj') /\ twin' /\ ~twin
    BY <1>2 DEF OtherClientStep, OtherClient, TypeOK
  <2>2. Passed'
    BY <2>1 DEF Passed, IsTwin, BaseGeneration
  <2>3. ~Passed
    <3>1. obj.exists /\ obj'.uid = obj.uid /\ obj'.generation = obj.generation + 1
      <4>1. obj' # obj /\ obj'.generation = 2 /\ obj'.uid = 1
        <5>1. obj' # obj
          BY DEF OtherClientStep, OtherClient
        <5>2. obj'.generation = 2 /\ obj'.uid = 1
          BY <2>1 DEF IsTwin, BaseUID, BaseGeneration
        <5> QED BY <5>1, <5>2
      <4>2. CASE obj' = Absent
        BY <4>1, <4>2 DEF Absent
      <4>3. ASSUME NEW spec \in EditSpec, ~obj.exists, obj' = Created(spec) PROVE FALSE
        BY <4>1, <4>3 DEF Created
      <4>4. ASSUME NEW spec \in EditSpec, obj.exists, obj' = Updated(spec)
            PROVE  obj'.uid = obj.uid /\ obj'.generation = obj.generation + 1
        BY <1>0, <4>1, <4>4 DEF Updated, ObjType
      <4> QED BY <4>2, <4>3, <4>4 DEF OtherClientStep, OtherClient
    <3>2. obj.generation \in Nat
      BY <1>0 DEF ObjType
    <3> QED BY <2>1, <3>1, <3>2 DEF Passed, IsTwin, BaseUID, BaseGeneration
  <2> QED BY <1>0, <2>1, <2>2, <2>3 DEF SafetyInv, MadeOnce
<1> QED BY <1>1, <1>2

Rolling == {"observe", "rollback_read", "rollback", "verify"}

\* A step that takes no new copy and sends nothing new.
LEMMA SafetyFrame ==
  ASSUME TypeOK, SafetyInv, Evolves, UNCHANGED <<kind, before, after, seen>>,
         inflight' \subseteq inflight,
         pc' \in Rolling => pc \in Rolling,
         pc' \in {"write", "check"} => pc \in {"write", "check"},
         pc' = "rollback" => pc = "rollback",
         kind = "update" /\ pc' = "read" => pc = "read" /\ applied' = applied,
         NoEditClobbered', MadeOnce'
  PROVE  SafetyInv'
<1>0. /\ rev \in Nat /\ rev' \in Nat /\ before.rv \in Nat /\ seen.rv \in Nat /\ after.uid \in Nat
      /\ \A w \in inflight : w.rv \in Nat
  BY DEF TypeOK, ObjType, Write, Evolves
<1>1. Fresh' /\ Intact'
  BY <1>0, ServerFresh DEF SafetyInv, Fresh
<1>2. Based'
  BY BasedStays DEF SafetyInv, Based
<1>3. Produced'
  BY ProducedStays DEF SafetyInv, Produced, Rolling
<1>4. WritesSafe'
  <2>1. \A w \in inflight' : w.op # "create" => SafeAt(w.rv)'
    BY <1>0, SafeStays DEF SafetyInv, WritesSafe, Fresh
  <2>2. kind = "update" /\ pc' \in {"write", "check"} => SafeAt(before.rv)'
    BY <1>0, SafeStays DEF SafetyInv, WritesSafe, Fresh
  <2>3. pc' = "rollback" => SafeAt(seen.rv)'
    BY <1>0, SafeStays DEF SafetyInv, WritesSafe, Fresh
  <2> QED BY <2>1, <2>2, <2>3 DEF WritesSafe, SafeAt
<1>5. UpdateAttempts'
  BY DEF SafetyInv, UpdateAttempts
<1> QED BY <1>1, <1>2, <1>3, <1>4, <1>5 DEF SafetyInv

\* Every step of the executor, of the server and of others keeps it so.
LEMMA SafetyNext == TypeOK /\ SafetyInv /\ [Next]_vars => SafetyInv'
<1> SUFFICES ASSUME TypeOK, SafetyInv, [Next]_vars PROVE SafetyInv'
  OBVIOUS
<1> USE DEF Finish, locals, history, Rolling
<1>0. /\ Evolves /\ ChangeWrite \in Write /\ RollbackWrite \in Write /\ TypeOK'
      /\ rev \in Nat /\ before.rv \in Nat /\ seen.rv \in Nat /\ obj.rv \in Nat
  BY NextEvolves, WritesType, TypeNext DEF TypeOK, ObjType
<1>q. UNCHANGED <<kind, applied, twin>> => MadeOnce'
  BY <1>0, PassedStays DEF SafetyInv, MadeOnce
<1>c. pc \in {"write", "check"} =>
        /\ ChangeWrite.op # "create" => SafeAt(ChangeWrite.rv)
        /\ kind = "update" => ChangeWrite.op = "update" /\ ChangeWrite.rv = before.rv
  BY DEF ChangeWrite, SafetyInv, WritesSafe, TypeOK
<1>r. /\ pc = "rollback" => SafeAt(RollbackWrite.rv)
      /\ RollbackWrite.spec # NewSpec /\ RollbackWrite.op # "create" /\ RollbackWrite.rv = seen.rv
  BY SpecsAssumption DEF RollbackWrite, SafetyInv, WritesSafe, Based
<1>1. ASSUME NEW w \in inflight, LateArrival(w) PROVE SafetyInv'
  <2>1. /\ w \in Write /\ w.op # "create" => SafeAt(w.rv)
        /\ kind = "update" /\ w.spec = NewSpec => w.op = "update" /\ w.rv = before.rv
    BY DEF TypeOK, SafetyInv, WritesSafe, UpdateAttempts
  <2>2. NoEditClobbered' /\ MadeOnce'
    BY <1>1, <2>1, ProcessSafe DEF LateArrival, TypeOK
  <2>3. kind = "update" => pc # "read"
    BY DEF SafetyInv, UpdateAttempts
  <2> QED BY <1>0, <1>1, <2>2, <2>3, SafetyFrame DEF LateArrival
<1>2. ASSUME UNCHANGED <<kind, before, after, seen, inflight, applied, clobbered>>, MadeOnce',
             \/ pc' = pc
             \/ pc' = "done"
             \/ pc = "check" /\ pc' = "write"
             \/ pc = "observe" /\ pc' = "rollback_read"
      PROVE  SafetyInv'
  BY <1>0, <1>2, SafetyFrame DEF SafetyInv, NoEditClobbered
<1>3. ASSUME \/ \E b \in BOOLEAN : StatusChange(b)
             \/ UNCHANGED vars
             \/ WriteRejected \/ ObserveReady \/ ObserveGiveUp \/ VerifyRollback
      PROVE  SafetyInv'
  BY <1>2, <1>3, <1>q
  DEF StatusChange, vars, WriteRejected, ObserveReady, ObserveGiveUp,
      VerifyRollback
<1>o. CASE OtherClientStep
  BY <1>2, <1>o, OtherSafe DEF OtherClientStep, OtherClient
<1>4. CASE ReadBefore
  <2>1. CASE pc' = "done"
    BY <1>2, <1>4, <1>q, <2>1 DEF ReadBefore, server
  <2>2. CASE pc' = "write"
    <3>1. /\ before' = obj /\ UNCHANGED <<rev, obj, kind, after, seen, inflight, applied, foreign, twin, clobbered>>
          /\ kind = "create" => ~obj.exists
          /\ kind = "update" => obj.exists /\ MatchesPreview(obj)
          /\ pc = "read"
      BY <1>4, <2>2 DEF ReadBefore, server, TypeOK
    <3>2. obj.spec = BaseSpec /\ (kind = "update" => ~foreign)
      BY <3>1 DEF SafetyInv, Intact, Absent, MatchesPreview, TypeOK
    <3>3. Fresh' /\ Intact' /\ Based' /\ Produced'
      BY <2>2, <3>1, <3>2 DEF SafetyInv, Fresh, Intact, Based, Produced
    <3>4. WritesSafe' /\ MadeOnce' /\ UpdateAttempts' /\ NoEditClobbered'
      BY <1>q, <2>2, <3>1, <3>2
      DEF SafetyInv, WritesSafe, SafeAt, UpdateAttempts, NoEditClobbered
    <3> QED BY <3>3, <3>4 DEF SafetyInv
  <2> QED BY <1>4, <2>1, <2>2 DEF ReadBefore
<1>5. CASE WriteAnswered
  <2>1. NoEditClobbered' /\ MadeOnce'
    BY <1>0, <1>5, <1>c, ProcessSafe DEF WriteAnswered
  <2>2. CASE ~Accepts(ChangeWrite)
    BY <1>0, <1>5, <2>1, <2>2, SafetyFrame DEF WriteAnswered
  <2>3. CASE Accepts(ChangeWrite)
    <3>1. /\ UNCHANGED <<kind, before, seen, inflight>> /\ pc' = "observe"
          /\ after' = [uid |-> obj'.uid, generation |-> obj'.generation]
      BY <1>5, <2>3 DEF WriteAnswered
    <3>2. obj'.spec = NewSpec /\ obj'.generation \in Nat
      <4>1. obj' = IF kind = "create" THEN Created(NewSpec) ELSE Updated(NewSpec)
        BY <1>5, <2>3 DEF WriteAnswered, Process, Result, ChangeWrite, TypeOK
      <4>2. obj'.generation \in Nat
        BY <1>0 DEF TypeOK, ObjType
      <4> QED BY <4>1, <4>2 DEF Created, Updated, TypeOK, ObjType
    <3>a. foreign' => IsTwin(obj')
      <4>1. foreign' => obj' = obj /\ foreign
        BY <1>5, <2>3 DEF WriteAnswered, Process
      <4>2. obj.exists => SafeAt(ChangeWrite.rv) /\ obj.rv = ChangeWrite.rv
        BY <1>5, <1>c, <2>3 DEF WriteAnswered, Accepts, ChangeWrite, TypeOK
      <4>3. obj' = obj => obj.exists
        <5>1. CASE kind = "create"
          <6>1. obj' = Created(NewSpec)
            BY <1>5, <2>3, <5>1 DEF WriteAnswered, Process, Result, ChangeWrite
          <6> QED BY <6>1 DEF Created
        <5>2. CASE kind = "update"
          BY <2>3, <5>2 DEF Accepts, ChangeWrite
        <5> QED BY <5>1, <5>2 DEF TypeOK
      <4> QED BY <4>1, <4>2, <4>3 DEF SafeAt
    <3>3. Fresh' /\ Intact' /\ Based'
      BY <1>0, <3>1, ServerFresh, BasedStays DEF SafetyInv, Fresh, Based, TypeOK, Write
    <3>4. Produced'
      BY <3>1, <3>2, <3>a DEF Produced
    <3>5. WritesSafe'
      BY <1>0, <3>1, SafeStays DEF SafetyInv, WritesSafe, SafeAt, Fresh, TypeOK, Write
    <3>6. UpdateAttempts'
      BY <3>1 DEF SafetyInv, UpdateAttempts
    <3> QED BY <2>1, <3>3, <3>4, <3>5, <3>6 DEF SafetyInv
  <2> QED BY <2>2, <2>3
<1>6. CASE WriteUnanswered
  <2>1. CASE Process(ChangeWrite) /\ UNCHANGED inflight
    <3>1. NoEditClobbered' /\ MadeOnce'
      BY <1>0, <1>6, <1>c, <2>1, ProcessSafe DEF WriteUnanswered
    <3> QED BY <1>0, <1>6, <2>1, <3>1, SafetyFrame DEF WriteUnanswered
  <2>2. CASE inflight' = inflight \cup {ChangeWrite} /\ UNCHANGED <<server, history>>
    <3>1. /\ UNCHANGED <<rev, obj, kind, before, after, seen, applied, foreign, twin, clobbered>>
          /\ pc = "write" /\ pc' = "check"
      BY <1>6, <2>2 DEF WriteUnanswered, server
    <3>2. ChangeWrite.rv = before.rv
      BY DEF ChangeWrite
    <3>3. Fresh' /\ Intact' /\ Based' /\ Produced'
      BY <2>2, <3>1, <3>2 DEF SafetyInv, Fresh, Intact, Based, Produced
    <3>4. WritesSafe'
      BY <1>c, <2>2, <3>1 DEF SafetyInv, WritesSafe, SafeAt
    <3>5. MadeOnce' /\ UpdateAttempts' /\ NoEditClobbered'
      BY <1>c, <1>q, <2>2, <3>1 DEF SafetyInv, UpdateAttempts, NoEditClobbered
    <3> QED BY <3>3, <3>4, <3>5 DEF SafetyInv
  <2> QED BY <1>6, <2>1, <2>2 DEF WriteUnanswered
<1>7. CASE CheckFailedWrite
  <2>1. CASE pc' = "observe"
    <3>1. /\ UNCHANGED <<rev, obj, kind, before, seen, inflight, applied, foreign, twin, clobbered>>
          /\ kind = "update" /\ TookEffect /\ after' = [uid |-> obj.uid, generation |-> obj.generation]
          /\ pc = "check"
      BY <1>7, <2>1 DEF CheckFailedWrite, server
    <3>2. IsTwin(obj)
      BY <3>1 DEF TookEffect, IsTwin, SafetyInv, Based, MatchesPreview
    <3>3. Fresh' /\ Intact' /\ Based' /\ WritesSafe'
      BY <2>1, <3>1 DEF SafetyInv, Fresh, Intact, Based, WritesSafe, SafeAt, TookEffect
    <3>4. MadeOnce' /\ UpdateAttempts' /\ NoEditClobbered'
      BY <1>q, <2>1, <3>1 DEF SafetyInv, UpdateAttempts, NoEditClobbered
    <3>5. Produced'
      BY <3>1, <3>2 DEF Produced, TookEffect, TypeOK, ObjType
    <3> QED BY <3>3, <3>4, <3>5 DEF SafetyInv
  <2>2. CASE pc' # "observe"
    BY <1>2, <1>7, <1>q, <2>2 DEF CheckFailedWrite, server
  <2> QED BY <2>1, <2>2
<1>8. CASE RollbackRead
  <2>1. CASE pc' = "rollback"
    <3>1. /\ UNCHANGED <<rev, obj, kind, before, after, inflight, applied, foreign, twin, clobbered>>
          /\ IsOurs /\ seen' = obj /\ pc = "rollback_read"
      BY <1>8, <2>1 DEF RollbackRead, MayRollBack, server
    <3>2. foreign => IsTwin(obj)
      BY <3>1 DEF IsOurs, SafetyInv, Produced
    <3>3. Fresh' /\ Intact' /\ Based' /\ Produced' /\ MadeOnce' /\ UpdateAttempts' /\ NoEditClobbered'
      BY <1>q, <2>1, <3>1
      DEF SafetyInv, Fresh, Intact, Based, Produced, UpdateAttempts, NoEditClobbered
    <3>4. WritesSafe'
      BY <2>1, <3>1, <3>2 DEF SafetyInv, WritesSafe, SafeAt
    <3> QED BY <3>3, <3>4 DEF SafetyInv
  <2>2. CASE pc' = "done"
    BY <1>2, <1>8, <1>q, <2>2 DEF RollbackRead, server
  <2> QED BY <1>8, <2>1, <2>2 DEF RollbackRead
<1>9. ASSUME Process(RollbackWrite), UNCHANGED <<kind, before, after, seen, inflight>>,
             pc = "rollback", pc' \in {"verify", "done"}
      PROVE  SafetyInv'
  <2>1. NoEditClobbered' /\ MadeOnce'
    BY <1>0, <1>9, <1>r, ProcessSafe
  <2> QED BY <1>0, <1>9, <2>1, SafetyFrame
<1>10. CASE RollbackAnswered
  BY <1>9, <1>10 DEF RollbackAnswered
<1>11. CASE RollbackUnanswered
  <2>1. CASE Process(RollbackWrite) /\ UNCHANGED inflight
    BY <1>9, <1>11, <2>1 DEF RollbackUnanswered
  <2>2. CASE inflight' = inflight \cup {RollbackWrite} /\ UNCHANGED <<server, history>>
    <3>1. /\ UNCHANGED <<rev, obj, kind, before, after, seen, applied, foreign, twin, clobbered>>
          /\ pc = "rollback" /\ pc' = "done"
      BY <1>11, <2>2 DEF RollbackUnanswered, server
    <3>2. Fresh' /\ Intact' /\ Based' /\ Produced'
      BY <1>r, <2>2, <3>1 DEF SafetyInv, Fresh, Intact, Based, Produced
    <3>3. WritesSafe' /\ MadeOnce' /\ UpdateAttempts' /\ NoEditClobbered'
      BY <1>q, <1>r, <2>2, <3>1 DEF SafetyInv, WritesSafe, SafeAt, UpdateAttempts, NoEditClobbered
    <3> QED BY <3>2, <3>3 DEF SafetyInv
  <2>3. CASE UNCHANGED <<server, inflight, history>>
    BY <1>2, <1>11, <1>q, <2>3 DEF RollbackUnanswered
  <2> QED BY <1>11, <2>1, <2>2, <2>3 DEF RollbackUnanswered
<1> QED BY <1>1, <1>3, <1>4, <1>5, <1>6, <1>7, <1>8, <1>10, <1>11, <1>o DEF Next, Executor

LEMMA SafetyInvariant == Spec => []SafetyInv
  BY TypeCorrect, SafetyInit, SafetyNext, PTL DEF Spec

\* However many attempts, lost answers and delays: an approved update takes
\* effect at most once, and not at all when another client has made it.
THEOREM UpdateAppliedOnce == Spec => []AppliedAtMostOnce
<1>1. SafetyInv => AppliedAtMostOnce
  BY DEF SafetyInv, MadeOnce, AppliedAtMostOnce
<1> QED BY <1>1, SafetyInvariant, PTL

\* Neither the change nor its rollback replaces what another client wrote,
\* unless it is the approved change itself.
THEOREM EditsSurvive == Spec => []NoEditClobbered
  BY SafetyInvariant, PTL DEF SafetyInv

-----------------------------------------------------------------------------
(* The outcome tells the truth.                                            *)

\* A write of the executor that brings the new spec is counted.
LEMMA ProcessAccounted ==
  ASSUME TypeOK, NEW w \in Write, Process(w)
  PROVE  /\ applied' \in Nat /\ applied' >= applied /\ twin' = twin
         /\ foreign' => foreign /\ obj' = obj
         /\ obj'.exists /\ obj'.spec = NewSpec =>
              \/ obj' = obj /\ foreign' = foreign
              \/ w.spec = NewSpec /\ Accepts(w) /\ applied' = applied + 1
<1>0. applied \in Nat /\ w.op \in {"create", "update", "delete"} /\ obj \in ObjType /\ foreign \in BOOLEAN
  BY DEF TypeOK, Write
<1>1. applied' \in Nat /\ applied' >= applied /\ twin' = twin
  BY <1>0 DEF Process, history
<1>2. CASE ~Accepts(w)
  BY <1>1, <1>2 DEF Process, server, history
<1>3. CASE Accepts(w) /\ obj' = obj
  BY <1>0, <1>1, <1>3 DEF Process
<1>4. CASE Accepts(w) /\ obj' # obj
  <2>1. obj' = Result(w) /\ ~foreign'
    BY <1>4 DEF Process
  <2>2. ASSUME obj'.exists, obj'.spec = NewSpec PROVE w.op # "delete" /\ w.spec = NewSpec
    <3>0. w.op # "delete"
      BY <2>1, <2>2 DEF Result, Absent
    <3>1. CASE w.op = "create"
      BY <2>1, <2>2, <3>1 DEF Result, Created
    <3>2. CASE w.op = "update"
      BY <1>0, <1>4, <2>1, <2>2, <3>2 DEF Result, Updated, ObjType
    <3> QED BY <1>0, <3>0, <3>1, <3>2
  <2> QED BY <1>1, <1>4, <2>1, <2>2 DEF Process
<1> QED BY <1>2, <1>3, <1>4

\* The new spec is the executor's or another client's, and every place beyond
\* the write shows that the change was made.
Accounted ==
  /\ obj.exists /\ obj.spec = NewSpec => applied >= 1 \/ foreign
  /\ obj.exists /\ foreign /\ IsTwin(obj) => twin
  /\ pc \in Rolling \/ outcome \in {"executed", "rolled_back"} => applied >= 1 \/ twin
  /\ pc # "done" => outcome = "executing"

\* After an update was rolled back the new spec is gone, or another client's.
Restored ==
  kind = "update" /\ (pc = "verify" \/ outcome = "rolled_back") =>
    (obj.exists /\ obj.spec = NewSpec => foreign)

OutcomeInv == Accounted /\ Restored

LEMMA OutcomeInit == Init => OutcomeInv
  BY SpecsAssumption DEF Init, OutcomeInv, Accounted, Restored, Rolling, Absent, Previewed

\* The server takes a write while the executor stays where it is, or ends without success.
LEMMA OutcomeProcess ==
  ASSUME TypeOK, SafetyInv, OutcomeInv, NEW w \in Write, Process(w), kind' = kind,
         kind = "update" /\ w.spec = NewSpec => w.op = "update" /\ w.rv = before.rv,
         \/ UNCHANGED <<pc, outcome>>
         \/ pc' \notin Rolling /\ pc' # "done" /\ outcome' = "executing"
         \/ pc' = "done" /\ outcome' = "failed"
  PROVE  OutcomeInv'
<1>0. applied \in Nat /\ obj.generation \in Nat
  BY DEF TypeOK, ObjType
<1>1. Accounted'
  BY <1>0, ProcessAccounted DEF OutcomeInv, Accounted, Rolling, IsTwin
<1>2. Restored'
  <2> SUFFICES ASSUME kind = "update", pc' = "verify" \/ outcome' = "rolled_back", obj'.exists,
                      obj'.spec = NewSpec, ~foreign'
               PROVE  FALSE
    BY DEF Restored
  <2>1. pc = "verify" \/ outcome = "rolled_back"
    BY DEF Rolling
  <2>2. Passed
    BY <1>0, <2>1 DEF OutcomeInv, Accounted, Rolling, SafetyInv, MadeOnce
  <2>3. w.spec = NewSpec /\ Accepts(w)
    BY <2>1, ProcessAccounted DEF OutcomeInv, Restored
  <2>4. obj.exists /\ obj.rv = before.rv
    BY <2>3 DEF Accepts
  <2> QED BY <1>0, <2>2, <2>4 DEF SafetyInv, Based, MatchesPreview, Passed, BaseGeneration
<1> QED BY <1>1, <1>2 DEF OutcomeInv

\* A step that brings the new spec, if at all, as another client's.
LEMMA OutcomeFrame ==
  ASSUME TypeOK, OutcomeInv, UNCHANGED <<kind, applied>>, twin => twin',
         obj'.exists /\ obj'.spec = NewSpec => foreign' \/ (obj.exists /\ obj.spec = NewSpec /\ ~foreign),
         obj'.exists /\ foreign' /\ IsTwin(obj') => twin' \/ (obj.exists /\ foreign /\ IsTwin(obj)),
         \/ UNCHANGED <<pc, outcome>>
         \/ pc' \notin Rolling /\ pc' # "done" /\ UNCHANGED outcome /\ pc # "done"
         \/ pc \in Rolling /\ pc' \in Rolling \ {"verify"} /\ UNCHANGED outcome
         \/ pc = "check" /\ pc' = "observe" /\ UNCHANGED outcome /\ obj.exists /\ IsTwin(obj)
         \/ pc' = "done" /\ outcome' \in {"failed", "rollback_pending"}
         \/ pc = "observe" /\ pc' = "done" /\ outcome' = "executed"
         \/ pc = "verify" /\ pc' = "done" /\ outcome' = "rolled_back"
  PROVE  OutcomeInv'
<1>1. pc = "check" /\ pc' = "observe" /\ obj.exists /\ IsTwin(obj) => applied >= 1 \/ twin
  BY DEF OutcomeInv, Accounted, IsTwin
<1>2. Accounted'
  BY <1>1 DEF OutcomeInv, Accounted, Rolling
<1>3. Restored'
  BY DEF OutcomeInv, Accounted, Restored, Rolling
<1> QED BY <1>2, <1>3 DEF OutcomeInv

LEMMA OutcomeNext == TypeOK /\ SafetyInv /\ OutcomeInv /\ [Next]_vars => OutcomeInv'
<1> SUFFICES ASSUME TypeOK, SafetyInv, OutcomeInv, [Next]_vars PROVE OutcomeInv'
  OBVIOUS
<1> USE DEF Finish, locals, history
<1>0. /\ ChangeWrite \in Write /\ ChangeWrite.spec = NewSpec /\ ChangeWrite.rv = before.rv
      /\ ChangeWrite.op = kind
      /\ RollbackWrite \in Write /\ RollbackWrite.spec = BaseSpec /\ RollbackWrite.spec # NewSpec
  BY WritesType, SpecsAssumption DEF ChangeWrite, RollbackWrite, SafetyInv, Based
<1>1. ASSUME NEW w \in inflight, LateArrival(w) PROVE OutcomeInv'
  <2>1. w \in Write /\ (kind = "update" /\ w.spec = NewSpec => w.op = "update" /\ w.rv = before.rv)
    BY DEF TypeOK, SafetyInv, UpdateAttempts
  <2> QED BY <1>1, <2>1, OutcomeProcess DEF LateArrival
<1>2. ASSUME NEW b \in BOOLEAN, StatusChange(b) PROVE OutcomeInv'
  <2>1. obj'.spec = obj.spec /\ obj'.exists = obj.exists /\ (IsTwin(obj') => IsTwin(obj))
    BY <1>2 DEF StatusChange, IsTwin, TypeOK, ObjType
  <2>2. UNCHANGED <<kind, applied, foreign, twin, pc, outcome>>
    BY <1>2 DEF StatusChange
  <2> QED BY <2>1, <2>2, OutcomeFrame DEF TypeOK
<1>3. CASE OtherClientStep
  <2>1. foreign' /\ (twin => twin') /\ (IsTwin(obj') => twin')
    BY <1>3 DEF OtherClientStep, OtherClient
  <2>2. UNCHANGED <<kind, applied, pc, outcome>>
    BY <1>3 DEF OtherClientStep, OtherClient
  <2> QED BY <2>1, <2>2, OutcomeFrame
<1>4. CASE ReadBefore
  BY <1>4, OutcomeFrame DEF ReadBefore, server, Rolling
<1>5. CASE WriteAnswered
  <2>1. CASE ~Accepts(ChangeWrite)
    BY <1>0, <1>5, <2>1, OutcomeProcess DEF WriteAnswered
  <2>2. CASE Accepts(ChangeWrite)
    <3>1. /\ Process(ChangeWrite) /\ kind' = kind /\ pc' = "observe" /\ outcome' = "executing"
      BY <1>5, <2>2 DEF WriteAnswered, OutcomeInv, Accounted
    <3>2. obj'.exists /\ obj'.spec = NewSpec
      <4>1. obj' = IF kind = "create" THEN Created(NewSpec) ELSE Updated(NewSpec)
        BY <2>2, <3>1 DEF Process, Result, ChangeWrite, TypeOK
      <4>2. kind = "update" => obj.exists
        BY <1>0, <2>2 DEF Accepts
      <4> QED BY <4>1, <4>2 DEF Created, Updated, TypeOK, ObjType
    <3>3. applied' \in Nat /\ applied' >= 1
      <4>1. applied \in Nat /\ applied' = applied + 1
        <5>1. obj' # obj
          BY <1>0, <1>5, <2>2, <3>2, SpecsAssumption DEF Accepts, WriteAnswered, SafetyInv, Based, TypeOK
        <5> QED BY <1>0, <3>1, <3>2, <5>1, ProcessAccounted DEF TypeOK
      <4> QED BY <4>1
    <3>4. obj'.exists /\ foreign' /\ IsTwin(obj') => twin'
      BY <1>0, <3>1, ProcessAccounted DEF OutcomeInv, Accounted, IsTwin
    <3> QED BY <3>1, <3>3, <3>4 DEF OutcomeInv, Accounted, Restored
  <2> QED BY <2>1, <2>2
<1>6. CASE WriteUnanswered
  <2>1. CASE Process(ChangeWrite)
    BY <1>0, <1>6, <2>1, OutcomeProcess DEF WriteUnanswered, Rolling, OutcomeInv, Accounted
  <2>2. CASE UNCHANGED <<server, history>>
    BY <1>6, <2>2, OutcomeFrame DEF WriteUnanswered, Rolling, server
  <2> QED BY <1>6, <2>1, <2>2 DEF WriteUnanswered
<1>7. CASE CheckFailedWrite
  <2>1. UNCHANGED <<obj, kind, applied, foreign, twin>> /\ pc = "check" /\ foreign \in BOOLEAN
    BY <1>7 DEF CheckFailedWrite, server, TypeOK
  <2>2. CASE pc' = "observe"
    <3>1. obj.exists /\ IsTwin(obj) /\ outcome' = outcome
      BY <1>7, <2>2 DEF CheckFailedWrite, TookEffect, IsTwin, SafetyInv, Based, MatchesPreview
    <3> QED BY <2>1, <2>2, <3>1, OutcomeFrame DEF IsTwin
  <2>3. CASE pc' # "observe"
    BY <1>7, <2>1, <2>3, OutcomeFrame DEF CheckFailedWrite, Rolling, IsTwin
  <2> QED BY <2>2, <2>3
<1>8. CASE WriteRejected \/ ObserveReady \/ ObserveGiveUp \/ RollbackRead \/ VerifyRollback
  BY <1>8, OutcomeFrame
  DEF WriteRejected, ObserveReady, ObserveGiveUp, RollbackRead, VerifyRollback, Rolling, server
<1>9. CASE RollbackAnswered
  <2>1. CASE ~Accepts(RollbackWrite)
    BY <1>0, <1>9, <2>1, OutcomeProcess DEF RollbackAnswered
  <2>2. CASE Accepts(RollbackWrite)
    <3>1. /\ Process(RollbackWrite) /\ kind' = kind /\ pc = "rollback" /\ pc' = "verify"
          /\ outcome' = "executing"
      BY <1>9, <2>2 DEF RollbackAnswered, OutcomeInv, Accounted
    <3>2. ~(obj'.exists /\ obj'.spec = NewSpec)
      <4>1. obj' = IF kind = "create" THEN Absent ELSE Updated(BaseSpec)
        BY <1>0, <2>2, <3>1 DEF Process, Result, RollbackWrite
      <4> QED BY <4>1, SpecsAssumption DEF Absent, Updated, TypeOK, ObjType
    <3>3. applied' >= 1 \/ twin'
      BY <1>0, <3>1, ProcessAccounted DEF OutcomeInv, Accounted, Rolling, TypeOK
    <3> QED BY <3>1, <3>2, <3>3 DEF OutcomeInv, Accounted, Restored, IsTwin
  <2> QED BY <2>1, <2>2
<1>10. CASE RollbackUnanswered
  <2>1. CASE Process(RollbackWrite)
    BY <1>0, <1>10, <2>1, OutcomeProcess DEF RollbackUnanswered
  <2>2. CASE UNCHANGED <<server, history>>
    BY <1>10, <2>2, OutcomeFrame DEF RollbackUnanswered, server
  <2> QED BY <1>10, <2>1, <2>2 DEF RollbackUnanswered
<1>11. CASE UNCHANGED vars
  BY <1>11, OutcomeFrame DEF vars, server
<1> QED BY <1>1, <1>2, <1>3, <1>4, <1>5, <1>6, <1>7, <1>8, <1>9, <1>10, <1>11 DEF Next, Executor

LEMMA OutcomeInvariant == Spec => []OutcomeInv
  BY TypeCorrect, SafetyInvariant, OutcomeInit, OutcomeNext, PTL DEF Spec

\* A change reported as executed was made, however its answer was learned: by the
\* executor, or as the very next generation by another client.
THEOREM ExecutedIsTrue == Spec => []ExecutedMeansApplied
<1>1. OutcomeInv => ExecutedMeansApplied
  BY DEF OutcomeInv, Accounted, ExecutedMeansApplied
<1> QED BY <1>1, OutcomeInvariant, PTL

\* After an update was reported as rolled back no late attempt brings the new
\* spec back: it insists on a version that is gone.
THEOREM RollbackStays == Spec => []RolledBackStays
<1>1. OutcomeInv => RolledBackStays
  BY DEF OutcomeInv, Restored, RolledBackStays
<1> QED BY <1>1, OutcomeInvariant, PTL
=============================================================================
