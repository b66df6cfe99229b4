--------------------------- MODULE ClusterObjects ---------------------------
(***************************************************************************)
(* The objects of one cluster as the HTTP handlers of workload and ops and *)
(* the executors of the agent's actions change them.  A handler is the     *)
(* list of calls it makes to the API server, each with what the handler    *)
(* does when the call fails; the calls of concurrent requests interleave.  *)
(* There is one object per kind and namespace.  The value of a field is    *)
(* the number of the write that set it.                                    *)
(***************************************************************************)
EXTENDS Naturals, Sequences, FiniteSets

CONSTANTS Namespace,        \* the namespaces of the cluster
          SystemNamespace,  \* those DeleteNamespace refuses to delete
          Request,          \* ids of requests; each is used once
          MaxItems          \* bound on the items of a batch, a clone or a cleanup

ASSUME ObjectsAssumption == SystemNamespace \subseteq Namespace /\ MaxItems \in Nat

\* The fields the handlers tell apart.  A kind that is only created and deleted
\* has one.
TemplateFields ==
  {"templateLabels", "templateAnnotations", "containers", "initContainers", "volumes",
   "scheduling", "advanced", "affinity"}

Fields == [
  deployments     |-> {"replicas", "labels", "annotations", "strategy"} \cup TemplateFields,
  statefulsets    |-> {"replicas", "image", "templateAnnotations"},
  daemonsets      |-> {"image", "templateAnnotations"},
  replicasets     |-> {"replicas"},
  cronjobs        |-> {"schedule", "suspend", "image", "command", "args"},
  pods            |-> {"labels"},
  services        |-> {"type", "ports"},
  configmaps      |-> {"data", "labels"},
  secrets         |-> {"data", "labels"},
  ingresses       |-> {"rules", "tls", "annotations"},
  pvcs            |-> {"capacity", "accessModes", "storageClass"},
  resourcequotas  |-> {"cpu", "memory", "pods"},
  jobs            |-> {"spec"},
  hpas            |-> {"spec"},
  networkpolicies |-> {"spec"},
  custom          |-> {"spec"},
  namespaces      |-> {"labels", "annotations"},
  nodes           |-> {"labels", "unschedulable", "taints"},
  pvs             |-> {"capacity", "accessModes", "reclaimPolicy", "storageClass"},
  storageclasses  |-> {"provisioner", "reclaimPolicy", "bindingMode", "parameters"}]

ClusterKind == {"nodes", "pvs", "storageclasses"}
NamespacedKind == DOMAIN Fields \ ClusterKind

\* Objects that belong to no namespace have this one.
NoNamespace == "none"
Object == (NamespacedKind \X Namespace) \cup (ClusterKind \X {NoNamespace})
KindOf(o) == o[1]
NamespaceOf(o) == o[2]
FieldsOf(o) == Fields[KindOf(o)]

VARIABLES
  object,   \* the objects: version (0 is absent) and fields
  accepted, \* per object, the last accepted write of each field
  rs,       \* per namespace, the ReplicaSets of its deployment by revision
  ran,      \* per namespace, the templates its deployment was seen to run, in order
  clock,    \* the number of writes so far
  req       \* the requests

history == <<rs, ran>>
vars == <<object, accepted, history, clock, req>>

Absent == [version |-> 0, field |-> <<>>]
Exists(o) == object[o].version > 0
Stamped(o, v) == [f \in FieldsOf(o) |-> v]
Template(field) == [f \in TemplateFields |-> field[f]]
Stored(field) == [version |-> clock + 1, field |-> field]

\* A deployment that has already been updated once, and everything else once.
OldTemplate == [f \in TemplateFields |-> 0]
FirstTemplate == [f \in TemplateFields |-> 1]

\* A request that has not come in yet.
NoRequest == [pc |-> "new", calls |-> <<>>, copy |-> Absent, target |-> {}]

Init ==
  /\ \E present \in {Object, {"namespaces"} \X Namespace} :
       /\ object = [o \in Object |-> IF o \in present THEN [version |-> 1, field |-> Stamped(o, 1)] ELSE Absent]
       /\ accepted = [o \in Object |-> Stamped(o, 1)]
       /\ rs = [n \in Namespace |-> IF <<"deployments", n>> \in present
                                    THEN {[rev |-> 1, template |-> OldTemplate],
                                          [rev |-> 2, template |-> FirstTemplate]} ELSE {}]
       /\ ran = [n \in Namespace |-> IF <<"deployments", n>> \in present
                                     THEN <<OldTemplate, FirstTemplate>> ELSE <<>>]
  /\ clock = 1
  /\ req = [r \in Request |-> NoRequest]

-----------------------------------------------------------------------------
(* Calls.  When a call fails, `on' says what the handler does: "stop"      *)
(* answers an error, "next" goes on with the next call.                    *)

Call(verb, o, parts) ==
  [rev |-> 0, object |-> o, verb |-> verb, parts |-> parts, from |-> o, on |-> "stop"]

\* Get, change the named fields, Update.
Modify(o, parts) == Call("modify", o, parts)
Create(o) == Call("create", o, FieldsOf(o))
Delete(o) == Call("delete", o, {})
\* kubectl apply patches the fields its file names, or creates the object.
Apply(o, parts) == Call("apply", o, parts)
\* kubectl delete.
Remove(o) == Delete(o)
\* Get, and Delete if it is there.
DeleteFound(o) == Call("find", o, {})
\* Create, and Get and Update the whole object if it is there already.
Store(o) == Call("store", o, FieldsOf(o))
\* Get here, Create there.
Clone(kind, from, to) == [Call("clone", <<kind, to>>, {}) EXCEPT !.from = <<kind, from>>, !.on = "next"]
\* Get the deployment, List its ReplicaSets, Update.  Revision 0 is the previous one.
Undo(n, rev) == [Call("undo", <<"deployments", n>>, TemplateFields) EXCEPT !.rev = rev]
Prune(n, rev) == [Call("prune", <<"deployments", n>>, {}) EXCEPT !.rev = rev]
GoOn(call) == [call EXCEPT !.on = "next"]

Cur(r) == Head(req[r].calls)

\* What an update that names optional fields may change: one of them, or all.
SomeOf(parts) == {{f} : f \in parts} \cup {parts}

\* The request with its current call done, or failed.
Succeeded(r) ==
  [req[r] EXCEPT !.calls = Tail(req[r].calls), !.copy = Absent, !.target = {},
                 !.pc = IF Len(req[r].calls) = 1 THEN "answered" ELSE "call"]
Failed(r) == IF Cur(r).on = "stop" THEN [req[r] EXCEPT !.calls = <<>>, !.copy = Absent, !.target = {}, !.pc = "answered"]
             ELSE Succeeded(r)
\* The request with another call in the place of its current one.
Instead(r, call) == [req[r] EXCEPT !.calls = <<call>> \o Tail(req[r].calls)]
Sets(r, state) == req' = [req EXCEPT ![r] = state]

Unwritten == UNCHANGED <<object, accepted, history, clock>>

\* A request comes in and its handler sets out to make these calls.
Start(r, calls) ==
  /\ req[r].pc = "new"
  /\ Sets(r, [req[r] EXCEPT !.calls = calls, !.pc = IF calls = <<>> THEN "answered" ELSE "call"])
  /\ Unwritten

\* The API server accepts a write of the current call.  Its answer may be lost:
\* the handler then takes the call for failed.
Accept(r, o, field, latest) ==
  /\ object' = [object EXCEPT ![o] = Stored(field)]
  /\ accepted' = [accepted EXCEPT ![o] = latest]
  /\ clock' = clock + 1
  /\ Sets(r, Succeeded(r)) \/ Sets(r, Failed(r))
  /\ UNCHANGED history

\* An object can be created where its namespace exists.
Creatable(o) ==
  /\ ~Exists(o)
  /\ KindOf(o) \in ClusterKind \cup {"namespaces"} \/ Exists(<<"namespaces", NamespaceOf(o)>>)

\* An update carries the version of the copy it was made from.
UnchangedOrNot(r, o) == Exists(o)
Unchanged(r, o) == Exists(o) /\ object[o].version = req[r].copy.version

\* Validation, admission, a timeout or a lost connection.
Refused(r) ==
  /\ req[r].pc \in {"call", "list", "put"}
  /\ Sets(r, Failed(r))
  /\ Unwritten

\* The Get of a read-modify-write, a clone or a rollback.
Get(r) ==
  /\ req[r].pc = "call" /\ Cur(r).verb \in {"modify", "clone", "undo"}
  /\ IF Exists(Cur(r).from)
     THEN Sets(r, [req[r] EXCEPT !.copy = object[Cur(r).from],
                                 !.pc = IF Cur(r).verb = "undo" THEN "list" ELSE "put"])
     ELSE Sets(r, Failed(r))
  /\ Unwritten

Changed(field, parts) == [f \in DOMAIN field |-> IF f \in parts THEN clock + 1 ELSE field[f]]

Put(r) ==
  LET o == Cur(r).object IN
  /\ req[r].pc = "put" /\ Cur(r).verb = "modify"
  /\ IF Unchanged(r, o)
     THEN Accept(r, o, Changed(req[r].copy.field, Cur(r).parts), Changed(accepted[o], Cur(r).parts))
     ELSE Sets(r, Failed(r)) /\ Unwritten

Post(r) ==
  LET o == Cur(r).object
      field == IF Cur(r).verb = "clone" THEN req[r].copy.field ELSE Stamped(o, clock + 1) IN
  /\ \/ req[r].pc = "call" /\ Cur(r).verb = "create"
     \/ req[r].pc = "put" /\ Cur(r).verb = "clone"
  /\ IF Creatable(o) THEN Accept(r, o, field, field) ELSE Sets(r, Failed(r)) /\ Unwritten

Patch(r) ==
  LET o == Cur(r).object IN
  /\ req[r].pc = "call" /\ Cur(r).verb = "apply"
  /\ \/ Exists(o) /\ Accept(r, o, Changed(object[o].field, Cur(r).parts), Changed(accepted[o], Cur(r).parts))
     \/ Creatable(o) /\ Accept(r, o, Stamped(o, clock + 1), Stamped(o, clock + 1))
     \/ ~Exists(o) /\ ~Creatable(o) /\ Sets(r, Failed(r)) /\ Unwritten

\* What goes with an object: a namespace takes everything in it, a deployment
\* its ReplicaSets.
Gone(o) == IF KindOf(o) = "namespaces" THEN {p \in Object : NamespaceOf(p) = NamespaceOf(o)} ELSE {o}

Drop(r) ==
  LET gone == Gone(Cur(r).object)
      undeployed == {n \in Namespace : <<"deployments", n>> \in gone} IN
  /\ req[r].pc = "call" /\ Cur(r).verb = "delete"
  /\ IF Exists(Cur(r).object)
     THEN /\ object' = [o \in Object |-> IF o \in gone THEN Absent ELSE object[o]]
          /\ accepted' = [o \in Object |-> IF o \in gone THEN Stamped(o, 1) ELSE accepted[o]]
          /\ rs' = [n \in Namespace |-> IF n \in undeployed THEN {} ELSE rs[n]]
          /\ ran' = [n \in Namespace |-> IF n \in undeployed THEN <<>> ELSE ran[n]]
          /\ UNCHANGED clock
          /\ Sets(r, Succeeded(r)) \/ Sets(r, Failed(r))
     ELSE Sets(r, Failed(r)) /\ Unwritten

-----------------------------------------------------------------------------
(* Rollback: the second read of the handler lists the ReplicaSets.         *)

Newest(n) == CHOOSE s \in rs[n] : \A t \in rs[n] : t.rev <= s.rev

\* Revision 0 stands for the one before the newest.
TargetRSNewest(n, rev) ==
  {s.template : s \in {t \in rs[n] : t.rev = IF rev = 0 THEN Newest(n).rev ELSE rev}}
TargetRS(n, rev) ==
  {s.template : s \in {t \in rs[n] : t.rev = IF rev = 0 THEN Newest(n).rev - 1 ELSE rev}}

List(r) ==
  LET target == TargetRS(NamespaceOf(Cur(r).object), Cur(r).rev) IN
  /\ req[r].pc = "list"
  /\ Sets(r, IF target = {} THEN Failed(r) ELSE [req[r] EXCEPT !.target = target, !.pc = "put"])
  /\ Unwritten

PutTemplate(r) ==
  LET o == Cur(r).object
      With(field) == [f \in DOMAIN field |->
        IF f \in TemplateFields THEN (CHOOSE t \in req[r].target : TRUE)[f] ELSE field[f]] IN
  /\ req[r].pc = "put" /\ Cur(r).verb = "undo"
  /\ IF Unchanged(r, o) THEN Accept(r, o, With(req[r].copy.field), With(accepted[o]))
     ELSE Sets(r, Failed(r)) /\ Unwritten

\* One of the deployment's ReplicaSets is deleted.
DropReplicaSet(r) ==
  LET n == NamespaceOf(Cur(r).object)
      pruned == {s \in rs[n] : s.rev = Cur(r).rev} IN
  /\ req[r].pc = "call" /\ Cur(r).verb = "prune"
  /\ IF pruned # {}
     THEN /\ rs' = [rs EXCEPT ![n] = @ \ pruned]
          /\ Sets(r, Succeeded(r)) \/ Sets(r, Failed(r))
          /\ UNCHANGED <<object, accepted, ran, clock>>
     ELSE Sets(r, Failed(r)) /\ Unwritten

\* The first read of a clone: the target namespace is created when its Get fails.
Ensure(r) ==
  /\ req[r].pc = "call" /\ Cur(r).verb = "ensure"
  /\ \/ Exists(Cur(r).object) /\ Sets(r, Succeeded(r))
     \/ Sets(r, Instead(r, Create(Cur(r).object)))
  /\ Unwritten

\* What is gone already counts as deleted.
Find(r) ==
  /\ req[r].pc = "call" /\ Cur(r).verb = "find"
  /\ Sets(r, IF Exists(Cur(r).object) THEN Instead(r, Delete(Cur(r).object)) ELSE Succeeded(r))
  /\ Unwritten

\* An update after a failed Create overwrites every field of what is there.
PostOrPut(r) ==
  LET o == Cur(r).object IN
  /\ req[r].pc = "call" /\ Cur(r).verb = "store"
  /\ IF Creatable(o) THEN Accept(r, o, Stamped(o, clock + 1), Stamped(o, clock + 1))
     ELSE Sets(r, IF Exists(o) THEN Instead(r, GoOn(Modify(o, FieldsOf(o)))) ELSE Failed(r)) /\ Unwritten

-----------------------------------------------------------------------------
(* The cluster's own steps.                                                *)

RunsNow(n) == Template(object[<<"deployments", n>>].field)
Last(s) == s[Len(s)]
\* The controller has recorded the present template.
InStep(n) == IF rs[n] = {} THEN FALSE ELSE Newest(n).template = RunsNow(n)

\* The deployment controller gives the ReplicaSet of the template the next
\* revision, or makes one, and writes the revision on the deployment.
Reconcile(n) ==
  LET o == <<"deployments", n>>
      others == {s \in rs[n] : s.template # RunsNow(n)} IN
  /\ Exists(o)
  /\ ~InStep(n)
  /\ rs' = [rs EXCEPT ![n] = others \cup
       {[rev |-> IF rs[n] = {} THEN 1 ELSE Newest(n).rev + 1, template |-> RunsNow(n)]}]
  /\ ran' = [ran EXCEPT ![n] = IF @ # <<>> /\ Last(@) = RunsNow(n) THEN @ ELSE Append(@, RunsNow(n))]
  /\ object' = [object EXCEPT ![o] = Stored(@.field)]
  /\ clock' = clock + 1
  /\ UNCHANGED <<accepted, req>>

Step(r) ==
  \/ Refused(r)
  \/ Get(r)
  \/ Put(r)
  \/ Post(r)
  \/ Patch(r)
  \/ Drop(r)
  \/ List(r)
  \/ PutTemplate(r)
  \/ DropReplicaSet(r)
  \/ Ensure(r)
  \/ Find(r)
  \/ PostOrPut(r)

=============================================================================
