---------------------------- MODULE WorkloadProofs ----------------------------
(***************************************************************************)
(* NoWriteLost and UndoIsPrevious for any namespaces, any number of        *)
(* concurrent requests and batches of any size.                            *)
(***************************************************************************)
EXTENDS WorkloadHandlers, SequenceTheorems, WellFoundedInduction, TLAPS

-----------------------------------------------------------------------------
(* The plans of the handlers.  A read-modify-write and a rollback write    *)
(* what they have read.                                                    *)

Verb == {"modify", "create", "delete", "apply", "clone", "undo", "prune", "ensure", "find",
         "store"}
FieldName == UNION {Fields[kind] : kind \in DOMAIN Fields}

Calls ==
  {c \in [verb : Verb, object : Object, parts : SUBSET FieldName, from : Object, rev : Nat,
          on : {"stop", "next"}] :
     /\ c.verb \in {"modify", "undo"} => c.from = c.object
     /\ KindOf(c.from) = KindOf(c.object)
     /\ c.verb = "undo" => c.object \in {"deployments"} \X Namespace}

Plans == Seq(Calls)

LEMMA Kinds ==
  /\ {"deployments", "statefulsets", "daemonsets", "replicasets", "cronjobs", "pods", "services",
      "configmaps", "secrets", "ingresses", "pvcs", "resourcequotas", "jobs", "hpas",
      "networkpolicies", "custom", "namespaces"} \subseteq NamespacedKind
  /\ {"nodes", "pvs", "storageclasses"} = ClusterKind
  /\ \A kind \in DOMAIN Fields : Fields[kind] \subseteq FieldName
<1>1. DOMAIN Fields =
        {"deployments", "statefulsets", "daemonsets", "replicasets", "cronjobs", "pods", "services",
         "configmaps", "secrets", "ingresses", "pvcs", "resourcequotas", "jobs", "hpas",
         "networkpolicies", "custom", "namespaces", "nodes", "pvs", "storageclasses"}
  BY DEF Fields
<1>2. \A kind \in DOMAIN Fields : Fields[kind] \subseteq FieldName
  BY DEF FieldName
<1> QED
  BY <1>1, <1>2 DEF NamespacedKind, ClusterKind

LEMMA NamespacedObject ==
  ASSUME NEW kind \in NamespacedKind, NEW n \in Namespace
  PROVE  On(kind, n) \in Object /\ FieldsOf(On(kind, n)) \subseteq FieldName
  BY Kinds DEF On, Object, FieldsOf, KindOf, NamespacedKind

LEMMA WideObject ==
  ASSUME NEW kind \in ClusterKind
  PROVE  Wide(kind) \in Object /\ FieldsOf(Wide(kind)) \subseteq FieldName
<1>1. kind \in DOMAIN Fields
  BY DEF ClusterKind, Fields
<1> QED
  BY <1>1, Kinds DEF Wide, Object, FieldsOf, KindOf

LEMMA PlainCall ==
  ASSUME NEW verb \in Verb, verb # "undo", NEW o \in Object, NEW parts \in SUBSET FieldName
  PROVE  /\ Call(verb, o, parts) \in Calls
         /\ GoOn(Call(verb, o, parts)) \in Calls
         /\ Call(verb, o, parts).verb = verb
         /\ GoOn(Call(verb, o, parts)).verb = verb
  BY DEF Call, GoOn, Calls

LEMMA Modifies ==
  ASSUME NEW o \in Object, NEW parts \in SUBSET FieldName
  PROVE  /\ Modify(o, parts) \in Calls
         /\ GoOn(Modify(o, parts)) \in Calls
         /\ Apply(o, parts) \in Calls
<1>1. {"modify", "apply"} \subseteq Verb
  BY DEF Verb
<1> QED
  BY <1>1, PlainCall DEF Modify, Apply

LEMMA Makes ==
  ASSUME NEW o \in Object, FieldsOf(o) \subseteq FieldName
  PROVE  /\ Create(o) \in Calls
         /\ GoOn(Create(o)) \in Calls
         /\ GoOn(Store(o)) \in Calls
<1>1. {"create", "store"} \subseteq Verb
  BY DEF Verb
<1> QED
  BY <1>1, PlainCall DEF Create, Store

LEMMA Deletes ==
  ASSUME NEW o \in Object
  PROVE  /\ Delete(o) \in Calls
         /\ GoOn(Delete(o)) \in Calls
         /\ DeleteFound(o) \in Calls
<1>1. {"delete", "find"} \subseteq Verb
  BY DEF Verb
<1> QED
  BY <1>1, PlainCall DEF Delete, DeleteFound

LEMMA Clones ==
  ASSUME NEW kind \in NamespacedKind, NEW from \in Namespace, NEW to \in Namespace
  PROVE  Clone(kind, from, to) \in Calls
<1>1. <<kind, from>> \in Object /\ <<kind, to>> \in Object
  BY NamespacedObject DEF On
<1> QED
  BY <1>1 DEF Clone, Call, Calls, Verb, KindOf

LEMMA Undoes ==
  ASSUME NEW n \in Namespace, NEW rev \in Nat
  PROVE  /\ Undo(n, rev) \in Calls
         /\ Prune(n, rev) \in Calls
<1>1. <<"deployments", n>> \in Object
  BY NamespacedObject, Kinds DEF On
<1>2. TemplateFields \subseteq FieldName
  BY Kinds DEF Fields
<1> QED
  BY <1>1, <1>2 DEF Undo, Prune, Call, Calls, Verb

LEMMA Single ==
  ASSUME NEW c \in Calls PROVE <<c>> \in Plans
  BY DEF Plans

\* A request comes in and makes such a plan.
Begins(r) == \E p \in Plans : Start(r, p)

\* One call on one object.
Touches(r, o) ==
  \/ One(r, Create(o)) \/ One(r, Delete(o)) \/ One(r, DeleteFound(o))
  \/ \E parts \in SUBSET FieldName : One(r, Modify(o, parts)) \/ One(r, Apply(o, parts))

LEMMA TouchBegins ==
  ASSUME NEW r, NEW o \in Object, FieldsOf(o) \subseteq FieldName, Touches(r, o)
  PROVE  Begins(r)
<1>1. ASSUME NEW c \in Calls, One(r, c) PROVE Begins(r)
  BY <1>1, Single DEF One, Begins
<1>2. CASE One(r, Create(o))
  BY <1>1, <1>2, Makes
<1>3. CASE One(r, Delete(o)) \/ One(r, DeleteFound(o))
  BY <1>1, <1>3, Deletes
<1>4. ASSUME NEW parts \in SUBSET FieldName, One(r, Modify(o, parts)) \/ One(r, Apply(o, parts))
      PROVE  Begins(r)
  BY <1>1, <1>4, Modifies
<1> QED
  BY <1>2, <1>3, <1>4 DEF Touches

LEMMA NamespacedBegins ==
  ASSUME NEW r, NEW kind \in NamespacedKind, NEW n \in Namespace, Touches(r, On(kind, n))
  PROVE  Begins(r)
  BY TouchBegins, NamespacedObject

LEMMA WideBegins ==
  ASSUME NEW r, NEW kind \in ClusterKind, Touches(r, Wide(kind))
  PROVE  Begins(r)
  BY TouchBegins, WideObject

LEMMA PartsNamed ==
  ASSUME NEW kind \in DOMAIN Fields, NEW part \in SomeOf(Fields[kind])
  PROVE  part \in SUBSET FieldName
  BY Kinds DEF SomeOf

\* The fields that handlers name themselves.
LEMMA NamedFields ==
  {"replicas", "image", "affinity", "labels", "templateAnnotations", "spec", "templateLabels", "annotations",
   "containers", "initContainers", "volumes", "strategy", "scheduling", "advanced", "type", "ports"}
     \subseteq FieldName
<1>1. {"replicas", "labels", "annotations", "strategy", "templateLabels", "templateAnnotations", "containers",
       "initContainers", "volumes", "scheduling", "advanced", "affinity"} = Fields.deployments
  BY DEF Fields, TemplateFields
<1>2. Fields.statefulsets = {"replicas", "image", "templateAnnotations"} /\ Fields.custom = {"spec"}
      /\ Fields.services = {"type", "ports"}
  BY DEF Fields
<1>3. {"deployments", "statefulsets", "custom", "services"} \subseteq DOMAIN Fields
  BY Kinds DEF NamespacedKind
<1>4. /\ Fields.deployments \subseteq FieldName /\ Fields.statefulsets \subseteq FieldName
      /\ Fields.custom \subseteq FieldName /\ Fields.services \subseteq FieldName
  BY <1>3, Kinds
<1> QED
  BY <1>1, <1>2, <1>4

LEMMA PodsAndServices ==
  ASSUME NEW r, NEW n \in Namespace, PodAndServiceHandlers(r, n) PROVE Begins(r)
<1>1. {"pods", "services"} \subseteq NamespacedKind /\ "services" \in DOMAIN Fields
  BY Kinds DEF NamespacedKind
<1>2. ASSUME NEW part \in SomeOf(Fields.services) PROVE part \in SUBSET FieldName
  BY <1>1, PartsNamed
<1>3. Touches(r, On("pods", n)) \/ Touches(r, On("services", n))
  BY <1>2 DEF PodAndServiceHandlers, CreatePod, DeletePod, CreateService, UpdateService, DeleteService, Touches
<1> QED
  BY <1>1, <1>3, NamespacedBegins

LEMMA ClusterWide ==
  ASSUME NEW r, ClusterWideHandlers(r) PROVE Begins(r)
<1>1. ClusterKind \subseteq DOMAIN Fields /\ {"nodes", "pvs", "storageclasses"} = ClusterKind
  BY Kinds DEF ClusterKind, Fields
<1>2. ASSUME NEW kind \in ClusterKind, NEW part \in SomeOf(Fields[kind]) PROVE part \in SUBSET FieldName
  BY <1>1, <1>2, PartsNamed
<1>3. CASE UpdatePod(r)
  <2>1. <<>> \in Plans
    BY DEF Plans
  <2> QED
    BY <1>3, <2>1 DEF UpdatePod, Begins
<1>4. CASE ~UpdatePod(r)
  <2>1. \E kind \in ClusterKind : Touches(r, Wide(kind))
    BY <1>1, <1>2, <1>4 DEF ClusterWideHandlers, UpdateNode, CreatePV, UpdatePV, DeletePV,
       CreateStorageClass, UpdateStorageClass, DeleteStorageClass, Touches
  <2> QED
    BY <2>1, WideBegins
<1> QED
  BY <1>3, <1>4

LEMMA Claims ==
  ASSUME NEW r, NEW n \in Namespace, ClaimHandlers(r, n) PROVE Begins(r)
<1>1. "pvcs" \in NamespacedKind /\ "pvcs" \in DOMAIN Fields
  BY Kinds DEF NamespacedKind
<1>2. ASSUME NEW part \in SomeOf(Fields.pvcs) PROVE part \in SUBSET FieldName
  BY <1>1, PartsNamed
<1>3. Touches(r, On("pvcs", n))
  BY <1>2 DEF ClaimHandlers, CreatePVC, UpdatePVC, DeletePVC, Touches
<1> QED
  BY <1>1, <1>3, NamespacedBegins

LEMMA Configuration ==
  ASSUME NEW r, NEW n \in Namespace, ConfigHandlers(r, n) PROVE Begins(r)
<1>1. {"configmaps", "secrets", "ingresses"} \subseteq NamespacedKind
      /\ {"configmaps", "secrets", "ingresses"} \subseteq DOMAIN Fields
  BY Kinds DEF NamespacedKind
<1>2. ASSUME NEW kind \in {"configmaps", "secrets", "ingresses"}, NEW part \in SomeOf(Fields[kind])
      PROVE  part \in SUBSET FieldName
  BY <1>1, PartsNamed
<1>3. \E kind \in {"configmaps", "secrets", "ingresses"} : Touches(r, On(kind, n))
  BY <1>2 DEF ConfigHandlers, CreateConfigMap, UpdateConfigMap, DeleteConfigMap, CreateSecret, UpdateSecret,
     DeleteSecret, CreateIngress, UpdateIngress, DeleteIngress, Touches
<1> QED
  BY <1>1, <1>3, NamespacedBegins

LEMMA Namespaces ==
  ASSUME NEW r, NEW n \in Namespace, NamespaceHandlers(r, n) PROVE Begins(r)
<1>1. {"namespaces", "resourcequotas"} \subseteq NamespacedKind
      /\ {"namespaces", "resourcequotas"} \subseteq DOMAIN Fields
  BY Kinds DEF NamespacedKind
<1>2. ASSUME NEW kind \in {"namespaces", "resourcequotas"}, NEW part \in SomeOf(Fields[kind])
      PROVE  part \in SUBSET FieldName
  BY <1>1, PartsNamed
<1>3. CASE DeleteNamespace(r, n)
  <2>1. <<>> \in Plans
    BY DEF Plans
  <2>2. <<Delete(On("namespaces", n))>> \in Plans
    BY <1>1, NamespacedObject, Deletes, Single
  <2> QED
    BY <1>3, <2>1, <2>2 DEF DeleteNamespace, Begins
<1>4. CASE ~DeleteNamespace(r, n)
  <2>1. \E kind \in {"namespaces", "resourcequotas"} : Touches(r, On(kind, n))
    BY <1>2, <1>4 DEF NamespaceHandlers, CreateNamespace, UpdateNamespace, CreateResourceQuota,
       UpdateResourceQuota, DeleteResourceQuota, Touches
  <2> QED
    BY <1>1, <2>1, NamespacedBegins
<1> QED
  BY <1>3, <1>4

LEMMA Manifests ==
  ASSUME NEW r, NEW n \in Namespace, ManifestHandlers(r, n) PROVE Begins(r)
<1>1. {"networkpolicies", "custom", "configmaps", "deployments"} \subseteq NamespacedKind
      /\ {"configmaps", "deployments"} \subseteq DOMAIN Fields
  BY Kinds DEF NamespacedKind
<1>2. ASSUME NEW kind \in {"configmaps", "deployments"}, NEW part \in SomeOf(Fields[kind])
      PROVE  part \in SUBSET FieldName
  BY <1>1, PartsNamed
<1>3. \E kind \in {"networkpolicies", "custom", "configmaps", "deployments"} : Touches(r, On(kind, n))
  BY <1>2, NamedFields DEF ManifestHandlers, CreateNetworkPolicy, DeleteNetworkPolicy, CreateCustomResource,
     UpdateCustomResource, DeleteCustomResource, ApplyResourceYAML, DeleteResourceYAML, Remove, Touches
<1> QED
  BY <1>1, <1>3, NamespacedBegins

LEMMA Followed ==
  ASSUME NEW c \in Calls, NEW p \in Plans PROVE <<c>> \o p \in Plans
  BY DEF Plans

LEMMA BatchPlan ==
  ASSUME NEW k \in Nat, NEW p \in [1..k -> Calls] PROVE p \in Plans
  BY DEF Plans

\* A batch of calls each of which goes on with the next.
LEMMA BatchBegins ==
  ASSUME NEW items, \A c \in items : GoOn(c) \in Calls,
         NEW b \in Batches(items)
  PROVE  [i \in DOMAIN b |-> GoOn(b[i])] \in Plans
<1>1. PICK k \in 1..MaxItems : b \in [1..k -> items]
  BY DEF Batches
<1>2. k \in Nat /\ DOMAIN b = 1..k
  BY <1>1, ObjectsAssumption
<1> QED
  BY <1>1, <1>2, BatchPlan

LEMMA Deployments ==
  ASSUME NEW r, NEW n \in Namespace, \A s \in rs[n] : s.rev \in Nat, DeploymentHandlers(r, n)
  PROVE  Begins(r)
<1>1. {"deployments", "services", "hpas"} \subseteq NamespacedKind
  BY Kinds
<1>2. CASE UpdateDeployment(r, n)
  <2>1. PICK part \in DeploymentPart \cup {UNION DeploymentPart}, service \in ServicePart(n) :
          Start(r, <<Modify(On("deployments", n), part)>> \o service)
    BY <1>2 DEF UpdateDeployment
  <2>2. part \in SUBSET FieldName
    <3>1. \A p \in DeploymentPart : p \in SUBSET FieldName
      BY NamedFields DEF DeploymentPart
    <3> QED
      BY <3>1
  <2>3. service \in Plans
    <3>1. <<>> \in Plans
      BY DEF Plans
    <3>2. <<GoOn(Create(On("services", n)))>> \in Plans
      BY <1>1, NamespacedObject, Makes, Single
    <3>3. <<GoOn(Modify(On("services", n), {"type", "ports"}))>> \in Plans
      BY <1>1, NamespacedObject, NamedFields, Modifies, Single
    <3> QED
      BY <3>1, <3>2, <3>3 DEF ServicePart
  <2>4. <<Modify(On("deployments", n), part)>> \o service \in Plans
    BY <1>1, <2>2, <2>3, NamespacedObject, Modifies, Followed
  <2> QED
    BY <2>1, <2>4 DEF Begins
<1>3. CASE RollbackDeployment(r, n)
  <2>1. PICK s \in rs[n] : One(r, Undo(n, s.rev))
    BY <1>3 DEF RollbackDeployment
  <2>2. <<Undo(n, s.rev)>> \in Plans
    BY Undoes, Single
  <2> QED
    BY <2>1, <2>2 DEF One, Begins
<1>4. CASE CreateEnterpriseDeployment(r, n)
  <2>1. PICK service \in {<<>>, <<GoOn(Create(On("services", n)))>>} :
          Start(r, <<Create(On("deployments", n))>> \o service)
    BY <1>4 DEF CreateEnterpriseDeployment
  <2>2. service \in Plans
    <3>1. <<>> \in Plans
      BY DEF Plans
    <3>2. <<GoOn(Create(On("services", n)))>> \in Plans
      BY <1>1, NamespacedObject, Makes, Single
    <3> QED
      BY <3>1, <3>2
  <2>3. <<Create(On("deployments", n))>> \o service \in Plans
    BY <1>1, <2>2, NamespacedObject, Makes, Followed
  <2> QED
    BY <2>1, <2>3 DEF Begins
<1>5. CASE \/ ScaleDeployment(r, n) \/ DeleteDeployment(r, n) \/ CreateDeployment(r, n)
           \/ UpdatePodAffinity(r, n) \/ CreateHPA(r, n) \/ DeleteHPA(r, n)
  <2>1. \E kind \in {"deployments", "hpas"} : Touches(r, On(kind, n))
    BY <1>5, NamedFields DEF ScaleDeployment, DeleteDeployment, CreateDeployment, UpdatePodAffinity,
       CreateHPA, DeleteHPA, Touches
  <2> QED
    BY <1>1, <2>1, NamespacedBegins
<1> QED
  BY <1>2, <1>3, <1>4, <1>5 DEF DeploymentHandlers

LEMMA OtherWorkloads ==
  ASSUME NEW r, NEW n \in Namespace, \A s \in rs[n] : s.rev \in Nat, OtherWorkloadHandlers(r, n)
  PROVE  Begins(r)
<1> DEFINE kinds == {"statefulsets", "daemonsets", "jobs", "cronjobs", "replicasets"}
<1>1. kinds \subseteq NamespacedKind /\ "cronjobs" \in DOMAIN Fields
  BY Kinds DEF NamespacedKind
<1>2. CASE DeleteReplicaSet(r, n)
  <2>1. CASE One(r, Delete(On("replicasets", n)))
    BY <1>1, <2>1, NamespacedBegins DEF Touches
  <2>2. CASE \E s \in rs[n] : One(r, Prune(n, s.rev))
    <3>1. PICK s \in rs[n] : One(r, Prune(n, s.rev))
      BY <2>2
    <3>2. <<Prune(n, s.rev)>> \in Plans
      BY Undoes, Single
    <3> QED
      BY <3>1, <3>2 DEF One, Begins
  <2> QED
    BY <1>2, <2>1, <2>2 DEF DeleteReplicaSet
<1>3. CASE ~DeleteReplicaSet(r, n)
  <2>1. ASSUME NEW part \in SomeOf(Fields.cronjobs) PROVE part \in SUBSET FieldName
    BY <1>1, PartsNamed
  <2>2. ASSUME NEW part \in SomeOf({"replicas", "image"}) PROVE part \in SUBSET FieldName
    BY NamedFields DEF SomeOf
  <2>3. {"image"} \in SUBSET FieldName /\ {"replicas"} \in SUBSET FieldName
    BY NamedFields
  <2>4. \E kind \in kinds : Touches(r, On(kind, n))
    BY <1>3, <2>1, <2>2, <2>3 DEF OtherWorkloadHandlers, CreateStatefulSet, UpdateStatefulSet,
       DeleteStatefulSet, CreateDaemonSet, UpdateDaemonSet, DeleteDaemonSet, CreateJob, DeleteJob,
       CreateCronJob, UpdateCronJob, DeleteCronJob, ScaleReplicaSet, Touches
  <2> QED
    BY <1>1, <2>4, NamespacedBegins
<1> QED
  BY <1>2, <1>3

LEMMA Composites ==
  ASSUME NEW r, NEW n \in Namespace, CompositeHandlers(r, n) PROVE Begins(r)
<1>1. /\ {"pods", "deployments", "services", "configmaps", "secrets", "statefulsets", "daemonsets", "jobs",
          "pvcs", "namespaces"} \subseteq NamespacedKind
      /\ "nodes" \in ClusterKind
  BY Kinds
<1>2. CASE BatchOperation(r, n)
  <2>1. \A c \in batchDelete(n) : GoOn(c) \in Calls
    BY <1>1, NamespacedObject, Deletes DEF batchDelete
  <2>2. \A c \in batchRestart(n) : GoOn(c) \in Calls
    BY <1>1, NamespacedObject, NamedFields, Modifies DEF batchRestart
  <2>3. \A c \in batchLabel(n) : GoOn(c) \in Calls
    BY <1>1, NamespacedObject, WideObject, NamedFields, Modifies DEF batchLabel
  <2>4. PICK items \in Batches(batchDelete(n)) \cup Batches(batchRestart(n)) \cup Batches(batchLabel(n)) :
          Start(r, [i \in DOMAIN items |-> GoOn(items[i])])
    BY <1>2 DEF BatchOperation
  <2>5. [i \in DOMAIN items |-> GoOn(items[i])] \in Plans
    BY <2>1, <2>2, <2>3, BatchBegins
  <2> QED
    BY <2>4, <2>5 DEF Begins
<1>3. CASE CloneNamespace(r, n)
  <2> DEFINE copies(to) == {Clone(kind, n, to) : kind \in {"deployments", "services", "configmaps", "secrets"}}
  <2>1. PICK to \in Namespace : \E items \in Batches(copies(to)) :
          Start(r, <<Call("ensure", On("namespaces", to), {})>> \o items)
    BY <1>3 DEF CloneNamespace
  <2>2. PICK items \in Batches(copies(to)) :
          Start(r, <<Call("ensure", On("namespaces", to), {})>> \o items)
    BY <2>1
  <2>3. \A c \in copies(to) : c \in Calls
    BY <1>1, Clones
  <2>4. PICK k \in 1..MaxItems : items \in [1..k -> copies(to)]
    BY DEF Batches
  <2> HIDE DEF copies
  <2>5. k \in Nat /\ items \in [1..k -> Calls]
    BY <2>3, <2>4, ObjectsAssumption
  <2>6. items \in Plans
    BY <2>5, BatchPlan
  <2>7. Call("ensure", On("namespaces", to), {}) \in Calls
    BY <1>1, NamespacedObject, PlainCall DEF Verb
  <2> QED
    BY <2>2, <2>6, <2>7, Followed DEF Begins
<1>4. CASE RollbackPrevious(r, n)
  <2>1. <<Undo(n, 0)>> \in Plans
    BY Undoes, Single
  <2> QED
    BY <1>4, <2>1 DEF RollbackPrevious, One, Begins
<1>5. CASE CleanIdleResource(r, n)
  <2> DEFINE items == {Delete(On(kind, n)) : kind \in {"jobs", "configmaps", "pvcs", "services", "pods"}}
  <2>1. \A c \in items : GoOn(c) \in Calls
    BY <1>1, NamespacedObject, Deletes
  <2>2. PICK b \in Batches(items) : Start(r, [i \in DOMAIN b |-> GoOn(b[i])])
    BY <1>5 DEF CleanIdleResource
  <2> HIDE DEF items
  <2>3. [i \in DOMAIN b |-> GoOn(b[i])] \in Plans
    BY <2>1, BatchBegins
  <2> QED
    BY <2>2, <2>3 DEF Begins
<1> QED
  BY <1>2, <1>3, <1>4, <1>5 DEF CompositeHandlers

LEMMA Executors ==
  ASSUME NEW r, NEW n \in Namespace, ExecuteStagedAction(r, n) PROVE Begins(r)
<1> DEFINE kinds == {"deployments", "services", "pods", "configmaps", "secrets", "namespaces", "ingresses",
                     "hpas", "pvcs"}
<1>1. kinds \subseteq NamespacedKind /\ {"pvs", "storageclasses"} \subseteq ClusterKind
  BY Kinds
<1>2. CASE ExecuteApplyYAML(r, n)
  <2> DEFINE own == {Store(On(kind, n)) : kind \in {"configmaps", "deployments"}}
             wide == {Store(Wide(kind)) : kind \in {"pvs", "storageclasses"}}
  <2>1. \A c \in own : GoOn(c) \in Calls
    BY <1>1, NamespacedObject, Makes
  <2>2. \A c \in wide : GoOn(c) \in Calls
    BY <1>1, WideObject, Makes
  <2>3. PICK items \in Batches(own) \cup Batches(wide) : Start(r, [i \in DOMAIN items |-> GoOn(items[i])])
    BY <1>2 DEF ExecuteApplyYAML, parseYAMLResources
  <2> HIDE DEF own, wide
  <2>4. [i \in DOMAIN items |-> GoOn(items[i])] \in Plans
    BY <2>1, <2>2, BatchBegins
  <2> QED
    BY <2>3, <2>4 DEF Begins
<1>3. CASE ~ExecuteApplyYAML(r, n)
  <2>1. {"replicas"} \in SUBSET FieldName /\ {"containers"} \in SUBSET FieldName
    BY NamedFields
  <2>2. \E kind \in kinds : Touches(r, On(kind, n))
    BY <1>3, <2>1 DEF ExecuteStagedAction, ExecuteCreateDeployment, ExecuteCreateService, ExecuteDeleteDeployment,
       ExecuteDeleteService, ExecuteDeletePod, ExecuteScaleDeployment, ExecuteCreateConfigMap,
       ExecuteCreateSecret, ExecuteUpdateDeployment, ExecuteCreateNamespace, ExecuteCreateIngress,
       ExecuteCreateHPA, ExecuteCreatePVC, Touches
  <2> QED
    BY <1>1, <2>2, NamespacedBegins
<1> QED
  BY <1>2, <1>3

\* Whatever comes in, it is a plan of the calls above.
LEMMA EveryHandler ==
  ASSUME NEW r, \A n \in Namespace : \A s \in rs[n] : s.rev \in Nat, Incoming(r)
  PROVE  Begins(r)
  BY ClusterWide, Deployments, PodsAndServices, Claims, OtherWorkloads, Configuration, Namespaces,
     Manifests, Composites, Executors DEF Incoming

-----------------------------------------------------------------------------
(* The inductive invariant.                                                *)

IsSequence(s) == s \in Seq({s[i] : i \in DOMAIN s})
D(n) == <<"deployments", n>>

\* Versions are given out in order and never twice.
ObjectsOK ==
  /\ clock \in Nat
  /\ object = [o \in Object |-> object[o]] /\ accepted = [o \in Object |-> accepted[o]]
  /\ \A o \in Object : object[o].version \in 0..clock

\* A copy that still has the version of its object still has its fields.
RequestOK(r) ==
  /\ req[r] = [pc |-> req[r].pc, calls |-> req[r].calls, copy |-> req[r].copy,
               target |-> req[r].target]
  /\ req[r].calls \in Plans
  /\ req[r].pc \in {"call", "list", "put"} => req[r].calls # <<>>
  /\ req[r].pc \in {"new", "call"} => req[r].copy = Absent
  /\ req[r].copy.version \in 0..clock
  /\ req[r].calls # <<>> /\ Unchanged(r, Cur(r).from) => req[r].copy.field = object[Cur(r).from].field

\* The ReplicaSet of the template that was seen last is the newest, if it is still
\* there.  The one before it comes right before it, or is itself the newest.
HistoryOK(n) ==
  LET seen == ran[n]
      k == Len(seen) IN
  /\ IsSequence(seen)
  /\ \A s \in rs[n] : s.rev \in 1 .. clock + 1
  /\ \A s, t \in rs[n] : s.rev = t.rev \/ s.template = t.template => s = t
  /\ k > 1 => seen[k - 1] # seen[k]
  /\ k > 0 => \A s, t \in rs[n] : s.template = seen[k] => t.rev <= s.rev
  /\ k > 1 => \A s, t \in rs[n] : s.template = seen[k - 1] =>
                t.rev <= s.rev \/ (t.template = seen[k] /\ t.rev = s.rev + 1)

\* UndoIsPrevious of one request.
UndoOK(r) ==
  LET n == NamespaceOf(Cur(r).object)
      before == ran[n][Len(ran[n]) - 1] IN
  /\ req[r].pc = "put" /\ Cur(r).verb = "undo" /\ Cur(r).rev = 0
  /\ Unchanged(r, Cur(r).object)
  /\ Len(ran[n]) > 1 /\ RunsNow(n) = Last(ran[n]) /\ InStep(n)
  /\ \E s \in rs[n] : s.template = before
  => req[r].target = {before}

Tables ==
  /\ rs = [n \in Namespace |-> rs[n]] /\ ran = [n \in Namespace |-> ran[n]]
  /\ req = [r \in Request |-> req[r]]

Inv ==
  /\ ObjectsOK /\ Tables /\ NoWriteLost
  /\ \A n \in Namespace : HistoryOK(n)
  /\ \A r \in Request : RequestOK(r) /\ UndoOK(r)

\* What a step does to the cluster: an object stays, goes, or gets a version of its
\* own; a deployment that stays keeps its history, but for ReplicaSets deleted.
ClusterStep ==
  /\ clock' \in {clock, clock + 1}
  /\ object' = [o \in Object |-> object'[o]] /\ accepted' = [o \in Object |-> accepted'[o]]
  /\ rs' = [n \in Namespace |-> rs'[n]] /\ ran' = [n \in Namespace |-> ran'[n]]
  /\ \A o \in Object : \/ object'[o] = object[o]
                       \/ object'[o].version = 0
                       \/ object'[o].version = clock + 1 /\ clock' = clock + 1
  /\ \A n \in Namespace : \/ object'[D(n)].version \in {0, clock + 1}
                          \/ ran'[n] = ran[n] /\ rs'[n] \subseteq rs[n]
  /\ \A n \in Namespace : HistoryOK(n)'
  /\ NoWriteLost'

LEMMA ObjectsKept ==
  ASSUME ObjectsOK, ClusterStep PROVE ObjectsOK'
<1>1. clock' \in Nat /\ clock <= clock'
  BY DEF ObjectsOK, ClusterStep
<1>2. ASSUME NEW o \in Object PROVE object'[o].version \in 0..clock'
  <2>1. object[o].version \in 0..clock /\ clock \in Nat
    BY DEF ObjectsOK
  <2>2. CASE object'[o] = object[o]
    BY <1>1, <2>1, <2>2
  <2>3. CASE object'[o].version = 0
    BY <1>1, <2>3
  <2>4. CASE object'[o].version = clock + 1 /\ clock' = clock + 1
    BY <1>1, <2>1, <2>4
  <2> QED
    BY <2>2, <2>3, <2>4 DEF ClusterStep
<1> QED
  BY <1>1, <1>2 DEF ObjectsOK, ClusterStep

\* The newest ReplicaSet, where there is one.
LEMMA Least ==
  ASSUME NEW S \in SUBSET Nat, S # {}
  PROVE  \E n \in S : \A m \in S : n <= m
<1> DEFINE less == {p \in Nat \X Nat : p[1] < p[2]}
<1>1. IsWellFoundedOn(less, Nat)
  BY NatLessThanWellFounded DEF OpToRel
<1>2. PICK n \in S : \A m \in S : ~ (<<m, n>> \in less)
  BY <1>1, WFMin
<1>3. \A m \in S : ~ (m < n)
  BY <1>2
<1> QED
  BY <1>3

LEMMA NewestIn ==
  ASSUME NEW S, S # {}, NEW b \in Nat, \A s \in S : s.rev \in 1..b
  PROVE  \E s \in S : \A t \in S : t.rev <= s.rev
<1> DEFINE T == {b - s.rev : s \in S}
<1>1. \A s \in S : s.rev \in Nat /\ b - s.rev \in Nat
  OBVIOUS
<1>2. T \in SUBSET Nat /\ T # {}
  BY <1>1
<1>3. PICK m \in T : \A l \in T : m <= l
  BY <1>2, Least
<1>4. PICK s \in S : m = b - s.rev
  OBVIOUS
<1>5. ASSUME NEW t \in S PROVE t.rev <= s.rev
  <2>1. m <= b - t.rev
    BY <1>3
  <2> QED
    BY <1>1, <1>4, <2>1
<1> QED
  BY <1>5

LEMMA NewestThere ==
  ASSUME NEW n \in Namespace, clock \in Nat, HistoryOK(n), rs[n] # {}
  PROVE  Newest(n) \in rs[n] /\ \A t \in rs[n] : t.rev <= Newest(n).rev
<1>1. \E s \in rs[n] : \A t \in rs[n] : t.rev <= s.rev
  <2>1. clock + 1 \in Nat /\ \A s \in rs[n] : s.rev \in 1 .. clock + 1
    BY DEF HistoryOK
  <2> QED
    BY <2>1, NewestIn
<1> QED
  BY <1>1 DEF Newest

\* The newest is the only one with its revision.
LEMMA NewestIs ==
  ASSUME NEW n \in Namespace, clock \in Nat, HistoryOK(n), NEW s \in rs[n], \A t \in rs[n] : t.rev <= s.rev
  PROVE  Newest(n) = s
<1>1. Newest(n) \in rs[n] /\ \A t \in rs[n] : t.rev <= Newest(n).rev
  BY NewestThere
<1>2. \A t \in rs[n] : t.rev \in Nat
  BY DEF HistoryOK
<1>3. Newest(n).rev = s.rev
  BY <1>1, <1>2
<1> QED
  BY <1>1, <1>3 DEF HistoryOK

\* A request that does not move.  Its copy is current after the step only if it was
\* before and its object stayed.
LEMMA OthersKept ==
  ASSUME Inv, ClusterStep, NEW q \in Request, req'[q] = req[q]
  PROVE  RequestOK(q)' /\ UndoOK(q)'
<1>0. RequestOK(q) /\ UndoOK(q) /\ ObjectsOK
  BY DEF Inv
<1>1. clock \in Nat /\ clock' \in Nat /\ clock <= clock'
  BY <1>0 DEF ObjectsOK, ClusterStep
<1>8. PICK k \in Nat : k = clock'
  BY <1>1
<1>2. req[q].copy.version \in 0..clock /\ req[q].calls \in Plans
  BY <1>0 DEF RequestOK
<1>3. ASSUME NEW o \in Object, Unchanged(q, o)' PROVE Unchanged(q, o) /\ object'[o] = object[o]
  <2>1. object'[o].version = req[q].copy.version /\ object'[o].version > 0
    BY <1>3 DEF Unchanged, Exists
  <2>2. object'[o].version # 0 /\ object'[o].version # clock + 1
    BY <1>1, <1>2, <2>1
  <2>3. object'[o] = object[o]
    BY <2>2 DEF ClusterStep
  <2> QED
    BY <2>1, <2>3 DEF Unchanged, Exists
<1>4. PICK c : c = Cur(q) /\ c = Cur(q)'
  BY DEF Cur
<1>5. req[q].calls # <<>> => c \in Calls /\ c.from \in Object /\ c.object \in Object
  BY <1>2, <1>4 DEF Plans, Calls, Cur
<1>6. RequestOK(q)'
  <2>1. req[q].calls # <<>> /\ Unchanged(q, c.from)' => req[q].copy.field = object'[c.from].field
    BY <1>0, <1>3, <1>4, <1>5 DEF RequestOK
  <2>2. req[q].copy.version \in 0..clock'
    BY <1>1, <1>2
  <2> QED
    BY <1>0, <1>4, <2>1, <2>2 DEF RequestOK
<1>7. UndoOK(q)'
  <2>0. PICK n : n = NamespaceOf(c.object)
    OBVIOUS
  <2>1. SUFFICES ASSUME req[q].pc = "put", c.verb = "undo", c.rev = 0,
                        Unchanged(q, c.object)',
                        Len(ran'[n]) > 1, RunsNow(n)' = Last(ran'[n]), InStep(n)',
                        \E s \in rs'[n] : s.template = ran'[n][Len(ran'[n]) - 1]
                 PROVE  req[q].target = {ran'[n][Len(ran'[n]) - 1]}
    BY <1>4, <2>0 DEF UndoOK, NamespaceOf
  <2>2. c \in Calls /\ c.object \in {"deployments"} \X Namespace
    BY <1>0, <1>5, <2>1 DEF RequestOK, Calls
  <2>3. n \in Namespace /\ c.object = D(n) /\ D(n) \in Object
    BY <1>5, <2>0, <2>2 DEF D, NamespaceOf, Calls
  <2>4. Unchanged(q, D(n)) /\ object'[D(n)] = object[D(n)]
    BY <1>3, <2>1, <2>3 DEF D
  <2>5. ran'[n] = ran[n] /\ rs'[n] \subseteq rs[n]
    <3>1. object'[D(n)].version \notin {0, clock + 1}
      BY <1>1, <1>2, <2>4 DEF Unchanged, Exists
    <3> QED
      BY <2>3, <3>1 DEF ClusterStep
  <2>6. RunsNow(n)' = RunsNow(n)
    BY <2>4 DEF RunsNow, D
  <2>7. HistoryOK(n) /\ HistoryOK(n)'
    BY <2>3 DEF Inv, ClusterStep
  <2>8. PICK s : s \in rs'[n] /\ s.template = RunsNow(n)
    <3>1. rs'[n] # {} /\ Newest(n)'.template = RunsNow(n)'
      BY <2>1 DEF InStep
    <3>2. Newest(n)' \in rs'[n]
      <4>1. \E t \in rs'[n] : \A u \in rs'[n] : u.rev <= t.rev
        <5>1. PICK b \in Nat : b = k + 1
          BY <1>8
        <5>2. \A t \in rs'[n] : t.rev \in 1 .. clock' + 1
          BY <2>7, Zenon DEF HistoryOK
        <5>3. \A t \in rs'[n] : t.rev \in 1 .. b
          BY <1>8, <5>1, <5>2
        <5> QED
          BY <3>1, <5>3, NewestIn
      <4> QED
        BY <4>1 DEF Newest
    <3> QED
      BY <2>6, <3>1, <3>2
  <2>9. InStep(n)
    <3>1. s \in rs[n] /\ s.template = ran[n][Len(ran[n])] /\ Len(ran[n]) > 0
      BY <2>1, <2>5, <2>6, <2>8 DEF Last
    <3>2. \A t \in rs[n] : t.rev <= s.rev
      BY <2>7, <3>1 DEF HistoryOK
    <3>3. Newest(n) = s
      BY <1>1, <2>3, <2>7, <3>1, <3>2, NewestIs
    <3> QED
      BY <2>8, <3>1, <3>3 DEF InStep
  <2> QED
    BY <1>0, <1>4, <2>0, <2>1, <2>3, <2>4, <2>5, <2>6, <2>9 DEF UndoOK
<1> QED
  BY <1>6, <1>7

LEMMA Rest ==
  ASSUME NEW p \in Plans, p # <<>>
  PROVE  /\ Tail(p) \in Plans /\ Head(p) \in Calls
         /\ Len(p) \in Nat /\ Len(p) >= 1
         /\ Len(p) = 1 <=> Tail(p) = <<>>
<1>1. p \in Seq(Calls) /\ Len(p) \in Nat /\ Len(p) >= 1
  BY DEF Plans
<1>2. Tail(p) \in Seq(Calls) /\ Len(Tail(p)) = Len(p) - 1 /\ Head(p) \in Calls /\ Head(p) = p[1]
  BY <1>1
<1>3. Len(p) = 1 <=> Tail(p) = <<>>
  <2>1. Len(<<>>) = 0 /\ (Tail(p) # <<>> => Len(Tail(p)) \in Nat \ {0})
    BY <1>2, EmptySeq
  <2>2. Tail(p) = <<>> <=> Len(Tail(p)) = 0
    BY <2>1, Zenon
  <2> HIDE <2>1
  <2> QED
    BY <1>1, <1>2, <2>2
<1> QED
  BY <1>1, <1>2, <1>3 DEF Plans

\* The fields of a request that a step sets.
LEMMA Updated ==
  ASSUME NEW q, NEW calls, NEW copy, NEW target, NEW pc,
         q = [pc |-> q.pc, calls |-> q.calls, copy |-> q.copy, target |-> q.target]
  PROVE  [q EXCEPT !.calls = calls, !.copy = copy, !.target = target, !.pc = pc] =
           [pc |-> pc, calls |-> calls, copy |-> copy, target |-> target]
<1>1. PICK a, b, c, d : /\ q = [pc |-> a, calls |-> b, copy |-> c, target |-> d]
                        /\ q.pc = a /\ q.calls = b /\ q.copy = c /\ q.target = d
  OBVIOUS
<1> DEFINE q1 == [q EXCEPT !.calls = calls]
           q2 == [q1 EXCEPT !.copy = copy]
           q3 == [q2 EXCEPT !.target = target]
<1>2. q1 = [pc |-> a, calls |-> calls, copy |-> c, target |-> d]
  BY <1>1
<1>3. q2 = [pc |-> a, calls |-> calls, copy |-> copy, target |-> d]
  <2> HIDE DEF q1
  <2> QED BY <1>2
<1>4. q3 = [pc |-> a, calls |-> calls, copy |-> copy, target |-> target]
  <2> HIDE DEF q2
  <2> QED BY <1>3
<1>5. [q3 EXCEPT !.pc = pc] = [pc |-> pc, calls |-> calls, copy |-> copy, target |-> target]
  <2> HIDE DEF q3
  <2> QED BY <1>4
<1> QED
  BY <1>1, <1>5, Zenon

LEMMA CallsSet ==
  ASSUME NEW q, NEW calls, NEW pc,
         q = [pc |-> q.pc, calls |-> q.calls, copy |-> q.copy, target |-> q.target]
  PROVE  [q EXCEPT !.calls = calls, !.pc = pc] =
           [pc |-> pc, calls |-> calls, copy |-> q.copy, target |-> q.target]
<1>1. PICK a, b, c, d : /\ q = [pc |-> a, calls |-> b, copy |-> c, target |-> d]
                        /\ q.pc = a /\ q.calls = b /\ q.copy = c /\ q.target = d
  OBVIOUS
<1> DEFINE q1 == [q EXCEPT !.calls = calls]
<1>2. q1 = [pc |-> a, calls |-> calls, copy |-> c, target |-> d]
  BY <1>1
<1>3. [q1 EXCEPT !.pc = pc] = [pc |-> pc, calls |-> calls, copy |-> c, target |-> d]
  <2> HIDE DEF q1
  <2> QED BY <1>2
<1> QED
  BY <1>1, <1>3, Zenon

LEMMA CopySet ==
  ASSUME NEW q, NEW copy, NEW pc,
         q = [pc |-> q.pc, calls |-> q.calls, copy |-> q.copy, target |-> q.target]
  PROVE  [q EXCEPT !.copy = copy, !.pc = pc] =
           [pc |-> pc, calls |-> q.calls, copy |-> copy, target |-> q.target]
<1>1. PICK a, b, c, d : /\ q = [pc |-> a, calls |-> b, copy |-> c, target |-> d]
                        /\ q.pc = a /\ q.calls = b /\ q.copy = c /\ q.target = d
  OBVIOUS
<1> DEFINE q1 == [q EXCEPT !.copy = copy]
<1>2. q1 = [pc |-> a, calls |-> b, copy |-> copy, target |-> d]
  BY <1>1
<1>3. [q1 EXCEPT !.pc = pc] = [pc |-> pc, calls |-> b, copy |-> copy, target |-> d]
  <2> HIDE DEF q1
  <2> QED BY <1>2
<1> QED
  BY <1>1, <1>3, Zenon

LEMMA PlanSet ==
  ASSUME NEW q, NEW calls,
         q = [pc |-> q.pc, calls |-> q.calls, copy |-> q.copy, target |-> q.target]
  PROVE  [q EXCEPT !.calls = calls] =
           [pc |-> q.pc, calls |-> calls, copy |-> q.copy, target |-> q.target]
<1>1. PICK a, b, c, d : /\ q = [pc |-> a, calls |-> b, copy |-> c, target |-> d]
                        /\ q.pc = a /\ q.calls = b /\ q.copy = c /\ q.target = d
  OBVIOUS
<1>2. [q EXCEPT !.calls = calls] = [pc |-> a, calls |-> calls, copy |-> c, target |-> d]
  BY <1>1
<1> QED
  BY <1>1, <1>2, Zenon

\* A request that holds no copy.
LEMMA Emptied ==
  ASSUME clock' \in Nat, NEW r \in Request, NEW pc \in {"answered", "call"}, NEW calls \in Plans,
         NEW target, pc = "call" => calls # <<>>,
         req'[r] = [pc |-> pc, calls |-> calls, copy |-> Absent, target |-> target]
  PROVE  RequestOK(r)' /\ UndoOK(r)'
<1>1. /\ req'[r].pc = pc /\ req'[r].calls = calls /\ req'[r].copy = Absent
      /\ req'[r] = [pc |-> req'[r].pc, calls |-> req'[r].calls, copy |-> req'[r].copy,
                    target |-> req'[r].target]
  OBVIOUS
<1>2. ASSUME NEW o PROVE ~Unchanged(r, o)'
  <2>1. req'[r].copy.version = 0
    BY <1>1 DEF Absent
  <2> QED
    BY <2>1 DEF Unchanged, Exists
<1>3. PICK c : c = Cur(r)'
  OBVIOUS
<1>4. RequestOK(r)'
  BY <1>1, <1>2, <1>3 DEF RequestOK, Absent
<1>5. UndoOK(r)'
  BY <1>1 DEF UndoOK
<1> QED
  BY <1>4, <1>5

LEMMA CallDone ==
  ASSUME Inv, NEW r \in Request, req[r].calls # <<>>
  PROVE  /\ \E pc \in {"answered", "call"}, calls \in Plans :
              /\ Succeeded(r) = [pc |-> pc, calls |-> calls, copy |-> Absent, target |-> {}]
              /\ pc = "call" <=> calls # <<>>
              /\ pc = "answered" => Len(req[r].calls) = 1
         /\ \E pc \in {"answered", "call"}, calls \in Plans :
              /\ Failed(r) = [pc |-> pc, calls |-> calls, copy |-> Absent, target |-> {}]
              /\ pc = "call" <=> calls # <<>>
<1>1. RequestOK(r)
  BY DEF Inv
<1>2. /\ Tail(req[r].calls) \in Plans /\ Len(req[r].calls) \in Nat
      /\ Len(req[r].calls) = 1 <=> Tail(req[r].calls) = <<>>
  BY <1>1, Rest DEF RequestOK
<1>3. <<>> \in Plans
  BY DEF Plans
<1>4. req[r] = [pc |-> req[r].pc, calls |-> req[r].calls, copy |-> req[r].copy,
                target |-> req[r].target]
  BY <1>1 DEF RequestOK
<1>5. PICK pc : pc = IF Len(req[r].calls) = 1 THEN "answered" ELSE "call"
  OBVIOUS
<1>6. Succeeded(r) = [pc |-> pc, calls |-> Tail(req[r].calls), copy |-> Absent, target |-> {}]
  <2>1. Succeeded(r) = [req[r] EXCEPT !.calls = Tail(req[r].calls), !.copy = Absent, !.target = {}, !.pc = pc]
    BY <1>5, Zenon DEF Succeeded
  <2> QED
    BY <1>4, <2>1, Updated, Zenon
<1>7. Failed(r) \in {[pc |-> "answered", calls |-> <<>>, copy |-> Absent, target |-> {}],
                     Succeeded(r)}
  BY <1>4, Updated DEF Failed
<1> QED
  BY <1>2, <1>3, <1>5, <1>6, <1>7

\* A request whose call is done, or failed, holds no copy.
LEMMA Moved ==
  ASSUME Inv, clock' \in Nat, NEW r \in Request, req[r].calls # <<>>,
         \/ req'[r] = Succeeded(r)
         \/ req'[r] = Failed(r)
  PROVE  RequestOK(r)' /\ UndoOK(r)'
<1>1. PICK pc \in {"answered", "call"}, calls \in Plans :
        /\ req'[r] = [pc |-> pc, calls |-> calls, copy |-> Absent, target |-> {}]
        /\ pc = "call" => calls # <<>>
  BY CallDone
<1> QED
  BY <1>1, Emptied

\* A step of the cluster in which one request moves.
LEMMA OneMoves ==
  ASSUME Inv, ClusterStep, NEW r \in Request, req' = [req EXCEPT ![r] = req'[r]],
         RequestOK(r)', UndoOK(r)'
  PROVE  Inv'
<1>1. ASSUME NEW q \in Request PROVE RequestOK(q)' /\ UndoOK(q)'
  <2>1. CASE q = r
    BY <2>1
  <2>2. CASE q # r
    BY <2>2, OthersKept DEF Inv, Tables
  <2> QED
    BY <2>1, <2>2
<1>2. ObjectsOK'
  BY ObjectsKept DEF Inv
<1>3. Tables'
  BY DEF Inv, Tables, ClusterStep
<1> QED
  BY <1>1, <1>2, <1>3 DEF Inv, ClusterStep

LEMMA NoneMoves ==
  ASSUME Inv, ClusterStep, UNCHANGED req PROVE Inv'
<1>1. ASSUME NEW q \in Request PROVE RequestOK(q)' /\ UndoOK(q)'
  BY OthersKept
<1>2. ObjectsOK'
  BY ObjectsKept DEF Inv
<1>3. Tables'
  BY DEF Inv, Tables, ClusterStep
<1> QED
  BY <1>1, <1>2, <1>3 DEF Inv, ClusterStep

-----------------------------------------------------------------------------
(* The steps of the cluster.                                               *)

LEMMA HistoryKept ==
  ASSUME NEW n \in Namespace, HistoryOK(n), clock \in Nat, clock' \in {clock, clock + 1},
         ran'[n] = ran[n], \A s \in rs'[n] : s \in rs[n]
  PROVE  HistoryOK(n)'
<1>1. ASSUME NEW s \in rs'[n] PROVE s.rev \in 1 .. clock' + 1
  <2>1. s.rev \in 1 .. clock + 1
    BY DEF HistoryOK
  <2> QED
    BY <2>1
<1> QED
  BY <1>1 DEF HistoryOK, IsSequence

LEMMA Still ==
  ASSUME Inv, Unwritten PROVE ClusterStep
<1>1. clock' = clock /\ clock \in Nat
  BY DEF Inv, ObjectsOK, Unwritten
<1>2. object' = object /\ accepted' = accepted /\ rs' = rs /\ ran' = ran
  BY DEF Unwritten, history
<1>3. \A n \in Namespace : HistoryOK(n)'
  BY <1>1, <1>2, HistoryKept DEF Inv
<1>4. NoWriteLost'
  BY <1>2 DEF Inv, NoWriteLost, Exists
<1> QED
  BY <1>1, <1>2, <1>3, <1>4 DEF ClusterStep, Inv, ObjectsOK, Tables

LEMMA Written ==
  ASSUME Inv, NEW o \in Object, NEW field, clock' = clock + 1,
         object' = [object EXCEPT ![o] = Stored(field)], accepted' = [accepted EXCEPT ![o] = field],
         UNCHANGED history
  PROVE  ClusterStep
<1>1. clock' = clock + 1 /\ clock \in Nat
  BY DEF Inv, ObjectsOK
<1>2. rs' = rs /\ ran' = ran
  BY DEF history
<1>3. \A n \in Namespace : HistoryOK(n)'
  BY <1>1, <1>2, HistoryKept DEF Inv
<1>4. object = [p \in Object |-> object[p]] /\ accepted = [p \in Object |-> accepted[p]]
  BY DEF Inv, ObjectsOK
<1>5. object'[o] = Stored(field) /\ accepted'[o] = field
  BY <1>4
<1>6. \A p \in Object : p # o => object'[p] = object[p] /\ accepted'[p] = accepted[p]
  BY <1>4
<1>7. object' = [p \in Object |-> object'[p]] /\ accepted' = [p \in Object |-> accepted'[p]]
  BY <1>4
<1>8. NoWriteLost'
  BY <1>5, <1>6 DEF Inv, NoWriteLost, Exists, Stored
<1>9. object'[o].version = clock + 1
  BY <1>5 DEF Stored
<1> QED
  BY <1>1, <1>2, <1>3, <1>6, <1>7, <1>8, <1>9 DEF ClusterStep, Inv, Tables

LEMMA Accepted ==
  ASSUME Inv, NEW r \in Request, req[r].calls # <<>>, NEW o \in Object, NEW field, Accept(r, o, field, field)
  PROVE  Inv'
<1>1. ClusterStep
  BY Written DEF Accept
<1>2. req = [q \in Request |-> req[q]] /\ clock' \in Nat
  BY DEF Inv, Tables, ObjectsOK, Accept
<1>3. \/ req'[r] = Succeeded(r)
      \/ req'[r] = Failed(r)
  BY <1>2 DEF Accept, Sets
<1>4. req' = [req EXCEPT ![r] = req'[r]]
  BY <1>2 DEF Accept, Sets
<1> QED
  BY <1>1, <1>2, <1>3, <1>4, Moved, OneMoves

\* A call that fails and writes nothing.
LEMMA FailedHere ==
  ASSUME Inv, NEW r \in Request, req[r].calls # <<>>, Sets(r, Failed(r)), Unwritten
  PROVE  Inv'
<1>1. ClusterStep
  BY Still
<1>2. req = [q \in Request |-> req[q]] /\ clock' \in Nat
  BY DEF Inv, Tables, ObjectsOK, Unwritten
<1>3. req'[r] = Failed(r) /\ req' = [req EXCEPT ![r] = req'[r]]
  BY <1>2 DEF Sets
<1> QED
  BY <1>1, <1>2, <1>3, Moved, OneMoves

-----------------------------------------------------------------------------
(* The steps of a request.                                                 *)

LEMMA InCall ==
  ASSUME Inv, NEW r \in Request, req[r].pc \in {"call", "list", "put"}
  PROVE  /\ req[r].calls # <<>> /\ Cur(r) \in Calls
         /\ Cur(r).object \in Object /\ Cur(r).from \in Object
<1>1. req[r].calls \in Plans /\ req[r].calls # <<>>
  BY DEF Inv, RequestOK
<1>2. Cur(r) \in Calls
  BY <1>1, Rest DEF Cur
<1> QED
  BY <1>1, <1>2 DEF Calls

\* The copy a request puts back was made from what is stored.
LEMMA CopyIsCurrent ==
  ASSUME Inv, NEW r \in Request, req[r].pc = "put", Cur(r).verb \in {"modify", "undo"},
         Unchanged(r, Cur(r).object)
  PROVE  req[r].copy.field = accepted[Cur(r).object]
<1>1. req[r].calls # <<>> /\ Cur(r).object \in Object /\ Cur(r).from = Cur(r).object
  BY InCall DEF Calls
<1>2. req[r].copy.field = object[Cur(r).object].field
  BY <1>1 DEF Inv, RequestOK
<1> QED
  BY <1>1, <1>2 DEF Inv, NoWriteLost, Unchanged

LEMMA RefusedKeeps ==
  ASSUME Inv, NEW r \in Request, Refused(r) PROVE Inv'
  BY InCall, FailedHere DEF Refused

LEMMA PutKeeps ==
  ASSUME Inv, NEW r \in Request, Put(r) PROVE Inv'
<1>1. req[r].calls # <<>> /\ Cur(r).object \in Object
  BY InCall DEF Put
<1>2. CASE Unchanged(r, Cur(r).object)
  <2>1. req[r].copy.field = accepted[Cur(r).object]
    BY <1>2, CopyIsCurrent DEF Put
  <2>2. Accept(r, Cur(r).object, Changed(req[r].copy.field, Cur(r).parts), Changed(accepted[Cur(r).object], Cur(r).parts))
    BY <1>2 DEF Put
  <2> QED
    BY <1>1, <2>1, <2>2, Accepted
<1>3. CASE ~Unchanged(r, Cur(r).object)
  BY <1>1, <1>3, FailedHere DEF Put
<1> QED
  BY <1>2, <1>3

LEMMA PutTemplateKeeps ==
  ASSUME Inv, NEW r \in Request, PutTemplate(r) PROVE Inv'
<1>1. req[r].calls # <<>> /\ Cur(r).object \in Object
  BY InCall DEF PutTemplate
<1>2. CASE Unchanged(r, Cur(r).object)
  <2>1. req[r].copy.field = accepted[Cur(r).object]
    BY <1>2, CopyIsCurrent DEF PutTemplate
  <2>2. \E field : Accept(r, Cur(r).object, field, field)
    BY <1>2, <2>1 DEF PutTemplate
  <2> QED
    BY <1>1, <2>2, Accepted
<1>3. CASE ~Unchanged(r, Cur(r).object)
  BY <1>1, <1>3, FailedHere DEF PutTemplate
<1> QED
  BY <1>2, <1>3

LEMMA PostKeeps ==
  ASSUME Inv, NEW r \in Request, Post(r) PROVE Inv'
<1>1. req[r].calls # <<>> /\ Cur(r).object \in Object
  BY InCall DEF Post
<1>2. CASE Creatable(Cur(r).object)
  <2>1. \E field : Accept(r, Cur(r).object, field, field)
    BY <1>2 DEF Post
  <2> QED
    BY <1>1, <2>1, Accepted
<1>3. CASE ~Creatable(Cur(r).object)
  BY <1>1, <1>3, FailedHere DEF Post
<1> QED
  BY <1>2, <1>3

LEMMA PatchKeeps ==
  ASSUME Inv, NEW r \in Request, Patch(r) PROVE Inv'
<1>1. req[r].calls # <<>> /\ Cur(r).object \in Object
  BY InCall DEF Patch
<1>2. CASE \E field : Accept(r, Cur(r).object, field, field)
  BY <1>1, <1>2, Accepted
<1>3. CASE Sets(r, Failed(r)) /\ Unwritten
  BY <1>1, <1>3, FailedHere
<1>4. ASSUME Exists(Cur(r).object) PROVE object[Cur(r).object].field = accepted[Cur(r).object]
  BY <1>1, <1>4 DEF Inv, NoWriteLost
<1> QED
  BY <1>2, <1>3, <1>4 DEF Patch

\* A step of one request that writes nothing.
LEMMA RequestAlone ==
  ASSUME Inv, NEW r \in Request, NEW state, Sets(r, state), Unwritten
  PROVE  /\ ClusterStep /\ object' = object /\ clock' = clock /\ clock' \in Nat
         /\ rs' = rs /\ ran' = ran
         /\ req'[r] = state /\ req' = [req EXCEPT ![r] = req'[r]]
  BY Still DEF Inv, Tables, ObjectsOK, Unwritten, history, Sets

LEMMA StartKeeps ==
  ASSUME Inv, NEW r \in Request, NEW p \in Plans, Start(r, p) PROVE Inv'
<1>1. PICK pc \in {"answered", "call"} : /\ Sets(r, [req[r] EXCEPT !.calls = p, !.pc = pc])
                                         /\ pc = "call" => p # <<>>
  BY DEF Start
<1>2. RequestOK(r) /\ req[r].copy = Absent
  BY DEF Inv, RequestOK, Start
<1>3. [req[r] EXCEPT !.calls = p, !.pc = pc] =
        [pc |-> pc, calls |-> p, copy |-> Absent, target |-> req[r].target]
  <2>1. req[r] = [pc |-> req[r].pc, calls |-> req[r].calls, copy |-> req[r].copy,
                  target |-> req[r].target]
    BY <1>2 DEF RequestOK
  <2>2. [req[r] EXCEPT !.calls = p, !.pc = pc] =
          [pc |-> pc, calls |-> p, copy |-> req[r].copy, target |-> req[r].target]
    BY <2>1, CallsSet, Zenon
  <2> QED
    BY <1>2, <2>2, Zenon
<1>4. PICK state : /\ state = [pc |-> pc, calls |-> p, copy |-> Absent, target |-> req[r].target]
                   /\ Sets(r, state)
  BY <1>1, <1>3
<1>5. /\ ClusterStep /\ clock' \in Nat
      /\ req'[r] = state /\ req' = [req EXCEPT ![r] = req'[r]]
  BY <1>4, RequestAlone DEF Start
<1>6. RequestOK(r)' /\ UndoOK(r)'
  BY <1>1, <1>4, <1>5, Emptied
<1> QED
  BY <1>5, <1>6, OneMoves

LEMMA GetKeeps ==
  ASSUME Inv, NEW r \in Request, Get(r) PROVE Inv'
<1>1. req[r].calls # <<>> /\ Cur(r).from \in Object
  BY InCall DEF Get
<1>2. CASE ~Exists(Cur(r).from)
  BY <1>1, <1>2, FailedHere DEF Get
<1>3. CASE Exists(Cur(r).from)
  <2>1. PICK c : c = Cur(r)
    OBVIOUS
  <2>2. PICK pc : pc = IF c.verb = "undo" THEN "list" ELSE "put"
    OBVIOUS
  <2>3. RequestOK(r) /\ ObjectsOK
    BY DEF Inv
  <2>4. PICK state :
          /\ state = [pc |-> pc, calls |-> req[r].calls, copy |-> object[c.from],
                      target |-> req[r].target]
          /\ Sets(r, state)
    <3>1. Sets(r, [req[r] EXCEPT !.copy = object[c.from], !.pc = pc])
      BY <1>3, <2>1, <2>2 DEF Get
    <3>2. req[r] = [pc |-> req[r].pc, calls |-> req[r].calls, copy |-> req[r].copy,
                    target |-> req[r].target]
      BY <2>3 DEF RequestOK
    <3>3. [req[r] EXCEPT !.copy = object[c.from], !.pc = pc] =
            [pc |-> pc, calls |-> req[r].calls, copy |-> object[c.from],
             target |-> req[r].target]
      BY <3>2, CopySet, Zenon
    <3> QED
      BY <3>1, <3>3
  <2>5. /\ ClusterStep /\ object' = object /\ clock' = clock
        /\ req'[r] = state /\ req' = [req EXCEPT ![r] = req'[r]]
    BY <1>3, <2>4, RequestAlone DEF Get
  <2>6. /\ req'[r].pc = pc /\ req'[r].calls = req[r].calls /\ req'[r].copy = object[c.from]
        /\ req'[r] = [pc |-> req'[r].pc, calls |-> req'[r].calls, copy |-> req'[r].copy,
                      target |-> req'[r].target]
    BY <2>4, <2>5
  <2>7. c = Cur(r)'
    BY <2>1, <2>6 DEF Cur
  <2>8. RequestOK(r)'
    <3>1. req'[r].copy.version \in 0..clock'
      BY <1>1, <2>1, <2>3, <2>5, <2>6 DEF ObjectsOK
    <3>2. req'[r].copy.field = object'[c.from].field
      BY <2>5, <2>6
    <3>3. pc \in {"list", "put"}
      BY <2>2
    <3> QED
      BY <1>1, <2>3, <2>6, <2>7, <3>1, <3>2, <3>3 DEF RequestOK
  <2>9. UndoOK(r)'
    <3>1. ~(req'[r].pc = "put" /\ c.verb = "undo")
      BY <2>2, <2>6
    <3> QED
      BY <2>7, <3>1 DEF UndoOK
  <2> QED
    BY <2>5, <2>8, <2>9, OneMoves
<1> QED
  BY <1>2, <1>3

\* A call takes the place of the current one.
LEMMA InsteadKeeps ==
  ASSUME Inv, NEW r \in Request, req[r].pc = "call", NEW c \in Calls, Sets(r, Instead(r, c)), Unwritten
  PROVE  Inv'
<1>1. req[r].calls # <<>> /\ RequestOK(r) /\ req[r].copy = Absent
  BY InCall DEF Inv, RequestOK
<1>2. PICK calls \in Plans : calls = <<c>> \o Tail(req[r].calls)
  <2>1. Tail(req[r].calls) \in Plans
    BY <1>1, Rest DEF RequestOK
  <2> QED
    BY <2>1, Followed
<1>3. calls # <<>>
  BY <1>2
<1>4. PICK state :
        /\ state = [pc |-> "call", calls |-> calls, copy |-> Absent, target |-> req[r].target]
        /\ Sets(r, state)
  <2>1. Sets(r, [req[r] EXCEPT !.calls = calls])
    BY <1>2 DEF Instead
  <2>2. req[r] = [pc |-> req[r].pc, calls |-> req[r].calls, copy |-> req[r].copy,
                  target |-> req[r].target]
    BY <1>1 DEF RequestOK
  <2>3. [req[r] EXCEPT !.calls = calls] =
          [pc |-> req[r].pc, calls |-> calls, copy |-> req[r].copy, target |-> req[r].target]
    BY <2>2, PlanSet, Zenon
  <2> QED
    BY <1>1, <2>1, <2>3
<1>5. /\ ClusterStep /\ clock' \in Nat
      /\ req'[r] = state /\ req' = [req EXCEPT ![r] = req'[r]]
  BY <1>4, RequestAlone
<1>6. RequestOK(r)' /\ UndoOK(r)'
  BY <1>3, <1>4, <1>5, Emptied
<1> QED
  BY <1>5, <1>6, OneMoves

\* A call that is done and writes nothing.
LEMMA SucceededHere ==
  ASSUME Inv, NEW r \in Request, req[r].calls # <<>>, Sets(r, Succeeded(r)), Unwritten
  PROVE  Inv'
  BY RequestAlone, Moved, OneMoves

LEMMA ObjectCalls ==
  ASSUME NEW o \in Object
  PROVE  /\ FieldsOf(o) \subseteq FieldName
         /\ Create(o) \in Calls /\ Delete(o) \in Calls /\ GoOn(Modify(o, FieldsOf(o))) \in Calls
<1>1. FieldsOf(o) \subseteq FieldName
  BY NamespacedObject, WideObject DEF Object, On, Wide
<1> QED
  BY <1>1, Makes, Deletes, Modifies

LEMMA EnsureKeeps ==
  ASSUME Inv, NEW r \in Request, Ensure(r) PROVE Inv'
<1>1. req[r].pc = "call" /\ req[r].calls # <<>> /\ Create(Cur(r).object) \in Calls
  BY InCall, ObjectCalls DEF Ensure
<1> QED
  BY <1>1, SucceededHere, InsteadKeeps DEF Ensure

LEMMA FindKeeps ==
  ASSUME Inv, NEW r \in Request, Find(r) PROVE Inv'
<1>1. req[r].pc = "call" /\ req[r].calls # <<>> /\ Delete(Cur(r).object) \in Calls
  BY InCall, ObjectCalls DEF Find
<1> QED
  BY <1>1, SucceededHere, InsteadKeeps DEF Find

LEMMA PostOrPutKeeps ==
  ASSUME Inv, NEW r \in Request, PostOrPut(r) PROVE Inv'
<1>1. PICK o \in Object : o = Cur(r).object
  BY InCall DEF PostOrPut
<1>2. req[r].pc = "call" /\ req[r].calls # <<>> /\ GoOn(Modify(o, FieldsOf(o))) \in Calls
  BY InCall, ObjectCalls DEF PostOrPut
<1>3. CASE \E field : Accept(r, o, field, field)
  BY <1>1, <1>2, <1>3, Accepted
<1>4. CASE Sets(r, Instead(r, GoOn(Modify(o, FieldsOf(o))))) /\ Unwritten
  BY <1>2, <1>4, InsteadKeeps
<1>5. CASE Sets(r, Failed(r)) /\ Unwritten
  BY <1>2, <1>5, FailedHere
<1> QED
  BY <1>1, <1>3, <1>4, <1>5 DEF PostOrPut


\* The list that UndoIsPrevious is about.
LEMMA PreviousListed ==
  ASSUME Inv, NEW n \in Namespace, Len(ran[n]) > 1, RunsNow(n) = Last(ran[n]), InStep(n),
         NEW s \in rs[n], s.template = ran[n][Len(ran[n]) - 1]
  PROVE  TargetRS(n, 0) = {s.template}
<1>1. HistoryOK(n) /\ clock \in Nat
  BY DEF Inv, ObjectsOK
<1>2. PICK new \in rs[n] : new = Newest(n) /\ new.template = ran[n][Len(ran[n])] /\ \A t \in rs[n] : t.rev <= new.rev
  BY <1>1, NewestThere DEF InStep, Last
<1>3. s.rev \in Nat /\ new.rev \in Nat
  BY <1>1 DEF HistoryOK
<1>4. \/ new.rev <= s.rev
      \/ new.rev = s.rev + 1
  BY <1>1 DEF HistoryOK
<1>5. s.rev # new.rev
  BY <1>1, <1>2 DEF HistoryOK
<1>6. s.rev = new.rev - 1
  BY <1>2, <1>3, <1>4, <1>5
<1>7. ASSUME NEW t \in rs[n], t.rev = new.rev - 1 PROVE t = s
  BY <1>1, <1>6, <1>7 DEF HistoryOK
<1>8. TargetRS(n, 0) = {t.template : t \in {u \in rs[n] : u.rev = new.rev - 1}}
  BY <1>2 DEF TargetRS
<1> QED
  BY <1>6, <1>7, <1>8

LEMMA ListKeeps ==
  ASSUME Inv, NEW r \in Request, List(r) PROVE Inv'
<1>1. req[r].calls # <<>> /\ Cur(r) \in Calls /\ RequestOK(r)
  BY InCall DEF List, Inv
<1>2. PICK c, n, target : c = Cur(r) /\ n = NamespaceOf(c.object) /\ target = TargetRS(n, c.rev)
  OBVIOUS
<1>3. CASE target = {}
  BY <1>1, <1>2, <1>3, FailedHere DEF List
<1>4. CASE target # {}
  <2>1. PICK state :
          /\ state = [pc |-> "put", calls |-> req[r].calls, copy |-> req[r].copy,
                      target |-> target]
          /\ Sets(r, state)
    <3>0. PICK pc : pc = "put"
      OBVIOUS
    <3>1. Sets(r, [req[r] EXCEPT !.target = target, !.pc = pc])
      BY <1>2, <1>4, <3>0 DEF List
    <3>2. PICK q : /\ q = req[r]
                   /\ q = [pc |-> q.pc, calls |-> q.calls, copy |-> q.copy, target |-> q.target]
      BY <1>1 DEF RequestOK
    <3> DEFINE q1 == [q EXCEPT !.target = target]
    <3>3. q1 = [pc |-> q.pc, calls |-> q.calls, copy |-> q.copy, target |-> target]
      BY <3>2
    <3>4. [q1 EXCEPT !.pc = pc] = [pc |-> pc, calls |-> q.calls, copy |-> q.copy, target |-> target]
      <4> HIDE DEF q1
      <4> QED BY <3>3
    <3>5. [q EXCEPT !.target = target, !.pc = pc] =
            [pc |-> pc, calls |-> q.calls, copy |-> q.copy, target |-> target]
      BY <3>4, Zenon
    <3> QED
      BY <3>0, <3>1, <3>2, <3>5
  <2>2. /\ ClusterStep /\ object' = object /\ clock' = clock /\ rs' = rs /\ ran' = ran
        /\ req'[r] = state /\ req' = [req EXCEPT ![r] = req'[r]]
    BY <2>1, RequestAlone DEF List
  <2>3. /\ req'[r].pc = "put" /\ req'[r].calls = req[r].calls /\ req'[r].copy = req[r].copy
        /\ req'[r].target = target
        /\ req'[r] = [pc |-> req'[r].pc, calls |-> req'[r].calls, copy |-> req'[r].copy,
                      target |-> req'[r].target]
    BY <2>1, <2>2
  <2>4. c = Cur(r)'
    BY <1>2, <2>3 DEF Cur
  <2>5. RequestOK(r)'
    <3>1. Unchanged(r, c.from)' = Unchanged(r, c.from)
      BY <2>2, <2>3 DEF Unchanged, Exists
    <3> QED
      BY <1>1, <1>2, <2>2, <2>3, <2>4, <3>1 DEF RequestOK
  <2>6. UndoOK(r)'
    <3>1. SUFFICES ASSUME c.verb = "undo", c.rev = 0,
                          Len(ran'[n]) > 1, RunsNow(n)' = Last(ran'[n]), InStep(n)',
                          \E s \in rs'[n] : s.template = ran'[n][Len(ran'[n]) - 1]
                   PROVE  target = {ran'[n][Len(ran'[n]) - 1]}
      BY <1>2, <2>3, <2>4 DEF UndoOK, NamespaceOf
    <3>2. n \in Namespace
      BY <1>1, <1>2, <3>1 DEF Calls, NamespaceOf
    <3>3. Len(ran[n]) > 1 /\ RunsNow(n) = Last(ran[n]) /\ InStep(n)
      BY <2>2, <3>1 DEF RunsNow, InStep, Newest
    <3>4. PICK s \in rs[n] : s.template = ran[n][Len(ran[n]) - 1]
      BY <2>2, <3>1
    <3>5. TargetRS(n, 0) = {s.template}
      BY <3>2, <3>3, <3>4, PreviousListed
    <3> QED
      BY <1>2, <2>2, <3>1, <3>4, <3>5
  <2> QED
    BY <2>2, <2>5, <2>6, OneMoves
<1> QED
  BY <1>3, <1>4

LEMMA DropKeeps ==
  ASSUME Inv, NEW r \in Request, Drop(r) PROVE Inv'
<1>1. req[r].calls # <<>>
  BY InCall DEF Drop
<1>2. CASE ~Exists(Cur(r).object)
  BY <1>1, <1>2, FailedHere DEF Drop
<1>3. CASE Exists(Cur(r).object)
  <2>1. PICK gone, undeployed :
          /\ undeployed = {n \in Namespace : D(n) \in gone}
          /\ object' = [o \in Object |-> IF o \in gone THEN Absent ELSE object[o]]
          /\ accepted' = [o \in Object |-> IF o \in gone THEN Stamped(o, 1) ELSE accepted[o]]
          /\ rs' = [n \in Namespace |-> IF n \in undeployed THEN {} ELSE rs[n]]
          /\ ran' = [n \in Namespace |-> IF n \in undeployed THEN <<>> ELSE ran[n]]
    <3>1. PICK gone : gone = Gone(Cur(r).object)
      OBVIOUS
    <3>2. PICK undeployed : undeployed = {n \in Namespace : <<"deployments", n>> \in gone}
      OBVIOUS
    <3>3. /\ object' = [o \in Object |-> IF o \in gone THEN Absent ELSE object[o]]
          /\ accepted' = [o \in Object |-> IF o \in gone THEN Stamped(o, 1) ELSE accepted[o]]
      BY <1>3, <3>1 DEF Drop
    <3>4. rs' = [n \in Namespace |-> IF n \in undeployed THEN {} ELSE rs[n]]
      BY <1>3, <3>1, <3>2 DEF Drop
    <3>5. ran' = [n \in Namespace |-> IF n \in undeployed THEN <<>> ELSE ran[n]]
      BY <1>3, <3>1, <3>2 DEF Drop
    <3> QED
      BY <3>2, <3>3, <3>4, <3>5 DEF D
  <2>2. clock' = clock /\ clock \in Nat
    BY <1>3 DEF Drop, Inv, ObjectsOK
  <2>3. \A n \in Namespace : HistoryOK(n)'
    <3> SUFFICES ASSUME NEW n \in Namespace PROVE HistoryOK(n)'
      OBVIOUS
    <3>1. CASE n \in undeployed
      <4>1. rs'[n] = {} /\ ran'[n] = <<>>
        BY <2>1, <3>1
      <4>2. IsSequence(ran[n])' /\ Len(ran'[n]) = 0
        BY <4>1 DEF IsSequence
      <4> QED
        BY <4>1, <4>2 DEF HistoryOK
    <3>2. CASE n \notin undeployed
      <4>1. rs'[n] = rs[n] /\ ran'[n] = ran[n]
        BY <2>1, <3>2
      <4> QED
        BY <2>2, <4>1, HistoryKept DEF Inv
    <3> QED
      BY <3>1, <3>2
  <2>4. NoWriteLost'
    BY <2>1 DEF Inv, NoWriteLost, Exists, Absent
  <2>5. ASSUME NEW n \in Namespace
        PROVE  \/ object'[D(n)].version = 0
               \/ ran'[n] = ran[n] /\ rs'[n] \subseteq rs[n]
    <3>1. D(n) \in Object
      BY NamespacedObject, Kinds DEF D, On
    <3> QED
      BY <2>1, <3>1 DEF Absent
  <2>6. ClusterStep
    BY <2>1, <2>2, <2>3, <2>4, <2>5 DEF ClusterStep, Absent
  <2>7. req = [q \in Request |-> req[q]]
    BY DEF Inv, Tables
  <2>8. /\ req' = [req EXCEPT ![r] = req'[r]]
        /\ req'[r] = Succeeded(r) \/ req'[r] = Failed(r)
    BY <1>3, <2>7 DEF Drop, Sets
  <2> QED
    BY <1>1, <2>2, <2>6, <2>8, Moved, OneMoves
<1> QED
  BY <1>2, <1>3

LEMMA DropReplicaSetKeeps ==
  ASSUME Inv, NEW r \in Request, DropReplicaSet(r) PROVE Inv'
<1>1. req[r].calls # <<>>
  BY InCall DEF DropReplicaSet
<1>2. CASE Sets(r, Failed(r)) /\ Unwritten
  BY <1>1, <1>2, FailedHere
<1>3. CASE \E n, pruned : /\ rs' = [rs EXCEPT ![n] = @ \ pruned]
                          /\ Sets(r, Succeeded(r)) \/ Sets(r, Failed(r))
                          /\ UNCHANGED <<object, accepted, ran, clock>>
  <2>1. PICK n, pruned : rs' = [rs EXCEPT ![n] = @ \ pruned]
    BY <1>3
  <2>2. /\ Sets(r, Succeeded(r)) \/ Sets(r, Failed(r))
        /\ object' = object /\ accepted' = accepted /\ ran' = ran /\ clock' = clock
    BY <1>3
  <2>3. /\ req = [q \in Request |-> req[q]] /\ rs = [m \in Namespace |-> rs[m]]
        /\ ran = [m \in Namespace |-> ran[m]] /\ clock \in Nat
        /\ object = [o \in Object |-> object[o]] /\ accepted = [o \in Object |-> accepted[o]]
    BY DEF Inv, Tables, ObjectsOK
  <2>4. /\ rs' = [m \in Namespace |-> rs'[m]]
        /\ \A m \in Namespace : rs'[m] \subseteq rs[m]
    BY <2>1, <2>3
  <2>5. \A m \in Namespace : HistoryOK(m)'
    BY <2>2, <2>3, <2>4, HistoryKept DEF Inv
  <2>6. NoWriteLost'
    BY <2>2 DEF Inv, NoWriteLost, Exists
  <2>7. ClusterStep
    BY <2>2, <2>3, <2>4, <2>5, <2>6 DEF ClusterStep
  <2>8. /\ req' = [req EXCEPT ![r] = req'[r]]
        /\ req'[r] = Succeeded(r) \/ req'[r] = Failed(r)
    BY <2>2, <2>3 DEF Sets
  <2> QED
    BY <1>1, <2>2, <2>3, <2>7, <2>8, Moved, OneMoves
<1> QED
  BY <1>2, <1>3 DEF DropReplicaSet

LEMMA SequenceOfOwn ==
  ASSUME NEW S, NEW t \in Seq(S) PROVE IsSequence(t)
<1>1. PICK R : R = {t[i] : i \in DOMAIN t}
  OBVIOUS
<1>2. PICK n \in Nat : t \in [1 .. n -> R]
  <2>1. t \in [1 .. Len(t) -> R] /\ Len(t) \in Nat
    BY <1>1
  <2> QED
    BY <2>1, Zenon
<1>3. t \in Seq(R)
  BY <1>2, SeqDef, Zenon
<1> QED
  BY <1>1, <1>3 DEF IsSequence

LEMMA Appended ==
  ASSUME NEW s, IsSequence(s), NEW x
  PROVE  /\ Len(s) \in Nat /\ (s = <<>> <=> Len(s) = 0)
         /\ IsSequence(Append(s, x)) /\ Len(Append(s, x)) = Len(s) + 1
         /\ Append(s, x)[Len(s) + 1] = x
         /\ \A i \in 1 .. Len(s) : Append(s, x)[i] = s[i]
<1>1. PICK S : s \in Seq(S)
  BY DEF IsSequence
<1>2. s \in Seq(S \cup {x})
  BY <1>1
<1>3. /\ Append(s, x) \in Seq(S \cup {x}) /\ Len(Append(s, x)) = Len(s) + 1
      /\ Append(s, x)[Len(s) + 1] = x
      /\ \A i \in 1 .. Len(s) : Append(s, x)[i] = s[i]
  BY <1>2, AppendProperties
<1>4. IsSequence(Append(s, x))
  BY <1>3, SequenceOfOwn
<1>5. Len(s) \in Nat
  BY <1>1
<1>6. s = <<>> <=> Len(s) = 0
  BY <1>1, EmptySeq
<1> QED
  BY <1>3, <1>4, <1>5, <1>6

\* What the controller has recorded after it has caught up with the template.
LEMMA Recorded ==
  ASSUME Inv, NEW n \in Namespace, Reconcile(n) PROVE HistoryOK(n)'
<1>1. HistoryOK(n) /\ clock \in Nat /\ rs = [m \in Namespace |-> rs[m]] /\ ran = [m \in Namespace |-> ran[m]]
  BY DEF Inv, ObjectsOK, Tables
<1>2. clock' = clock + 1
  BY DEF Reconcile
<1>3. PICK T, k, seen : T = RunsNow(n) /\ k = Len(ran[n]) /\ seen = ran[n]
  OBVIOUS
<1>4. PICK rev : rev = IF rs[n] = {} THEN 1 ELSE Newest(n).rev + 1
  OBVIOUS
<1>5. PICK new : new = [rev |-> rev, template |-> T]
  OBVIOUS
<1>6. new.rev = rev /\ new.template = T
  BY <1>5
<1>7. rs'[n] = {s \in rs[n] : s.template # T} \cup {new}
  BY <1>1, <1>3, <1>4, <1>5 DEF Reconcile
<1>8. /\ rev \in 1 .. clock' + 1
      /\ \A s \in rs[n] : s.rev \in Nat /\ s.rev < rev
  <2>1. CASE rs[n] = {}
    BY <1>1, <1>2, <1>4, <2>1
  <2>2. CASE rs[n] # {}
    <3>1. Newest(n) \in rs[n] /\ \A t \in rs[n] : t.rev <= Newest(n).rev
      BY <1>1, <2>2, NewestThere
    <3>2. \A t \in rs[n] : t.rev \in 1 .. clock + 1
      BY <1>1 DEF HistoryOK
    <3>3. PICK m \in 1 .. clock + 1 : m = Newest(n).rev
      BY <3>1, <3>2
    <3>4. rev = m + 1
      BY <1>4, <2>2, <3>3
    <3> QED
      BY <1>1, <1>2, <3>1, <3>2, <3>3, <3>4
  <2> QED
    BY <2>1, <2>2
<1>9. \A s \in rs'[n] : s.rev \in 1 .. clock' + 1
  <2>1. \A s \in rs[n] : s.rev \in 1 .. clock + 1
    BY <1>1 DEF HistoryOK
  <2>2. \A s \in rs[n] : s.rev \in 1 .. clock' + 1
    BY <1>1, <1>2, <2>1
  <2> QED
    BY <1>6, <1>7, <1>8, <2>2
<1>10. \A s, t \in rs'[n] : s.rev = t.rev \/ s.template = t.template => s = t
  <2>1. \A s, t \in rs[n] : s.rev = t.rev \/ s.template = t.template => s = t
    BY <1>1 DEF HistoryOK
  <2>2. \A s \in rs[n] : s.rev # new.rev
    BY <1>6, <1>8
  <2> QED
    BY <1>6, <1>7, <2>1, <2>2
<1>11. \A s, t \in rs'[n] : s.template = T => t.rev <= s.rev
  <2>1. \A t \in rs'[n] : t.rev <= new.rev
    BY <1>6, <1>7, <1>8
  <2>2. \A s \in rs'[n] : s.template = T => s = new
    BY <1>7
  <2> QED
    BY <2>1, <2>2
<1>12. IsSequence(seen) /\ k \in Nat
  BY <1>1, <1>3, Appended DEF HistoryOK
<1>13. CASE seen # <<>> /\ Last(seen) = T
  <2>1. ran'[n] = seen /\ k > 0 /\ seen[k] = T
    BY <1>1, <1>3, <1>12, <1>13, Appended DEF Reconcile, Last
  <2>2. ASSUME k > 1, NEW s \in rs'[n], NEW t \in rs'[n], s.template = seen[k - 1]
        PROVE  \/ t.rev <= s.rev
               \/ t.template = seen[k] /\ t.rev = s.rev + 1
    <3>1. seen[k - 1] # seen[k]
      BY <1>1, <1>3, <2>2 DEF HistoryOK
    <3>2. s \in rs[n]
      BY <1>6, <1>7, <2>1, <2>2, <3>1
    <3>3. PICK top \in rs[n] : top = Newest(n) /\ \A u \in rs[n] : u.rev <= top.rev
      BY <1>1, <3>2, NewestThere
    <3>4. top.template # T
      BY <1>3, <3>2, <3>3 DEF Reconcile, InStep
    <3>5. top.rev <= s.rev
      BY <1>1, <1>3, <2>1, <2>2, <3>2, <3>4 DEF HistoryOK
    <3>6. top.rev = s.rev /\ rev = s.rev + 1
      BY <1>4, <1>8, <3>2, <3>3, <3>5
    <3> QED
      BY <1>6, <1>7, <2>1, <3>3, <3>6
  <2>3. k > 1 => seen[k - 1] # seen[k]
    BY <1>1, <1>3 DEF HistoryOK
  <2>4. \A s, t \in rs'[n] : s.template = seen[k] => t.rev <= s.rev
    BY <1>11, <2>1
  <2> QED
    BY <1>3, <1>9, <1>10, <1>12, <2>1, <2>2, <2>3, <2>4 DEF HistoryOK
<1>14. CASE ~(seen # <<>> /\ Last(seen) = T)
  <2>1. PICK longer : longer = Append(seen, T) /\ ran'[n] = longer
    BY <1>1, <1>3, <1>14 DEF Reconcile
  <2>2. /\ IsSequence(longer) /\ Len(longer) = k + 1 /\ longer[k + 1] = T
        /\ k > 0 => longer[k] = seen[k]
    BY <1>3, <1>12, <2>1, Appended
  <2>3. k > 0 => seen[k] # T
    BY <1>3, <1>12, <1>14, Appended DEF Last
  <2>4. ASSUME k > 0, NEW s \in rs'[n], NEW t \in rs'[n], s.template = seen[k]
        PROVE  \/ t.rev <= s.rev
               \/ t.template = T /\ t.rev = s.rev + 1
    <3>1. s \in rs[n]
      BY <1>6, <1>7, <2>3, <2>4
    <3>2. \A u \in rs[n] : u.rev <= s.rev
      BY <1>1, <1>3, <2>4, <3>1 DEF HistoryOK
    <3>3. Newest(n) = s
      BY <1>1, <3>1, <3>2, NewestIs
    <3>4. rev = s.rev + 1
      BY <1>4, <3>1, <3>3
    <3> QED
      BY <1>6, <1>7, <3>2, <3>4
  <2>5. PICK l : l = k + 1 /\ l - 1 = k /\ (l > 1 <=> k > 0) /\ l > 0
    BY <1>12
  <2>6. /\ Len(longer) = l /\ longer[l] = T
        /\ l > 1 => longer[l - 1] = seen[k] /\ k > 0
    BY <2>2, <2>5
  <2>7. l > 1 => longer[l - 1] # longer[l]
    BY <2>3, <2>6
  <2>8. \A s, t \in rs'[n] : s.template = longer[l] => t.rev <= s.rev
    BY <1>11, <2>6
  <2>9. l > 1 => \A s, t \in rs'[n] : s.template = longer[l - 1] =>
                   t.rev <= s.rev \/ (t.template = longer[l] /\ t.rev = s.rev + 1)
    BY <2>4, <2>6
  <2> QED
    BY <1>9, <1>10, <2>1, <2>2, <2>6, <2>7, <2>8, <2>9 DEF HistoryOK
<1> QED
  BY <1>13, <1>14

LEMMA ReconcileKeeps ==
  ASSUME Inv, NEW n \in Namespace, Reconcile(n) PROVE Inv'
<1>1. D(n) \in Object
  BY NamespacedObject, Kinds DEF D, On
<1>2. /\ clock \in Nat /\ clock' = clock + 1 /\ req' = req /\ accepted' = accepted
      /\ object = [o \in Object |-> object[o]] /\ accepted = [o \in Object |-> accepted[o]]
      /\ rs = [m \in Namespace |-> rs[m]] /\ ran = [m \in Namespace |-> ran[m]]
  BY DEF Inv, ObjectsOK, Tables, Reconcile
<1>3. object' = [object EXCEPT ![D(n)] = Stored(object[D(n)].field)] /\ Exists(D(n))
  BY DEF Reconcile, D
<1>4. /\ object'[D(n)] = Stored(object[D(n)].field)
      /\ \A o \in Object : o # D(n) => object'[o] = object[o]
      /\ object' = [o \in Object |-> object'[o]]
  BY <1>1, <1>2, <1>3
<1>5. object'[D(n)].version = clock + 1 /\ object'[D(n)].field = object[D(n)].field
  BY <1>4 DEF Stored
<1>6. /\ rs' = [m \in Namespace |-> rs'[m]] /\ ran' = [m \in Namespace |-> ran'[m]]
      /\ \A m \in Namespace : m # n => rs'[m] = rs[m] /\ ran'[m] = ran[m]
  BY <1>2 DEF Reconcile
<1>7. NoWriteLost'
  BY <1>1, <1>2, <1>3, <1>4, <1>5 DEF Inv, NoWriteLost, Exists
<1>8. \A m \in Namespace : HistoryOK(m)'
  <2> SUFFICES ASSUME NEW m \in Namespace, m # n PROVE HistoryOK(m)'
    BY Recorded
  <2> QED
    BY <1>2, <1>6, HistoryKept DEF Inv
<1>9. ClusterStep
  BY <1>2, <1>4, <1>5, <1>6, <1>7, <1>8 DEF ClusterStep
<1> QED
  BY <1>2, <1>9, NoneMoves

LEMMA StepKeeps ==
  ASSUME Inv, NEW r \in Request, Step(r) PROVE Inv'
  BY RefusedKeeps, GetKeeps, PutKeeps, PostKeeps, PatchKeeps, DropKeeps, ListKeeps, PutTemplateKeeps,
     DropReplicaSetKeeps, EnsureKeeps, FindKeeps, PostOrPutKeeps DEF Step

LEMMA IncomingKeeps ==
  ASSUME Inv, NEW r \in Request, Incoming(r) PROVE Inv'
<1>1. \A n \in Namespace : \A s \in rs[n] : s.rev \in Nat
  BY DEF Inv, HistoryOK
<1>2. PICK p \in Plans : Start(r, p)
  BY <1>1, EveryHandler DEF Begins
<1> QED
  BY <1>2, StartKeeps

LEMMA InvInit == Init => Inv
<1> SUFFICES ASSUME Init PROVE Inv
  OBVIOUS
<1>1. PICK present \in {Object, {"namespaces"} \X Namespace} :
        /\ object = [o \in Object |-> IF o \in present THEN [version |-> 1, field |-> Stamped(o, 1)] ELSE Absent]
        /\ accepted = [o \in Object |-> Stamped(o, 1)]
        /\ rs = [n \in Namespace |-> IF <<"deployments", n>> \in present
                                     THEN {[rev |-> 1, template |-> OldTemplate],
                                           [rev |-> 2, template |-> FirstTemplate]} ELSE {}]
        /\ ran = [n \in Namespace |-> IF <<"deployments", n>> \in present
                                      THEN <<OldTemplate, FirstTemplate>> ELSE <<>>]
  BY DEF Init
<1>2. clock = 1 /\ req = [r \in Request |-> NoRequest]
  BY DEF Init
<1>3. ObjectsOK
  <2>1. \A o \in Object : object[o].version \in {0, 1}
    BY <1>1 DEF Absent
  <2> QED
    BY <1>1, <1>2, <2>1 DEF ObjectsOK
<1>4. NoWriteLost
  BY <1>1 DEF NoWriteLost, Exists, Absent
<1>5. ASSUME NEW r \in Request PROVE RequestOK(r) /\ UndoOK(r)
  <2>1. req[r] = NoRequest
    BY <1>2
  <2>2. /\ req[r] = [pc |-> req[r].pc, calls |-> req[r].calls, copy |-> req[r].copy,
                     target |-> req[r].target]
        /\ req[r].pc = "new" /\ req[r].calls = <<>> /\ req[r].copy = Absent
    BY <2>1 DEF NoRequest
  <2>3. <<>> \in Plans /\ req[r].copy.version = 0
    BY <2>2 DEF Plans, Absent
  <2> QED
    BY <1>2, <2>2, <2>3 DEF RequestOK, UndoOK
<1>6. ASSUME NEW n \in Namespace PROVE HistoryOK(n)
  <2>1. CASE rs[n] = {} /\ ran[n] = <<>>
    <3>1. IsSequence(ran[n]) /\ Len(ran[n]) = 0
      BY <2>1 DEF IsSequence
    <3> QED
      BY <2>1, <3>1 DEF HistoryOK
  <2>2. CASE /\ rs[n] = {[rev |-> 1, template |-> OldTemplate], [rev |-> 2, template |-> FirstTemplate]}
             /\ ran[n] = <<OldTemplate, FirstTemplate>>
    <3>1. OldTemplate # FirstTemplate
      <4>1. OldTemplate["containers"] = 0 /\ FirstTemplate["containers"] = 1
        BY DEF OldTemplate, FirstTemplate, TemplateFields
      <4> QED
        BY <4>1
    <3>2. PICK one, two : /\ rs[n] = {one, two}
                          /\ one.rev = 1 /\ one.template = OldTemplate
                          /\ two.rev = 2 /\ two.template = FirstTemplate
      <4>1. PICK one, two : /\ one = [rev |-> 1, template |-> OldTemplate]
                            /\ two = [rev |-> 2, template |-> FirstTemplate]
        OBVIOUS
      <4>2. one.rev = 1 /\ one.template = OldTemplate /\ two.rev = 2 /\ two.template = FirstTemplate
        BY <4>1
      <4>3. rs[n] = {one, two}
        BY <2>2, <4>1
      <4> QED
        BY <4>2, <4>3
    <3>3. IsSequence(ran[n])
      <4>1. PICK S : <<OldTemplate, FirstTemplate>> \in Seq(S)
        <5>1. <<OldTemplate, FirstTemplate>> \in Seq({OldTemplate, FirstTemplate})
          OBVIOUS
        <5> QED
          BY <5>1
      <4> QED
        BY <2>2, <4>1, SequenceOfOwn
    <3>4. Len(ran[n]) = 2 /\ ran[n][1] = OldTemplate /\ ran[n][2] = FirstTemplate
      BY <2>2
    <3>5. \A s, t \in rs[n] : s.rev = t.rev \/ s.template = t.template => s = t
      BY <3>1, <3>2
    <3>6. \A s \in rs[n] : s.rev \in 1 .. clock + 1
      BY <1>2, <3>2
    <3>7. \A s, t \in rs[n] : s.template = FirstTemplate => t.rev <= s.rev
      BY <3>1, <3>2
    <3>8. \A s, t \in rs[n] : s.template = OldTemplate =>
            t.rev <= s.rev \/ (t.template = FirstTemplate /\ t.rev = s.rev + 1)
      BY <3>1, <3>2
    <3>9. PICK k : k = Len(ran[n]) /\ k = 2 /\ k - 1 = 1
      BY <3>4
    <3> QED
      BY <3>1, <3>3, <3>4, <3>5, <3>6, <3>7, <3>8, <3>9 DEF HistoryOK
  <2> QED
    BY <1>1, <2>1, <2>2
<1>7. Tables
  BY <1>1, <1>2 DEF Tables
<1> QED
  BY <1>3, <1>4, <1>5, <1>6, <1>7 DEF Inv

LEMMA InvNext == Inv /\ [Next]_vars => Inv'
<1> SUFFICES ASSUME Inv, [Next]_vars PROVE Inv'
  OBVIOUS
<1>1. CASE UNCHANGED vars
  BY <1>1, Still, NoneMoves DEF vars, Unwritten
<1>2. ASSUME NEW r \in Request, Incoming(r) \/ Step(r) PROVE Inv'
  BY <1>2, IncomingKeeps, StepKeeps
<1>3. ASSUME NEW n \in Namespace, Reconcile(n) PROVE Inv'
  BY <1>3, ReconcileKeeps
<1> QED
  BY <1>1, <1>2, <1>3 DEF Next

-----------------------------------------------------------------------------
\* A read-modify-write of the handlers, an update made by a rollback included, never
\* takes back an accepted change of another field: the copy it puts back has the
\* version of the stored object only if it has its fields.
THEOREM WritesKept == Spec => []NoWriteLost
<1>1. Inv => NoWriteLost
  BY DEF Inv
<1> QED
  BY <1>1, InvInit, InvNext, PTL DEF Spec

\* A rollback to revision 0 writes the template that ran before the present one,
\* whatever was written, reconciled or deleted since its two reads, if its update
\* can still be accepted.
THEOREM UndoExact == Spec => []UndoIsPrevious
<1>1. Inv => UndoIsPrevious
  BY DEF Inv, UndoIsPrevious, UndoOK
<1> QED
  BY <1>1, InvInit, InvNext, PTL DEF Spec

-----------------------------------------------------------------------------
(* Types.                                                                  *)

\* A request keeps its calls while it makes them.  A copy it is about to put has the
\* fields of the object it puts, which a clone has read elsewhere.
Typed(q) ==
  /\ q.pc \in {"new", "call", "list", "put", "answered"}
  /\ q.pc \in {"new", "answered"} <=> q.calls = <<>>
  /\ q.pc \in {"list", "put"} => q.copy.version # 0 /\ DOMAIN q.copy.field = FieldsOf(Head(q.calls).object)

TypeInv ==
  /\ \A o \in Object : DOMAIN accepted[o] = FieldsOf(o)
  /\ \A r \in Request : Typed(req[r])

LEMMA DoneTyped ==
  ASSUME Inv, NEW r \in Request, req[r].calls # <<>>
  PROVE  Typed(Succeeded(r)) /\ Typed(Failed(r))
<1>1. ASSUME NEW q, NEW pc \in {"answered", "call"}, NEW calls, pc = "call" <=> calls # <<>>,
             q = [pc |-> pc, calls |-> calls, copy |-> Absent, target |-> {}]
      PROVE  Typed(q)
  <2>1. q.pc = pc /\ q.calls = calls
    BY <1>1
  <2> QED
    BY <1>1, <2>1 DEF Typed
<1> QED
  BY <1>1, CallDone

\* A step in which one request moves.
LEMMA MovedTyped ==
  ASSUME Inv, TypeInv, NEW r \in Request, NEW state, Sets(r, state), Typed(state),
         \A o \in Object : DOMAIN accepted'[o] = FieldsOf(o)
  PROVE  TypeInv'
<1>1. req'[r] = state /\ \A q \in Request \ {r} : req'[q] = req[q]
  BY DEF Inv, Tables, Sets
<1>2. ASSUME NEW q \in Request PROVE Typed(req'[q])
  BY <1>1 DEF TypeInv
<1> QED
  BY <1>2 DEF TypeInv

LEMMA AloneTyped ==
  ASSUME Inv, TypeInv, NEW r \in Request, NEW state, Sets(r, state), Typed(state), Unwritten
  PROVE  TypeInv'
<1>1. accepted' = accepted
  BY DEF Unwritten
<1> QED
  BY <1>1, MovedTyped DEF TypeInv

LEMMA FailedTyped ==
  ASSUME Inv, TypeInv, NEW r \in Request, req[r].calls # <<>>,
         Sets(r, Succeeded(r)) \/ Sets(r, Failed(r)), Unwritten
  PROVE  TypeInv'
  BY DoneTyped, AloneTyped

LEMMA AcceptedTyped ==
  ASSUME Inv, TypeInv, NEW r \in Request, req[r].calls # <<>>, NEW o \in Object, NEW field, NEW latest,
         DOMAIN latest = FieldsOf(o), Accept(r, o, field, latest)
  PROVE  TypeInv'
<1>1. accepted' = [accepted EXCEPT ![o] = latest]
  BY DEF Accept
<1>2. \A p \in Object : DOMAIN accepted'[p] = FieldsOf(p)
  BY <1>1 DEF TypeInv, Inv, ObjectsOK
<1> QED
  BY <1>1, <1>2, DoneTyped, MovedTyped DEF Accept, TypeInv

\* What is stored, and what an update makes of it, has the fields of its kind.
LEMMA FieldsStored ==
  ASSUME Inv, TypeInv, NEW o \in Object
  PROVE  /\ Exists(o) => DOMAIN object[o].field = FieldsOf(o)
         /\ \A parts : DOMAIN Changed(accepted[o], parts) = FieldsOf(o)
         /\ \A v : DOMAIN Stamped(o, v) = FieldsOf(o)
<1>1. Exists(o) => object[o].field = accepted[o]
  BY DEF Inv, NoWriteLost
<1> QED
  BY <1>1 DEF TypeInv, Changed, Stamped

LEMMA StartTyped ==
  ASSUME Inv, TypeInv, NEW r \in Request, NEW p \in Plans, Start(r, p) PROVE TypeInv'
<1>1. PICK pc \in {"answered", "call"} : /\ Sets(r, [req[r] EXCEPT !.calls = p, !.pc = pc])
                                         /\ pc = "call" <=> p # <<>>
  BY DEF Start
<1>2. req[r] = [pc |-> req[r].pc, calls |-> req[r].calls, copy |-> req[r].copy,
                target |-> req[r].target]
  BY DEF Inv, RequestOK
<1>3. PICK state :
        /\ state = [pc |-> pc, calls |-> p, copy |-> req[r].copy, target |-> req[r].target]
        /\ Sets(r, state)
  <2>1. [req[r] EXCEPT !.calls = p, !.pc = pc] =
          [pc |-> pc, calls |-> p, copy |-> req[r].copy, target |-> req[r].target]
    BY <1>2, CallsSet, Zenon
  <2> QED
    BY <1>1, <2>1
<1>4. state.pc = pc /\ state.calls = p
  BY <1>3
<1>5. Typed(state)
  BY <1>1, <1>4 DEF Typed
<1> QED
  BY <1>3, <1>5, AloneTyped DEF Start

LEMMA GetTyped ==
  ASSUME Inv, TypeInv, NEW r \in Request, Get(r) PROVE TypeInv'
<1>1. req[r].calls # <<>> /\ Cur(r) \in Calls /\ Cur(r).from \in Object
  BY InCall DEF Get
<1>2. CASE ~Exists(Cur(r).from)
  BY <1>1, <1>2, FailedTyped DEF Get
<1>3. CASE Exists(Cur(r).from)
  <2>1. PICK copy : copy = object[Cur(r).from]
    OBVIOUS
  <2>2. PICK pc \in {"list", "put"} : Sets(r, [req[r] EXCEPT !.copy = copy, !.pc = pc])
    BY <1>3, <2>1 DEF Get
  <2>3. req[r] = [pc |-> req[r].pc, calls |-> req[r].calls, copy |-> req[r].copy,
                  target |-> req[r].target]
    BY DEF Inv, RequestOK
  <2>4. PICK state :
          /\ state = [pc |-> pc, calls |-> req[r].calls, copy |-> copy, target |-> req[r].target]
          /\ Sets(r, state)
    <3>1. [req[r] EXCEPT !.copy = copy, !.pc = pc] =
            [pc |-> pc, calls |-> req[r].calls, copy |-> copy, target |-> req[r].target]
      BY <2>3, CopySet, Zenon
    <3> QED
      BY <2>2, <3>1
  <2>5. state.pc = pc /\ state.calls = req[r].calls /\ state.copy = copy
    BY <2>4
  <2>6. copy.version # 0
    BY <1>1, <1>3, <2>1 DEF Exists, Inv, ObjectsOK
  <2>7. DOMAIN copy.field = FieldsOf(Cur(r).from)
    BY <1>1, <1>3, <2>1, FieldsStored
  <2>8. FieldsOf(Cur(r).from) = FieldsOf(Cur(r).object)
    BY <1>1 DEF Calls, FieldsOf
  <2>9. Typed(state)
    BY <1>1, <2>5, <2>6, <2>7, <2>8 DEF Typed, Cur
  <2> QED
    BY <2>4, <2>9, AloneTyped DEF Get
<1> QED
  BY <1>2, <1>3

LEMMA ListTyped ==
  ASSUME Inv, TypeInv, NEW r \in Request, List(r) PROVE TypeInv'
<1>1. req[r].calls # <<>>
  BY InCall DEF List
<1>2. PICK target : /\ target = TargetRS(NamespaceOf(Cur(r).object), Cur(r).rev)
                    /\ Sets(r, IF target = {} THEN Failed(r) ELSE [req[r] EXCEPT !.target = target, !.pc = "put"])
  BY DEF List
<1>3. CASE target = {}
  BY <1>1, <1>2, <1>3, FailedTyped DEF List
<1>4. CASE target # {}
  <2>1. PICK q : /\ q = req[r]
                 /\ q = [pc |-> q.pc, calls |-> q.calls, copy |-> q.copy, target |-> q.target]
    BY DEF Inv, RequestOK
  <2>2. PICK state : state = [q EXCEPT !.target = target, !.pc = "put"]
    OBVIOUS
  <2>3. state.pc = "put" /\ state.calls = q.calls /\ state.copy = q.copy
    BY <2>1, <2>2
  <2>4. Typed(q) /\ q.pc = "list"
    BY <2>1 DEF TypeInv, List
  <2>5. Typed(state)
    BY <2>3, <2>4 DEF Typed
  <2>6. Sets(r, state)
    BY <1>2, <1>4, <2>1, <2>2
  <2> QED
    BY <2>5, <2>6, AloneTyped DEF List
<1> QED
  BY <1>3, <1>4

LEMMA InsteadTyped ==
  ASSUME Inv, TypeInv, NEW r \in Request, req[r].pc = "call", NEW c, Sets(r, Instead(r, c)), Unwritten
  PROVE  TypeInv'
<1>1. req[r].calls # <<>> /\ req[r].calls \in Plans
  BY InCall DEF Inv, RequestOK
<1>2. PICK calls : calls = <<c>> \o Tail(req[r].calls)
  OBVIOUS
<1>3. calls # <<>>
  BY <1>1, <1>2, Rest DEF Plans
<1>4. req[r] = [pc |-> req[r].pc, calls |-> req[r].calls, copy |-> req[r].copy,
                target |-> req[r].target]
  BY DEF Inv, RequestOK
<1>5. PICK state :
        /\ state = [pc |-> req[r].pc, calls |-> calls, copy |-> req[r].copy, target |-> req[r].target]
        /\ state = [req[r] EXCEPT !.calls = calls]
  BY <1>4, PlanSet, Zenon
<1>6. state.pc = "call" /\ state.calls = calls
  BY <1>5
<1>7. Typed(state)
  BY <1>3, <1>6 DEF Typed
<1> QED
  BY <1>2, <1>5, <1>7, AloneTyped DEF Instead

LEMMA LookTyped ==
  ASSUME Inv, TypeInv, NEW r \in Request, Ensure(r) \/ Find(r) PROVE TypeInv'
<1>1. req[r].calls # <<>> /\ req[r].pc = "call"
  BY InCall DEF Ensure, Find
<1> QED
  BY <1>1, FailedTyped, InsteadTyped DEF Ensure, Find

LEMMA WriteTyped ==
  ASSUME Inv, TypeInv, NEW r \in Request, Put(r) \/ Post(r) \/ Patch(r) \/ PutTemplate(r) \/ PostOrPut(r)
  PROVE  TypeInv'
<1>1. req[r].calls # <<>> /\ Cur(r) \in Calls
  BY InCall DEF Put, Post, Patch, PutTemplate, PostOrPut
<1>2. PICK o \in Object : o = Cur(r).object
  BY <1>1 DEF Calls
<1>3. CASE Sets(r, Failed(r)) /\ Unwritten
  BY <1>1, <1>3, FailedTyped
<1>4. ASSUME NEW field, NEW latest, DOMAIN latest = FieldsOf(o), Accept(r, o, field, latest) PROVE TypeInv'
  BY <1>1, <1>4, AcceptedTyped
<1>5. CASE Put(r)
  BY <1>2, <1>3, <1>4, <1>5, FieldsStored DEF Put
<1>6. CASE Post(r)
  <2>1. CASE Cur(r).verb = "clone"
    <3>1. DOMAIN req[r].copy.field = FieldsOf(o)
      BY <1>2, <1>6, <2>1 DEF Post, TypeInv, Typed, Cur
    <3> QED
      BY <1>2, <1>3, <1>4, <1>6, <2>1, <3>1 DEF Post
  <2>2. CASE Cur(r).verb # "clone"
    BY <1>2, <1>3, <1>4, <1>6, <2>2, FieldsStored DEF Post
  <2> QED
    BY <2>1, <2>2
<1>7. CASE Patch(r)
  BY <1>2, <1>3, <1>4, <1>7, FieldsStored DEF Patch
<1>8. CASE PutTemplate(r)
  <2>1. DOMAIN accepted[o] = FieldsOf(o)
    BY DEF TypeInv
  <2> QED
    BY <1>2, <1>3, <1>4, <1>8, <2>1 DEF PutTemplate
<1>9. CASE PostOrPut(r)
  <2>1. ASSUME NEW c, Sets(r, Instead(r, c)), Unwritten PROVE TypeInv'
    BY <1>9, <2>1, InsteadTyped DEF PostOrPut
  <2> QED
    BY <1>2, <1>3, <1>4, <1>9, <2>1, FieldsStored DEF PostOrPut
<1> QED
  BY <1>5, <1>6, <1>7, <1>8, <1>9

LEMMA DropTyped ==
  ASSUME Inv, TypeInv, NEW r \in Request, Drop(r) \/ DropReplicaSet(r) PROVE TypeInv'
<1>1. req[r].calls # <<>>
  BY InCall DEF Drop, DropReplicaSet
<1>2. CASE Unwritten /\ Sets(r, Failed(r))
  BY <1>1, <1>2, FailedTyped
<1>3. CASE DropReplicaSet(r)
  BY <1>1, <1>2, <1>3, DoneTyped, MovedTyped DEF DropReplicaSet, TypeInv
<1>4. CASE Drop(r) /\ Exists(Cur(r).object)
  <2>1. PICK gone : accepted' = [o \in Object |-> IF o \in gone THEN Stamped(o, 1) ELSE accepted[o]]
    BY <1>4 DEF Drop
  <2>2. \A o \in Object : DOMAIN accepted'[o] = FieldsOf(o)
    BY <2>1, FieldsStored DEF TypeInv
  <2>3. Sets(r, Succeeded(r)) \/ Sets(r, Failed(r))
    BY <1>4 DEF Drop
  <2> QED
    BY <1>1, <2>2, <2>3, DoneTyped, MovedTyped
<1> QED
  BY <1>2, <1>3, <1>4 DEF Drop

LEMMA ClusterTyped ==
  ASSUME TypeInv, NEW n \in Namespace, Reconcile(n) PROVE TypeInv'
  BY DEF Reconcile, TypeInv

LEMMA TypeNext == Inv /\ TypeInv /\ [Next]_vars => TypeInv'
<1> SUFFICES ASSUME Inv, TypeInv, [Next]_vars PROVE TypeInv'
  OBVIOUS
<1>1. CASE UNCHANGED vars
  BY <1>1 DEF vars, TypeInv
<1>2. ASSUME NEW r \in Request, Incoming(r) PROVE TypeInv'
  <2>1. \A n \in Namespace : \A s \in rs[n] : s.rev \in Nat
    BY DEF Inv, HistoryOK
  <2>2. PICK p \in Plans : Start(r, p)
    BY <1>2, <2>1, EveryHandler DEF Begins
  <2> QED
    BY <2>2, StartTyped
<1>3. ASSUME NEW r \in Request, Step(r) PROVE TypeInv'
  <2>1. CASE Refused(r)
    BY <2>1, InCall, FailedTyped DEF Refused
  <2> QED
    BY <1>3, <2>1, GetTyped, WriteTyped, DropTyped, ListTyped, LookTyped DEF Step
<1>4. ASSUME NEW n \in Namespace, Reconcile(n) PROVE TypeInv'
  BY <1>4, ClusterTyped
<1> QED
  BY <1>1, <1>2, <1>3, <1>4 DEF Next

LEMMA TypeInit == Init => TypeInv
<1> SUFFICES ASSUME Init PROVE TypeInv
  OBVIOUS
<1>1. accepted = [o \in Object |-> Stamped(o, 1)] /\ req = [r \in Request |-> NoRequest]
  BY DEF Init
<1>2. \A o \in Object : DOMAIN accepted[o] = FieldsOf(o)
  BY <1>1 DEF Stamped
<1>3. NoRequest.pc = "new" /\ NoRequest.calls = <<>>
  BY DEF NoRequest
<1>4. \A r \in Request : Typed(req[r])
  BY <1>1, <1>3 DEF Typed
<1> QED
  BY <1>1, <1>2, <1>4 DEF TypeInv

\* Objects keep the fields of their kind, a clone from another namespace included,
\* and a request keeps its calls and its copy while it makes them.
THEOREM TypeCorrect == Spec => []TypeOK
<1>1. Inv /\ TypeInv => TypeOK
  <2> SUFFICES ASSUME Inv, TypeInv PROVE TypeOK
    OBVIOUS
  <2>1. \A o \in Object : object[o].version <= clock /\ clock \in Nat
    BY DEF Inv, ObjectsOK
  <2>2. \A r \in Request : req[r].pc = "put" => req[r].copy # Absent
    BY DEF TypeInv, Typed, Absent
  <2>3. \A o \in Object : Exists(o) => DOMAIN object[o].field = FieldsOf(o)
    BY FieldsStored
  <2>4. clock \in Nat
    BY DEF Inv, ObjectsOK
  <2> QED
    BY <2>1, <2>2, <2>3, <2>4 DEF TypeOK, TypeInv, Typed
<1> QED
  BY <1>1, InvInit, InvNext, TypeInit, TypeNext, PTL DEF Spec
=============================================================================
