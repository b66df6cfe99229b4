-------------------------- MODULE WorkloadHandlers --------------------------
(***************************************************************************)
(* The handlers of handler/workload and handler/ops and the executors of   *)
(* service/aiops that change a cluster, each by the calls it makes.  A     *)
(* list or a map in a request body is one field.  An optional part of a    *)
(* request is sent or not.                                                 *)
(***************************************************************************)
EXTENDS ClusterObjects

On(kind, n) == <<kind, n>>
Wide(kind) == <<kind, NoNamespace>>

One(r, call) == Start(r, <<call>>)

-----------------------------------------------------------------------------
(* handler.go: deployments, pods, services                                 *)

ScaleDeployment(r, n) == One(r, Modify(On("deployments", n), {"replicas"}))

\* A part of the request and the fields it overwrites.
DeploymentPart == {
  {"replicas"}, {"labels", "templateLabels"}, {"annotations", "templateAnnotations"}, {"containers"},
  {"initContainers"}, {"volumes"}, {"strategy"}, {"scheduling"}, {"advanced"}}

\* After the deployment the service is updated, or created when it has no name
\* yet; its errors are ignored.
ServicePart(n) == {<<>>, <<GoOn(Modify(On("services", n), {"type", "ports"}))>>, <<GoOn(Create(On("services", n)))>>}

UpdateDeployment(r, n) ==
  \E part \in DeploymentPart \cup {UNION DeploymentPart}, service \in ServicePart(n) :
    Start(r, <<Modify(On("deployments", n), part)>> \o service)

DeleteDeployment(r, n) == One(r, Delete(On("deployments", n)))

RollbackDeployment(r, n) == \E s \in rs[n] : One(r, Undo(n, s.rev))

CreateDeployment(r, n) == One(r, Create(On("deployments", n)))

UpdatePodAffinity(r, n) == One(r, Modify(On("deployments", n), {"affinity"}))

DeletePod(r, n) == One(r, Delete(On("pods", n)))

CreatePod(r, n) == One(r, Create(On("pods", n)))

\* Refused without a call: the spec of a pod cannot be changed.
UpdatePod(r) == Start(r, <<>>)

CreateService(r, n) == One(r, Create(On("services", n)))

UpdateService(r, n) == \E part \in SomeOf(Fields.services) : One(r, Modify(On("services", n), part))

DeleteService(r, n) == One(r, Delete(On("services", n)))

CreateHPA(r, n) == One(r, Create(On("hpas", n)))

DeleteHPA(r, n) == One(r, Delete(On("hpas", n)))

\* create.go: the service is created when the deployment was; if that fails the
\* answer says so and the deployment stays.
CreateEnterpriseDeployment(r, n) ==
  \E service \in {<<>>, <<GoOn(Create(On("services", n)))>>} :
    Start(r, <<Create(On("deployments", n))>> \o service)

DeploymentHandlers(r, n) ==
  \/ ScaleDeployment(r, n)
  \/ UpdateDeployment(r, n)
  \/ DeleteDeployment(r, n)
  \/ RollbackDeployment(r, n)
  \/ CreateDeployment(r, n)
  \/ CreateEnterpriseDeployment(r, n)
  \/ UpdatePodAffinity(r, n)
  \/ CreateHPA(r, n)
  \/ DeleteHPA(r, n)

PodAndServiceHandlers(r, n) ==
  \/ CreatePod(r, n)
  \/ DeletePod(r, n)
  \/ CreateService(r, n)
  \/ UpdateService(r, n)
  \/ DeleteService(r, n)

-----------------------------------------------------------------------------
(* handler.go: nodes and storage                                           *)

UpdateNode(r) == \E part \in SomeOf(Fields.nodes) : One(r, Modify(Wide("nodes"), part))

CreatePV(r) == One(r, Create(Wide("pvs")))

UpdatePV(r) == \E part \in SomeOf(Fields.pvs) : One(r, Modify(Wide("pvs"), part))

DeletePV(r) == One(r, Delete(Wide("pvs")))

CreatePVC(r, n) == One(r, Create(On("pvcs", n)))

UpdatePVC(r, n) == \E part \in SomeOf(Fields.pvcs) : One(r, Modify(On("pvcs", n), part))

DeletePVC(r, n) == One(r, Delete(On("pvcs", n)))

CreateStorageClass(r) == One(r, Create(Wide("storageclasses")))

UpdateStorageClass(r) ==
  \E part \in SomeOf(Fields.storageclasses) : One(r, Modify(Wide("storageclasses"), part))

DeleteStorageClass(r) == One(r, Delete(Wide("storageclasses")))

ClusterWideHandlers(r) ==
  \/ UpdateNode(r)
  \/ UpdatePod(r)
  \/ CreatePV(r)
  \/ UpdatePV(r)
  \/ DeletePV(r)
  \/ CreateStorageClass(r)
  \/ UpdateStorageClass(r)
  \/ DeleteStorageClass(r)

ClaimHandlers(r, n) ==
  \/ CreatePVC(r, n)
  \/ UpdatePVC(r, n)
  \/ DeletePVC(r, n)

-----------------------------------------------------------------------------
(* extended.go: the other workloads                                        *)

CreateStatefulSet(r, n) == One(r, Create(On("statefulsets", n)))

UpdateStatefulSet(r, n) ==
  \E part \in SomeOf({"replicas", "image"}) : One(r, Modify(On("statefulsets", n), part))

DeleteStatefulSet(r, n) == One(r, Delete(On("statefulsets", n)))

CreateDaemonSet(r, n) == One(r, Create(On("daemonsets", n)))

UpdateDaemonSet(r, n) == One(r, Modify(On("daemonsets", n), {"image"}))

DeleteDaemonSet(r, n) == One(r, Delete(On("daemonsets", n)))

CreateJob(r, n) == One(r, Create(On("jobs", n)))

DeleteJob(r, n) == One(r, Delete(On("jobs", n)))

CreateCronJob(r, n) == One(r, Create(On("cronjobs", n)))

UpdateCronJob(r, n) == \E part \in SomeOf(Fields.cronjobs) : One(r, Modify(On("cronjobs", n), part))

DeleteCronJob(r, n) == One(r, Delete(On("cronjobs", n)))

ScaleReplicaSet(r, n) == One(r, Modify(On("replicasets", n), {"replicas"}))

\* The ReplicaSet stands alone or belongs to the deployment.
DeleteReplicaSet(r, n) ==
  \E call \in {Delete(On("replicasets", n))} \cup {Prune(n, s.rev) : s \in rs[n]} : One(r, call)

OtherWorkloadHandlers(r, n) ==
  \/ CreateStatefulSet(r, n)
  \/ UpdateStatefulSet(r, n)
  \/ DeleteStatefulSet(r, n)
  \/ CreateDaemonSet(r, n)
  \/ UpdateDaemonSet(r, n)
  \/ DeleteDaemonSet(r, n)
  \/ CreateJob(r, n)
  \/ DeleteJob(r, n)
  \/ CreateCronJob(r, n)
  \/ UpdateCronJob(r, n)
  \/ DeleteCronJob(r, n)
  \/ ScaleReplicaSet(r, n)
  \/ DeleteReplicaSet(r, n)

-----------------------------------------------------------------------------
(* config.go: configuration, ingresses, namespaces and quotas              *)

CreateConfigMap(r, n) == One(r, Create(On("configmaps", n)))

UpdateConfigMap(r, n) == \E part \in SomeOf(Fields.configmaps) : One(r, Modify(On("configmaps", n), part))

DeleteConfigMap(r, n) == One(r, Delete(On("configmaps", n)))

CreateSecret(r, n) == One(r, Create(On("secrets", n)))

UpdateSecret(r, n) == \E part \in SomeOf(Fields.secrets) : One(r, Modify(On("secrets", n), part))

DeleteSecret(r, n) == One(r, Delete(On("secrets", n)))

CreateIngress(r, n) == One(r, Create(On("ingresses", n)))

UpdateIngress(r, n) == \E part \in SomeOf(Fields.ingresses) : One(r, Modify(On("ingresses", n), part))

DeleteIngress(r, n) == One(r, Delete(On("ingresses", n)))

CreateNamespace(r, n) == One(r, Create(On("namespaces", n)))

UpdateNamespace(r, n) == \E part \in SomeOf(Fields.namespaces) : One(r, Modify(On("namespaces", n), part))

DeleteNamespace(r, n) ==
  Start(r, IF n \in SystemNamespace THEN <<>> ELSE <<Delete(On("namespaces", n))>>)

CreateResourceQuota(r, n) == One(r, Create(On("resourcequotas", n)))

UpdateResourceQuota(r, n) ==
  \E part \in SomeOf(Fields.resourcequotas) : One(r, Modify(On("resourcequotas", n), part))

DeleteResourceQuota(r, n) == One(r, Delete(On("resourcequotas", n)))

ConfigHandlers(r, n) ==
  \/ CreateConfigMap(r, n)
  \/ UpdateConfigMap(r, n)
  \/ DeleteConfigMap(r, n)
  \/ CreateSecret(r, n)
  \/ UpdateSecret(r, n)
  \/ DeleteSecret(r, n)
  \/ CreateIngress(r, n)
  \/ UpdateIngress(r, n)
  \/ DeleteIngress(r, n)

NamespaceHandlers(r, n) ==
  \/ CreateNamespace(r, n)
  \/ UpdateNamespace(r, n)
  \/ DeleteNamespace(r, n)
  \/ CreateResourceQuota(r, n)
  \/ UpdateResourceQuota(r, n)
  \/ DeleteResourceQuota(r, n)

-----------------------------------------------------------------------------
(* network.go, crd.go and yaml.go                                          *)

CreateNetworkPolicy(r, n) == One(r, Create(On("networkpolicies", n)))

DeleteNetworkPolicy(r, n) == One(r, Delete(On("networkpolicies", n)))

CreateCustomResource(r, n) == One(r, Create(On("custom", n)))

\* The body of the request is an object that was read before, with its version.
UpdateCustomResource(r, n) == One(r, Modify(On("custom", n), {"spec"}))

DeleteCustomResource(r, n) == One(r, Delete(On("custom", n)))

\* kubectl runs on a file of one document, here a ConfigMap or a deployment.
ApplyResourceYAML(r, n) ==
  \E kind \in {"configmaps", "deployments"} : \E part \in SomeOf(Fields[kind]) : One(r, Apply(On(kind, n), part))

DeleteResourceYAML(r, n) == \E kind \in {"configmaps", "deployments"} : One(r, Remove(On(kind, n)))

ManifestHandlers(r, n) ==
  \/ CreateNetworkPolicy(r, n)
  \/ DeleteNetworkPolicy(r, n)
  \/ CreateCustomResource(r, n)
  \/ UpdateCustomResource(r, n)
  \/ DeleteCustomResource(r, n)
  \/ ApplyResourceYAML(r, n)
  \/ DeleteResourceYAML(r, n)

-----------------------------------------------------------------------------
(* Several objects at once: batches, clones and cleanups.                  *)

Batches(items) ==
  {b \in UNION {[1 .. k -> items] : k \in 1 .. MaxItems} : \A i, j \in DOMAIN b : b[i] = b[j] => i = j}

batchDelete(n) == {Delete(On(kind, n)) : kind \in {"pods", "deployments", "services", "configmaps", "secrets"}}

batchRestart(n) ==
  {Modify(On(kind, n), {"templateAnnotations"}) : kind \in {"deployments", "statefulsets", "daemonsets"}}

batchLabel(n) == {Modify(o, {"labels"}) : o \in {On("pods", n), On("deployments", n), Wide("nodes")}}

\* The result of each item is part of the answer; none stops the batch.
BatchOperation(r, n) ==
  \E items \in Batches(batchDelete(n)) \cup Batches(batchRestart(n)) \cup Batches(batchLabel(n)) :
    Start(r, [i \in DOMAIN items |-> GoOn(items[i])])

\* The target namespace is made first, and then the items one by one.
CloneNamespace(r, n) ==
  \E to \in Namespace \ {n} :
  \E items \in Batches({Clone(kind, n, to) : kind \in {"deployments", "services", "configmaps", "secrets"}}) :
    Start(r, <<Call("ensure", On("namespaces", to), {})>> \o items)

\* ops: revision 0 is the previous one.
RollbackPrevious(r, n) == One(r, Undo(n, 0))

\* ops: each item by kind and name, whatever has become of it since it was found
\* idle.
CleanIdleResource(r, n) ==
  \E items \in Batches({Delete(On(kind, n)) : kind \in {"jobs", "configmaps", "pvcs", "services", "pods"}}) :
    Start(r, [i \in DOMAIN items |-> GoOn(items[i])])

CompositeHandlers(r, n) ==
  \/ BatchOperation(r, n)
  \/ CloneNamespace(r, n)
  \/ RollbackPrevious(r, n)
  \/ CleanIdleResource(r, n)

-----------------------------------------------------------------------------
(* executor.go: a confirmed action of the agent.  Each attempt of the      *)
(* retry loop around these is a request of its own.                        *)

ExecuteCreateDeployment(r, n) == One(r, Create(On("deployments", n)))

ExecuteCreateService(r, n) == One(r, Create(On("services", n)))

ExecuteDeleteDeployment(r, n) == One(r, DeleteFound(On("deployments", n)))

ExecuteDeleteService(r, n) == One(r, DeleteFound(On("services", n)))

ExecuteDeletePod(r, n) == One(r, DeleteFound(On("pods", n)))

ExecuteScaleDeployment(r, n) == One(r, Modify(On("deployments", n), {"replicas"}))

ExecuteCreateConfigMap(r, n) == One(r, Create(On("configmaps", n)))

ExecuteCreateSecret(r, n) == One(r, Create(On("secrets", n)))

\* The image, variables and limits of the first container.
ExecuteUpdateDeployment(r, n) == One(r, Modify(On("deployments", n), {"containers"}))

ExecuteCreateNamespace(r, n) == One(r, Create(On("namespaces", n)))

ExecuteCreateIngress(r, n) == One(r, Create(On("ingresses", n)))

ExecuteCreateHPA(r, n) == One(r, Create(On("hpas", n)))

ExecuteCreatePVC(r, n) == One(r, Create(On("pvcs", n)))

\* Several documents, all of the namespace the action was granted for or all
\* cluster-wide; none stops the others.
parseYAMLResources(n) ==
  Batches({Store(On(kind, n)) : kind \in {"configmaps", "deployments"}}) \cup
  Batches({Store(Wide(kind)) : kind \in {"pvs", "storageclasses"}})

ExecuteApplyYAML(r, n) ==
  \E items \in parseYAMLResources(n) : Start(r, [i \in DOMAIN items |-> GoOn(items[i])])

ExecuteStagedAction(r, n) ==
  \/ ExecuteCreateDeployment(r, n)
  \/ ExecuteCreateService(r, n)
  \/ ExecuteDeleteDeployment(r, n)
  \/ ExecuteDeleteService(r, n)
  \/ ExecuteDeletePod(r, n)
  \/ ExecuteScaleDeployment(r, n)
  \/ ExecuteCreateConfigMap(r, n)
  \/ ExecuteCreateSecret(r, n)
  \/ ExecuteUpdateDeployment(r, n)
  \/ ExecuteCreateNamespace(r, n)
  \/ ExecuteCreateIngress(r, n)
  \/ ExecuteCreateHPA(r, n)
  \/ ExecuteCreatePVC(r, n)
  \/ ExecuteApplyYAML(r, n)

-----------------------------------------------------------------------------
Incoming(r) ==
  \/ ClusterWideHandlers(r)
  \/ \E n \in Namespace :
       \/ DeploymentHandlers(r, n)
       \/ PodAndServiceHandlers(r, n)
       \/ ClaimHandlers(r, n)
       \/ OtherWorkloadHandlers(r, n)
       \/ ConfigHandlers(r, n)
       \/ NamespaceHandlers(r, n)
       \/ ManifestHandlers(r, n)
       \/ CompositeHandlers(r, n)
       \/ ExecuteStagedAction(r, n)

Next ==
  \/ \E r \in Request : Incoming(r) \/ Step(r)
  \/ \E n \in Namespace : Reconcile(n)

Spec == Init /\ [][Next]_vars

-----------------------------------------------------------------------------
\* The state has its type and a request keeps its calls while it makes them.
TypeOK ==
  /\ clock \in Nat
  /\ \A o \in Object : object[o].version <= clock /\ DOMAIN accepted[o] = FieldsOf(o)
  /\ \A o \in Object : Exists(o) => DOMAIN object[o].field = FieldsOf(o)
  /\ \A r \in Request :
       /\ req[r].pc \in {"new", "call", "list", "put", "answered"}
       /\ req[r].pc \in {"new", "answered"} <=> req[r].calls = <<>>
       /\ req[r].pc = "put" => req[r].copy # Absent

\* Requests that change the same object at the same time never undo each other's
\* accepted changes of other fields: a copy that was read before somebody else's
\* write is not written back.
NoWriteLost == \A o \in Object : Exists(o) => object[o].field = accepted[o]

\* Rolling back to revision 0 restores what ran before the present template,
\* provided the controller had recorded the present one and still keeps the
\* earlier ReplicaSet.
UndoIsPrevious ==
  \A r \in Request :
    LET n == NamespaceOf(Cur(r).object)
        before == ran[n][Len(ran[n]) - 1] IN
    /\ req[r].pc = "put" /\ Cur(r).verb = "undo" /\ Cur(r).rev = 0
    /\ Unchanged(r, Cur(r).object)
    /\ Len(ran[n]) > 1 /\ RunsNow(n) = Last(ran[n]) /\ InStep(n)
    /\ \E s \in rs[n] : s.template = before
    => req[r].target = {before}

=============================================================================
