-------------------------- MODULE InspectionReports --------------------------
(***************************************************************************)
(* Inspections: a rule lists one kind of object of a cluster, each object  *)
(* gives a result, the results are saved and then the report.  Counts and  *)
(* messages are left out.                                                  *)
(***************************************************************************)
EXTENDS FiniteSets, Naturals, Sequences, SequencesExt

CONSTANTS ReportId, MaxObjects

ASSUME InspectionAssumption == MaxObjects \in Nat

\* What the checks look at in an object.
Node == [kind : {"node"}, ready : BOOLEAN]
Pod == [kind : {"pod"}, phase : {"Running", "Succeeded", "Pending", "Failed"},
        condition : BOOLEAN, containers : {"ready", "waiting", "none"}, restarts : {0, 6}]
Deployment == [kind : {"deployment"}, desired : {0, 1}, settled : BOOLEAN]
Service == [kind : {"service"}, clusterIP : BOOLEAN]
Objects(kind) == CASE kind = "node" -> Node [] kind = "pod" -> Pod
                   [] kind = "deployment" -> Deployment [] kind = "service" -> Service

\* A rule: the kind of object, and whether the check it asks for exists.
Kinds == {"node", "pod", "deployment", "service"}
Rule == [kind : Kinds \cup {"disk"}, custom : BOOLEAN]

VARIABLES
  report,      \* the status of each row of inspection_reports
  results,     \* inspection_results by report: the statuses
  inspecting,  \* per report, the goroutine: "none", "started", "checked", "saved"
  cluster,     \* per report, what the list has answered; "error" for a failed list
  outcome,     \* per report, the goroutine's copy: the statuses it found
  gone         \* the reports a deletion has removed (history)

inspectionVars == <<report, results, inspecting, cluster, outcome, gone>>

InspectionInit ==
  /\ report = [r \in ReportId |-> "absent"]
  /\ results = [r \in ReportId |-> <<>>]
  /\ inspecting = [r \in ReportId |-> "none"]
  /\ cluster = [r \in ReportId |-> <<>>]
  /\ outcome = [r \in ReportId |-> <<>>]
  /\ gone = {}

RunInspection(r) ==
  /\ report[r] = "absent" /\ r \notin gone
  /\ report' = [report EXCEPT ![r] = "running"]
  /\ inspecting' = [inspecting EXCEPT ![r] = "started"]
  /\ UNCHANGED <<results, cluster, outcome, gone>>

\* The cron job does the same.
RunScheduledInspection(r) == RunInspection(r)

\* A script, a condition, another type of check or another kind is not implemented.
inspectionRuleError(rule) == rule.custom \/ rule.kind \notin Kinds

checkNodes(node) == IF node.ready THEN "pass" ELSE "fail"

\* A running pod is ready by its condition and by every container, of which there
\* must be one; many restarts turn a pass into a warning.
checkPods(pod) ==
  LET ready == pod.condition /\ pod.containers = "ready"
      status == CASE pod.phase = "Running" -> IF ready THEN "pass" ELSE "fail"
                  [] pod.phase = "Succeeded" -> "pass"
                  [] pod.phase = "Pending" -> "warn"
                  [] OTHER -> "fail"
  IN IF status = "pass" /\ pod.restarts > 5 THEN "warn" ELSE status

checkDeployments(deployment) ==
  IF deployment.desired = 0 THEN "warn"
  ELSE IF deployment.settled THEN "pass" ELSE "fail"

checkServices(service) == "warn"

Check(object) ==
  CASE object.kind = "node" -> checkNodes(object)
    [] object.kind = "pod" -> checkPods(object)
    [] object.kind = "deployment" -> checkDeployments(object)
    [] object.kind = "service" -> checkServices(object)

\* Mutant: an empty list of results counts as a success.
summarizeInspectionResultsEmpty(found) == IF "fail" \in ToSet(found) THEN "failed" ELSE "completed"
summarizeInspectionResults(found) ==
  IF found = <<>> \/ "fail" \in ToSet(found) THEN "failed" ELSE "completed"

\* executeInspection ends early when the rule or the client fails.
Refuse(r) ==
  /\ inspecting[r] = "started"
  /\ \E rule \in Rule, connected \in BOOLEAN : inspectionRuleError(rule) \/ ~connected
  /\ report' = [report EXCEPT ![r] = "failed"]
  /\ inspecting' = [inspecting EXCEPT ![r] = "none"]
  /\ UNCHANGED <<results, cluster, outcome, gone>>

\* The list, and a result for each object; a failed list is one failed result.
Inspect(r) ==
  /\ inspecting[r] = "started"
  /\ \E rule \in Rule :
       /\ ~inspectionRuleError(rule)
       /\ \/ \E n \in 0..MaxObjects : \E list \in [1..n -> Objects(rule.kind)] :
               /\ cluster' = [cluster EXCEPT ![r] = list]
               /\ outcome' = [outcome EXCEPT ![r] = [i \in 1..n |-> Check(list[i])]]
          \/ /\ cluster' = [cluster EXCEPT ![r] = <<[kind |-> "error"]>>]
             /\ outcome' = [outcome EXCEPT ![r] = <<"fail">>]
  /\ inspecting' = [inspecting EXCEPT ![r] = "checked"]
  /\ UNCHANGED <<report, results, gone>>

\* The results in one insert, which may fail; an empty list is not inserted.
SaveResults(r, stored) ==
  /\ inspecting[r] = "checked"
  /\ outcome[r] = <<>> => stored
  /\ results' = [results EXCEPT ![r] = IF stored THEN outcome[r] ELSE @]
  /\ inspecting' = [inspecting EXCEPT ![r] = IF stored THEN "saved" ELSE "unsaved"]
  /\ UNCHANGED <<report, cluster, outcome, gone>>

SaveReport(r) ==
  /\ inspecting[r] \in {"saved", "unsaved"}
  /\ report' = [report EXCEPT ![r] = IF inspecting[r] = "unsaved" THEN "failed"
                                     ELSE summarizeInspectionResults(outcome[r])]
  /\ inspecting' = [inspecting EXCEPT ![r] = "none"]
  /\ UNCHANGED <<results, cluster, outcome, gone>>

\* The reports with their results, all of the given ones or none.
deleteReports(ids) ==
  /\ \A r \in ids : report[r] \notin {"absent", "running"}
  /\ report' = [r \in ReportId |-> IF r \in ids THEN "absent" ELSE report[r]]
  /\ results' = [r \in ReportId |-> IF r \in ids THEN <<>> ELSE results[r]]
  /\ gone' = gone \cup ids
  /\ UNCHANGED <<inspecting, cluster, outcome>>

InspectionCrash ==
  /\ inspecting' = [r \in ReportId |-> "none"]
  /\ UNCHANGED <<report, results, cluster, outcome, gone>>

InspectionNext ==
  \/ \E r \in ReportId : \/ RunInspection(r) \/ RunScheduledInspection(r)
                         \/ Refuse(r) \/ Inspect(r) \/ SaveReport(r)
                         \/ \E stored \in BOOLEAN : SaveResults(r, stored)
  \/ \E ids \in SUBSET ReportId \ {{}} : deleteReports(ids)
  \/ InspectionCrash

-----------------------------------------------------------------------------
\* What an operator calls healthy or at least not known to be broken.
Sound(object) ==
  \/ object.kind = "node" /\ object.ready
  \/ object.kind = "pod" /\ \/ object.phase = "Running" /\ object.condition
                               /\ object.containers = "ready"
                            \/ object.phase \in {"Succeeded", "Pending"}
  \/ object.kind = "deployment" /\ (object.settled \/ object.desired = 0)
  \/ object.kind = "service"

\* A report that says completed has looked at something, found none of it
\* broken and stored a result for each object; results outlive their report never.
ReportIsTrue ==
  \A r \in ReportId :
    /\ report[r] = "completed" =>
         /\ cluster[r] # <<>>
         /\ \A i \in DOMAIN cluster[r] : Sound(cluster[r][i])
         /\ Len(results[r]) = Len(cluster[r])
    /\ report[r] = "absent" => results[r] = <<>>
=============================================================================
