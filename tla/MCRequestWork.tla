---------------------------- MODULE MCRequestWork ----------------------------
EXTENDS RequestWork, TLC

\* A route of every scope ("platform" is decided as "handler" is); lists with and
\* without the filter; writes, a shell and a read below a cluster.
MCRoutes ==
  [scope : {"self"}, action : {"other"}, filtered : {FALSE}, method : {"GET"}, path : {"other"}]
    \cup [scope : {"handler"}, action : {"execute"}, filtered : {FALSE}, method : {"other"}, path : {"other"}]
    \cup [scope : {"namespace"}, action : {"execute"}, filtered : {FALSE}, method : {"GET"}, path : {"shell"}]
    \cup [scope : {"cluster"}, action : {"execute", "other"}, filtered : {FALSE}, method : {"other"},
          path : {"direct"}]
    \cup [scope : {"namespace_list"}, action : {"view"}, filtered : BOOLEAN, method : {"GET"}, path : {"direct"}]

MCQuestions ==
  [by : {"handler"}, cluster : Cluster, namespace : Namespace, action : {"execute"}]
    \cup [by : {"handler", "agent"}, cluster : {NoCluster}, namespace : {""}, action : {"execute"}]
    \cup [by : {"agent"}, cluster : Cluster, namespace : {""}, action : {"view"}]
    \cup [by : {"reviewer"}, cluster : Cluster, namespace : {""}, action : {"execute"}]

MCPermissions == {{"view"}, {"view", "execute", "other"}}

Symmetry ==
  Permutations(Request) \cup Permutations(Cluster) \cup Permutations(Namespace)
=============================================================================
