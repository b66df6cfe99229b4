---------------------------- MODULE AccessControl ----------------------------
(***************************************************************************)
(* What a request of one user is answered when it asks whether it may go   *)
(* on: by the middleware about its route, by a handler about a target of   *)
(* its own, by the agent about a tool call.  The role, the user's grants   *)
(* and those of the user's groups are read by three statements, between    *)
(* which administrators may change any of them.  The module ends at the    *)
(* answer: which parameters the handler then uses is not part of it.       *)
(***************************************************************************)
EXTENDS Naturals, FiniteSets

CONSTANTS Cluster, Namespace,
          GrantLevel,   \* the levels that grants are given in this instance
          Permissions,  \* what the roles of this instance permit: sets of actions
          Routes,       \* the routes requested in this instance
          Questions,    \* what handlers and agents ask in this instance
          MaxGrants,    \* bound on the grants of the user, and of the group
          MaxEdits      \* bound on the steps of administrators

Scope == {"self", "platform", "handler", "cluster", "namespace", "namespace_list"}
Action == {"view", "create", "edit", "delete", "execute", "exec", "admin", "*", "other"}

\* The policy of a route, and what is told apart of its method and path: "shell" is a
\* terminal or its ticket, "direct" any other below the workloads or ops of a cluster.
Policy == [scope : Scope, action : Action, filtered : BOOLEAN,
           method : {"GET", "other"}, path : {"shell", "direct", "other"}]

\* A cluster id of 0.
NoCluster == "0"
AnyNamespace == "*"
Names == Namespace \cup {AnyNamespace, ""}

\* What is asked for: a namespace of a cluster, or with "*" or no name all of it.
Question ==
  [by : {"route", "handler", "agent", "reviewer"}, cluster : Cluster \cup {NoCluster},
   namespace : Names, action : Action]

ASSUME AccessAssumption ==
  /\ NoCluster \notin Cluster
  /\ AnyNamespace \notin Namespace /\ "" \notin Namespace
  /\ GrantLevel \subseteq {"read", "write", "admin"}
  /\ Permissions \subseteq SUBSET Action
  /\ Routes \subseteq Policy /\ Questions \subseteq Question
  /\ MaxGrants \in Nat /\ MaxEdits \in Nat

VARIABLES
  role,     \* the role row whose id the request carries
  direct,   \* the rows of user_clusters
  group,    \* "absent", "enabled", "disabled", "deleted"
  member,   \* the user has a row in the members of the group
  assigned, \* the rows of group_clusters
  gated,    \* direct writes to production clusters are blocked, and the target is one
  access,   \* the request: its place, route, what is asked, the rows read, the answer
  edits,    \* steps of administrators
  held      \* the roles, grants and gates in force since the request began (history)

accessVars == <<role, direct, group, member, assigned, gated, access, edits, held>>

Grants == [cluster : Cluster, namespace : Namespace \cup {AnyNamespace}, level : GrantLevel]

\* validateClusterAssignments: one grant per cluster and namespace.
validateClusterAssignments(grants) ==
  /\ Cardinality(grants) <= MaxGrants
  /\ \A g, h \in grants : g.cluster = h.cluster /\ g.namespace = h.namespace => g = h
Assignments == {grants \in SUBSET Grants : validateClusterAssignments(grants)}

\* A system role permits everything whatever its permissions say.
SystemRole == [kind |-> "system", permits |-> {}]
MissingRole == [kind |-> "missing", permits |-> {}]
PlainRoles == [kind : {"plain"}, permits : Permissions]

NoAccess == [pc |-> "idle"]
NoHistory == [roles |-> {}, grants |-> {}, gates |-> {}]

AccessInit ==
  /\ role = SystemRole
  /\ group \in {"absent", "enabled"} /\ member = (group = "enabled")
  /\ direct \in Assignments /\ assigned = {}
  /\ gated = FALSE
  /\ access = NoAccess
  /\ edits = 0
  /\ held = NoHistory

-----------------------------------------------------------------------------
(* Administration.  Each handler checks and then writes in a transaction.  *)

Administer == edits < MaxEdits /\ edits' = edits + 1 /\ UNCHANGED access

UpdateRole ==
  /\ Administer /\ role.kind = "plain"
  /\ role' \in PlainRoles \ {role}
  /\ UNCHANGED <<direct, group, member, assigned, gated>>

\* No user has the role any more, but a request may have been sent with it.
DeleteRole ==
  /\ Administer /\ access.pc # "idle" /\ role.kind = "plain"
  /\ role' = MissingRole
  /\ UNCHANGED <<direct, group, member, assigned, gated>>

ReplaceUserClusters ==
  /\ Administer
  /\ direct' \in Assignments
  /\ UNCHANGED <<role, group, member, assigned, gated>>

CreateUserGroup ==
  /\ Administer /\ group = "absent"
  /\ group' \in {"enabled", "disabled"}
  /\ UNCHANGED <<role, direct, member, assigned, gated>>

UpdateUserGroup ==
  /\ Administer /\ group \in {"enabled", "disabled"}
  /\ group' \in {"enabled", "disabled"} \ {group}
  /\ UNCHANGED <<role, direct, member, assigned, gated>>

\* The members and the grants go with the group.
DeleteUserGroup ==
  /\ Administer /\ group \in {"enabled", "disabled"}
  /\ group' = "deleted" /\ member' = FALSE /\ assigned' = {}
  /\ UNCHANGED <<role, direct, gated>>

\* The group was there when the handler looked; it may have been deleted before the
\* transaction, whose rows then stay.
ReplaceUserGroupMembers ==
  /\ Administer /\ group # "absent"
  /\ member' = ~member
  /\ UNCHANGED <<role, direct, group, assigned, gated>>
ReplaceUserGroupClusters ==
  /\ Administer /\ group # "absent"
  /\ assigned' \in Assignments
  /\ UNCHANGED <<role, direct, group, member, gated>>

\* The environment of the cluster, or the switch of the policy, is changed.
ChangeProductionPolicy ==
  /\ Administer
  /\ gated' = ~gated
  /\ UNCHANGED <<role, direct, group, member, assigned>>

Administration ==
  \/ UpdateRole \/ DeleteRole \/ ReplaceUserClusters
  \/ CreateUserGroup \/ UpdateUserGroup \/ DeleteUserGroup
  \/ ReplaceUserGroupMembers \/ ReplaceUserGroupClusters \/ ChangeProductionPolicy

-----------------------------------------------------------------------------
(* The decision.                                                           *)

rank(level) == CASE level = "read" -> 1 [] level = "write" -> 2 [] level = "admin" -> 3 [] OTHER -> 0
Valid(level) == level \in {"read", "write", "admin"}

RequiredLevel(action) ==
  CASE action = "view" -> "read"
    [] action \in {"create", "edit", "delete", "execute", "exec"} -> "write"
    [] action \in {"admin", "*"} -> "admin"
    [] OTHER -> ""

\* NewEffectiveAccess: per cluster and namespace the highest level.
GrantKey(g) == <<g.cluster, g.namespace>>
NewEffectiveAccess(rows) ==
  [key \in {GrantKey(g) : g \in rows} |->
     CHOOSE level \in {g.level : g \in {h \in rows : GrantKey(h) = key}} :
       \A g \in rows : GrantKey(g) = key => rank(g.level) <= rank(level)]

\* Mutant: the level is not compared.
allowsAnyLevel(effective, key, required) == Valid(required) /\ key \in DOMAIN effective
allows(effective, key, required) ==
  Valid(required) /\ key \in DOMAIN effective /\ rank(effective[key]) >= rank(required)

CanCluster(effective, cluster, required) == allows(effective, <<cluster, AnyNamespace>>, required)
CanNamespace(effective, cluster, name, required) ==
  /\ name # ""
  /\ \/ allows(effective, <<cluster, AnyNamespace>>, required)
     \/ allows(effective, <<cluster, name>>, required)
Authorize(effective, cluster, name, required) ==
  IF name = AnyNamespace THEN CanCluster(effective, cluster, required)
                         ELSE CanNamespace(effective, cluster, name, required)

Namespaces(effective, cluster, required) ==
  IF ~Valid(required) THEN {}
  ELSE IF CanCluster(effective, cluster, required) THEN {AnyNamespace}
  ELSE {key[2] : key \in {k \in DOMAIN effective :
          k[1] = cluster /\ k[2] # AnyNamespace /\ rank(effective[k]) >= rank(required)}}

\* A list without names restricts nothing.
AllowedNamespaceSet(allowed) ==
  LET names == allowed \ {"", AnyNamespace} IN IF names = {} THEN {AnyNamespace} ELSE names

-----------------------------------------------------------------------------
(* Questions and answers.                                                  *)

Keep == UNCHANGED <<direct, group, member, assigned, gated, edits>>

\* The places of a request that may give its namespace: the path, ?namespace and ?ns.
Given == [param : Names, namespace : Names, ns : Names]
firstNonEmpty(given) ==
  IF given.param # "" THEN given.param ELSE IF given.namespace # "" THEN given.namespace ELSE given.ns

\* The role is the user's by then: UpdateUser may have given another one.
Begin(route, cluster, name) ==
  /\ access.pc = "idle"
  /\ role' \in {SystemRole} \cup PlainRoles
  /\ access' = [pc |-> "role", route |-> route, rows |-> {}, listing |-> FALSE, answer |-> "none", checked |-> {},
                asked |-> [by |-> "route", cluster |-> cluster, namespace |-> name,
                           action |-> route.action]]
  /\ Keep

\* The route goes on to the production gate, a handler or an agent with its work.
Answer(verdict, names) ==
  access' = [access EXCEPT !.pc = IF access.asked.by = "route" THEN "gate" ELSE "handled",
                           !.rows = {}, !.listing = FALSE, !.answer = verdict, !.checked = names]
\* A handler or an agent may leave out what it was denied and go on.
Deny == IF access.asked.by = "route" THEN access' = NoAccess ELSE Answer("deny", {})
GoOn(pc) == access' = [access EXCEPT !.pc = pc]

\* The whole cluster where no namespace is given.
Wanted == IF \/ access.asked.namespace = ""
             \/ access.asked.by = "route" /\ access.route.scope = "cluster"
            THEN AnyNamespace ELSE access.asked.namespace

\* authorizeScope before it reads the grants.
Resolved ==
  /\ access.asked.cluster # NoCluster
  /\ Valid(RequiredLevel(access.asked.action))
  /\ access.route.scope = "namespace" => access.asked.namespace # ""

\* Middleware up to the grants.
CheckRole ==
  LET scope == access.route.scope
      permitted == access.asked.action \in role.permits IN
  /\ access.pc = "role" /\ access.asked.by = "route"
  /\ CASE scope = "self" \/ role.kind = "system" -> Answer("bypass", {})
       [] scope # "self" /\ role.kind # "system" /\ ~permitted -> Deny
       [] scope \in {"platform", "handler"} /\ role.kind # "system" /\ permitted -> Answer("allow", {})
       [] OTHER -> IF Resolved THEN GoOn("direct") ELSE Deny
  /\ Keep /\ UNCHANGED role

Ask(question, pc) == access' = [access EXCEPT !.pc = pc, !.asked = question, !.answer = "none", !.checked = {}]

\* A handler asks about a target it takes from its own parameters, a body or a row.
\* None has to.
EnsureScope(question) ==
  /\ access.pc = "handled" /\ question.by = "handler"
  /\ Ask(question, "role")
  /\ Keep /\ UNCHANGED role

\* Check: the role is read again.  Without a cluster it decides alone.
RequireScope ==
  /\ access.pc = "role" /\ access.asked.by = "handler"
  /\ CASE role.kind = "system" -> Answer("bypass", {})
       [] role.kind # "system" /\ access.asked.action \notin role.permits -> Deny
       [] OTHER -> IF access.asked.cluster = NoCluster THEN Answer("allow", {}) ELSE GoOn("direct")
  /\ Keep /\ UNCHANGED role

\* A tool of the agent asks, or the review of a change.  A tool reads the user's row
\* again, which UpdateUser may have given another role.
AgentAsks(question) ==
  /\ access.pc = "handled" /\ question.by \in {"agent", "reviewer"}
  /\ Ask(question, "role")
  /\ role' \in {role} \cup (IF question.by = "agent" THEN {SystemRole} \cup PlainRoles ELSE {})
  /\ Keep

\* The permission to execute covers the tools that only read.
ensureToolAccess ==
  /\ access.pc = "role" /\ access.asked.by = "agent"
  /\ IF access.asked.cluster = NoCluster THEN Deny
     ELSE IF role.kind = "system" THEN Answer("bypass", {})
     ELSE IF {access.asked.action, "execute"} \cap role.permits = {} THEN Deny ELSE GoOn("direct")
  /\ Keep /\ UNCHANGED role

\* The route of the review has checked the permission.
canReviewChange ==
  /\ access.pc = "role" /\ access.asked.by = "reviewer"
  /\ CASE role.kind = "missing" -> Deny
       [] role.kind = "system" -> Answer("bypass", {})
       [] OTHER -> GoOn("direct")
  /\ Keep /\ UNCHANGED role

\* A list that may not see the whole cluster asks for its namespaces.
authorizeScope(rows) ==
  IF Authorize(NewEffectiveAccess(rows), access.asked.cluster, Wanted, RequiredLevel(access.asked.action))
    THEN Answer("allow", {Wanted})
  ELSE IF access.asked.by = "route" /\ access.route.scope = "namespace_list" /\ access.asked.namespace = ""
    THEN access' = [access EXCEPT !.pc = "direct", !.rows = {}, !.listing = TRUE]
  ELSE Deny

\* The namespaces by which a handler is to filter its list.
AllowedNamespaces(rows) ==
  LET names == Namespaces(NewEffectiveAccess(rows), access.asked.cluster,
                          RequiredLevel(access.asked.action)) \ {"", AnyNamespace}
  IN IF names # {} /\ access.route.filtered THEN Answer("allow", AllowedNamespaceSet(names)) ELSE Deny

\* The tools and the review look at the direct grants only.
AgentAuthorize ==
  /\ access.pc = "direct" /\ access.asked.by \in {"agent", "reviewer"}
  /\ authorizeScope(direct)
  /\ Keep /\ UNCHANGED role

EffectiveDirect ==
  /\ access.pc = "direct" /\ access.asked.by \in {"route", "handler"}
  /\ access' = [access EXCEPT !.pc = "inherited", !.rows = direct]
  /\ Keep /\ UNCHANGED role
Inherited == IF group = "enabled" /\ member THEN assigned ELSE {}
EffectiveInherited ==
  /\ access.pc = "inherited"
  /\ IF access.listing THEN AllowedNamespaces(access.rows \cup Inherited)
                       ELSE authorizeScope(access.rows \cup Inherited)
  /\ Keep /\ UNCHANGED role

\* By method and path, whatever the policy of the route: a shell changes a cluster even
\* over GET.
directClusterMutation(route) == route.path = "shell" \/ (route.method # "GET" /\ route.path = "direct")
\* The cluster is that of the path.
ProductionWriteGate ==
  /\ access.pc = "gate"
  /\ IF directClusterMutation(access.route) /\ (access.asked.cluster = NoCluster \/ gated)
       THEN Deny ELSE GoOn("handled")
  /\ Keep /\ UNCHANGED role

RequestHandled ==
  /\ access.pc = "handled"
  /\ access' = NoAccess
  /\ Keep /\ UNCHANGED role

Middleware ==
  \/ \E route \in Routes, cluster \in Cluster \cup {NoCluster}, name \in {firstNonEmpty(given) : given \in Given} :
       Begin(route, cluster, name)
  \/ CheckRole \/ RequireScope \/ ensureToolAccess \/ canReviewChange
  \/ AgentAuthorize \/ EffectiveDirect \/ EffectiveInherited \/ ProductionWriteGate \/ RequestHandled

Handlers == \E question \in Questions : EnsureScope(question) \/ AgentAsks(question)

AccessNext ==
  /\ Administration \/ Middleware \/ Handlers
  /\ held' = IF access'.pc = "idle" THEN NoHistory
             ELSE [roles |-> held.roles \cup {role'}, grants |-> held.grants \cup direct' \cup Inherited',
                   gates |-> held.gates \cup {gated'}]

AccessSpec == AccessInit /\ [][AccessNext]_accessVars

-----------------------------------------------------------------------------
\* One grant, by itself, covers what was asked: the namespace, or with "*" the cluster.
Covered(name) ==
  \E g \in held.grants :
    /\ g.cluster = access.asked.cluster
    /\ g.namespace \in {AnyNamespace, name}
    /\ rank(g.level) >= rank(RequiredLevel(access.asked.action))

\* The answer depends on grants, unless a role bypasses them.
AsksGrants ==
  CASE access.asked.by = "route" -> access.route.scope \in {"cluster", "namespace", "namespace_list"}
    [] access.asked.by = "handler" -> access.asked.cluster # NoCluster
    [] OTHER -> TRUE

\* The role allows what is asked; a tool that reads is also covered by "execute".
Permitting(r) ==
  access.asked.action \in r.permits \/ (access.asked.by = "agent" /\ "execute" \in r.permits)

\* Every answer the middleware, a handler's check or an agent's check gives is one that
\* rows in force since the request began justify, although they were read at different
\* times: a bypass by a system role; a yes by a role with the permission and, where grants
\* are asked for, by one grant of the user or of an enabled group with the user in it that
\* covers the namespace, or the whole cluster, at the level of the action.  And a
\* request that its method and path make a write reaches its handler only if the
\* production gate has been open.
AnswerAsGranted ==
  access.pc = "handled" =>
    /\ directClusterMutation(access.route) => \E gate \in held.gates : ~gate
    /\ access.answer = "bypass" => access.route.scope = "self" \/ \E r \in held.roles : r.kind = "system"
    /\ access.answer = "allow" =>
         /\ access.asked.by = "reviewer" \/ \E r \in held.roles : Permitting(r)
         /\ AsksGrants => access.checked # {} /\ \A name \in access.checked : Covered(name)
         /\ access.asked.by = "route" /\ access.route.scope = "cluster" => access.checked = {AnyNamespace}
=============================================================================
