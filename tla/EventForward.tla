--------------------------- MODULE EventForward ---------------------------
(***************************************************************************)
(* Event forwarding: for every enabled rule a goroutine watches the events *)
(* of a cluster and posts the matching ones to a webhook.  Each replica    *)
(* keeps the cancel functions of its watchers in a map under a mutex; the  *)
(* rules are rows that HTTP handlers of any replica edit, and the elected  *)
(* leader starts a watcher for each of them.  A step is one critical       *)
(* section, one database statement or one turn of a watcher's select.      *)
(***************************************************************************)
EXTENDS Naturals

CONSTANTS Replica,
          Rule,
          Request,    \* HTTP requests under way
          Watcher,    \* identities for the goroutines that are ever started
          MaxVersion, \* bound on the number of edits of a rule
          None

ASSUME ForwardAssumption ==
  /\ None \notin Replica /\ None \notin Rule /\ None \notin Watcher
  /\ MaxVersion \in Nat \ {0}

VARIABLES
  rule,      \* event_forward_rules
  cancels,   \* per replica: the watcher whose cancel function a rule's id maps to
  watcher,   \* the goroutines
  leading,   \* the replica runs its singleton modules
  starting,  \* the rules StartWatchers has read and has still to start, per replica
  request,
  faulty     \* history: a watch failed or was closed, a statement failed, a replica crashed

vars == <<rule, cancels, watcher, leading, starting, request, faulty>>

NoRule == [exists |-> FALSE, enabled |-> FALSE, version |-> 0]
NotStarted == [pc |-> "unused", replica |-> None, rule |-> None, cancelled |-> FALSE]
IdleRequest == [pc |-> "idle", replica |-> None, rule |-> None, copy |-> NoRule]

Init ==
  /\ rule = [r \in Rule |-> NoRule]
  /\ cancels = [p \in Replica |-> [r \in Rule |-> None]]
  /\ watcher = [w \in Watcher |-> NotStarted]
  /\ leading = [p \in Replica |-> FALSE]
  /\ starting = [p \in Replica |-> {}]
  /\ request = [q \in Request |-> IdleRequest]
  /\ faulty = FALSE

-----------------------------------------------------------------------------
(* The map of cancel functions.                                            *)

\* The watchers after those of W have been cancelled.
Cancelled(W) == [w \in Watcher |-> [watcher[w] EXCEPT !.cancelled = @ \/ w \in W]]

Registered(p, r) == {cancels[p][r]} \ {None}

\* stopWatcher.
StopWatcher(p, r) ==
  /\ watcher' = Cancelled(Registered(p, r))
  /\ cancels' = [cancels EXCEPT ![p][r] = None]

\* startEventWatcher: the goroutine gets its own copy of the rule, of which only
\* the id matters here.
ReplacedByStartNone(p, r) == {}
ReplacedByStart(p, r) == Registered(p, r)
StartEventWatcher(p, r) ==
  LET unused == {w \in Watcher : watcher[w].pc = "unused"}
      w == CHOOSE x \in unused : TRUE IN
    /\ unused # {}
    /\ watcher' = [Cancelled(ReplacedByStart(p, r)) EXCEPT ![w] =
                     [pc |-> "starting", replica |-> p, rule |-> r,
                      cancelled |-> FALSE]]
    /\ cancels' = [cancels EXCEPT ![p][r] = w]

-----------------------------------------------------------------------------
(* The module's Start and Stop, called on the elected leader.              *)

\* StartWatchers reads the enabled rules, then starts them one by one.  The
\* election is not modelled here, and two replicas may overlap: one that lost
\* its database session notices it up to a second later.
StartWatchers(p) ==
  /\ ~leading[p]
  /\ leading' = [leading EXCEPT ![p] = TRUE]
  /\ starting' = [starting EXCEPT ![p] = {r \in Rule : rule[r].exists /\ rule[r].enabled}]
  /\ UNCHANGED <<rule, cancels, watcher, request, faulty>>

StartNextWatcher(p) ==
  \E s \in starting[p] :
    /\ StartEventWatcher(p, s)
    /\ starting' = [starting EXCEPT ![p] = @ \ {s}]
    /\ UNCHANGED <<rule, leading, request, faulty>>

StopWatchers(p) ==
  /\ leading[p] /\ starting[p] = {}
  /\ watcher' = Cancelled({cancels[p][r] : r \in Rule} \ {None})
  /\ cancels' = [cancels EXCEPT ![p] = [r \in Rule |-> None]]
  /\ leading' = [leading EXCEPT ![p] = FALSE]
  /\ UNCHANGED <<rule, starting, request, faulty>>

\* The process dies: its goroutines run no deferred call.
Crash(p) ==
  /\ watcher' = [w \in Watcher |->
       IF watcher[w].replica = p THEN [watcher[w] EXCEPT !.pc = "done", !.cancelled = TRUE] ELSE watcher[w]]
  /\ cancels' = [cancels EXCEPT ![p] = [r \in Rule |-> None]]
  /\ leading' = [leading EXCEPT ![p] = FALSE]
  /\ starting' = [starting EXCEPT ![p] = {}]
  /\ request' = [q \in Request |-> IF request[q].replica = p THEN IdleRequest ELSE request[q]]
  /\ faulty' = TRUE
  /\ UNCHANGED rule

-----------------------------------------------------------------------------
(* HTTP handlers.                                                          *)

Enter(q, pc, p, r, copy) ==
  /\ request[q].pc = "idle"
  /\ request' = [request EXCEPT ![q] = [pc |-> pc, replica |-> p, rule |-> r, copy |-> copy]]

Proceed(q, pc) == request' = [request EXCEPT ![q] = IF pc = "idle" THEN IdleRequest ELSE [@ EXCEPT !.pc = pc]]

\* CreateRule; an id is given once.
CreateRule(q, p, r) ==
  /\ rule[r].version = 0
  /\ rule' = [rule EXCEPT ![r] = [exists |-> TRUE, enabled |-> TRUE, version |-> 1]]
  /\ Enter(q, "start", p, r, rule'[r])
  /\ UNCHANGED <<cancels, watcher, leading, starting, faulty>>

\* UpdateRule writes the row, reads it again, stops the watcher and starts one.
UpdateRule(q, p, r, b) ==
  /\ rule[r].exists /\ rule[r].version < MaxVersion
  /\ rule' = [rule EXCEPT ![r].enabled = b, ![r].version = @ + 1]
  /\ Enter(q, "reload", p, r, NoRule)
  /\ UNCHANGED <<cancels, watcher, leading, starting, faulty>>

ReloadRule(q) ==
  LET row == rule[request[q].rule] IN
  /\ request[q].pc = "reload"
  /\ request' = [request EXCEPT ![q] =
       IF row.exists THEN [@ EXCEPT !.pc = "restart", !.copy = row] ELSE IdleRequest]
  /\ UNCHANGED <<rule, cancels, watcher, leading, starting, faulty>>

AfterStopAlways(copy) == "start"
AfterStop(copy) == IF copy.enabled THEN "start" ELSE "idle"
RestartWatcher(q) ==
  /\ request[q].pc = "restart"
  /\ StopWatcher(request[q].replica, request[q].rule)
  /\ Proceed(q, AfterStop(request[q].copy))
  /\ UNCHANGED <<rule, leading, starting, faulty>>

\* The end of CreateRule and UpdateRule.
StartWatcher(q) ==
  /\ request[q].pc = "start"
  /\ StartEventWatcher(request[q].replica, request[q].rule)
  /\ Proceed(q, "idle")
  /\ UNCHANGED <<rule, leading, starting, faulty>>

\* DeleteRule finds the row, stops the watcher and then deletes the row.
DeleteRule(q, p, r) ==
  /\ rule[r].exists
  /\ Enter(q, "stop", p, r, NoRule)
  /\ UNCHANGED <<rule, cancels, watcher, leading, starting, faulty>>

StopDeleted(q) ==
  /\ request[q].pc = "stop"
  /\ StopWatcher(request[q].replica, request[q].rule)
  /\ Proceed(q, "delete")
  /\ UNCHANGED <<rule, leading, starting, faulty>>

DeleteRow(q) ==
  /\ request[q].pc = "delete"
  /\ rule' = [rule EXCEPT ![request[q].rule].exists = FALSE]
  /\ Proceed(q, "idle")
  /\ UNCHANGED <<cancels, watcher, leading, starting, faulty>>

\* The second statement of UpdateRule or DeleteRule fails: the handler returns
\* with the first half of its work done.
StatementFails(q) ==
  /\ request[q].pc \in {"reload", "delete"}
  /\ Proceed(q, "idle")
  /\ faulty' = TRUE
  /\ UNCHANGED <<rule, cancels, watcher, leading, starting>>

-----------------------------------------------------------------------------
(* watchEvents.                                                            *)

Step(w, from, to) == watcher[w].pc = from /\ watcher' = [watcher EXCEPT ![w].pc = to]

\* No client for the cluster, or Watch returns an error (also: cancelled).
WatchFailed(w) ==
  /\ Step(w, "starting", "exiting")
  /\ faulty' = (faulty \/ ~watcher[w].cancelled)
  /\ UNCHANGED <<rule, cancels, leading, starting, request>>

WatchOpened(w) ==
  /\ Step(w, "starting", "watching")
  /\ UNCHANGED <<rule, cancels, leading, starting, request, faulty>>

\* select takes any ready case: an event may still win over the cancellation.
ReceiveEvent(w) ==
  /\ Step(w, "watching", "sending")
  /\ UNCHANGED <<rule, cancels, leading, starting, request, faulty>>

SendWebhook(w) ==
  /\ Step(w, "sending", "watching")
  /\ UNCHANGED <<rule, cancels, leading, starting, request, faulty>>

DoneReadyNever(w) == FALSE
DoneReady(w) == watcher[w].cancelled
ContextDone(w) ==
  /\ DoneReady(w)
  /\ Step(w, "watching", "exiting")
  /\ UNCHANGED <<rule, cancels, leading, starting, request, faulty>>

\* The API server closes the watch; nothing opens it again.
WatchClosed(w) ==
  /\ Step(w, "watching", "exiting")
  /\ faulty' = (faulty \/ ~watcher[w].cancelled)
  /\ UNCHANGED <<rule, cancels, leading, starting, request>>

\* The deferred stopWatcher: it stops whatever the rule's id maps to by now.
DeferredNothing(w) == {}
Deferred(w) == Registered(watcher[w].replica, watcher[w].rule)
WatcherExit(w) ==
  LET p == watcher[w].replica
      r == watcher[w].rule IN
  /\ watcher[w].pc = "exiting"
  /\ watcher' = [Cancelled(Deferred(w)) EXCEPT ![w].pc = "done"]
  /\ cancels' = [cancels EXCEPT ![p][r] = IF @ \in Deferred(w) THEN None ELSE @]
  /\ UNCHANGED <<rule, leading, starting, request, faulty>>

-----------------------------------------------------------------------------
Handling(q) ==
  \/ \E p \in Replica, r \in Rule :
       CreateRule(q, p, r) \/ DeleteRule(q, p, r) \/ \E b \in BOOLEAN : UpdateRule(q, p, r, b)
  \/ ReloadRule(q)
  \/ RestartWatcher(q)
  \/ StartWatcher(q)
  \/ StopDeleted(q)
  \/ DeleteRow(q)
  \/ StatementFails(q)

\* The steps a goroutine takes without waiting for the API server.
Advance(w) ==
  \/ WatchFailed(w)
  \/ WatchOpened(w)
  \/ SendWebhook(w)
  \/ WatcherExit(w)

Next ==
  \/ \E p \in Replica : StartWatchers(p) \/ StartNextWatcher(p) \/ StopWatchers(p) \/ Crash(p)
  \/ \E q \in Request : Handling(q)
  \/ \E w \in Watcher : Advance(w) \/ ReceiveEvent(w) \/ ContextDone(w) \/ WatchClosed(w)

Spec == Init /\ [][Next]_vars

\* A goroutine keeps running, a webhook call has a timeout, and select, which
\* picks among the ready cases at random, does not overlook ctx.Done forever.
FairSpec ==
  /\ Spec
  /\ \A w \in Watcher : WF_vars(Advance(w)) /\ SF_vars(ContextDone(w))

-----------------------------------------------------------------------------
(* Properties.                                                             *)

RuleType == [exists : BOOLEAN, enabled : BOOLEAN, version : 0 .. MaxVersion]
WatcherType ==
  [pc : {"unused", "starting", "watching", "sending", "exiting", "done"},
   replica : Replica \cup {None}, rule : Rule \cup {None}, cancelled : BOOLEAN]
RequestType ==
  [pc : {"idle", "start", "reload", "restart", "stop", "delete"},
   replica : Replica \cup {None}, rule : Rule \cup {None}, copy : RuleType]

\* Type correctness: what a goroutine and a request carry at each point, and
\* that a handler only goes on to start a watcher for a rule it saw enabled.
TypeOK ==
  /\ rule \in [Rule -> RuleType]
  /\ cancels \in [Replica -> [Rule -> Watcher \cup {None}]]
  /\ watcher \in [Watcher -> WatcherType]
  /\ leading \in [Replica -> BOOLEAN]
  /\ starting \in [Replica -> SUBSET Rule]
  /\ request \in [Request -> RequestType]
  /\ faulty \in BOOLEAN
  /\ \A w \in Watcher :
       IF watcher[w].pc = "unused" THEN watcher[w].replica = None
       ELSE watcher[w].replica \in Replica /\ watcher[w].rule \in Rule
  /\ \A q \in Request : request[q].pc # "idle" => request[q].replica \in Replica /\ request[q].rule \in Rule
  /\ \A q \in Request : request[q].pc = "start" => request[q].copy.enabled

Running(w) == watcher[w].pc \in {"starting", "watching", "sending", "exiting"} /\ ~watcher[w].cancelled

\* ActiveWatcherCount and the module's Health count the map: it holds exactly
\* the watchers that have not been cancelled and have not returned.  So no
\* watcher is ever out of reach of UpdateRule, DeleteRule and StopWatchers, no
\* replica forwards a rule twice, and no dead watcher is counted.
MapIsExact ==
  /\ \A w \in Watcher : Running(w) => cancels[watcher[w].replica][watcher[w].rule] = w
  /\ \A p \in Replica, r \in Rule : \A w \in Registered(p, r) :
       Running(w) /\ watcher[w].replica = p /\ watcher[w].rule = r

\* A cancelled watcher stops, also while events keep arriving.
CancelledStops == \A w \in Watcher : watcher[w].cancelled ~> watcher[w].pc = "done"

\* watchEvents uses its copy of the rule because "UpdateRule/DeleteRule cancel
\* and restart watchers": while nothing fails, and neither the leader's Start
\* nor a request is under way, every enabled rule has a watcher on the leader.
EnabledRuleWatched ==
  ~faulty /\ (\A q \in Request : request[q].pc = "idle") =>
    \A p \in Replica, r \in Rule :
      leading[p] /\ starting[p] = {} /\ rule[r].exists /\ rule[r].enabled =>
        \E w \in Watcher : Running(w) /\ watcher[w].rule = r
=============================================================================
