------------------------- MODULE EventForwardProofs -------------------------
(***************************************************************************)
(* Proofs about EventForward, for any number of replicas, rules, requests  *)
(* and watchers.  MapIsExact is inductive together with TypeOK: the second *)
(* conjunct (what the map holds is running) tells a start or a stop that   *)
(* it cancels the right goroutine, the first one (what runs is in the map) *)
(* is what it has to re-establish.                                         *)
(***************************************************************************)
EXTENDS EventForward, TLAPS

-----------------------------------------------------------------------------
(* Type correctness.                                                       *)

Goroutines ==
  /\ watcher \in [Watcher -> WatcherType]
  /\ \A w \in Watcher :
       IF watcher[w].pc = "unused" THEN watcher[w].replica = None
       ELSE watcher[w].replica \in Replica /\ watcher[w].rule \in Rule
Requests ==
  /\ request \in [Request -> RequestType]
  /\ \A q \in Request : request[q].pc # "idle" => request[q].replica \in Replica /\ request[q].rule \in Rule
  /\ \A q \in Request : request[q].pc = "start" => request[q].copy.enabled
Rest ==
  /\ rule \in [Rule -> RuleType]
  /\ leading \in [Replica -> BOOLEAN]
  /\ starting \in [Replica -> SUBSET Rule]
  /\ faulty \in BOOLEAN
CancelMap == cancels \in [Replica -> [Rule -> Watcher \cup {None}]]

LEMMA TypeParts == TypeOK <=> Goroutines /\ Requests /\ Rest /\ CancelMap
  BY DEF TypeOK, Goroutines, Requests, Rest, CancelMap

\* Cancelling the watchers of a set keeps their type and touches nothing else.
LEMMA CancelledType ==
  ASSUME watcher \in [Watcher -> WatcherType], NEW W
  PROVE  /\ Cancelled(W) \in [Watcher -> WatcherType]
         /\ \A w \in Watcher :
              /\ Cancelled(W)[w].pc = watcher[w].pc
              /\ Cancelled(W)[w].replica = watcher[w].replica
              /\ Cancelled(W)[w].rule = watcher[w].rule
              /\ Cancelled(W)[w].cancelled <=> (watcher[w].cancelled \/ w \in W)
  BY DEF Cancelled, WatcherType

LEMMA InitType == Init => TypeOK
<1> SUFFICES ASSUME Init PROVE TypeOK
  OBVIOUS
<1>1. NoRule \in RuleType
  BY ForwardAssumption DEF NoRule, RuleType
<1>2. Goroutines
  BY DEF Init, Goroutines, NotStarted, WatcherType
<1>3. Requests
  BY <1>1 DEF Init, Requests, IdleRequest, RequestType
<1>4. Rest /\ CancelMap
  BY <1>1 DEF Init, Rest, CancelMap
<1> QED BY <1>2, <1>3, <1>4, TypeParts

\* stopWatcher.
LEMMA StopType ==
  ASSUME TypeOK, NEW p \in Replica, NEW r \in Rule, StopWatcher(p, r)
  PROVE  Goroutines' /\ CancelMap'
<1>1. Goroutines'
  BY CancelledType DEF TypeOK, StopWatcher, Goroutines
<1>2. CancelMap'
  BY DEF TypeOK, StopWatcher, CancelMap
<1> QED BY <1>1, <1>2

\* startEventWatcher: w is the goroutine it starts.
LEMMA StartNames ==
  ASSUME NEW p, NEW r, StartEventWatcher(p, r)
  PROVE  \E w \in Watcher :
           /\ watcher[w].pc = "unused"
           /\ watcher' = [Cancelled(Registered(p, r)) EXCEPT ![w] =
                            [pc |-> "starting", replica |-> p, rule |-> r, cancelled |-> FALSE]]
           /\ cancels' = [cancels EXCEPT ![p][r] = w]
  BY DEF StartEventWatcher, ReplacedByStart

LEMMA StartType ==
  ASSUME TypeOK, NEW p \in Replica, NEW r \in Rule, StartEventWatcher(p, r)
  PROVE  Goroutines' /\ CancelMap'
<1> PICK w \in Watcher :
      /\ watcher[w].pc = "unused"
      /\ watcher' = [Cancelled(Registered(p, r)) EXCEPT ![w] =
                       [pc |-> "starting", replica |-> p, rule |-> r, cancelled |-> FALSE]]
      /\ cancels' = [cancels EXCEPT ![p][r] = w]
  BY StartNames
<1>1. [pc |-> "starting", replica |-> p, rule |-> r, cancelled |-> FALSE] \in WatcherType
  BY DEF WatcherType
<1>2. Goroutines'
  <2> DEFINE W == Cancelled(Registered(p, r))
             n == [pc |-> "starting", replica |-> p, rule |-> r, cancelled |-> FALSE]
  <2>1. W \in [Watcher -> WatcherType]
    BY CancelledType DEF TypeOK
  <2>2. \A x \in Watcher : W[x].pc = watcher[x].pc /\ W[x].replica = watcher[x].replica
                           /\ W[x].rule = watcher[x].rule
    BY CancelledType DEF TypeOK
  <2>3. watcher' = [W EXCEPT ![w] = n]
    OBVIOUS
  <2>4. n.pc = "starting" /\ n.replica = p /\ n.rule = r /\ n \in WatcherType
    BY <1>1
  <2> HIDE DEF W, n
  <2>5. watcher' \in [Watcher -> WatcherType]
    BY <2>1, <2>3, <2>4
  <2>6. ASSUME NEW x \in Watcher
        PROVE  IF watcher'[x].pc = "unused" THEN watcher'[x].replica = None
               ELSE watcher'[x].replica \in Replica /\ watcher'[x].rule \in Rule
    <3>1. CASE x = w
      BY <2>1, <2>3, <2>4, <3>1
    <3>2. CASE x # w
      BY <2>1, <2>2, <2>3, <3>2 DEF TypeOK
    <3> QED BY <3>1, <3>2
  <2> QED BY <2>5, <2>6 DEF Goroutines
<1>3. CancelMap'
  BY DEF TypeOK, CancelMap
<1> QED BY <1>2, <1>3

\* A turn of a goroutine that stays away from the map.
LEMMA StepType ==
  ASSUME TypeOK, NEW w \in Watcher,
         NEW from \in {"starting", "watching", "sending"}, NEW to \in {"watching", "sending", "exiting"},
         Step(w, from, to)
  PROVE  Goroutines'
<1> DEFINE n == [watcher[w] EXCEPT !.pc = to]
<1>1. watcher[w] \in WatcherType /\ watcher[w].pc # "unused"
  BY DEF TypeOK, Step
<1>2. n \in WatcherType /\ n.pc = to /\ n.replica = watcher[w].replica /\ n.rule = watcher[w].rule
  BY <1>1 DEF WatcherType
<1>3. watcher' = [watcher EXCEPT ![w] = n]
  BY DEF Step
<1> HIDE DEF n
<1>4. watcher' \in [Watcher -> WatcherType]
  BY <1>2, <1>3 DEF TypeOK
<1>5. ASSUME NEW x \in Watcher
      PROVE  IF watcher'[x].pc = "unused" THEN watcher'[x].replica = None
             ELSE watcher'[x].replica \in Replica /\ watcher'[x].rule \in Rule
  <2>1. CASE x = w
    BY <1>1, <1>2, <1>3, <2>1 DEF TypeOK
  <2>2. CASE x # w
    BY <1>3, <2>2 DEF TypeOK
  <2> QED BY <2>1, <2>2
<1> QED BY <1>4, <1>5 DEF Goroutines

\* What Enter and Proceed leave in a request.
LEMMA EnterType ==
  ASSUME TypeOK, NEW q \in Request, NEW p \in Replica, NEW r \in Rule, NEW copy \in RuleType,
         NEW pc \in {"start", "reload", "stop"}, pc = "start" => copy.enabled,
         Enter(q, pc, p, r, copy)
  PROVE  Requests'
<1>1. [pc |-> pc, replica |-> p, rule |-> r, copy |-> copy] \in RequestType
  BY DEF RequestType
<1> QED BY <1>1 DEF TypeOK, Enter, Requests, RequestType

LEMMA ProceedType ==
  ASSUME TypeOK, NEW q \in Request, NEW pc \in {"idle", "start", "delete"},
         request[q].pc # "idle", pc = "start" => request[q].copy.enabled,
         Proceed(q, pc)
  PROVE  Requests'
<1>1. IdleRequest \in RequestType
  BY ForwardAssumption DEF IdleRequest, RequestType, NoRule, RuleType
<1>2. CASE pc = "idle"
  BY <1>1, <1>2 DEF TypeOK, Proceed, Requests, IdleRequest
<1>3. CASE pc # "idle"
  BY <1>3 DEF TypeOK, Proceed, Requests, RequestType
<1> QED BY <1>2, <1>3

LEMMA NextType == TypeOK /\ [Next]_vars => TypeOK'
<1> SUFFICES ASSUME TypeOK, [Next]_vars PROVE TypeOK'
  OBVIOUS
<1>0. Goroutines /\ Requests /\ Rest /\ CancelMap
  BY TypeParts
<1>p. Goroutines' /\ Requests' /\ Rest' /\ CancelMap' => TypeOK'
  BY DEF TypeOK, Goroutines, Requests, Rest, CancelMap
<1>u. /\ UNCHANGED watcher => Goroutines'
      /\ UNCHANGED request => Requests'
      /\ UNCHANGED <<rule, leading, starting, faulty>> => Rest'
      /\ UNCHANGED cancels => CancelMap'
  BY <1>0 DEF Goroutines, Requests, Rest, CancelMap
<1>n. NoRule \in RuleType
  BY ForwardAssumption DEF NoRule, RuleType
<1>1. ASSUME NEW p \in Replica, StartWatchers(p) PROVE TypeOK'
  <2>1. Rest'
    BY <1>0, <1>1 DEF StartWatchers, Rest
  <2> QED BY <2>1, <1>1, <1>u, <1>p DEF StartWatchers
<1>2. ASSUME NEW p \in Replica, StartNextWatcher(p) PROVE TypeOK'
  <2> PICK s \in starting[p] : /\ StartEventWatcher(p, s)
                               /\ starting' = [starting EXCEPT ![p] = @ \ {s}]
                               /\ UNCHANGED <<rule, leading, request, faulty>>
    BY <1>2 DEF StartNextWatcher
  <2>1. s \in Rule
    BY <1>0 DEF Rest
  <2>2. Goroutines' /\ CancelMap'
    BY <2>1, StartType
  <2>3. Rest'
    BY <1>0 DEF Rest
  <2> QED BY <2>2, <2>3, <1>u, <1>p
<1>3. ASSUME NEW p \in Replica, StopWatchers(p) PROVE TypeOK'
  <2>1. Goroutines'
    BY <1>0, <1>3, CancelledType DEF StopWatchers, Goroutines
  <2>2. Rest'
    BY <1>0, <1>3 DEF StopWatchers, Rest
  <2>3. CancelMap'
    BY <1>0, <1>3 DEF StopWatchers, CancelMap
  <2> QED BY <2>1, <2>2, <2>3, <1>3, <1>u, <1>p DEF StopWatchers
<1>4. ASSUME NEW p \in Replica, Crash(p) PROVE TypeOK'
  <2>1. Goroutines'
    <3> DEFINE Dead(w) == [watcher[w] EXCEPT !.pc = "done", !.cancelled = TRUE]
    <3>1. ASSUME NEW w \in Watcher, watcher[w].replica = p
          PROVE  Dead(w) \in WatcherType /\ watcher[w].rule \in Rule
      BY <1>0, <3>1, ForwardAssumption DEF Goroutines, WatcherType
    <3> QED BY <3>1, <1>0, <1>4 DEF Crash, Goroutines, WatcherType
  <2>2. Rest'
    BY <1>0, <1>4 DEF Crash, Rest
  <2>3. CancelMap'
    BY <1>0, <1>4 DEF Crash, CancelMap
  <2>4. Requests'
    BY <1>0, <1>n, <1>4 DEF Crash, Requests, IdleRequest, RequestType
  <2> QED BY <2>1, <2>2, <2>3, <2>4, <1>p
<1>5. ASSUME NEW q \in Request, NEW p \in Replica, NEW r \in Rule, CreateRule(q, p, r) PROVE TypeOK'
  <2>1. rule'[r] \in RuleType /\ rule'[r].enabled /\ rule' \in [Rule -> RuleType]
    BY <1>0, <1>5, ForwardAssumption DEF CreateRule, Rest, RuleType
  <2>2. Requests'
    BY <2>1, <1>5, EnterType DEF CreateRule
  <2>3. Rest'
    BY <2>1, <1>0, <1>5 DEF CreateRule, Rest
  <2> QED BY <2>2, <2>3, <1>5, <1>u, <1>p DEF CreateRule
<1>6. ASSUME NEW q \in Request, NEW p \in Replica, NEW r \in Rule, NEW b \in BOOLEAN, UpdateRule(q, p, r, b)
      PROVE  TypeOK'
  <2>1. Requests'
    BY <1>n, <1>6, EnterType DEF UpdateRule
  <2>2. Rest'
    <3>1. rule[r] \in RuleType /\ rule[r].version + 1 \in 0 .. MaxVersion
      BY <1>0, <1>6, ForwardAssumption DEF UpdateRule, Rest, RuleType
    <3>2. rule' \in [Rule -> RuleType]
      BY <3>1, <1>0, <1>6 DEF UpdateRule, Rest, RuleType
    <3> QED BY <3>2, <1>0, <1>6 DEF UpdateRule, Rest
  <2> QED BY <2>1, <2>2, <1>6, <1>u, <1>p DEF UpdateRule
<1>7. ASSUME NEW q \in Request, NEW p \in Replica, NEW r \in Rule, DeleteRule(q, p, r) PROVE TypeOK'
  <2>1. Requests'
    BY <1>n, <1>7, EnterType DEF DeleteRule
  <2> QED BY <2>1, <1>7, <1>u, <1>p DEF DeleteRule
<1>8. ASSUME NEW q \in Request, ReloadRule(q) PROVE TypeOK'
  <2>1. rule[request[q].rule] \in RuleType
    BY <1>0, <1>8 DEF ReloadRule, Requests, Rest
  <2>2. Requests'
    BY <1>0, <1>n, <1>8, <2>1 DEF ReloadRule, Requests, IdleRequest, RequestType
  <2> QED BY <2>2, <1>8, <1>u, <1>p DEF ReloadRule
<1>9. ASSUME NEW q \in Request, RestartWatcher(q) PROVE TypeOK'
  <2>1. request[q].replica \in Replica /\ request[q].rule \in Rule
    BY <1>0, <1>9 DEF RestartWatcher, Requests
  <2>2. Goroutines' /\ CancelMap'
    BY <2>1, <1>9, StopType DEF RestartWatcher
  <2>3. Requests'
    BY <1>9, ProceedType DEF RestartWatcher, AfterStop
  <2> QED BY <2>2, <2>3, <1>9, <1>u, <1>p DEF RestartWatcher
<1>10. ASSUME NEW q \in Request, StartWatcher(q) PROVE TypeOK'
  <2>1. request[q].replica \in Replica /\ request[q].rule \in Rule
    BY <1>0, <1>10 DEF StartWatcher, Requests
  <2>2. Goroutines' /\ CancelMap'
    BY <2>1, <1>10, StartType DEF StartWatcher
  <2>3. Requests'
    BY <1>10, ProceedType DEF StartWatcher
  <2> QED BY <2>2, <2>3, <1>10, <1>u, <1>p DEF StartWatcher
<1>11. ASSUME NEW q \in Request, StopDeleted(q) PROVE TypeOK'
  <2>1. request[q].replica \in Replica /\ request[q].rule \in Rule
    BY <1>0, <1>11 DEF StopDeleted, Requests
  <2>2. Goroutines' /\ CancelMap'
    BY <2>1, <1>11, StopType DEF StopDeleted
  <2>3. Requests'
    BY <1>11, ProceedType DEF StopDeleted
  <2> QED BY <2>2, <2>3, <1>11, <1>u, <1>p DEF StopDeleted
<1>12. ASSUME NEW q \in Request, DeleteRow(q) PROVE TypeOK'
  <2>1. Requests'
    BY <1>12, ProceedType DEF DeleteRow
  <2>2. Rest'
    BY <1>0, <1>12 DEF DeleteRow, Rest, RuleType
  <2> QED BY <2>1, <2>2, <1>12, <1>u, <1>p DEF DeleteRow
<1>13. ASSUME NEW q \in Request, StatementFails(q) PROVE TypeOK'
  <2>1. Requests'
    BY <1>13, ProceedType DEF StatementFails
  <2>2. Rest'
    BY <1>0, <1>13 DEF StatementFails, Rest
  <2> QED BY <2>1, <2>2, <1>13, <1>u, <1>p DEF StatementFails
<1>14. ASSUME NEW w \in Watcher, WatchFailed(w) \/ WatchClosed(w) PROVE TypeOK'
  <2>1. Goroutines'
    BY <1>14, StepType DEF WatchFailed, WatchClosed
  <2>2. Rest'
    BY <1>0, <1>14 DEF WatchFailed, WatchClosed, Rest
  <2> QED BY <2>1, <2>2, <1>14, <1>u, <1>p DEF WatchFailed, WatchClosed
<1>15. ASSUME NEW w \in Watcher, WatchOpened(w) \/ ReceiveEvent(w) \/ SendWebhook(w) \/ ContextDone(w)
       PROVE  TypeOK'
  <2>1. Goroutines'
    BY <1>15, StepType DEF WatchOpened, ReceiveEvent, SendWebhook, ContextDone
  <2> QED BY <2>1, <1>15, <1>u, <1>p DEF WatchOpened, ReceiveEvent, SendWebhook, ContextDone
<1>16. ASSUME NEW w \in Watcher, WatcherExit(w) PROVE TypeOK'
  <2>1. Goroutines'
    BY <1>0, <1>16, CancelledType DEF WatcherExit, Goroutines, WatcherType
  <2>2. CancelMap'
    BY <1>0, <1>16 DEF WatcherExit, CancelMap, Goroutines
  <2> QED BY <2>1, <2>2, <1>16, <1>u, <1>p DEF WatcherExit
<1>17. CASE UNCHANGED vars
  BY <1>17, <1>u, <1>p DEF vars
<1> QED
  BY <1>1, <1>2, <1>3, <1>4, <1>5, <1>6, <1>7, <1>8, <1>9, <1>10, <1>11, <1>12, <1>13, <1>14, <1>15, <1>16, <1>17
  DEF Next, Handling, Advance

\* TypeOK holds in every reachable state.
THEOREM TypeCorrect == Spec => []TypeOK
  BY InitType, NextType, PTL DEF Spec

-----------------------------------------------------------------------------
(* The map of cancel functions holds exactly the running watchers.         *)

LEMMA StopExact ==
  ASSUME TypeOK, MapIsExact, NEW p \in Replica, NEW r \in Rule, StopWatcher(p, r)
  PROVE  MapIsExact'
<1>1. \A x \in Watcher : Running(x)' <=> Running(x) /\ x # cancels[p][r]
  BY ForwardAssumption, CancelledType DEF TypeOK, StopWatcher, Running, Registered
<1>2. \A x \in Watcher : watcher'[x].replica = watcher[x].replica /\ watcher'[x].rule = watcher[x].rule
  BY CancelledType DEF TypeOK, StopWatcher
<1>3. \A o \in Replica, s \in Rule : cancels'[o][s] = IF o = p /\ s = r THEN None ELSE cancels[o][s]
  BY DEF TypeOK, StopWatcher
<1>4. ASSUME NEW x \in Watcher, Running(x)' PROVE cancels'[watcher'[x].replica][watcher'[x].rule] = x
  <2>1. Running(x) /\ x # cancels[p][r]
    BY <1>1, <1>4
  <2>2. watcher[x].replica \in Replica /\ watcher[x].rule \in Rule
    BY <2>1 DEF TypeOK, Running
  <2>3. cancels[watcher[x].replica][watcher[x].rule] = x
    BY <2>1 DEF MapIsExact
  <2> QED BY <2>1, <2>2, <2>3, <1>2, <1>3
<1>5. ASSUME NEW o \in Replica, NEW s \in Rule, NEW x \in Registered(o, s)'
      PROVE  Running(x)' /\ watcher'[x].replica = o /\ watcher'[x].rule = s
  <2>1. ~(o = p /\ s = r) /\ x = cancels[o][s] /\ x # None
    BY <1>3 DEF Registered
  <2>2. x \in Watcher /\ Running(x) /\ watcher[x].replica = o /\ watcher[x].rule = s
    BY <2>1 DEF TypeOK, MapIsExact, Registered
  <2>3. x # cancels[p][r]
    BY <2>1, <2>2, ForwardAssumption DEF TypeOK, MapIsExact, Registered
  <2> QED BY <2>2, <2>3, <1>1, <1>2
<1> QED BY <1>4, <1>5 DEF MapIsExact

LEMMA StartExact ==
  ASSUME TypeOK, MapIsExact, NEW p \in Replica, NEW r \in Rule, StartEventWatcher(p, r)
  PROVE  MapIsExact'
<1> PICK w \in Watcher :
      /\ watcher[w].pc = "unused"
      /\ watcher' = [Cancelled(Registered(p, r)) EXCEPT ![w] =
                       [pc |-> "starting", replica |-> p, rule |-> r, cancelled |-> FALSE]]
      /\ cancels' = [cancels EXCEPT ![p][r] = w]
  BY StartNames
<1>0. Cancelled(Registered(p, r)) \in [Watcher -> WatcherType]
  BY CancelledType DEF TypeOK
<1>1. /\ Running(w)' /\ watcher'[w].replica = p /\ watcher'[w].rule = r
      /\ \A x \in Watcher \ {w} : Running(x)' <=> Running(x) /\ x # cancels[p][r]
  BY <1>0, ForwardAssumption, CancelledType DEF TypeOK, Running, Registered
<1>2. \A x \in Watcher \ {w} : watcher'[x].replica = watcher[x].replica /\ watcher'[x].rule = watcher[x].rule
  BY <1>0, CancelledType DEF TypeOK
<1>3. \A o \in Replica, s \in Rule : cancels'[o][s] = IF o = p /\ s = r THEN w ELSE cancels[o][s]
  BY DEF TypeOK
<1>4. ASSUME NEW x \in Watcher, Running(x)' PROVE cancels'[watcher'[x].replica][watcher'[x].rule] = x
  <2>1. CASE x = w
    BY <2>1, <1>1, <1>3
  <2>2. CASE x # w
    <3>1. Running(x) /\ x # cancels[p][r]
      BY <2>2, <1>1, <1>4
    <3>2. watcher[x].replica \in Replica /\ watcher[x].rule \in Rule
      BY <3>1 DEF TypeOK, Running
    <3>3. cancels[watcher[x].replica][watcher[x].rule] = x
      BY <3>1 DEF MapIsExact
    <3> QED BY <2>2, <3>1, <3>2, <3>3, <1>2, <1>3
  <2> QED BY <2>1, <2>2
<1>5. ASSUME NEW o \in Replica, NEW s \in Rule, NEW x \in Registered(o, s)'
      PROVE  Running(x)' /\ watcher'[x].replica = o /\ watcher'[x].rule = s
  <2>1. CASE o = p /\ s = r
    BY <2>1, <1>1, <1>3 DEF Registered
  <2>2. CASE ~(o = p /\ s = r)
    <3>1. x = cancels[o][s] /\ x # None
      BY <2>2, <1>3 DEF Registered
    <3>2. x \in Watcher /\ Running(x) /\ watcher[x].replica = o /\ watcher[x].rule = s
      BY <3>1 DEF TypeOK, MapIsExact, Registered
    <3>3. x # w
      BY <3>2 DEF Running
    <3>4. x # cancels[p][r]
      <4>1. ASSUME x = cancels[p][r] PROVE FALSE
        <5>1. x \in Registered(p, r)
          BY <3>1, <4>1 DEF Registered
        <5>2. watcher[x].replica = p /\ watcher[x].rule = r
          BY <5>1 DEF MapIsExact
        <5> QED BY <2>2, <3>2, <5>2
      <4> QED BY <4>1
    <3> QED BY <3>2, <3>3, <3>4, <1>1, <1>2
  <2> QED BY <2>1, <2>2
<1> QED BY <1>4, <1>5 DEF MapIsExact

\* A turn of a goroutine that stays away from the map leaves it running.
LEMMA StepExact ==
  ASSUME TypeOK, MapIsExact, NEW w \in Watcher,
         NEW from \in {"starting", "watching", "sending"}, NEW to \in {"watching", "sending", "exiting"},
         Step(w, from, to), UNCHANGED cancels
  PROVE  MapIsExact'
<1>0. \A x \in Watcher : watcher'[x].replica = watcher[x].replica /\ watcher'[x].rule = watcher[x].rule
  BY DEF TypeOK, Step, WatcherType
<1>1. \A x \in Watcher : Running(x)' <=> Running(x)
  BY DEF TypeOK, Step, Running, WatcherType
<1>2. ASSUME NEW x \in Watcher, Running(x)' PROVE cancels'[watcher'[x].replica][watcher'[x].rule] = x
  BY <1>0, <1>1, <1>2 DEF MapIsExact
<1>3. ASSUME NEW o \in Replica, NEW s \in Rule, NEW x \in Registered(o, s)'
      PROVE  Running(x)' /\ watcher'[x].replica = o /\ watcher'[x].rule = s
  <2>1. x \in Registered(o, s) /\ x \in Watcher
    BY DEF TypeOK, Registered
  <2>2. Running(x) /\ watcher[x].replica = o /\ watcher[x].rule = s
    BY <2>1 DEF MapIsExact
  <2> QED BY <2>1, <2>2, <1>0, <1>1
<1> QED BY <1>2, <1>3 DEF MapIsExact

\* The return of a goroutine: a stop of its rule, after which it is done.
LEMMA ExitExact ==
  ASSUME TypeOK, MapIsExact, NEW w \in Watcher, WatcherExit(w)
  PROVE  MapIsExact'
<1> DEFINE p == watcher[w].replica
           r == watcher[w].rule
<1>0. p \in Replica /\ r \in Rule /\ watcher[w].pc = "exiting"
  BY DEF WatcherExit, TypeOK
<1>1. \A x \in Watcher : Running(x)' <=> Running(x) /\ x # cancels[p][r]
  <2>1. Running(w) => w = cancels[p][r]
    BY DEF MapIsExact
  <2>2. ~Running(w)'
    BY CancelledType DEF TypeOK, WatcherExit, Running
  <2>3. \A x \in Watcher \ {w} : Running(x)' <=> Running(x) /\ x # cancels[p][r]
    BY ForwardAssumption, CancelledType DEF TypeOK, WatcherExit, Running, Registered, Deferred
  <2> QED BY <2>1, <2>2, <2>3
<1>2. \A x \in Watcher : watcher'[x].replica = watcher[x].replica /\ watcher'[x].rule = watcher[x].rule
  BY CancelledType DEF TypeOK, WatcherExit, WatcherType
<1>3. \A o \in Replica, s \in Rule : cancels'[o][s] = IF o = p /\ s = r THEN None ELSE cancels[o][s]
  BY <1>0 DEF TypeOK, WatcherExit, Deferred, Registered
<1>4. ASSUME NEW x \in Watcher, Running(x)' PROVE cancels'[watcher'[x].replica][watcher'[x].rule] = x
  <2>1. Running(x) /\ x # cancels[p][r]
    BY <1>1, <1>4
  <2>2. watcher[x].replica \in Replica /\ watcher[x].rule \in Rule
    BY <2>1 DEF TypeOK, Running
  <2>3. cancels[watcher[x].replica][watcher[x].rule] = x
    BY <2>1 DEF MapIsExact
  <2> QED BY <2>1, <2>2, <2>3, <1>2, <1>3
<1>5. ASSUME NEW o \in Replica, NEW s \in Rule, NEW x \in Registered(o, s)'
      PROVE  Running(x)' /\ watcher'[x].replica = o /\ watcher'[x].rule = s
  <2>1. ~(o = p /\ s = r) /\ x = cancels[o][s] /\ x # None
    BY <1>3 DEF Registered
  <2>2. x \in Watcher /\ Running(x) /\ watcher[x].replica = o /\ watcher[x].rule = s
    BY <2>1 DEF TypeOK, MapIsExact, Registered
  <2>3. x # cancels[p][r]
    <3>1. ASSUME x = cancels[p][r] PROVE FALSE
      <4>1. x \in Registered(p, r)
        BY <2>1, <3>1 DEF Registered
      <4>2. watcher[x].replica = p /\ watcher[x].rule = r
        BY <1>0, <4>1 DEF MapIsExact
      <4> QED BY <2>1, <2>2, <4>2
    <3> QED BY <3>1
  <2> QED BY <2>2, <2>3, <1>1, <1>2
<1> QED BY <1>4, <1>5 DEF MapIsExact

LEMMA NextExact == TypeOK /\ MapIsExact /\ [Next]_vars => MapIsExact'
<1> SUFFICES ASSUME TypeOK, MapIsExact, [Next]_vars PROVE MapIsExact'
  OBVIOUS
<1>u. UNCHANGED <<watcher, cancels>> => MapIsExact'
  BY DEF MapIsExact, Running, Registered
<1>1. ASSUME NEW p \in Replica, StartNextWatcher(p) PROVE MapIsExact'
  BY <1>1, StartExact DEF StartNextWatcher, TypeOK
<1>2. ASSUME NEW p \in Replica, StopWatchers(p) \/ Crash(p) PROVE MapIsExact'
  <2>0. \A o \in Replica, s \in Rule : cancels'[o][s] = IF o = p THEN None ELSE cancels[o][s]
    <3>1. cancels' = [cancels EXCEPT ![p] = [r \in Rule |-> None]]
      BY <1>2 DEF StopWatchers, Crash
    <3> QED BY <3>1 DEF TypeOK
  <2>1. \A x \in Watcher : watcher'[x].replica = watcher[x].replica /\ watcher'[x].rule = watcher[x].rule
    <3>1. CASE Crash(p)
      BY <3>1 DEF TypeOK, Crash, WatcherType
    <3>2. CASE StopWatchers(p)
      BY <3>2, CancelledType DEF TypeOK, StopWatchers
    <3> QED BY <1>2, <3>1, <3>2
  <2>2. ASSUME NEW x \in Watcher PROVE Running(x)' <=> Running(x) /\ watcher[x].replica # p
    <3>1. CASE Crash(p)
      BY <3>1 DEF TypeOK, Crash, Running, WatcherType
    <3>2. CASE StopWatchers(p)
      <4>1. Running(x)' <=> Running(x) /\ x \notin {cancels[p][r] : r \in Rule} \ {None}
        BY <3>2, CancelledType DEF TypeOK, StopWatchers, Running
      <4>2. Running(x) => (watcher[x].replica = p <=> x \in {cancels[p][r] : r \in Rule} \ {None})
        <5>1. ASSUME Running(x), watcher[x].replica = p PROVE x \in {cancels[p][r] : r \in Rule} \ {None}
          <6>1. watcher[x].rule \in Rule /\ cancels[p][watcher[x].rule] = x
            BY <5>1 DEF TypeOK, MapIsExact, Running
          <6> QED BY <6>1, ForwardAssumption
        <5>2. ASSUME x \in {cancels[p][r] : r \in Rule} \ {None} PROVE watcher[x].replica = p
          BY <5>2 DEF MapIsExact, Registered
        <5> QED BY <5>1, <5>2
      <4> QED BY <4>1, <4>2
    <3> QED BY <1>2, <3>1, <3>2
  <2>3. ASSUME NEW x \in Watcher, Running(x)' PROVE cancels'[watcher'[x].replica][watcher'[x].rule] = x
    <3>1. Running(x) /\ watcher[x].replica # p
      BY <2>2, <2>3
    <3>2. watcher[x].replica \in Replica /\ watcher[x].rule \in Rule
      BY <3>1 DEF TypeOK, Running
    <3> QED BY <3>1, <3>2, <2>0, <2>1 DEF MapIsExact
  <2>4. ASSUME NEW o \in Replica, NEW s \in Rule, NEW x \in Registered(o, s)'
        PROVE  Running(x)' /\ watcher'[x].replica = o /\ watcher'[x].rule = s
    <3>1. o # p /\ x \in Registered(o, s) /\ x \in Watcher
      BY <2>0 DEF TypeOK, Registered
    <3> QED BY <3>1, <2>1, <2>2 DEF MapIsExact
  <2> QED BY <2>3, <2>4 DEF MapIsExact
<1>3. ASSUME NEW q \in Request, RestartWatcher(q) \/ StopDeleted(q) PROVE MapIsExact'
  BY <1>3, StopExact DEF RestartWatcher, StopDeleted, TypeOK
<1>4. ASSUME NEW q \in Request, StartWatcher(q) PROVE MapIsExact'
  BY <1>4, StartExact DEF StartWatcher, TypeOK
<1>5. ASSUME NEW w \in Watcher,
             \/ WatchFailed(w) \/ WatchOpened(w) \/ ReceiveEvent(w)
             \/ SendWebhook(w) \/ ContextDone(w) \/ WatchClosed(w)
      PROVE  MapIsExact'
  BY <1>5, StepExact DEF WatchFailed, WatchOpened, ReceiveEvent, SendWebhook, ContextDone, WatchClosed
<1>6. ASSUME NEW w \in Watcher, WatcherExit(w) PROVE MapIsExact'
  BY <1>6, ExitExact
<1>7. ASSUME NEW p \in Replica, StartWatchers(p) PROVE MapIsExact'
  BY <1>7, <1>u DEF StartWatchers
<1>8. ASSUME NEW q \in Request, NEW p \in Replica, NEW r \in Rule,
             CreateRule(q, p, r) \/ DeleteRule(q, p, r) \/ \E b \in BOOLEAN : UpdateRule(q, p, r, b)
      PROVE  MapIsExact'
  BY <1>8, <1>u DEF CreateRule, DeleteRule, UpdateRule
<1>9. ASSUME NEW q \in Request, ReloadRule(q) \/ DeleteRow(q) \/ StatementFails(q) PROVE MapIsExact'
  BY <1>9, <1>u DEF ReloadRule, DeleteRow, StatementFails
<1>10. CASE UNCHANGED vars
  BY <1>10, <1>u DEF vars
<1> QED BY <1>1, <1>2, <1>3, <1>4, <1>5, <1>6, <1>7, <1>8, <1>9, <1>10 DEF Next, Handling, Advance

\* MapIsExact holds in every reachable state: whatever order handlers, the
\* leader's Start and Stop, crashes and returning goroutines take the mutex in,
\* the map of cancel functions is the set of running watchers.
THEOREM WatcherMapExact == Spec => []MapIsExact
<1>1. Init => MapIsExact
  BY DEF Init, MapIsExact, Running, Registered, NotStarted
<1> QED BY <1>1, InitType, NextType, NextExact, PTL DEF Spec
=============================================================================
