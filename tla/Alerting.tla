------------------------------- MODULE Alerting -------------------------------
(***************************************************************************)
(* One alert rule and its evaluator, the notification channels and the     *)
(* alerts received from Alertmanager.  The evaluator has Start and Stop    *)
(* but the server does not call them: the model takes them as written.     *)
(*                                                                         *)
(* A tick is the evaluation interval.  Ages are in ticks, and stop         *)
(* counting where nothing tells them apart any more.                       *)
(***************************************************************************)
EXTENDS Integers, FiniteSets

CONSTANTS Resource,   \* what a rule may find samples of
          Channel,    \* notification channels
          Durations,  \* the durations a rule may have
          Cooldown,   \* CooldownPeriod
          Nothing

ASSUME AlertingAssumption ==
  /\ Durations \in SUBSET Nat /\ Durations # {} /\ IsFiniteSet(Durations)
  /\ Cooldown \in Nat /\ Nothing \notin Resource

VARIABLES
  rule,       \* the row: present, enabled, condition, duration, channels, and the age
              \* of last_alert (Cooldown when there is none or it is older)
  channels,   \* the enabled channels
  evaluator,  \* "off", "idle", "loaded"
  loaded,     \* the evaluator's copy of the rule
  pending,    \* per resource the age of the first breach seen, or -1
  history,    \* the last row of alert_history: "none", "firing", "notified"
  raised,     \* the resource the last evaluation raised an alert for
  steady,     \* per resource the age of the unbroken run of breaches found, or -1
  gap,        \* ticks since the rule's last alert, at most Cooldown
  unstamped   \* the write of last_alert failed since

ghosts == <<raised, steady, gap, unstamped>>
alertVars == <<rule, channels, evaluator, loaded, pending, history,
               raised, steady, gap, unstamped>>

Longest == CHOOSE d \in Durations : \A e \in Durations : e <= d
Conditions == {">", "<="}
Threshold == 1
Value == 1..2
NoRule == [present |-> FALSE, enabled |-> FALSE, condition |-> ">",
           duration |-> CHOOSE d \in Durations : TRUE, channels |-> {}, last |-> Cooldown]

AlertInit ==
  /\ rule = NoRule
  /\ channels \in SUBSET Channel
  /\ evaluator = "off"
  /\ loaded = NoRule
  /\ pending = [r \in Resource |-> -1]
  /\ history = "none"
  /\ raised = Nothing
  /\ steady = [r \in Resource |-> -1]
  /\ gap = Cooldown
  /\ unstamped = FALSE

-----------------------------------------------------------------------------
(* The handlers.  The rule is not deleted and made again: ids are not      *)
(* given twice.                                                            *)

CreateAlertRule ==
  /\ rule = NoRule
  /\ \E enabled \in BOOLEAN, d \in Durations, c \in Conditions, ids \in SUBSET Channel :
       rule' = [present |-> TRUE, enabled |-> enabled, condition |-> c, duration |-> d,
                channels |-> ids, last |-> Cooldown]
  /\ UNCHANGED <<channels, evaluator, loaded, pending, history, ghosts>>

\* Only the given columns are written.
UpdateAlertRule ==
  /\ rule.present
  /\ \/ \E enabled \in BOOLEAN : rule' = [rule EXCEPT !.enabled = enabled]
     \/ \E d \in Durations : rule' = [rule EXCEPT !.duration = d]
     \/ \E c \in Conditions : rule' = [rule EXCEPT !.condition = c]
  /\ UNCHANGED <<channels, evaluator, loaded, pending, history, ghosts>>

DeleteAlertRule ==
  /\ rule.present
  /\ rule' = [rule EXCEPT !.present = FALSE]
  /\ UNCHANGED <<channels, evaluator, loaded, pending, history, ghosts>>

\* CreateNotificationChannel, UpdateNotificationChannel and DeleteNotificationChannel,
\* in what the notifier sees of them.
EditNotificationChannels ==
  /\ \E c \in Channel : channels' \in {channels \cup {c}, channels \ {c}}
  /\ UNCHANGED <<rule, evaluator, loaded, pending, history, ghosts>>

deleteAlertHistory ==
  /\ history # "none"
  /\ history' = "none"
  /\ UNCHANGED <<rule, channels, evaluator, loaded, pending, ghosts>>

-----------------------------------------------------------------------------
(* The notifier.                                                           *)

\* No ids means every enabled channel.
loadChannels(ids) == IF ids = {} THEN channels ELSE channels \cap ids

\* Notify tries every channel; one that accepts is enough for the mark.  A process
\* that ends on the way leaves the alert unmarked.
Notify(ids) == history' \in {"firing"} \cup {"notified" : c \in loadChannels(ids)}

\* An alert from outside is recorded and sent on, without a rule or a cooldown.
ReceiveAlertmanager ==
  /\ \E ids \in SUBSET Channel : Notify(ids)
  /\ UNCHANGED <<rule, channels, evaluator, loaded, pending, ghosts>>

-----------------------------------------------------------------------------
(* The evaluator.                                                          *)

StartEvaluator ==
  /\ evaluator = "off"
  /\ evaluator' = "idle"
  /\ UNCHANGED <<rule, channels, loaded, pending, history, ghosts>>

\* Stop waits for the round under way, and leaves the map of breaches as it is.
StopEvaluator ==
  /\ evaluator = "idle"
  /\ evaluator' = "off"
  /\ UNCHANGED <<rule, channels, loaded, pending, history, ghosts>>

\* EvaluateAll: the enabled rules, once for the whole round.
LoadRules ==
  /\ evaluator = "idle"
  /\ rule.present /\ rule.enabled
  /\ loaded' = rule
  /\ evaluator' = "loaded"
  /\ raised' = Nothing
  /\ UNCHANGED <<rule, channels, pending, history, steady, gap, unstamped>>

matchCondition(value, condition) ==
  \/ condition = ">" /\ value > Threshold
  \/ condition = "<" /\ value < Threshold
  \/ condition = ">=" /\ value >= Threshold
  \/ condition = "<=" /\ value <= Threshold
  \/ condition \in {"==", "="} /\ value = Threshold
  \/ condition = "!=" /\ value # Threshold

\* An invalid duration, no client, no metrics or a failed list ends the round with
\* the error on the rule, and leaves the breaches as they were.
markEval ==
  /\ evaluator = "loaded"
  /\ evaluator' = "idle"
  /\ loaded' = NoRule
  /\ UNCHANGED <<rule, channels, pending, history, ghosts>>

\* collectSamples: a value for some of the resources.
Samples == [Resource -> Value \cup {Nothing}]
Breaching(samples) ==
  {r \in Resource : samples[r] # Nothing /\ matchCondition(samples[r], loaded.condition)}

\* Breaches begin, go on, or are forgotten when not found.
\* Mutant: a resource without a sample keeps its entry.
ObservedPresent(samples) ==
  [r \in Resource |-> IF r \in Breaching(samples)
                        THEN IF pending[r] = -1 /\ loaded.duration > 0 THEN 0 ELSE pending[r]
                        ELSE IF samples[r] = Nothing THEN pending[r] ELSE -1]
Observed(samples) ==
  [r \in Resource |-> IF r \in Breaching(samples)
                        THEN IF pending[r] = -1 /\ loaded.duration > 0 THEN 0 ELSE pending[r]
                        ELSE -1]

\* The breaches that may raise an alert: at once without a duration, else when the
\* entry is old enough.
Ripe(samples) ==
  {r \in Breaching(samples) :
     loaded.duration = 0 \/ (pending[r] # -1 /\ pending[r] >= loaded.duration)}

\* fire: one alert at most, for the copy's last_alert is set by the first.  The
\* history row comes first; the write of last_alert may fail unseen.  A rule
\* without channels notifies nobody.
fire(ripe) ==
  \/ /\ UNCHANGED <<rule, history, raised, gap, unstamped>>
  \/ /\ loaded.last >= Cooldown
     /\ \E r \in ripe, stamped \in BOOLEAN :
          /\ IF loaded.channels = {} THEN history' = "firing" ELSE Notify(loaded.channels)
          /\ raised' = r
          /\ rule' = IF stamped THEN [rule EXCEPT !.last = 0] ELSE rule
          /\ unstamped' = ~stamped
     /\ gap' = 0

\* A first alternative of fire with a ripe breach out of cooldown is an insert that failed.
evaluateRule ==
  /\ evaluator = "loaded"
  /\ \E samples \in Samples :
       /\ pending' = Observed(samples)
       /\ steady' = [r \in Resource |-> IF r \notin Breaching(samples) THEN -1
                                        ELSE IF steady[r] = -1 THEN 0 ELSE steady[r]]
       /\ fire(Ripe(samples))
  /\ evaluator' = "idle"
  /\ loaded' = NoRule
  /\ UNCHANGED channels

\* The next interval.
Older(age, most) == IF age = -1 \/ age >= most THEN age ELSE age + 1
AlertTick ==
  /\ evaluator # "loaded"
  /\ rule' = [rule EXCEPT !.last = Older(@, Cooldown)]
  /\ gap' = Older(gap, Cooldown)
  /\ pending' = [r \in Resource |-> Older(pending[r], Longest)]
  /\ steady' = [r \in Resource |-> Older(steady[r], Longest)]
  /\ raised' = Nothing
  /\ UNCHANGED <<channels, evaluator, loaded, history, unstamped>>

\* The process ends: the breaches are forgotten, a notification is not sent.
AlertCrash ==
  /\ evaluator' = "off"
  /\ loaded' = NoRule
  /\ pending' = [r \in Resource |-> -1]
  /\ UNCHANGED <<rule, channels, history, ghosts>>

AlertNext ==
  \/ CreateAlertRule \/ UpdateAlertRule \/ DeleteAlertRule \/ EditNotificationChannels
  \/ deleteAlertHistory \/ ReceiveAlertmanager
  \/ StartEvaluator \/ StopEvaluator \/ LoadRules \/ markEval \/ evaluateRule
  \/ AlertTick \/ AlertCrash

-----------------------------------------------------------------------------
\* What the step that raises an alert has behind it.
RaisedWithCause ==
  \A r \in Resource :
    raised = Nothing /\ raised' = r =>
      /\ steady'[r] >= loaded.duration
      /\ gap >= Cooldown \/ unstamped

\* A rule raises an alert only for a resource that every evaluation of the last
\* duration has found in breach, and a cooldown after its last alert at the
\* earliest, unless the write of last_alert was lost.
AlertJustified == [][RaisedWithCause]_alertVars
=============================================================================
