-------------------------- MODULE ChangeLifecycle --------------------------
(***************************************************************************)
(* What the change center promises about one staged change, whoever calls  *)
(* it and in whatever order: a change is proposed once, may be sent to an  *)
(* independent reviewer, is started at most once, and then settles for     *)
(* good.  AgentAction implements this specification.                       *)
(***************************************************************************)

CONSTANTS Action, User, None

VARIABLES status,      \* where the change stands
          owner,       \* who proposed it (None before that)
          approvedBy   \* who approved it (None: nobody did)

cvars == <<status, owner, approvedBy>>

\* The statuses a change never leaves.
Settled == {"executed", "failed", "rolled_back", "rollback_pending",
            "cancelled", "rejected"}

\* The statuses in which the requester may still withdraw the change.
Cancellable == {"pending", "approval_pending", "approved"}

ChangeStatus == {"absent", "executing"} \cup Cancellable \cup Settled

CInit == /\ status = [a \in Action |-> "absent"]
         /\ owner = [a \in Action |-> None]
         /\ approvedBy = [a \in Action |-> None]

\* Cancelling is something a step may do to any number of changes at once.
Withdrawn(S, st) == [a \in Action |-> IF a \in S THEN "cancelled" ELSE st[a]]

\* A new change is proposed; the changes in S make way for it.
Propose(a, u, S) ==
  /\ status[a] = "absent"
  /\ a \notin S
  /\ \A b \in S : status[b] = "pending"
  /\ status' = [Withdrawn(S, status) EXCEPT ![a] = "pending"]
  /\ owner' = [owner EXCEPT ![a] = u]
  /\ UNCHANGED approvedBy

Submit(a) ==
  /\ status[a] = "pending"
  /\ status' = [status EXCEPT ![a] = "approval_pending"]
  /\ UNCHANGED <<owner, approvedBy>>

Approve(a, u) ==
  /\ status[a] = "approval_pending"
  /\ u # owner[a]
  /\ status' = [status EXCEPT ![a] = "approved"]
  /\ approvedBy' = [approvedBy EXCEPT ![a] = u]
  /\ UNCHANGED owner

Reject(a) ==
  /\ status[a] = "approval_pending"
  /\ status' = [status EXCEPT ![a] = "rejected"]
  /\ UNCHANGED <<owner, approvedBy>>

Cancel(S) ==
  /\ \A a \in S : status[a] \in Cancellable
  /\ status' = Withdrawn(S, status)
  /\ UNCHANGED <<owner, approvedBy>>

Start(a) ==
  /\ status[a] \in {"pending", "approved"}
  /\ status' = [status EXCEPT ![a] = "executing"]
  /\ UNCHANGED <<owner, approvedBy>>

Finish(a, outcome) ==
  /\ status[a] = "executing"
  /\ outcome \in Settled \ {"cancelled", "rejected"}
  /\ status' = [status EXCEPT ![a] = outcome]
  /\ UNCHANGED <<owner, approvedBy>>

CNext ==
  \/ \E S \in SUBSET Action : Cancel(S)
  \/ \E a \in Action :
       \/ Submit(a) \/ Reject(a) \/ Start(a)
       \/ \E u \in User : Approve(a, u)
       \/ \E u \in User, S \in SUBSET Action : Propose(a, u, S)
       \/ \E outcome \in Settled : Finish(a, outcome)

CSpec == CInit /\ [][CNext]_cvars
=============================================================================
