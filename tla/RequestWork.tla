----------------------------- MODULE RequestWork -----------------------------
(***************************************************************************)
(* Two things the server does for a request: it opens and checks sessions, *)
(* and answers what the request may do.  They share no state, so a         *)
(* behaviour of the server is any interleaving of theirs, and what holds   *)
(* of each alone holds of both.  A behaviour of this module is one of one  *)
(* of them.                                                                *)
(***************************************************************************)
EXTENDS Sessions, AccessControl

VARIABLE part

vars == <<part, sessionVars, accessVars>>

Init ==
  /\ part \in {"session", "access"}
  /\ SessionInit /\ AccessInit
  \* The choices the other part begins with are immaterial to this one.
  /\ part # "access" => group = "absent" /\ direct = {}

SessionSteps == part = "session" /\ SessionNext /\ UNCHANGED <<part, accessVars>>
AccessSteps == part = "access" /\ AccessNext /\ UNCHANGED <<part, sessionVars>>

Next == SessionSteps \/ AccessSteps

Spec == Init /\ [][Next]_vars
=============================================================================
