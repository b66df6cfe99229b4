-------------------------- MODULE LeaderElection --------------------------
(***************************************************************************)
(* The election of the replica that runs the singleton modules, and the    *)
(* start and stop of these modules.  A replica leads while its database    *)
(* session holds a PostgreSQL advisory lock: the lock belongs to the       *)
(* session, so that the server gives it up when the session ends, and a    *)
(* session that goes back to the connection pool keeps it.                 *)
(***************************************************************************)
EXTENDS Naturals

CONSTANTS Replica,
          Mods,           \* number of singleton modules; 1..Mods is their dependency order
          MaxDisruptions, \* bound on crashes, lost sessions, failing starts and shutdowns
          None

ASSUME ElectionAssumption ==
  /\ None \notin Replica
  /\ Mods \in Nat \ {0}
  /\ MaxDisruptions \in Nat

VARIABLES
  role,        \* what runLeader and serveLeader of a replica are doing
  started,     \* the modules 1..started[p] of a replica are started
  halted,      \* the module being stopped takes no new work
  closing,     \* the replica was told to shut down
  lost,        \* the session of serveLeader is broken
  holder,      \* the replica whose session holds the advisory lock
  session,     \* that session: in use, in use with the lock taken twice, pooled or dead
  disruptions

electionVars == <<role, started, halted, closing, lost, holder, session, disruptions>>

ElectionInit ==
  /\ role = [p \in Replica |-> "standby"]
  /\ started = [p \in Replica |-> 0]
  /\ halted = [p \in Replica |-> FALSE]
  /\ closing = [p \in Replica |-> FALSE]
  /\ lost = [p \in Replica |-> FALSE]
  /\ holder = None
  /\ session = "free"
  /\ disruptions = 0

Disrupt == disruptions < MaxDisruptions /\ disruptions' = disruptions + 1

Serving(p) == role[p] \in {"starting", "leading", "stopping"}

\* The lock after its session ended.
Freed == holder' = None /\ session' = "free"

\* The session's client is gone; the server notices at once or later.
SessionGone == Freed \/ (session' = "dead" /\ holder' = holder)

-----------------------------------------------------------------------------
(* One replica.                                                            *)

\* Registry.Start begins the election.
Boot(p) ==
  /\ role[p] = "down"
  /\ role' = [role EXCEPT ![p] = "standby"]
  /\ UNCHANGED <<started, halted, closing, lost, holder, session, disruptions>>

\* runLeader: pg_try_advisory_lock on a connection of the pool.  The session
\* that kept the lock takes it a second time.
TryLock(p) ==
  /\ role[p] = "standby" /\ ~closing[p]
  /\ \/ session = "free" /\ session' = "used"
     \/ session = "pooled" /\ holder = p /\ session' = "again"
  /\ holder' = p
  /\ role' = [role EXCEPT ![p] = "starting"]
  /\ UNCHANGED <<started, halted, closing, lost, disruptions>>

\* serveLeader starts the modules in order.
StartModuleOnceMore(p) ==
  /\ role[p] = "starting"
  /\ started' = [started EXCEPT ![p] = @ + 1]
  /\ role' = [role EXCEPT ![p] = IF started[p] = Mods THEN "leading" ELSE "starting"]
  /\ UNCHANGED <<halted, closing, lost, holder, session, disruptions>>
StartModule(p) ==
  /\ role[p] = "starting"
  /\ started' = [started EXCEPT ![p] = @ + 1]
  /\ role' = [role EXCEPT ![p] = IF started[p] + 1 = Mods THEN "leading" ELSE "starting"]
  /\ UNCHANGED <<halted, closing, lost, holder, session, disruptions>>

\* A module's Start returns an error: what was started is stopped again.
StartFailedUnreleased(p) ==
  /\ role[p] = "starting"
  /\ Disrupt
  /\ role' = [role EXCEPT ![p] = "standby"]
  /\ UNCHANGED <<started, halted, closing, lost, holder, session>>
StartFailed(p) ==
  /\ role[p] = "starting"
  /\ Disrupt
  /\ role' = [role EXCEPT ![p] = "stopping"]
  /\ UNCHANGED <<started, halted, closing, lost, holder, session>>

\* The ping of serveLeader fails, or the context of the election is cancelled.
LeaveLeadership(p) ==
  /\ role[p] = "leading" /\ (lost[p] \/ closing[p])
  /\ role' = [role EXCEPT ![p] = "stopping"]
  /\ UNCHANGED <<started, halted, closing, lost, holder, session, disruptions>>

\* Stop of the module started last: it takes no new work ...
HaltModule(p) ==
  /\ role[p] = "stopping" /\ started[p] > 0 /\ ~halted[p]
  /\ halted' = [halted EXCEPT ![p] = TRUE]
  /\ UNCHANGED <<role, started, closing, lost, holder, session, disruptions>>

\* ... and Stop returns.
StopModule(p) ==
  /\ role[p] = "stopping" /\ halted[p]
  /\ halted' = [halted EXCEPT ![p] = FALSE]
  /\ started' = [started EXCEPT ![p] = @ - 1]
  /\ UNCHANGED <<role, closing, lost, holder, session, disruptions>>

\* The end of serveLeader: the process goes on as a standby, or ends.
Released(p) ==
  /\ role[p] = "stopping" /\ started[p] = 0
  /\ role' = [role EXCEPT ![p] = IF closing[p] THEN "down" ELSE "standby"]
  /\ closing' = [closing EXCEPT ![p] = FALSE]
  /\ lost' = [lost EXCEPT ![p] = FALSE]
  /\ UNCHANGED <<started, halted>>

\* pg_advisory_unlock gives up one of the session's locks; on a broken
\* connection it does nothing.  A process that ends closes its sessions.
Unlock(p) ==
  /\ Released(p)
  /\ IF lost[p] THEN UNCHANGED <<holder, session>>
     ELSE IF closing[p] \/ session = "used" THEN Freed
     ELSE session' = "pooled" /\ holder' = holder
  /\ UNCHANGED disruptions

\* The ten seconds for stopping are over: the unlock is not sent and the
\* session returns to the pool with the lock.
UnlockTimedOut(p) ==
  /\ ~lost[p] /\ ~closing[p]
  /\ Released(p)
  /\ session' = "pooled" /\ holder' = holder
  /\ UNCHANGED disruptions

-----------------------------------------------------------------------------
(* What happens to a replica.                                              *)

\* The session of a leader breaks; the leader learns it from its next ping.
SessionLost(p) ==
  /\ Serving(p) /\ ~lost[p]
  /\ Disrupt
  /\ lost' = [lost EXCEPT ![p] = TRUE]
  /\ SessionGone
  /\ UNCHANGED <<role, started, halted, closing>>

\* The pool drops a connection that broke while it was idle.
PooledSessionEnds ==
  /\ session = "pooled"
  /\ Freed
  /\ UNCHANGED <<role, started, halted, closing, lost, disruptions>>

\* The server ends the session of a client that is gone.  External.
SessionReaped ==
  /\ session = "dead"
  /\ Freed
  /\ UNCHANGED <<role, started, halted, closing, lost, disruptions>>

\* SIGTERM: Registry.Stop cancels the election and waits for it.
Shutdown(p) ==
  /\ role[p] # "down" /\ ~closing[p]
  /\ Disrupt
  /\ closing' = [closing EXCEPT ![p] = TRUE]
  /\ UNCHANGED <<role, started, halted, lost, holder, session>>

\* The sessions of a process that ends: all but one the server still keeps.
ProcessGone(p) == IF holder = p /\ session # "dead" THEN SessionGone ELSE UNCHANGED <<holder, session>>

\* A standby that was told to shut down ends.
Exit(p) ==
  /\ role[p] = "standby" /\ closing[p]
  /\ role' = [role EXCEPT ![p] = "down"]
  /\ closing' = [closing EXCEPT ![p] = FALSE]
  /\ IF holder = p /\ session # "dead" THEN Freed ELSE UNCHANGED <<holder, session>>
  /\ UNCHANGED <<started, halted, lost, disruptions>>

\* The process dies, or main returns because Registry.Stop took five seconds.
Crash(p) ==
  /\ role[p] # "down"
  /\ Disrupt
  /\ role' = [role EXCEPT ![p] = "down"]
  /\ started' = [started EXCEPT ![p] = 0]
  /\ halted' = [halted EXCEPT ![p] = FALSE]
  /\ closing' = [closing EXCEPT ![p] = FALSE]
  /\ lost' = [lost EXCEPT ![p] = FALSE]
  /\ ProcessGone(p)

=============================================================================
