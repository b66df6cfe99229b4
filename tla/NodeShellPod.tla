---------------------------- MODULE NodeShellPod ----------------------------
(***************************************************************************)
(* The pod that the shells of one node share, from NodeShell's look for it *)
(* to the end of the stream, and the cleanup that the server runs every    *)
(* half hour.  A tick is half an hour.  Calls to the API server may fail;  *)
(* the code ignores it where it only notes the use of the pod.             *)
(***************************************************************************)
EXTENDS Naturals

CONSTANTS Shell,         \* requests for a shell on the node
          SessionTicks,  \* terminalSessionDuration: a stream ends before it has lasted longer
          IdleTicks      \* the age of the note at which the pod is cleaned up

ASSUME ShellPodAssumption ==
  SessionTicks \in Nat /\ IdleTicks \in Nat /\ SessionTicks <= IdleTicks

VARIABLES
  pod,      \* the pod: phase, being deleted, the age of its note of last use
  shell,    \* per request: place, ticks of the stream, its note of use was written
  doomed,   \* the cleanup has listed the pod and will delete it
  listed    \* the shells that were streaming when it did, with their note written

shellPodVars == <<pod, shell, doomed, listed>>

NoPod == [phase |-> "absent", going |-> FALSE, age |-> 0]
NoShell == [pc |-> "idle", ticks |-> 0, noted |-> FALSE]

ShellPodInit ==
  /\ pod = NoPod
  /\ shell = [s \in Shell |-> NoShell]
  /\ doomed = FALSE
  /\ listed = {}

Goto(s, pc) == shell' = [shell EXCEPT ![s] = [NoShell EXCEPT !.pc = pc]]

\* The fixed name, and the phase of what is there under it: of a pod on its way
\* out too.
FindPod(s) ==
  /\ shell[s].pc = "idle"
  /\ Goto(s, CASE pod.phase = "absent" -> "create"
               [] pod.phase = "running" -> "note"
               [] pod.phase = "pending" -> "await"
               [] pod.phase = "failed" -> "replace")
  /\ UNCHANGED <<pod, doomed, listed>>

\* A failed pod goes at once, a running one when its grace period has passed.
Deleted == IF pod.phase \in {"absent", "failed"} THEN NoPod ELSE [pod EXCEPT !.going = TRUE]

ReplacePod(s) ==
  /\ shell[s].pc = "replace"
  /\ pod' = Deleted
  /\ Goto(s, "create")
  /\ UNCHANGED <<doomed, listed>>

\* The name being taken, still or again, ends the session.
CreatePod(s) ==
  /\ shell[s].pc = "create"
  /\ IF pod.phase = "absent"
       THEN pod' = [NoPod EXCEPT !.phase = "pending"] /\ Goto(s, "await")
       ELSE UNCHANGED pod /\ Goto(s, "idle")
  /\ UNCHANGED <<doomed, listed>>

\* Thirty looks in a minute: running, failed and removed, or given up.
AwaitPod(s) ==
  /\ shell[s].pc = "await"
  /\ \/ pod.phase = "running" /\ Goto(s, "note") /\ UNCHANGED pod
     \/ pod.phase = "failed" /\ Goto(s, "idle") /\ pod' = Deleted
     \/ pod.phase # "running" /\ Goto(s, "idle") /\ UNCHANGED pod
  /\ UNCHANGED <<doomed, listed>>

\* Get and Update; either may fail, unseen.
\* Mutant: the annotation is changed in the copy and not written back.
updateLastUsedCopy(s, written) ==
  /\ shell[s].pc = "note"
  /\ shell' = [shell EXCEPT ![s] = [pc |-> "exec", ticks |-> 0, noted |-> written]]
  /\ UNCHANGED <<pod, doomed, listed>>
updateLastUsed(s, written) ==
  /\ shell[s].pc = "note"
  /\ written => pod.phase # "absent"
  /\ pod' = IF written THEN [pod EXCEPT !.age = 0] ELSE pod
  /\ shell' = [shell EXCEPT ![s] = [pc |-> "exec", ticks |-> 0, noted |-> written]]
  /\ UNCHANGED <<doomed, listed>>

ExecShell(s) ==
  /\ shell[s].pc = "exec"
  /\ IF pod.phase = "running" THEN shell' = [shell EXCEPT ![s].pc = "stream"]
                              ELSE Goto(s, "idle")
  /\ UNCHANGED <<pod, doomed, listed>>

\* The user leaves, or the session's time is up.
LeaveShell(s) ==
  /\ shell[s].pc = "stream"
  /\ Goto(s, "idle")
  /\ listed' = listed \ {s}
  /\ UNCHANGED <<pod, doomed>>

-----------------------------------------------------------------------------
(* CleanupNodeShellPods: the list, then a deletion for each pod too old.   *)

Streaming(s) == shell[s].pc = "stream"

ListIdlePods ==
  /\ ~doomed /\ pod.phase # "absent"
  /\ pod.age > IdleTicks
  /\ doomed' = TRUE
  /\ listed' = {s \in Shell : Streaming(s) /\ shell[s].noted}
  /\ UNCHANGED <<pod, shell>>

DeleteIdlePod ==
  /\ doomed
  /\ doomed' = FALSE
  /\ pod' = Deleted
  /\ listed' = {}
  /\ UNCHANGED shell

-----------------------------------------------------------------------------
(* The kubelet: a pod starts or fails, and goes when it was deleted, which *)
(* ends the streams in it.                                                 *)
Kubelet ==
  /\ \/ pod.phase = "pending" /\ pod' \in {[pod EXCEPT !.phase = p] : p \in {"running", "failed"}}
     \/ pod.phase = "running" /\ pod' = [pod EXCEPT !.phase = "failed"]
     \/ pod.going /\ pod' = NoPod
  /\ shell' = [s \in Shell |-> IF Streaming(s) /\ pod.phase # "pending" THEN NoShell ELSE shell[s]]
  /\ UNCHANGED <<doomed, listed>>

\* The note gets older.  What takes a minute, and a stream at its limit, ends first.
ShellTick ==
  /\ \A s \in Shell : \/ shell[s].pc = "idle"
                      \/ Streaming(s) /\ shell[s].ticks < SessionTicks
  /\ ~doomed
  /\ pod' = [pod EXCEPT !.age = IF pod.phase = "absent" \/ @ > IdleTicks THEN @ ELSE @ + 1]
  /\ shell' = [s \in Shell |-> IF Streaming(s) THEN [shell[s] EXCEPT !.ticks = @ + 1] ELSE shell[s]]
  /\ UNCHANGED <<doomed, listed>>

ShellPodNext ==
  \/ \E s \in Shell : \/ FindPod(s) \/ ReplacePod(s) \/ CreatePod(s) \/ AwaitPod(s)
                      \/ ExecShell(s) \/ LeaveShell(s)
                      \/ \E written \in BOOLEAN : updateLastUsed(s, written)
  \/ ListIdlePods \/ DeleteIdlePod \/ Kubelet \/ ShellTick

-----------------------------------------------------------------------------
\* The cleanup deletes no pod under a session that was streaming when it listed
\* the pods, if that session's note of use was written.
ShellKept == doomed => listed = {}
=============================================================================
