---------------------------- MODULE BackgroundWork ----------------------------
(***************************************************************************)
(* The work the server does behind its requests: backups and restores,     *)
(* inspections, the installation of a gateway, alerts, terminals and the   *)
(* pods of node shells.  These parts share no state, so a behaviour of the *)
(* server is any interleaving of behaviours of the parts, and what holds   *)
(* of each alone holds of all together.  A behaviour of this module is one *)
(* of one part.                                                            *)
(***************************************************************************)
EXTENDS BackupRecords, InspectionReports, GatewayInstall, Alerting, TerminalSession, NodeShellPod

VARIABLE part

vars == <<part, backupVars, inspectionVars, gatewayVars, alertVars, terminalVars, shellPodVars>>

Init ==
  /\ part \in {"backup", "inspection", "gateway", "alert", "terminal", "shell pod"}
  /\ BackupInit /\ InspectionInit /\ GatewayInit /\ AlertInit /\ TerminalInit /\ ShellPodInit
  \* The choices the other parts begin with are immaterial to this one.
  /\ part # "gateway" => namespace = "absent"
  /\ part # "alert" => channels = {}
  /\ part # "terminal" => kind = "pod"

Backups ==
  /\ part = "backup" /\ BackupNext
  /\ UNCHANGED <<part, inspectionVars, gatewayVars, alertVars, terminalVars, shellPodVars>>
Inspections ==
  /\ part = "inspection" /\ InspectionNext
  /\ UNCHANGED <<part, backupVars, gatewayVars, alertVars, terminalVars, shellPodVars>>
InstallStep(A) ==
  /\ part = "gateway" /\ A
  /\ UNCHANGED <<part, backupVars, inspectionVars, alertVars, terminalVars, shellPodVars>>
Installation == InstallStep(GatewayNext)
Alerts ==
  /\ part = "alert" /\ AlertNext
  /\ UNCHANGED <<part, backupVars, inspectionVars, gatewayVars, terminalVars, shellPodVars>>
TerminalStep(A) ==
  /\ part = "terminal" /\ A
  /\ UNCHANGED <<part, backupVars, inspectionVars, gatewayVars, alertVars, shellPodVars>>
Terminals == TerminalStep(TerminalNext)
ShellPods ==
  /\ part = "shell pod" /\ ShellPodNext
  /\ UNCHANGED <<part, backupVars, inspectionVars, gatewayVars, alertVars, terminalVars>>

Next == Backups \/ Inspections \/ Installation \/ Alerts \/ Terminals \/ ShellPods

\* Goroutines run, time passes, and some replica looks for jobs every 15 seconds.
InstallFairness ==
  /\ \A w \in Worker : WF_vars(InstallStep(WorkerStep(w)))
  /\ WF_vars(InstallStep(\E w \in Worker : StartGatewayInstallWorker(w)))
  /\ WF_vars(InstallStep(Tick))

\* Goroutines run, a write ends by its deadline, a closed connection fails the read,
\* the session's time ends, and the end of its context ends the stream.  Nothing
\* is asked of the browser, the shell or the pod.
TerminalFairness ==
  /\ WF_vars(TerminalStep(HandlerStep)) /\ WF_vars(TerminalStep(ended /\ StreamEnds))
  /\ WF_vars(TerminalStep(PumpStep)) /\ WF_vars(TerminalStep(ReaderStep))
  /\ \A s \in Streams : WF_vars(TerminalStep(ForwardStep(s)))
  /\ WF_vars(TerminalStep(SessionExpires))

Spec == Init /\ [][Next]_vars
FairSpec == Spec /\ InstallFairness /\ TerminalFairness
=============================================================================
