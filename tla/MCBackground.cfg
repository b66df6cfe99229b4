SPECIFICATION FairSpec
CONSTANTS
  BackupId = {b1, b2}
  RestoreId = {r1}
  NoBackup = NoBackup
  Nothing = Nothing
  ReportId = {i1}
  MaxObjects = 2
  Worker = {w1, w2}
  LeaseTicks = 3
  LimitTicks = 2
  Slack = 1
  MaxFaults = 2
  Resource = {n1, n2}
  Channel = {c1}
  Durations = {0, 1}
  Cooldown = 2
  PerUser = 2
  AllSessions = 3
  QueueLength = 2
  SetupTexts = 2
  Shell = {s1, s2}
  SessionTicks = 1
  IdleTicks = 2
INVARIANTS RecordsStayDeleted ReportIsTrue OneApplier ShellKept
PROPERTIES AlertJustified InstallSettles SessionEnds
