CONSTANTS
  plain = plain
  reboot = reboot
  h1 = h1
  NoHost = NoHost
  Ops = {plain, reboot}
  Hosts = {h1}
  Target <- MCTarget
  Steps <- MCSteps
  Checks <- MCChecks
  Reboots = {reboot}
  Hour = 1
  MaxOutputs = 9
  MaxBoot = 1
  MaxRev = 1
  MaxFaults = 1
SPECIFICATION Spec
INVARIANTS HostTypeOK OneMaintainer WorkIsClaimed ConnectionIsStable StepsOnce SuccessIsEarned
PROPERTIES Maintained
CHECK_DEADLOCK FALSE
