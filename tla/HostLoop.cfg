CONSTANTS
  plain = plain
  reboot = reboot
  h1 = h1
  NoHost = NoHost
  Ops = {reboot}
  Hosts = {h1}
  Target <- MCTarget
  Steps <- MCSteps
  Checks <- MCChecks
  Reboots = {reboot}
  Hour = 2
  MaxOutputs = 3
  MaxBoot = 1
  MaxRev = 1
  MaxFaults = 1
SPECIFICATION FairSpec
PROPERTIES OperationEnds
CHECK_DEADLOCK FALSE
