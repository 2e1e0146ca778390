CONSTANTS
  Flows = {f1, f2}
  PdrValues = {v1, v2}
  UePorts <- MCUePorts
  InetPorts <- MCInetPorts
  Protos <- MCProtos
  PDR_LIST_MAX_SIZE <- MCMaxEntries

SPECIFICATION Spec

INVARIANT FailedInitLeavesNothingAttached

\* A module whose Init failed is deleted by BESS: nothing of it runs again.
CHECK_DEADLOCK FALSE
