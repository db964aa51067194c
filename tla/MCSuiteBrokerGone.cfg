SPECIFICATION Spec
CONSTANTS
  Plan <- MCPlan
  Options <- MCOptions
  Throughputs = {0, 1, 2}
  MaxInvocations = 2
INVARIANTS
  BrokerGoneEndsRamp
CHECK_DEADLOCK FALSE
