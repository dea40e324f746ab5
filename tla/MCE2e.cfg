SPECIFICATION EnforcedSpec
CONSTANTS
  Modulus = 4
  CounterMod = 8
  MaxDelta = 2
  MaxNumber = 10
  MaxQueue = 2
  Headers <- MCHeaders
  Instance = 5
  any = any
  Policies <- MCPolicies
  None = None
INVARIANT VerdictIsRight
PROPERTIES  AllowedAtBothEnds DeniedIsLost
