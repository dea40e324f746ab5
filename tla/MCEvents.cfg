SPECIFICATION CompatSpec
CONSTANTS
  Subscribers = {a, b, c}
  Values = {v1, v2}
  Setters = {b, c}
  Preferred = v1
  Bridged = TRUE
  Fits = TRUE
  Calls = {c1, c2}
  Instances = {i1, i2}
  MaxSession = 2
  MaxHeld = 1
  Vsomeip = Vsomeip
  None = None
INVARIANTS FollowIfBridged KnowsTheValue ToldBeforeAnswered  AnswersReachTheirCalls
