SPECIFICATION Spec
CONSTANTS
  Subscribers = {a, b}
  Values = {v1, v2}
  Setters = {}
  Preferred = v1
  Bridged = FALSE
  Fits = TRUE
INVARIANT SubscribersFollow
