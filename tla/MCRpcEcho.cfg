SPECIFICATION Spec
CONSTANTS
  MaxCalls = 1
  Methods = {m1}
  AnyMethod = any
  Kinds = {"serve"}
  Echoes = {m1}
  SessionMod = 5
  Foreign = foreign
  None = None
INVARIANT ImplSeesRequests
