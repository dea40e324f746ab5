SPECIFICATION FairSpec
CONSTANTS
  MaxCalls = 3
  Methods = {m1}
  AnyMethod = any
  Kinds = {"serve", "on_response"}
  Echoes = {}
  SessionMod = 3
  Foreign = foreign
  None = None
INVARIANTS TypeOK SlotsAreLive NoWaiterLost SessionsDistinct OwnUnlessAmbiguous
PROPERTIES NoAnswerDropped Unwinds
