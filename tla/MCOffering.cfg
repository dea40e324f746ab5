SPECIFICATION OfferingFairSpec
CONSTANTS
  Services = {s1, s2}
  Remote = {s1}
  InitialDelay = 1
  BaseDelay = 1
  RepetitionMax = 3
  CyclicDelay = 3
  OfferTtl = 8
  Latency = 1
  MaxLost = 1
  MaxOffers = 2
  MaxFinds = 1
  Never = Never
INVARIANTS RefreshedInTime GhostsAreLost 
PROPERTIES  AnnouncedInTheEnd
