SPECIFICATION UdpSpec
CONSTANTS
  Services = {s1, s2}
  Types = {"ipv4"}
  PeerTypes = {"ipv4", "ipv6"}
  OptionSize <- MCOptionSize
  HeaderSize = 1
  EntrySize = 2
  LengthSize = 1
  FlagsSize = 1
  IndexMod = 3
  CountMod = 3
  TtlMod = 4
  OfferTtl = 3
  MaxOffers = 2
  MaxStops = 1
  MaxOptions = 2
  MaxRoom = 19
  None = None
  Ops = {"sendto", "recvfrom"}
  Results <- MCResults
INVARIANTS ReceivedIsSent 
PROPERTY BuiltWhole
