---------------------------- MODULE MCSdMessage ----------------------------
EXTENDS SdOverUdp

MCOptionSize == [t \in Types \union PeerTypes |-> IF t = "ipv4" THEN 2 ELSE 3]
MCResults    == [o \in Ops |-> -1 .. MaxRoom]
=============================================================================
