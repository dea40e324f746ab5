------------------------- MODULE MCEventsUnbridged -------------------------
EXTENDS Events
=============================================================================
