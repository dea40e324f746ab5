---------------------------- MODULE MCOffering -----------------------------
EXTENDS Offering
=============================================================================
