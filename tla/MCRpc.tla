------------------------------- MODULE MCRpc -------------------------------
EXTENDS Rpc
=============================================================================
