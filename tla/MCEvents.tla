------------------------------ MODULE MCEvents -----------------------------
EXTENDS Compat
=============================================================================
