------------------------------- MODULE MCWeb --------------------------------
EXTENDS Web, TLC
=============================================================================
