--------------------------- MODULE MCUpdateSlots ---------------------------
\* Instantiates UpdateSlots for TLC.
EXTENDS UpdateSlots
=============================================================================
