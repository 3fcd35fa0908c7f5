--------------------------- MODULE MCAudioRouting ---------------------------
EXTENDS AudioRouting
=============================================================================
