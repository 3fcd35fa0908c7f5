--------------------------- MODULE MCSecureChannel ---------------------------
EXTENDS SecureChannel
=============================================================================
