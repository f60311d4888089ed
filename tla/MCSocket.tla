------------------------------ MODULE MCSocket ------------------------------
EXTENDS Socket
=============================================================================
