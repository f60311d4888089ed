-------------------------------- MODULE MCReads --------------------------------
EXTENDS Reads
===============================================================================
