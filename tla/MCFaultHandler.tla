--------------------------- MODULE MCFaultHandler ---------------------------
EXTENDS FaultHandler
=============================================================================
