--------------------------- MODULE MCEventFanout ---------------------------
EXTENDS EventFanout
=============================================================================
