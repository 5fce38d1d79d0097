---------------------------- MODULE MCControlRun ----------------------------
EXTENDS ControlRun
CONSTANTS act, unsub
=============================================================================
