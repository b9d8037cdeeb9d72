---------------------------- MODULE MCEventChain ----------------------------
EXTENDS EventChain

=============================================================================
