-------------------------- MODULE MCIaxSupervisor --------------------------
EXTENDS IaxSupervisor
CONSTANTS a, b
============================================================================
