---------------------------- MODULE MCIaxModem ----------------------------
EXTENDS IaxModem
CONSTANTS c1, c2
===========================================================================
