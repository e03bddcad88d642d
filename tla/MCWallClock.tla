---------------------------- MODULE MCWallClock ----------------------------
\* Instances of WallClock for TLC.
EXTENDS WallClock
=============================================================================
