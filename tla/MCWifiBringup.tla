--------------------------- MODULE MCWifiBringup ---------------------------
\* Instances of WifiBringup for TLC.
EXTENDS WifiBringup
=============================================================================
