---------------------------- MODULE MCStreamPair ----------------------------
EXTENDS StreamPair
=============================================================================
