---------------------------- MODULE MC_PinsPapi ----------------------------
EXTENDS PinsPapi, TLC

=============================================================================
