-------------------------- MODULE MCCommandTracker --------------------------
\* Small instances of CommandTracker for TLC.
EXTENDS CommandTracker, TLC
=============================================================================
