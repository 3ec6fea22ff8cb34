------------------------ MODULE MCCommandCoordinator ------------------------
\* Small instances of CommandCoordinator for TLC.
EXTENDS CommandCoordinator, TLC
=============================================================================
