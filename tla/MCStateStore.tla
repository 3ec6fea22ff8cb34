---------------------------- MODULE MCStateStore ----------------------------
\* Small instances of StateStore for TLC.
EXTENDS StateStore, TLC

CONSTANTS power, lamp, hub, cloud, command

OneLamp == power :> lamp
\* All providers alike, and the hub before the cloud.
Policies == {hub :> 0 @@ cloud :> 0 @@ command :> 0, hub :> 1 @@ cloud :> 0 @@ command :> 0}
Alike == {hub :> 0 @@ command :> 0}
=============================================================================
