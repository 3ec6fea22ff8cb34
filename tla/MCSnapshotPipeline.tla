------------------------- MODULE MCSnapshotPipeline -------------------------
\* Small instances of SnapshotPipeline for TLC.
EXTENDS SnapshotPipeline, TLC

\* Requests are all alike, and so are values.
Alike == Permutations(User) \cup Permutations(Value)
=============================================================================
