----------------------------- MODULE MCRoomSync -----------------------------
EXTENDS RoomSync, TLC

\* Connections of a tier are alike, and so are ops.
Interchangeable == Permutations(Conn \ Reader) \cup Permutations(Op)

\* Bound: snapshots are taken but nothing is compacted.
NoCompaction == gc.at = "idle"
=============================================================================
