------------------------- MODULE MCGraphRoomHandler -------------------------
EXTENDS GraphRoomHandler, TLC

\* Connections are alike, and so are ops.
Interchangeable == Permutations(Conn) \cup Permutations(Op)

\* Where a liveness property rules symmetry out, ops are numbered and the
\* lowest free one is submitted: which one it is makes no difference.
LowestOpFirst == \A op \in Used' \ Used : \A other \in Op \ Used : op <= other
=============================================================================
