------------------------- MODULE MCReplicatedGraph -------------------------
EXTENDS ReplicatedGraph, TLC

\* Clients are alike.
Interchangeable == Permutations(Client)

\* Which unused id an operation gets makes no difference, so the bound below
\* has them minted in order: CrdtId is 1..MaxOps here.
MintInOrder == Minted' \subseteq Minted \cup {Cardinality(Minted) + 1}

\* Bound: a behaviour begins by adding two nodes, so that the few operations
\* left are spent on what happens to them.
TwoNodesFirst == \A c \in Client : \A k \in DOMAIN pending[c] :
                    pending[c][k].id \in {1, 2} => pending[c][k].kind = "AddNode"

\* Bound: the mirror, a replica like any other that mints nothing, stays out of
\* it: clients are rebuilt from snapshots of each other and of themselves, or
\* from an empty one.
MirrorIdle == replica[Mirror] = EmptyBackend
=============================================================================
