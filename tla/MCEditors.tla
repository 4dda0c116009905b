----------------------------- MODULE MCEditors -----------------------------
\* Two frames and an edge between them; two parts on two layers and a wire.
EXTENDS Editors

MCEdge == 3 :> <<1, 2>>
MCPart == 1 :> "Signal" @@ 2 :> "Power"
MCActs == [bus |-> 1, keys |-> 1, room |-> 1]
=============================================================================
