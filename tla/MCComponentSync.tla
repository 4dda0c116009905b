-------------------------- MODULE MCComponentSync --------------------------
\* Client 1 has the component, client 2 the document, and client 3 watches.
EXTENDS ComponentSync

\* Bound: the third client joins when two ops are in the log and nothing is
\* under way, and from then on only what it is sent again arrives.
Quiet == /\ Len(log) = 2
         /\ \A c \in Client : queue[c] = << >> /\ wire[c] = << >>
         /\ \A c \in Holder : at[c] = "idle" /\ ~ changed[c]

MCNext ==
    \/ /\ 3 \notin joined
       /\ \/ \E c \in Holder : UserEdit(c) \/ detect_local_changes(c) \/ Integrate(c)
          \/ \E c \in {1, 2} : mutate_node(c) \/ Log(c) \/ Receive(c) \/ Join(c)
          \/ Quiet /\ Join(3)
    \/ Receive(3)

MCSpec == Init /\ [][MCNext]_vars

\* What is written, and the nodes of a tree, are only compared for being the
\* same, so it makes no difference which of them the first edit names.
FirstItemFirst ==
    kind \in {"sequence", "map", "tree"} /\ edits = 0 /\ edits' = 1 =>
        /\ \A c \in Holder : DOMAIN comp'[c] # {} => comp'[c][Min(DOMAIN comp'[c])] = 1
        /\ \A c \in Client : \A n \in DOMAIN wire'[c] :
              LET m == wire'[c][n].of
              IN /\ m.type \in {"InsertAt", "Apply"} => m.value = 1
                 /\ m.type = "Move" => m.child = 1
=============================================================================
