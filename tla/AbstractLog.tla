---------------------------- MODULE AbstractLog -----------------------------
(***************************************************************************)
(* What a room promises, whatever its connections go through: there is one *)
(* log that only grows, and what a client shows is always a prefix of it.  *)
(* A client's view is set once when it is welcomed and only grows after    *)
(* that.                                                                   *)
(***************************************************************************)
EXTENDS Naturals, Sequences

CONSTANTS Op, Conn

VARIABLES log,      \* the room's log
          view,     \* per client, the ops it has applied, in order
          welcomed  \* per client, whether it has been welcomed

vars == <<log, view, welcomed>>

Init == /\ log = << >>
        /\ view = [p \in Conn |-> << >>]
        /\ welcomed = [p \in Conn |-> FALSE]

Submit == /\ \E op \in Op : log' = Append(log, op)
          /\ UNCHANGED <<view, welcomed>>

Advance(p) == /\ \E n \in Len(view[p])..Len(log) : view' = [view EXCEPT ![p] = SubSeq(log, 1, n)]
              /\ UNCHANGED <<log, welcomed>>

Welcome(p) == /\ ~ welcomed[p]
              /\ welcomed' = [welcomed EXCEPT ![p] = TRUE]
              /\ \E n \in 0..Len(log) : view' = [view EXCEPT ![p] = SubSeq(log, 1, n)]
              /\ UNCHANGED log

Next == Submit \/ \E p \in Conn : Advance(p) \/ Welcome(p)

Spec == Init /\ [][Next]_vars
=============================================================================
