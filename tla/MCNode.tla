------------------------------- MODULE MCNode -------------------------------
(***************************************************************************)
(* A small instance of DpopsNode: a job node with one client slot, a pool  *)
(* of two, and two connections.                                            *)
(***************************************************************************)
EXTENDS DpopsNode
CONSTANTS c1, c2, m, t

Conns == {c1, c2}
Threads == Conns \cup {m, t}

TrafficOf ==
    [c \in Conns |-> CASE c = c1 -> {"block", "list"}
                       [] c = c2 -> {"checkVote"}]

FileLines == <<"BAN">>
=============================================================================
