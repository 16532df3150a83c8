----------------------------- MODULE MCReserve -----------------------------
(***************************************************************************)
(* Small instances of ReserveProofs: two delegates, two wallets, of which  *)
(* one may change its mind.                                                *)
(***************************************************************************)
EXTENDS ReserveProofs
CONSTANTS d1, d2, w1, w2, x1, x2, t1

Ballot(w, d, x, n) == [voter |-> w, delegate |-> d, proof |-> x, amount |-> n]

Delegates == {d1, d2}

\* w1 votes for d1 and may move its vote, with the same proof, to d2.
Votes == {Ballot(w1, d1, x1, 2), Ballot(w1, d2, x1, 2), Ballot(w2, d2, x2, 1)}

\* Both wallets vote for d1.
Rivals == {Ballot(w1, d1, x1, 2), Ballot(w2, d1, x2, 1)}

OneThread == {t1}
=============================================================================
