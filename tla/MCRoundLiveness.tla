-------------------------- MODULE MCRoundLiveness --------------------------
(***************************************************************************)
(* RoundLiveness from an empty chain: two candidates of which one fits into *)
(* the committee, and a seed, which makes the first block.                 *)
(***************************************************************************)
EXTENDS RoundLiveness
CONSTANTS da, db, ds
EmptyChain == <<>>
Nobody == {}
Three == {da, db, ds}
ThreeInOrder == <<ds, da, db>>
SeedS == {ds}

\* Odd heights rank the candidates in list order, even ones in reverse.
MCLottery == <<[n \in Node |-> 10 - Rank(n)], [n \in Node |-> Rank(n)]>>
=============================================================================
