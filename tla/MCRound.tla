------------------------------ MODULE MCRound ------------------------------
(***************************************************************************)
(* Small instances of DpopsRound: two candidates and a seed.               *)
(***************************************************************************)
EXTENDS DpopsRound
CONSTANTS da, db, ds
MCGenesis == <<ds>>
Nobody == {}
OnlyA == {da}

Three == {da, db, ds}
ThreeInOrder == <<ds, da, db>>
SeedS == {ds}

\* Odd heights rank the candidates in list order, even ones in reverse.
MCLottery == <<[n \in Node |-> 10 - Rank(n)], [n \in Node |-> Rank(n)]>>
=============================================================================
