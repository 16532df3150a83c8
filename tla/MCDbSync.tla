------------------------------ MODULE MCDbSync ------------------------------
(***************************************************************************)
(* A small instance of DbSync: five delegates of which two are seeds and   *)
(* one has another copy.                                                   *)
(***************************************************************************)
EXTENDS DbSync
CONSTANTS da, db, dc, s1, s2, old, new

Five == {da, db, dc, s1, s2}
FiveStores == {da, db, dc, s1}
FiveStoreOf == [n \in Five |-> IF n = s2 THEN s1 ELSE n]

Seeds == {s1, s2}
Contents == {old, new}

Document(n, c) == [delegate |-> n, content |-> c]

Common ==
    <<Document(s1, new), Document(s2, new), Document(da, new), Document(db, new),
      Document(dc, new)>>

\* The copy of a delegate that missed an update and a registration.
Outdated ==
    <<Document(s1, new), Document(s2, new), Document(da, new), Document(db, old)>>

FiveStart == [s \in FiveStores |-> IF s = da THEN Outdated ELSE Common]
=============================================================================
