----------------------------- MODULE MCRecords ------------------------------
(***************************************************************************)
(* A small instance of DelegateRecords: two seeds that start on an empty   *)
(* database, two candidates that want the same name, of whom one comes     *)
(* second in the order and so is one of the two verifiers, and seven       *)
(* workloads.                                                              *)
(***************************************************************************)
EXTENDS DelegateRecords
CONSTANTS s1, s2, g1, g2, ka, kb, x1, x2

Seeds == {s1, s2}
KeySet == {g1, g2, ka, kb}
AddressSet == KeySet \cup {x1, x2}

\* Addresses and machines are told apart as the keys are.
Document(k, name) == [key |-> k, address |-> k, name |-> name, ip |-> k]

GenesisDocs == <<Document(g1, g1), Document(g2, g2)>>
KeyOrder == <<g1, ka, g2, kb>>

RegisterA == [op |-> "register", doc |-> Document(ka, ka)]
RegisterB == [op |-> "register", doc |-> Document(kb, ka)]
UpdateOne == [op |-> "update", address |-> g1, ip |-> g1, lists |-> <<<<x1, x2>>>>]
UpdateTwo == [op |-> "update", address |-> g1, ip |-> ka, lists |-> <<<<x2>>, <<>>>>]
Requests == {RegisterA, RegisterB, UpdateOne, UpdateTwo}

LineOf(flag, k) == [flag |-> flag, key |-> k]

Given(fresh, messages, lines, heights) ==
    [fresh |-> fresh, messages |-> messages, lines |-> lines, heights |-> heights]

\* Two starts beside an early client, and beside the first round; two clients
\* with one name; registration against removal, also while a height is counted;
\* two heights; two updates and a ban.
Workloads ==
    {Given(TRUE, {<<s1, RegisterA>>}, <<>>, 0),
     Given(TRUE, {}, <<>>, 1),
     Given(FALSE, {<<s1, RegisterA>>, <<s2, RegisterB>>}, <<>>, 0),
     Given(FALSE, {<<s1, RegisterA>>, <<s2, RegisterA>>}, <<LineOf("DEL", ka)>>, 0),
     Given(FALSE, {<<s1, RegisterA>>}, <<LineOf("DEL", ka)>>, 1),
     Given(FALSE, {}, <<>>, 2),
     Given(FALSE, {<<s1, UpdateOne>>, <<s2, UpdateTwo>>},
           <<LineOf("BAN", g1), LineOf("BAN", kb), LineOf("UNB", g1)>>, 0)}

Winners == [h \in 1..2 |-> IF h = 1 THEN ka ELSE g2]
=============================================================================
