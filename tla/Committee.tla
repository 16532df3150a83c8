----------------------------- MODULE Committee -----------------------------
(***************************************************************************)
(* The pure decisions of a round (xcash_round.c): which of the delegates   *)
(* that answered form the committee, how many must have answered, how many *)
(* votes elect, and which committee slot a node votes for.                 *)
(***************************************************************************)
EXTENDS Integers, Sequences, FiniteSets

CONSTANTS
    Node,             \* the delegates, by public address
    Seed,             \* those of them that are seed nodes (network_nodes[])
    Order,            \* delegates_all[]: the delegates in rank order
    CommitteeSize,    \* COMMITTEE_SIZE
    SeedCount,        \* SEED_COUNT
    VerifiersAmount,  \* BLOCK_VERIFIERS_AMOUNT: the slots that may verify
    ValidAmount,      \* BLOCK_VERIFIERS_VALID_AMOUNT: fewest online delegates
    MajorityPercent,  \* MAJORITY_PERCENT
    Lottery,          \* VRF outputs: per height, in turn, a number per delegate
    None              \* "no delegate", an empty buffer

ASSUME CommitteeAssumption ==
    /\ Seed \subseteq Node
    /\ IsFiniteSet(Node)
    /\ None \notin Node
    /\ Order \in Seq(Node)
    /\ \A i, j \in DOMAIN Order : Order[i] = Order[j] => i = j
    /\ \A n \in Node : \E i \in DOMAIN Order : Order[i] = n
    /\ Lottery \in Seq([Node -> Nat])
    /\ Lottery # <<>>
    /\ CommitteeSize \in Nat \ {0}
    /\ SeedCount \in Nat
    /\ VerifiersAmount \in Nat \ {0}
    /\ ValidAmount \in Nat \ {0}
    /\ MajorityPercent \in 0..100

Smaller(a, b) == IF a < b THEN a ELSE b

Members(list) == {list[i] : i \in DOMAIN list}

Rank(n) == CHOOSE i \in DOMAIN Order : Order[i] = n

\* delegates_all[0 .. BLOCK_VERIFIERS_AMOUNT - 1]
TopDelegates == {n \in Node : Rank(n) <= VerifiersAmount}

\* The members of S in the strict total order less, as a sequence.
Arrange(S, less) ==
    [i \in 1..Cardinality(S) |->
        CHOOSE n \in S : Cardinality({m \in S : <<m, n>> \in less}) = i - 1]

Prefix(s, k) == SubSeq(s, 1, Smaller(k, Len(s)))

RankOrder == {p \in Node \X Node : Rank(p[1]) < Rank(p[2])}

\* Part 5 packs the delegates that proved to be online in delegates_all order.
OnlineList(on) == Arrange(on \cap TopDelegates, RankOrder)

\* 70 % of the delegates there are, rounded up, and never fewer than ValidAmount.
QuorumNeeded ==
    (Smaller(Len(Order), VerifiersAmount) * MajorityPercent + 99) \div 100

QuorumReached(on) ==
    LET online == Cardinality(on \cap TopDelegates)
    IN  online >= ValidAmount /\ online >= QuorumNeeded

\* The VRF output depends on the previous hash, the height and the key of the
\* delegate alone: every run of a round at a height draws the same numbers.
Beta(h, n) == Lottery[1 + (h % Len(Lottery))][n]

\* committee_candidate_cmp: lowest beta first, list position on a tie.
CandidateOrder(h) ==
    {p \in Node \X Node :
        \/ Beta(h, p[1]) < Beta(h, p[2])
        \/ Beta(h, p[1]) = Beta(h, p[2]) /\ p \in RankOrder}

(***************************************************************************)
(* build_committee_list_from_online_list: the CommitteeSize lowest betas   *)
(* among the non-seeds, then at most SeedCount seeds in list order; only a *)
(* delegate whose beta has arrived ("full") counts.                        *)
(***************************************************************************)
BuildCommittee(on, full, h) ==
    LET known == on \cap full \cap TopDelegates
    IN  Prefix(Arrange(known \ Seed, CandidateOrder(h)), CommitteeSize)
        \o Prefix(Arrange(known \cap Seed, RankOrder), SeedCount)

\* Part 6: the block at PoSHeight is made by the first online delegate, with
\* the online list itself as committee.
CommitteeList(on, full, h, bootstrap) ==
    IF bootstrap THEN OnlineList(on) ELSE BuildCommittee(on, full, h)

CommitteeCount(list, bootstrap) ==
    IF bootstrap THEN Smaller(Len(list), CommitteeSize + SeedCount) ELSE Len(list)

\* agreement_needed = (2 * committee_count + 2) / 3
AgreementNeeded(count) == (2 * count + 2) \div 3

IsWinnerSlot(list, i) == i \in DOMAIN list /\ list[i] \notin Seed

(***************************************************************************)
(* The committee slot a node votes for, 0 when the round is skipped.  The  *)
(* first slot has the lowest beta; a node that remembers it as last        *)
(* winner of a chain that did not advance moves on to the second.          *)
(***************************************************************************)
ProducerSlot(list, bootstrap, stuck, lastWinner) ==
    IF bootstrap THEN 1
    ELSE IF ~IsWinnerSlot(list, 1) THEN 0
    ELSE IF stuck /\ lastWinner = list[1]
         THEN IF IsWinnerSlot(list, 2) THEN 2 ELSE 0
         ELSE 1
=============================================================================
