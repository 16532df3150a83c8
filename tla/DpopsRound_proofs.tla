------------------------- MODULE DpopsRound_proofs -------------------------
(***************************************************************************)
(* Theorems about the rounds of DpopsRound, for any number of delegates,   *)
(* any committee size and any VRF outputs.                                 *)
(***************************************************************************)
EXTENDS DpopsRound, FiniteSetTheorems, TLAPS

-----------------------------------------------------------------------------
(* What the operators of Committee return: the lemmas the proofs about the *)
(* rounds rest on.                                                         *)

\* less orders the delegates strictly and totally.
OrdersNodes(less) ==
    /\ \A m, n \in Node : <<m, n>> \in less => <<n, m>> \notin less
    /\ \A m, n, k \in Node : <<m, n>> \in less /\ <<n, k>> \in less => <<m, k>> \in less
    /\ \A m, n \in Node : m # n => <<m, n>> \in less \/ <<n, m>> \in less

Below(S, less, n) == {m \in S : <<m, n>> \in less}

\* In a strict total order, the number of members below a member identifies it
\* and lies between 0 and the size of the set less one.
LEMMA BelowCounts ==
    ASSUME NEW S \in SUBSET Node, NEW less, OrdersNodes(less)
    PROVE  /\ IsFiniteSet(S)
           /\ \A n \in S : Cardinality(Below(S, less, n)) \in 0..(Cardinality(S) - 1)
           /\ \A m, n \in S :
                 Cardinality(Below(S, less, m)) = Cardinality(Below(S, less, n)) => m = n
<1>1. IsFiniteSet(S)
  BY CommitteeAssumption, FS_Subset
<1>2. ASSUME NEW n \in S
      PROVE  Cardinality(Below(S, less, n)) \in 0..(Cardinality(S) - 1)
  <2>1. Below(S, less, n) \in SUBSET (S \ {n})
    BY DEF Below, OrdersNodes
  <2>2. IsFiniteSet(S \ {n}) /\ Cardinality(S \ {n}) = Cardinality(S) - 1
    BY <1>1, FS_RemoveElement
  <2>3. /\ IsFiniteSet(Below(S, less, n))
        /\ Cardinality(Below(S, less, n)) <= Cardinality(S \ {n})
    BY <2>1, <2>2, FS_Subset
  <2>4. Cardinality(Below(S, less, n)) \in Nat /\ Cardinality(S) \in Nat
    BY <1>1, <2>3, FS_CardinalityType
  <2> QED
    BY <2>2, <2>3, <2>4
<1>3. ASSUME NEW m \in S, NEW n \in S, <<m, n>> \in less
      PROVE  Cardinality(Below(S, less, m)) # Cardinality(Below(S, less, n))
  <2>1. Below(S, less, m) \in SUBSET Below(S, less, n)
    BY <1>3 DEF Below, OrdersNodes
  <2>2. m \in Below(S, less, n) /\ m \notin Below(S, less, m)
    BY <1>3 DEF Below, OrdersNodes
  <2>3. IsFiniteSet(Below(S, less, n))
    BY <1>1, FS_Subset, Below(S, less, n) \in SUBSET S DEF Below
  <2> QED
    BY <2>1, <2>2, <2>3, FS_Subset
<1>4. ASSUME NEW m \in S, NEW n \in S,
             Cardinality(Below(S, less, m)) = Cardinality(Below(S, less, n))
      PROVE  m = n
  BY <1>3, <1>4 DEF OrdersNodes
<1> QED
  BY <1>1, <1>2, <1>4

\* Arranging a set of delegates yields a sequence of exactly its members.
LEMMA ArrangeIsSequence ==
    ASSUME NEW S \in SUBSET Node, NEW less, OrdersNodes(less)
    PROVE  /\ Cardinality(S) \in Nat
           /\ Arrange(S, less) \in [1..Cardinality(S) -> S]
           /\ Arrange(S, less) \in Seq(S)
           /\ Len(Arrange(S, less)) = Cardinality(S)
<1> DEFINE k == Cardinality(S)
           f == [n \in S |-> Cardinality(Below(S, less, n)) + 1]
<1>1. IsFiniteSet(S) /\ k \in Nat
  BY BelowCounts, FS_CardinalityType
<1>2. f \in [S -> 1..k]
  BY <1>1, BelowCounts
<1>3. f \in Injection(S, 1..k)
  <2>1. ASSUME NEW m \in S, NEW n \in S, f[m] = f[n]
        PROVE  m = n
    <3>1. /\ Cardinality(Below(S, less, m)) \in 0..(k - 1)
          /\ Cardinality(Below(S, less, n)) \in 0..(k - 1)
      BY BelowCounts
    <3>2. Cardinality(Below(S, less, m)) = Cardinality(Below(S, less, n))
      BY <1>1, <2>1, <3>1
    <3> QED
      BY <3>2, BelowCounts
  <2> QED
    BY <1>2, <2>1 DEF Injection, IsInjective
<1>4. f \in Surjection(S, 1..k)
  <2>1. IsFiniteSet(1..k) /\ Cardinality(1..k) = k
    BY <1>1, FS_Interval
  <2> QED
    BY <1>3, <2>1, FS_Injection
<1>5. ASSUME NEW i \in 1..k
      PROVE  (CHOOSE n \in S : Cardinality({m \in S : <<m, n>> \in less}) = i - 1) \in S
  <2>1. PICK n \in S : f[n] = i
    BY <1>4 DEF Surjection
  <2>2. Cardinality(Below(S, less, n)) \in 0..(k - 1)
    BY BelowCounts
  <2>3. Cardinality({m \in S : <<m, n>> \in less}) = i - 1
    BY <1>1, <2>1, <2>2 DEF Below
  <2> QED
    BY <2>3
<1>6. Arrange(S, less) \in [1..k -> S]
  BY <1>5 DEF Arrange
<1> QED
  BY <1>1, <1>6

\* The delegates' places in delegates_all order them.
LEMMA RankIsPlace ==
    ASSUME NEW n \in Node
    PROVE  Rank(n) \in 1..Len(Order) /\ Order[Rank(n)] = n
<1>1. PICK i \in DOMAIN Order : Order[i] = n
  BY CommitteeAssumption
<1>2. Rank(n) \in DOMAIN Order /\ Order[Rank(n)] = n
  BY <1>1 DEF Rank
<1> QED
  BY <1>2, CommitteeAssumption

LEMMA RankOrderOrders == OrdersNodes(RankOrder)
<1>1. \A m, n \in Node : m # n => Rank(m) # Rank(n)
  BY RankIsPlace
<1>2. \A n \in Node : Rank(n) \in Int
  BY RankIsPlace, CommitteeAssumption
<1> QED
  BY <1>1, <1>2 DEF OrdersNodes, RankOrder

LEMMA BetaIsNumber ==
    ASSUME NEW h \in Nat, NEW n \in Node
    PROVE  Beta(h, n) \in Nat
<1>1. Len(Lottery) \in Nat \ {0}
  BY CommitteeAssumption
<1>2. 1 + (h % Len(Lottery)) \in 1..Len(Lottery)
  BY <1>1
<1>3. \A k \in 1..Len(Lottery) : Lottery[k] \in [Node -> Nat]
  <2> DEFINE B == [Node -> Nat]
  <2>1. Lottery \in Seq(B)
    BY CommitteeAssumption
  <2> HIDE DEF B
  <2>2. \A k \in 1..Len(Lottery) : Lottery[k] \in B
    BY <2>1
  <2> QED
    BY <2>2 DEF B
<1>4. Lottery[1 + (h % Len(Lottery))] \in [Node -> Nat]
  BY <1>2, <1>3
<1> QED
  BY <1>4 DEF Beta

\* So do their betas at a height, ties broken by place.
LEMMA CandidateOrderOrders ==
    ASSUME NEW h \in Nat
    PROVE  OrdersNodes(CandidateOrder(h))
<1> DEFINE b(n) == Beta(h, n)
<1>1. \A n \in Node : b(n) \in Int
  BY BetaIsNumber
<1>2. \A m, n \in Node : <<m, n>> \in CandidateOrder(h) <=>
          b(m) < b(n) \/ (b(m) = b(n) /\ <<m, n>> \in RankOrder)
  BY DEF CandidateOrder
<1>3. OrdersNodes(RankOrder)
  BY RankOrderOrders
<1> HIDE DEF b
<1> QED
  BY <1>1, <1>2, <1>3 DEF OrdersNodes

LEMMA PrefixIsSequence ==
    ASSUME NEW T, NEW s \in Seq(T), NEW k \in Nat
    PROVE  /\ Prefix(s, k) \in Seq(T)
           /\ Len(Prefix(s, k)) <= k
           /\ Len(Prefix(s, k)) <= Len(s)
  BY DEF Prefix, Smaller

\* A list of some of the delegates is a list of delegates.
LEMMA SeqOfSubset ==
    ASSUME NEW S \in SUBSET Node, NEW s \in Seq(S)
    PROVE  s \in Seq(Node)
  OBVIOUS

(***************************************************************************)
(* The committee list is a sequence of delegates, with at most             *)
(* CommitteeSize candidates and SeedCount seeds outside the bootstrap.     *)
(***************************************************************************)
LEMMA CommitteeListType ==
    ASSUME NEW on \in SUBSET Node, NEW full, NEW h \in Nat, NEW boot \in BOOLEAN
    PROVE  /\ CommitteeList(on, full, h, boot) \in Seq(Node)
           /\ ~boot => Len(CommitteeList(on, full, h, boot)) <= CommitteeSize + SeedCount
<1>1. OnlineList(on) \in Seq(Node)
  <2>1. on \cap TopDelegates \in SUBSET Node
    OBVIOUS
  <2> QED
    BY <2>1, RankOrderOrders, ArrangeIsSequence, SeqOfSubset DEF OnlineList
<1>2. /\ BuildCommittee(on, full, h) \in Seq(Node)
      /\ Len(BuildCommittee(on, full, h)) <= CommitteeSize + SeedCount
  <2> DEFINE known == on \cap full \cap TopDelegates
             cands == Arrange(known \ Seed, CandidateOrder(h))
             seeds == Arrange(known \cap Seed, RankOrder)
  <2>1. cands \in Seq(Node)
    <3>1. known \ Seed \in SUBSET Node
      OBVIOUS
    <3> QED
      BY <3>1, CandidateOrderOrders, ArrangeIsSequence, SeqOfSubset
  <2>2. seeds \in Seq(Node)
    <3>1. known \cap Seed \in SUBSET Node
      OBVIOUS
    <3> QED
      BY <3>1, RankOrderOrders, ArrangeIsSequence, SeqOfSubset
  <2> HIDE DEF cands, seeds
  <2>3. /\ Prefix(cands, CommitteeSize) \in Seq(Node)
        /\ Len(Prefix(cands, CommitteeSize)) <= CommitteeSize
    BY <2>1, CommitteeAssumption, PrefixIsSequence
  <2>4. /\ Prefix(seeds, SeedCount) \in Seq(Node)
        /\ Len(Prefix(seeds, SeedCount)) <= SeedCount
    BY <2>2, CommitteeAssumption, PrefixIsSequence
  <2>5. BuildCommittee(on, full, h) = Prefix(cands, CommitteeSize) \o Prefix(seeds, SeedCount)
    BY DEF BuildCommittee, cands, seeds
  <2> QED
    BY <2>3, <2>4, <2>5, CommitteeAssumption
<1> QED
  BY <1>1, <1>2 DEF CommitteeList

LEMMA CommitteeCountType ==
    ASSUME NEW nodes \in Seq(Node), NEW boot \in BOOLEAN
    PROVE  CommitteeCount(nodes, boot) \in 0..Len(nodes)
  BY CommitteeAssumption DEF CommitteeCount, Smaller

\* A list packed from a quorum is not empty.
LEMMA OnlineListFilled ==
    ASSUME NEW on \in SUBSET Node, QuorumReached(on)
    PROVE  OnlineList(on) # <<>>
<1>1. on \cap TopDelegates \in SUBSET Node
  OBVIOUS
<1>2. /\ Cardinality(on \cap TopDelegates) \in Nat
      /\ Len(OnlineList(on)) = Cardinality(on \cap TopDelegates)
  BY <1>1, RankOrderOrders, ArrangeIsSequence DEF OnlineList
<1>3. Len(OnlineList(on)) > 0
  BY <1>2, CommitteeAssumption DEF QuorumReached
<1> QED
  BY <1>3

\* A slot that is voted for holds a delegate.
LEMMA ProducerSlotType ==
    ASSUME NEW nodes \in Seq(Node), NEW boot \in BOOLEAN, NEW slow, NEW last,
           ProducerSlot(nodes, boot, slow, last) # 0, boot => nodes # <<>>
    PROVE  ProducerSlot(nodes, boot, slow, last) \in 1..Len(nodes)
  BY DEF ProducerSlot, IsWinnerSlot

\* More than half of a committee must agree (agreement_needed in process_round).
LEMMA MoreThanHalf ==
    ASSUME NEW count \in Nat \ {0}
    PROVE  2 * AgreementNeeded(count) > count
  BY DEF AgreementNeeded

-----------------------------------------------------------------------------
(* Types                                                                   *)

\* In the voting part of a round the slot voted for holds a delegate.
SlotInList ==
    \A n \in Node : pc[n] \in {"7", "7_counted"} => slot[n] \in 1..Len(list[n])

TypeInv == TypeOK /\ SlotInList

LEMMA CountBound ==
    ASSUME TypeOK, NEW n \in Node
    PROVE  /\ Count(n) \in Nat
           /\ Count(n) <= Len(list[n])
           /\ Electors(n) \in SUBSET Node
<1>1. list[n] \in Seq(Node) /\ Bootstrap(n) \in BOOLEAN
  BY DEF TypeOK, Bootstrap
<1>2. Count(n) \in 0..Len(list[n])
  BY <1>1, CommitteeCountType DEF Count
<1>3. Len(list[n]) \in Nat /\ \A i \in 1..Len(list[n]) : list[n][i] \in Node
  BY <1>1
<1> QED
  BY <1>2, <1>3 DEF Electors

LEMMA TypeInit == Init => TypeInv
<1> SUFFICES ASSUME Init PROVE TypeInv
  OBVIOUS
<1>1. TypeOK
  BY CommitteeAssumption, RoundAssumption
  DEF Init, TypeOK, Chain, NoVotes, NoTotals, NoRef
<1>2. SlotInList
  BY DEF Init, SlotInList
<1> QED
  BY <1>1, <1>2 DEF TypeInv

\* A vote leaves a list of delegates, a slot in it and a vote message.
LEMMA VoteTyped ==
    ASSUME TypeOK, NEW n \in Node, NEW v \in Views(n), CanVote(n, v)
    PROVE  LET com == CommitteeOf(n, v.online, v.late)
           IN  /\ com \in Seq(Node)
               /\ SlotOf(n, com) \in 1..Len(com)
               /\ com[SlotOf(n, com)] \in Node
               /\ VotersOf(n, com) \in SUBSET Node
               /\ Members(com) \in SUBSET Node
<1> DEFINE com == CommitteeOf(n, v.online, v.late)
<1>1. height[n] \in Nat /\ Bootstrap(n) \in BOOLEAN
  BY DEF TypeOK, Bootstrap
<1>2. v.online \in SUBSET Node
  <2>1. \A w \in vrfs : w.from \in Node
    BY DEF TypeOK
  <2>2. Heard(n) \in SUBSET Node
    BY <2>1 DEF Heard
  <2>3. v \in [online : SUBSET Heard(n), late : SUBSET Faulty, torn : SUBSET Torn]
    BY DEF Views
  <2> QED
    BY <2>2, <2>3
<1>3. com \in Seq(Node)
  BY <1>1, <1>2, CommitteeListType DEF CommitteeOf
<1>4. Bootstrap(n) => com # <<>>
  BY <1>2, OnlineListFilled DEF CommitteeOf, CommitteeList, CanVote
<1>5. SlotOf(n, com) # 0
  BY DEF CanVote
<1>6. SlotOf(n, com) \in 1..Len(com)
  BY <1>1, <1>3, <1>4, <1>5, ProducerSlotType DEF SlotOf
<1>7. CommitteeCount(com, Bootstrap(n)) \in 0..Len(com)
  BY <1>1, <1>3, CommitteeCountType
<1>8. Len(com) \in Nat /\ \A i \in 1..Len(com) : com[i] \in Node
  BY <1>3
<1>9. VotersOf(n, com) \in SUBSET Node /\ Members(com) \in SUBSET Node
  BY <1>3, <1>7, <1>8 DEF VotersOf, Members
<1> QED
  BY <1>3, <1>6, <1>8, <1>9

LEMMA TypeNext == TypeInv /\ [Next]_vars => TypeInv'
<1> SUFFICES ASSUME TypeInv, [Next]_vars PROVE TypeInv'
  OBVIOUS
<1> USE DEF TypeInv
<1>1. CASE Tick
  <2>1. clock' \in 0..3
    BY <1>1 DEF Tick, TypeOK
  <2>2. UNCHANGED <<round, tip, pc, ran, prevHash, height, stuck, template, list, slot,
                    selected, voteTotal, tallied, gaps, pending, refs, lastWinner, ready,
                    vrfs, votes, blocks, approved, won>>
    BY <1>1 DEF Tick, chainVars, listVars, outcome, network
  <2>3. TypeOK'
    BY <2>1, <2>2 DEF TypeOK
  <2>4. SlotInList'
    BY <2>2 DEF SlotInList
  <2> QED
    BY <2>3, <2>4
<1>2. CASE NextRound
  <2>1. TypeOK'
    <3>1. round' \in Nat \ {0} /\ clock' \in 0..3
      BY <1>2 DEF NextRound, TypeOK
    <3>2. vrfs' = {}
      BY <1>2 DEF NextRound
    <3>3. votes' \subseteq VoteMessage
      BY <1>2 DEF NextRound, TypeOK
    <3>4. UNCHANGED <<tip, pc, ran, prevHash, height, stuck, template, list, slot, selected,
                      voteTotal, tallied, gaps, pending, refs, lastWinner, ready, blocks,
                      approved, won>>
      BY <1>2 DEF NextRound, chainVars, listVars, outcome
    <3> QED
      BY <3>1, <3>2, <3>3, <3>4 DEF TypeOK
  <2>2. SlotInList'
    BY <1>2 DEF NextRound, SlotInList, chainVars, listVars, outcome
  <2> QED
    BY <2>1, <2>2
<1>3. ASSUME NEW n \in Node, BeginRound(n) PROVE TypeInv'
  <2>1. TypeOK'
    <3>1. ran' \in [Node -> Nat] /\ height' \in [Node -> Nat]
      BY <1>3 DEF BeginRound, TypeOK
    <3>2. pc' \in [Node -> {"12", "2", "4", "7", "7_counted", "8", "9", "11"}]
      BY <1>3 DEF BeginRound, TypeOK
    <3>3. ready' \in [Node -> BOOLEAN]
      BY <1>3 DEF BeginRound, TypeOK
    <3>4. stuck' \in [Node -> BOOLEAN]
      BY <1>3 DEF BeginRound, TypeOK
    <3>5. prevHash' \in [Node -> Seq(Node \cup {None})]
      <4>1. tip[n] \in Seq(Node \cup {None})
        BY DEF TypeOK, Chain
      <4> QED
        BY <1>3, <4>1 DEF BeginRound, TypeOK
    <3>6. refs' \in [Node -> [producer : Node \cup {None}, voters : SUBSET Node]]
      BY <1>3 DEF BeginRound, TypeOK, NoRef
    <3>7. UNCHANGED <<round, clock, tip, template, list, slot, selected, voteTotal, tallied,
                      gaps, pending, lastWinner, vrfs, votes, blocks, approved, won>>
      BY <1>3 DEF BeginRound, sched, listVars, network
    <3> QED
      BY <3>1, <3>2, <3>3, <3>4, <3>5, <3>6, <3>7 DEF TypeOK
  <2>2. SlotInList'
    BY <1>3 DEF BeginRound, SlotInList, TypeOK, listVars
  <2> QED
    BY <2>1, <2>2
<1>4. ASSUME NEW n \in Node, SendVrf(n) PROVE TypeInv'
  <2>1. NextHeight(tip[n]) \in Nat
    BY DEF TypeOK, NextHeight, Chain
  <2>2. TypeOK'
    <3>1. height' \in [Node -> Nat] /\ height'[n] \in Nat
      BY <1>4, <2>1 DEF SendVrf, TypeOK
    <3>2. pc' \in [Node -> {"12", "2", "4", "7", "7_counted", "8", "9", "11"}]
      BY <1>4 DEF SendVrf, TypeOK
    <3>3. vrfs' \subseteq [from : Node, prev : Seq(Node \cup {None}), height : Nat]
      BY <1>4, <3>1 DEF SendVrf, TypeOK
    <3>4. UNCHANGED <<round, clock, tip, ran, prevHash, stuck, template, list, slot, selected,
                      voteTotal, tallied, gaps, pending, refs, lastWinner, ready, votes,
                      blocks, approved, won>>
      BY <1>4 DEF SendVrf, sched, listVars, outcome
    <3> QED
      BY <3>1, <3>2, <3>3, <3>4 DEF TypeOK
  <2>3. SlotInList'
    BY <1>4 DEF SendVrf, SlotInList, TypeOK, listVars
  <2> QED
    BY <2>2, <2>3
<1>5. ASSUME NEW n \in Node, Vote(n) PROVE TypeInv'
  <2>1. PICK v \in Views(n) :
          LET com  == CommitteeOf(n, v.online, v.late)
              p    == com[SlotOf(n, com)]
              mine == n \in VotersOf(n, com)
          IN  /\ CanVote(n, v)
              /\ list' = [list EXCEPT ![n] = com]
              /\ slot' = [slot EXCEPT ![n] = SlotOf(n, com)]
              /\ gaps' = [gaps EXCEPT ![n] = Members(com) \cap (v.late \cup v.torn)]
              /\ selected' = [selected EXCEPT ![n] =
                    IF mine THEN [NoVotes EXCEPT ![n] = p] ELSE NoVotes]
              /\ voteTotal' = [voteTotal EXCEPT ![n] =
                    IF mine THEN [NoTotals EXCEPT ![p] = 1] ELSE NoTotals]
              /\ votes' = IF mine
                    THEN votes \cup {[from |-> n, round |-> round, choice |-> p,
                                      prev |-> prevHash[n], height |-> height[n],
                                      keys |-> Members(com), whole |-> p \notin v.torn,
                                      to |-> VotersOf(n, com) \ {n}]}
                    ELSE votes
    BY <1>5 DEF Vote
  <2> DEFINE com == CommitteeOf(n, v.online, v.late)
             p   == com[SlotOf(n, com)]
             m   == [from |-> n, round |-> round, choice |-> p,
                     prev |-> prevHash[n], height |-> height[n], keys |-> Members(com),
                     whole |-> p \notin v.torn, to |-> VotersOf(n, com) \ {n}]
  <2>2. /\ com \in Seq(Node) /\ SlotOf(n, com) \in 1..Len(com) /\ p \in Node
        /\ VotersOf(n, com) \in SUBSET Node /\ Members(com) \in SUBSET Node
    BY <2>1, VoteTyped
  <2>3. m \in VoteMessage
    BY <2>2 DEF TypeOK, VoteMessage
  <2>4. votes' \subseteq VoteMessage
    BY <2>1, <2>3 DEF TypeOK
  <2>5. list' \in [Node -> Seq(Node)] /\ slot' \in [Node -> Nat]
    <3>1. list \in [Node -> Seq(Node)] /\ list' = [list EXCEPT ![n] = com]
      BY <2>1 DEF TypeOK
    <3>2. slot \in [Node -> Nat] /\ slot' = [slot EXCEPT ![n] = SlotOf(n, com)]
      BY <2>1 DEF TypeOK
    <3>3. SlotOf(n, com) \in Nat
      BY <2>2
    <3> HIDE DEF com
    <3>4. com \in Seq(Node)
      BY <2>2 DEF com
    <3> QED
      BY <3>1, <3>2, <3>3, <3>4
  <2>6. selected' \in [Node -> [Node -> Node \cup {None}]]
    BY <2>1, <2>2 DEF TypeOK, NoVotes
  <2>7. voteTotal' \in [Node -> [Node -> Nat]]
    BY <2>1, <2>2 DEF TypeOK, NoTotals
  <2>10. gaps' \in [Node -> SUBSET Node]
    <3>1. Members(com) \cap (v.late \cup v.torn) \in SUBSET Node
      BY <2>2
    <3> QED
      BY <2>1, <3>1 DEF TypeOK
  <2>8. TypeOK'
    <3>1. pc' \in [Node -> {"12", "2", "4", "7", "7_counted", "8", "9", "11"}]
      BY <1>5 DEF Vote, TypeOK
    <3>2. UNCHANGED <<round, clock, tip, ran, prevHash, height, stuck, template, tallied,
                      pending, refs, lastWinner, ready, vrfs, blocks, approved, won>>
      BY <1>5 DEF Vote, sched, chainVars, outcome
    <3> QED
      BY <2>4, <2>5, <2>6, <2>7, <2>10, <3>1, <3>2 DEF TypeOK
  <2>9. SlotInList'
    BY <1>5, <2>1, <2>2 DEF Vote, SlotInList, TypeOK
  <2> QED
    BY <2>8, <2>9
<1>6. ASSUME NEW n \in Node, FollowCandidate(n) PROVE TypeInv'
  <2>1. list[n][slot[n]] \in Node
    BY <1>6 DEF FollowCandidate, TypeOK, SlotInList
  <2>2. TypeOK'
    BY <1>6, <2>1 DEF FollowCandidate, TypeOK, sched, chainVars, listVars, network
  <2>3. SlotInList'
    BY <1>6 DEF FollowCandidate, SlotInList, TypeOK, listVars
  <2> QED
    BY <2>2, <2>3
<1>7. ASSUME NEW n \in Node, FindWinner(n) PROVE TypeInv'
  <2>1. PICK top \in 1..Count(n) :
          tallied' = [tallied EXCEPT ![n] =
              [max |-> voteTotal[n][list[n][top]], index |-> top]]
    BY <1>7 DEF FindWinner
  <2>2. top \in Nat /\ list[n][top] \in Node
    <3>1. list[n] \in Seq(Node)
      BY DEF TypeOK
    <3>2. Count(n) \in Nat /\ Count(n) <= Len(list[n])
      BY CountBound
    <3> QED
      BY <3>1, <3>2
  <2>3. tallied' \in [Node -> [max : Nat, index : Nat]]
    <3>1. voteTotal[n][list[n][top]] \in Nat
      BY <2>2 DEF TypeOK
    <3>2. tallied \in [Node -> [max : Nat, index : Nat]]
      BY DEF TypeOK
    <3>3. [max |-> voteTotal[n][list[n][top]], index |-> top] \in [max : Nat, index : Nat]
      BY <2>2, <3>1
    <3> QED
      BY <2>1, <3>2, <3>3
  <2>4. TypeOK'
    BY <1>7, <2>3 DEF FindWinner, TypeOK, sched, chainVars, outcome, network
  <2>5. SlotInList'
    BY <1>7 DEF FindWinner, SlotInList, TypeOK
  <2> QED
    BY <2>4, <2>5
<1>8. ASSUME NEW n \in Node, Elect(n) PROVE TypeInv'
  <2>1. list[n][slot[n]] \in Node
    BY <1>8 DEF Elect, TypeOK, SlotInList
  <2>2. CountedVoters(n) \in SUBSET Node
    BY CountBound DEF CountedVoters, VotersFor
  <2>3. TypeOK'
    <3>1. lastWinner' \in [Node -> Node \cup {None}]
      BY <1>8, <2>1 DEF Elect, TypeOK
    <3>2. refs' \in [Node -> [producer : Node \cup {None}, voters : SUBSET Node]]
      BY <1>8, <2>1, <2>2 DEF Elect, TypeOK
    <3>3. won' \subseteq [round : Nat, producer : Node]
      <4>1. won' = won \cup {[round |-> round, producer |-> list[n][slot[n]]]}
        BY <1>8 DEF Elect
      <4>2. round \in Nat /\ won \subseteq [round : Nat, producer : Node]
        BY DEF TypeOK
      <4> QED
        BY <2>1, <4>1, <4>2
    <3>4. pc' \in [Node -> {"12", "2", "4", "7", "7_counted", "8", "9", "11"}]
      BY <1>8 DEF Elect, TypeOK
    <3>5. UNCHANGED <<round, clock, tip, ran, prevHash, height, stuck, template, list, slot,
                      selected, voteTotal, tallied, gaps, pending, ready, vrfs, votes,
                      blocks, approved>>
      BY <1>8 DEF Elect, sched, chainVars, listVars, network
    <3> QED
      BY <3>1, <3>2, <3>3, <3>4, <3>5 DEF TypeOK
  <2>4. SlotInList'
    BY <1>8 DEF Elect, SlotInList, TypeOK, listVars
  <2> QED
    BY <2>3, <2>4
<1>9. ASSUME NEW n \in Node, ConfirmHeight(n) PROVE TypeInv'
  <2>1. TypeOK'
    BY <1>9 DEF ConfirmHeight, TypeOK, sched, chainVars, listVars, outcome, network
  <2>2. SlotInList'
    BY <1>9 DEF ConfirmHeight, SlotInList, TypeOK, listVars
  <2> QED
    BY <2>1, <2>2
<1>17. ASSUME NEW n \in Node, MakeTemplate(n) PROVE TypeInv'
  <2>1. TypeOK'
    <3>1. template' \in [Node -> Chain]
      BY <1>17 DEF MakeTemplate, TypeOK
    <3>2. pc' \in [Node -> {"12", "2", "4", "7", "7_counted", "8", "9", "11"}]
      BY <1>17 DEF MakeTemplate, TypeOK
    <3>3. UNCHANGED <<round, clock, tip, ran, prevHash, height, stuck, list, slot,
                      selected, voteTotal, tallied, gaps, pending, refs, lastWinner,
                      ready, vrfs, votes, blocks, approved, won>>
      BY <1>17 DEF MakeTemplate, sched, listVars, outcome, network
    <3> QED
      BY <3>1, <3>2, <3>3 DEF TypeOK
  <2>2. SlotInList'
    BY <1>17 DEF MakeTemplate, SlotInList, TypeOK, listVars
  <2> QED
    BY <2>1, <2>2
<1>10. ASSUME NEW n \in Node, SubmitBlock(n) PROVE TypeInv'
  <2>1. Append(tip[n], n) \in Chain /\ template[n] \in Chain /\ <<>> \in Chain
    BY DEF TypeOK, Chain
  <2>2. TypeOK'
    <3>1. tip' \in [Node -> Chain]
      BY <1>10, <2>1 DEF SubmitBlock, TypeOK
    <3>2. blocks' \subseteq Block
      <4>1. [parent |-> template[n], producer |-> n, round |-> round] \in Block
        BY <2>1 DEF TypeOK, Block
      <4>2. blocks' = blocks \cup
                {[parent |-> template[n], producer |-> n, round |-> round]}
        BY <1>10 DEF SubmitBlock
      <4> QED
        BY <4>1, <4>2 DEF TypeOK
    <3>6. template' \in [Node -> Chain]
      BY <1>10, <2>1 DEF SubmitBlock, TypeOK
    <3>7. approved' \in [Node -> SUBSET Block]
      BY <1>10 DEF SubmitBlock, TypeOK
    <3>3. pc' \in [Node -> {"12", "2", "4", "7", "7_counted", "8", "9", "11"}]
      BY <1>10 DEF SubmitBlock, TypeOK
    <3>4. UNCHANGED <<round, clock, ran, prevHash, height, stuck, list, slot, selected,
                      voteTotal, tallied, gaps, pending, refs, vrfs, votes, won>>
      BY <1>10 DEF SubmitBlock, AnswerLate, sched, chainVars, listVars, outcome
    <3>5. lastWinner' \in [Node -> Node \cup {None}] /\ ready' \in [Node -> BOOLEAN]
      BY <1>10 DEF SubmitBlock, AnswerLate, TypeOK, outcome
    <3> QED
      BY <3>1, <3>2, <3>3, <3>4, <3>5, <3>6, <3>7 DEF TypeOK
  <2>3. SlotInList'
    BY <1>10 DEF SubmitBlock, SlotInList, TypeOK, listVars
  <2> QED
    BY <2>2, <2>3
<1>11. ASSUME NEW n \in Node, RoundError(n) PROVE TypeInv'
  <2>1. TypeOK'
    <3>1. template' \in [Node -> Chain]
      <4>1. <<>> \in Chain
        BY DEF Chain
      <4> QED
        BY <1>11, <4>1 DEF RoundError, TypeOK
    <3>2. lastWinner' \in [Node -> Node \cup {None}] /\ ready' \in [Node -> BOOLEAN]
      BY <1>11 DEF RoundError, TypeOK
    <3>3. pc' \in [Node -> {"12", "2", "4", "7", "7_counted", "8", "9", "11"}]
      BY <1>11 DEF RoundError, TypeOK
    <3>4. UNCHANGED <<round, clock, tip, ran, prevHash, height, stuck, list, slot,
                      selected, voteTotal, tallied, gaps, pending, refs, vrfs, votes,
                      blocks, approved, won>>
      BY <1>11 DEF RoundError, sched, listVars, network
    <3> QED
      BY <3>1, <3>2, <3>3, <3>4 DEF TypeOK
  <2>2. SlotInList'
    BY <1>11 DEF RoundError, SlotInList, TypeOK, listVars
  <2> QED
    BY <2>1, <2>2
<1>12. ASSUME NEW n \in Node, Restart(n) PROVE TypeInv'
  <2>1. TypeOK'
    <3>1. /\ ran' \in [Node -> Nat] /\ height' \in [Node -> Nat] /\ slot' \in [Node -> Nat]
          /\ pc' \in [Node -> {"12", "2", "4", "7", "7_counted", "8", "9", "11"}]
      BY <1>12 DEF Restart, TypeOK
    <3>2. stuck' \in [Node -> BOOLEAN] /\ ready' \in [Node -> BOOLEAN]
      BY <1>12 DEF Restart, TypeOK
    <3>3. prevHash' \in [Node -> Seq(Node \cup {None})] /\ list' \in [Node -> Seq(Node)]
      <4>1. <<None>> \in Seq(Node \cup {None}) /\ <<>> \in Seq(Node)
        OBVIOUS
      <4>2. /\ prevHash \in [Node -> Seq(Node \cup {None})]
            /\ prevHash' = [prevHash EXCEPT ![n] = <<None>>]
        BY <1>12 DEF Restart, TypeOK
      <4>3. list \in [Node -> Seq(Node)] /\ list' = [list EXCEPT ![n] = <<>>]
        BY <1>12 DEF Restart, TypeOK
      <4> QED
        BY <4>1, <4>2, <4>3
    <3>4. selected' \in [Node -> [Node -> Node \cup {None}]]
      BY <1>12 DEF Restart, TypeOK, NoVotes
    <3>5. voteTotal' \in [Node -> [Node -> Nat]]
      BY <1>12 DEF Restart, TypeOK, NoTotals
    <3>6. pending' \in [Node -> SUBSET VoteMessage]
      BY <1>12 DEF Restart, TypeOK
    <3>7. refs' \in [Node -> [producer : Node \cup {None}, voters : SUBSET Node]]
      BY <1>12 DEF Restart, TypeOK, NoRef
    <3>8. lastWinner' \in [Node -> Node \cup {None}]
      BY <1>12 DEF Restart, TypeOK
    <3>9. template' \in [Node -> Chain] /\ gaps' \in [Node -> SUBSET Node]
      <4>1. <<>> \in Chain
        BY DEF Chain
      <4> QED
        BY <1>12, <4>1 DEF Restart, TypeOK
    <3>10. UNCHANGED <<round, clock, tip, tallied, vrfs, votes, blocks, approved, won>>
      BY <1>12 DEF Restart, sched, network
    <3> QED
      BY <3>1, <3>2, <3>3, <3>4, <3>5, <3>6, <3>7, <3>8, <3>9, <3>10 DEF TypeOK
  <2>2. SlotInList'
    BY <1>12 DEF Restart, SlotInList, TypeOK
  <2> QED
    BY <2>1, <2>2
<1>13. ASSUME NEW n \in Node, NEW b \in blocks, ValidateBlock(n, b) PROVE TypeInv'
  <2>1. approved' \in [Node -> SUBSET Block]
    BY <1>13 DEF ValidateBlock, TypeOK
  <2>2. TypeOK'
    BY <1>13, <2>1 DEF ValidateBlock, TypeOK, sched, chainVars, listVars, outcome
  <2>3. SlotInList'
    BY <1>13 DEF ValidateBlock, SlotInList, listVars
  <2> QED
    BY <2>2, <2>3
<1>18. ASSUME NEW n \in Node, NEW b \in approved[n], AppendBlock(n, b) PROVE TypeInv'
  <2>1. b.producer \in Node
    BY DEF TypeOK, Block
  <2>2. tip' \in [Node -> Chain]
    BY <1>18, <2>1 DEF AppendBlock, TypeOK, Chain
  <2>3. approved' \in [Node -> SUBSET Block]
    BY <1>18 DEF AppendBlock, TypeOK
  <2>4. TypeOK'
    BY <1>18, <2>2, <2>3 DEF AppendBlock, TypeOK, sched, chainVars, listVars, outcome
  <2>5. SlotInList'
    BY <1>18 DEF AppendBlock, SlotInList, listVars
  <2> QED
    BY <2>4, <2>5
<1>14. ASSUME NEW n \in Node, NEW m \in votes, RecordVote(n, m) PROVE TypeInv'
  <2>1. m \in VoteMessage /\ m.choice \in Node /\ m.from \in Node
    BY DEF TypeOK, VoteMessage
  <2>2. selected' \in [Node -> [Node -> Node \cup {None}]]
    BY <1>14, <2>1 DEF RecordVote, TypeOK
  <2>3. pending' \in [Node -> SUBSET VoteMessage]
    BY <1>14, <2>1 DEF RecordVote, TypeOK
  <2>4. TypeOK'
    BY <1>14, <2>2, <2>3 DEF RecordVote, TypeOK, sched, chainVars, outcome, network
  <2>5. SlotInList'
    BY <1>14 DEF RecordVote, SlotInList
  <2> QED
    BY <2>4, <2>5
<1>15. ASSUME NEW n \in Node, NEW m \in pending[n], AddVote(n, m) PROVE TypeInv'
  <2>1. m \in VoteMessage
    BY DEF TypeOK
  <2>2. m.choice \in Node
    BY <2>1 DEF VoteMessage
  <2>3. voteTotal' \in [Node -> [Node -> Nat]]
    <3>1. voteTotal \in [Node -> [Node -> Nat]]
      BY DEF TypeOK
    <3>2. voteTotal[n][m.choice] + 1 \in Nat
      BY <2>2, <3>1
    <3>3. \/ voteTotal' = [voteTotal EXCEPT ![n] =
                [voteTotal[n] EXCEPT ![m.choice] = voteTotal[n][m.choice] + 1]]
          \/ voteTotal' = voteTotal
      BY <1>15 DEF AddVote
    <3> QED
      BY <2>2, <3>1, <3>2, <3>3
  <2>5. pending' \in [Node -> SUBSET VoteMessage]
    BY <1>15 DEF AddVote, TypeOK
  <2>6. TypeOK'
    BY <1>15, <2>3, <2>5 DEF AddVote, TypeOK, sched, chainVars, outcome, network
  <2>4. SlotInList'
    BY <1>15 DEF AddVote, SlotInList
  <2> QED
    BY <2>4, <2>6
<1>16. CASE UNCHANGED vars
  BY <1>16 DEF vars, TypeOK, SlotInList, sched, chainVars, listVars, outcome, network
<1> QED
  BY <1>1, <1>2, <1>3, <1>4, <1>5, <1>6, <1>7, <1>8, <1>9, <1>10, <1>11, <1>12,
     <1>13, <1>14, <1>15, <1>16, <1>17, <1>18
  DEF Next, RoundStep, Receive

\* Every variable of the round keeps its type.
THEOREM TypeCorrect == Spec => []TypeOK
<1>1. Init => TypeInv
  BY TypeInit
<1>2. TypeInv /\ [Next]_vars => TypeInv'
  BY TypeNext
<1>3. TypeInv => TypeOK
  BY DEF TypeInv
<1> QED
  BY <1>1, <1>2, <1>3, PTL DEF Spec
=============================================================================
