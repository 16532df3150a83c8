------------------------- MODULE RoundBallot_proofs -------------------------
(***************************************************************************)
(* The rounds implement the abstract ballot: whatever the order of the     *)
(* messages and the handlers, and whoever is late, fails or restarts.      *)
(***************************************************************************)
EXTENDS RoundAgreement_proofs

-----------------------------------------------------------------------------
(* The ballot                                                              *)

\* Past the election a delegate holds one, and only its producer submits.
ElectedBeforeBlock ==
    \A n \in Node :
        /\ pc[n] \in {"8", "9", "11"} => Elected(n)
        /\ pc[n] \in {"9", "11"} => refs[n].producer = n

\* Who has made a block in this round is done with the round.
DoneAfterBlock ==
    \A b \in blocks :
        /\ b.round <= round
        /\ b.round = round => ran[b.producer] = round /\ pc[b.producer] = "12"

BallotInv == AgreementInv /\ ElectedBeforeBlock /\ DoneAfterBlock

LEMMA BallotInit == Init => BallotInv
<1> SUFFICES ASSUME Init PROVE BallotInv
  OBVIOUS
<1>1. AgreementInv
  BY AgreementInit
<1>2. ElectedBeforeBlock /\ DoneAfterBlock
  BY DEF Init, ElectedBeforeBlock, DoneAfterBlock
<1> QED
  BY <1>1, <1>2 DEF BallotInv

LEMMA VotersElect ==
    ASSUME TypeInv, NEW n \in Node, Elect(n)
    PROVE  LET p == list[n][slot[n]]
           IN  /\ CountedVoters(n) = VotersFor(n, p)
               /\ CountedVoters(n) # {}
               /\ p \in Node
<1>1. /\ slot[n] \in 1..Len(list[n]) /\ list[n] \in Seq(Node)
      /\ tallied[n] \in [max : Nat, index : Nat]
  BY DEF Elect, TypeInv, SlotInList, TypeOK
<1>2. /\ tallied[n].index = slot[n] /\ tallied[n].max > 0
      /\ Cardinality(CountedVoters(n)) = tallied[n].max
  BY DEF Elect, VotesCoherent
<1>3. ASSUME CountedVoters(n) = {} PROVE FALSE
  <2>1. Cardinality(CountedVoters(n)) = 0
    BY <1>3, FS_EmptySet
  <2> QED
    BY <1>1, <1>2, <2>1
<1> QED
  BY <1>1, <1>2, <1>3 DEF CountedVoters

LEMMA ElectedBeforeBlockNext ==
    ASSUME TypeInv, ElectedBeforeBlock, [Next]_vars
    PROVE  ElectedBeforeBlock'
<1> USE DEF ElectedBeforeBlock, Elected
<1>1. /\ pc \in [Node -> {"12", "2", "4", "7", "7_counted", "8", "9", "11"}]
      /\ refs \in [Node -> [producer : Node \cup {None}, voters : SUBSET Node]]
  BY DEF TypeInv, TypeOK
<1>2. CASE Tick
  BY <1>2 DEF Tick, outcome
<1>3. CASE NextRound
  BY <1>3 DEF NextRound, outcome
<1>4. ASSUME NEW n \in Node, RoundStep(n) PROVE ElectedBeforeBlock'
  <2>1. \A k \in Node \ {n} : pc'[k] = pc[k] /\ refs'[k] = refs[k]
    BY <1>1, <1>4 DEF RoundStep, BeginRound, SendVrf, Vote, FollowCandidate, FindWinner,
       Elect, ConfirmHeight, MakeTemplate, SubmitBlock, AnswerLate, RoundError, Restart, outcome
  <2>2. CASE Elect(n)
    <3>1. pc'[n] = "8" /\ refs'[n].voters = CountedVoters(n)
      BY <1>1, <2>2 DEF Elect
    <3> QED
      BY <2>1, <2>2, <3>1, VotersElect
  <2>3. CASE ConfirmHeight(n) \/ MakeTemplate(n)
    BY <1>1, <2>1, <2>3 DEF ConfirmHeight, MakeTemplate, outcome
  <2>4. CASE ~Elect(n) /\ ~ConfirmHeight(n) /\ ~MakeTemplate(n)
    <3>1. pc'[n] \notin {"8", "9", "11"}
      BY <1>1, <1>4, <2>4 DEF RoundStep, BeginRound, SendVrf, Vote, FollowCandidate,
         FindWinner, SubmitBlock, RoundError, Restart
    <3> QED
      BY <2>1, <3>1
  <2> QED
    BY <2>2, <2>3, <2>4
<1>5. ASSUME NEW n \in Node, Receive(n) PROVE ElectedBeforeBlock'
  BY <1>5 DEF Receive, ValidateBlock, AppendBlock, RecordVote, AddVote, outcome
<1>6. CASE UNCHANGED vars
  BY <1>6 DEF vars, outcome
<1> QED
  BY <1>2, <1>3, <1>4, <1>5, <1>6 DEF Next

LEMMA DoneAfterBlockNext ==
    ASSUME TypeInv, RanInTime, DoneAfterBlock, [Next]_vars
    PROVE  DoneAfterBlock'
<1> USE DEF DoneAfterBlock
<1>1. /\ pc \in [Node -> {"12", "2", "4", "7", "7_counted", "8", "9", "11"}]
      /\ ran \in [Node -> Nat] /\ round \in Nat
      /\ \A b \in blocks : b.producer \in Node /\ b.round \in Nat
  BY DEF TypeInv, TypeOK, Block
<1>2. CASE Tick
  BY <1>2 DEF Tick, network
<1>3. CASE NextRound
  BY <1>1, <1>3 DEF NextRound
<1>4. ASSUME NEW n \in Node, RoundStep(n) PROVE DoneAfterBlock'
  <2>1. round' = round
    BY <1>4 DEF RoundStep, BeginRound, SendVrf, Vote, FollowCandidate, FindWinner,
       Elect, ConfirmHeight, MakeTemplate, SubmitBlock, RoundError, Restart, sched
  <2>2. \A k \in Node \ {n} : pc'[k] = pc[k] /\ ran'[k] = ran[k]
    BY <1>1, <1>4 DEF RoundStep, BeginRound, SendVrf, Vote, FollowCandidate, FindWinner,
       Elect, ConfirmHeight, MakeTemplate, SubmitBlock, RoundError, Restart
  <2>3. CASE SubmitBlock(n)
    <3>1. ran[n] = round
      BY <2>3 DEF SubmitBlock, RanInTime, InRound
    <3>2. ran' = ran /\ pc'[n] = "12"
      BY <1>1, <2>3 DEF SubmitBlock
    <3>3. \A b \in blocks' : b \in blocks \/ (b.round = round /\ b.producer = n)
      BY <2>3 DEF SubmitBlock
    <3> QED
      BY <1>1, <2>1, <2>2, <3>1, <3>2, <3>3
  <2>4. CASE BeginRound(n)
    BY <1>1, <2>1, <2>2, <2>4 DEF BeginRound, network
  <2>5. CASE Restart(n)
    BY <1>1, <2>1, <2>2, <2>5 DEF Restart, network
  <2>6. CASE ~SubmitBlock(n) /\ ~BeginRound(n) /\ ~Restart(n)
    <3>1. ran' = ran /\ blocks' = blocks
      BY <1>4, <2>6 DEF RoundStep, SendVrf, Vote, FollowCandidate, FindWinner,
         Elect, ConfirmHeight, MakeTemplate, RoundError, network
    <3>2. pc[n] # "12" \/ pc'[n] = "12"
      BY <1>1, <1>4, <2>6 DEF RoundStep, SendVrf, Vote, FollowCandidate, FindWinner,
         Elect, ConfirmHeight, MakeTemplate, RoundError
    <3> QED
      BY <1>1, <2>1, <2>2, <3>1, <3>2
  <2> QED
    BY <2>3, <2>4, <2>5, <2>6
<1>5. ASSUME NEW n \in Node, Receive(n) PROVE DoneAfterBlock'
  BY <1>5 DEF Receive, ValidateBlock, AppendBlock, RecordVote, AddVote, sched, network
<1>6. CASE UNCHANGED vars
  BY <1>6 DEF vars, sched, network
<1> QED
  BY <1>2, <1>3, <1>4, <1>5, <1>6 DEF Next

LEMMA BallotStep ==
    ASSUME MaxStale = 0, BallotInv, [Next]_vars
    PROVE  BallotInv'
<1> USE DEF BallotInv
<1>1. AgreementInv'
  BY AgreementStep
<1>2. TypeInv /\ RanInTime
  BY DEF AgreementInv
<1>3. ElectedBeforeBlock'
  BY <1>2, ElectedBeforeBlockNext
<1>4. DoneAfterBlock'
  BY <1>2, DoneAfterBlockNext
<1> QED
  BY <1>1, <1>3, <1>4

-----------------------------------------------------------------------------
(* Every step of the rounds is a step of the ballot, or none               *)

mapped == <<round, Ballots, Certificates, Made>>

\* What the ballot sees depends on these alone.
LEMMA SameBallot ==
    ASSUME round' = round, votes' = votes, ran' = ran, refs' = refs, blocks' = blocks
    PROVE  UNCHANGED mapped
BY DEF mapped, Ballots, Certificates, Made, Elected

LEMMA NoneElected ==
    ASSUME NEW n \in Node, ~(ran[n] = round /\ Elected(n))
    PROVE  Certificates[n] = NoRef
BY DEF Certificates

\* The instance has a copy of its own of what FiniteSets defines.
LEMMA SameCardinality == \A S : Promise!Cardinality(S) = Cardinality(S)
  BY DEF Promise!Cardinality, Cardinality

\* As many keys as are in the list at most: those that count are not fewer.
LEMMA KeysCounted ==
    ASSUME TypeOK, NEW n \in Node
    PROVE  /\ Promise!Counted(Members(list[n])) \in Nat
           /\ Promise!Counted(Members(list[n])) <= Count(n)
<1> DEFINE K == 1..Len(list[n])
           f == [i \in K |-> list[n][i]]
<1>1. list[n] \in Seq(Node) /\ DOMAIN list[n] = K /\ Len(list[n]) \in Nat
  BY DEF TypeOK
<1>2. IsFiniteSet(K) /\ Cardinality(K) = Len(list[n])
  BY <1>1, FS_Interval
<1>3. f \in Surjection(K, Members(list[n]))
  BY <1>1 DEF Surjection, Members
<1> HIDE DEF f
<1>4. /\ IsFiniteSet(Members(list[n]))
      /\ Cardinality(Members(list[n])) <= Len(list[n])
  BY <1>2, <1>3, FS_Surjection
<1>5. Cardinality(Members(list[n])) \in Nat
  BY <1>4, FS_CardinalityType
<1>6. CommitteeSize + SeedCount \in Nat
  BY CommitteeAssumption
<1> DEFINE c == Cardinality(Members(list[n]))
           l == Len(list[n])
           x == CommitteeSize + SeedCount
<1>7. Promise!Counted(Members(list[n])) = IF c < x THEN c ELSE x
  BY SameCardinality DEF Promise!Counted
<1>8. Count(n) = IF Bootstrap(n) THEN (IF l < x THEN l ELSE x) ELSE l
  BY DEF Count, CommitteeCount, Smaller
<1>9. c \in Nat /\ l \in Nat /\ x \in Nat /\ c <= l
  BY <1>1, <1>4, <1>5, <1>6
<1> HIDE DEF c, l, x
<1> QED
  BY <1>7, <1>8, <1>9

LEMMA ElectionIsMajority ==
    ASSUME TypeInv, VotesBoundToRound, NEW n \in Node, Elect(n)
    PROVE  LET p    == list[n][slot[n]]
               keys == Members(list[n])
           IN  /\ CountedVoters(n) \in (SUBSET keys) \ {{}}
               /\ Promise!Majority(CountedVoters(n), keys)
               /\ \A v \in CountedVoters(n) :
                     [voter |-> v, choice |-> p, keys |-> keys] \in Ballots
<1> DEFINE p    == list[n][slot[n]]
           keys == Members(list[n])
<1>1. TypeOK
  BY DEF TypeInv
<1>2. /\ CountedVoters(n) = VotersFor(n, p) /\ CountedVoters(n) # {} /\ p \in Node
  BY VotersElect
<1>3. Count(n) \in Nat /\ Count(n) <= Len(list[n]) /\ Electors(n) \in SUBSET Node
  BY <1>1, CountBound
<1>4. Electors(n) \subseteq keys
  <2>1. Count(n) \in Nat /\ list[n] \in Seq(Node) /\ Len(list[n]) \in Nat
    BY <1>1, <1>3 DEF TypeOK
  <2>2. \A i \in 1..Count(n) : i \in DOMAIN list[n]
    BY <1>3, <2>1
  <2> QED
    BY <2>2 DEF Electors, Members
<1>5. CountedVoters(n) \in (SUBSET keys) \ {{}}
  BY <1>2, <1>4 DEF VotersFor
<1>6. Cardinality(CountedVoters(n)) >= Need(n) /\ Cardinality(CountedVoters(n)) \in Nat
  BY <1>1 DEF Elect, VotesCoherent, EnoughVotes, TypeOK
<1>7. 3 * Need(n) >= 2 * Count(n) /\ Need(n) \in Nat
  BY <1>3 DEF Need, AgreementNeeded
<1>8. Promise!Majority(CountedVoters(n), keys)
  <2>1. /\ Promise!Counted(keys) \in Nat /\ Promise!Counted(keys) <= Count(n)
    BY <1>1, KeysCounted
  <2>2. 3 * Cardinality(CountedVoters(n)) >= 2 * Promise!Counted(keys)
    BY <1>3, <1>6, <1>7, <2>1
  <2> QED
    BY <2>2, SameCardinality DEF Promise!Majority
<1>9. ASSUME NEW v \in CountedVoters(n)
      PROVE  [voter |-> v, choice |-> p, keys |-> keys] \in Ballots
  <2>1. v \in Node /\ selected[n][v] = p /\ p # None
    BY <1>2, <1>3, CommitteeAssumption DEF VotersFor
  <2>2. Cast(v, p, n)
    BY <2>1 DEF VotesBoundToRound, Voting, Elect
  <2>3. PICK m \in votes : /\ m.from = v /\ m.choice = p /\ m.round = round
                           /\ m.keys = keys
    BY <2>2 DEF Cast
  <2> QED
    BY <2>3 DEF Ballots
<1> QED
  BY <1>5, <1>8, <1>9

LEMMA NextMinuteStep ==
    ASSUME MaxStale = 0, BallotInv, NextRound
    PROVE  Promise!NextMinute
<1>1. /\ ran \in [Node -> Nat] /\ round \in Nat /\ \A b \in blocks : b.round \in Nat
  BY DEF BallotInv, AgreementInv, TypeInv, TypeOK, Block
<1>2. round' = round + 1 /\ ran' = ran /\ blocks' = blocks
  BY DEF NextRound
<1>3. votes' = {m \in votes : m.round + MaxStale > round}
  BY DEF NextRound
<1>4. votes' = {}
  BY <1>1, <1>3 DEF BallotInv, AgreementInv, OneVoteEach
<1>5. Ballots' = {}
  BY <1>4 DEF Ballots
<1>6. \A n \in Node : ran'[n] # round'
  BY <1>1, <1>2 DEF BallotInv, AgreementInv, RanInTime
<1>7. Certificates' = [n \in Node |-> NoRef]
  BY <1>6 DEF Certificates
<1>8. \A b \in blocks' : b.round # round'
  BY <1>1, <1>2 DEF BallotInv, DoneAfterBlock
<1>9. \A n \in Node : {b \in blocks' : b.round = round' /\ b.producer = n} = {}
  BY <1>8
<1>10. Made' = [n \in Node |-> 0]
  BY <1>9, FS_EmptySet DEF Made
<1> QED
  BY <1>2, <1>5, <1>7, <1>10 DEF Promise!NextMinute, Promise!NoCertificate, NoRef

LEMMA VoteIsCast ==
    ASSUME BallotInv, NEW n \in Node, Vote(n)
    PROVE  Promise!CastVote(n) \/ UNCHANGED mapped
<1>1. TypeOK /\ OneVoteEach /\ pc[n] = "4"
  BY DEF BallotInv, AgreementInv, TypeInv, Vote
<1>2. /\ round' = round /\ ran' = ran /\ refs' = refs /\ blocks' = blocks
  BY DEF Vote, sched, outcome
<1>3. PICK w \in Views(n) :
        LET com == CommitteeOf(n, w.online, w.late)
            p   == com[SlotOf(n, com)]
            own == n \in VotersOf(n, com)
        IN  /\ CanVote(n, w)
            /\ votes' = IF own
                  THEN votes \cup {[from |-> n, round |-> round, choice |-> p,
                                    prev |-> prevHash[n], height |-> height[n],
                                    keys |-> Members(com), whole |-> p \notin w.torn,
                                    to |-> VotersOf(n, com) \ {n}]}
                  ELSE votes
  BY DEF Vote
<1> DEFINE com == CommitteeOf(n, w.online, w.late)
           p   == com[SlotOf(n, com)]
           m   == [from |-> n, round |-> round, choice |-> p,
                   prev |-> prevHash[n], height |-> height[n],
                   keys |-> Members(com), whole |-> p \notin w.torn,
                   to |-> VotersOf(n, com) \ {n}]
<1>4. CASE n \in VotersOf(n, com)
  <2>1. votes' = votes \cup {m}
    BY <1>3, <1>4
  <2>2. p \in Node /\ Members(com) \in SUBSET Node
    BY <1>1, <1>3, VoteTyped
  <2>3. Ballots' = Ballots \cup {[voter |-> n, choice |-> p, keys |-> Members(com)]}
    <3> DEFINE Now(V) == {[voter |-> x.from, choice |-> x.choice, keys |-> x.keys] :
                             x \in {v \in V : v.round = round}}
    <3>1. Ballots' = Now(votes') /\ Ballots = Now(votes)
      BY <1>2 DEF Ballots
    <3>2. /\ m.from = n /\ m.choice = p /\ m.keys = Members(com) /\ m.round = round
      OBVIOUS
    <3> HIDE DEF m
    <3>3. {v \in votes' : v.round = round} = {v \in votes : v.round = round} \cup {m}
      BY <2>1, <3>2
    <3>4. Now(votes') = Now(votes)
             \cup {[voter |-> m.from, choice |-> m.choice, keys |-> m.keys]}
      BY <3>3
    <3> QED
      BY <3>1, <3>2, <3>4
  <2>4. \A b \in Ballots : b.voter # n
    BY <1>1 DEF Ballots, OneVoteEach
  <2>5. Certificates' = Certificates /\ Made' = Made
    BY <1>2 DEF Certificates, Made, Elected
  <2> QED
    BY <1>2, <2>2, <2>3, <2>4, <2>5 DEF Promise!CastVote
<1>5. CASE n \notin VotersOf(n, com)
  BY <1>2, <1>3, <1>5, SameBallot
<1> QED
  BY <1>4, <1>5

LEMMA ElectIsElect ==
    ASSUME BallotInv, NEW n \in Node, Elect(n)
    PROVE  Promise!Elect(n)
<1> DEFINE p    == list[n][slot[n]]
           keys == Members(list[n])
           Q    == CountedVoters(n)
<1>1. /\ TypeInv /\ TypeOK /\ VotesBoundToRound /\ RanInTime /\ NoEarlyResult
      /\ pc[n] = "7_counted"
  BY DEF BallotInv, AgreementInv, TypeInv, Elect
<1>2. /\ round' = round /\ ran' = ran /\ votes' = votes /\ blocks' = blocks
      /\ refs' = [refs EXCEPT ![n] = [producer |-> p, voters |-> Q]]
  BY DEF Elect, sched, network
<1>3. /\ Q \in (SUBSET keys) \ {{}} /\ Promise!Majority(Q, keys)
      /\ \A v \in Q : [voter |-> v, choice |-> p, keys |-> keys] \in Ballots
  BY <1>1, ElectionIsMajority
<1>4. p \in Node /\ keys \in SUBSET Node
  BY <1>1, VotersElect DEF TypeOK, Members
<1>5. ran[n] = round /\ refs[n] = NoRef
  BY <1>1 DEF RanInTime, InRound, NoEarlyResult
<1>6. Certificates[n] = NoRef
  <2>1. refs[n].voters = {}
    BY <1>5 DEF NoRef
  <2> QED
    BY <2>1, NoneElected DEF Elected
<1>7. refs \in [Node -> [producer : Node \cup {None}, voters : SUBSET Node]]
  BY <1>1 DEF TypeOK
<1>8. refs'[n] = [producer |-> p, voters |-> Q] /\ \A k \in Node \ {n} : refs'[k] = refs[k]
  BY <1>2, <1>7
<1>9. Certificates' = [Certificates EXCEPT ![n] = [producer |-> p, voters |-> Q]]
  <2>1. \A k \in Node \ {n} : Certificates'[k] = Certificates[k]
    BY <1>2, <1>8 DEF Certificates, Elected
  <2>2. Certificates'[n] = [producer |-> p, voters |-> Q]
    BY <1>2, <1>3, <1>5, <1>8 DEF Certificates, Elected
  <2> QED
    BY <2>1, <2>2 DEF Certificates
<1>10. Ballots' = Ballots /\ Made' = Made
  BY <1>2 DEF Ballots, Made
<1> QED
  BY <1>2, <1>3, <1>4, <1>6, <1>9, <1>10 DEF Promise!Elect, Promise!NoCertificate, NoRef

LEMMA SubmitIsBlock ==
    ASSUME BallotInv, NEW n \in Node, SubmitBlock(n)
    PROVE  Promise!MakeBlock(n)
<1> DEFINE b == [parent |-> template[n], producer |-> n, round |-> round]
           mine(k) == {x \in blocks : x.round = round /\ x.producer = k}
<1>1. /\ TypeOK /\ RanInTime /\ ElectedBeforeBlock /\ DoneAfterBlock /\ pc[n] = "11"
  BY DEF BallotInv, AgreementInv, TypeInv, SubmitBlock
<1>2. /\ round' = round /\ ran' = ran /\ votes' = votes /\ refs' = refs
      /\ blocks' = blocks \cup {b}
  BY DEF SubmitBlock, AnswerLate, sched, outcome
<1>3. ran[n] = round /\ Elected(n) /\ refs[n].producer = n
  BY <1>1 DEF RanInTime, InRound, ElectedBeforeBlock
<1>4. Certificates[n].producer = n
  BY <1>3 DEF Certificates
<1>5. mine(n) = {}
  BY <1>1 DEF DoneAfterBlock
<1>6. Made[n] = 0
  BY <1>5, FS_EmptySet DEF Made
<1>7. \A k \in Node \ {n} : {x \in blocks' : x.round = round' /\ x.producer = k} = mine(k)
  BY <1>2
<1>8. {x \in blocks' : x.round = round' /\ x.producer = n} = {b}
  BY <1>2, <1>5
<1>9. Made' = [Made EXCEPT ![n] = 1]
  <2>1. \A k \in Node \ {n} : Made'[k] = Made[k]
    BY <1>7 DEF Made
  <2>2. Made'[n] = 1
    BY <1>8, FS_Singleton DEF Made
  <2> QED
    BY <2>1, <2>2 DEF Made
<1>10. Ballots' = Ballots /\ Certificates' = Certificates
  BY <1>2 DEF Ballots, Certificates, Elected
<1> QED
  BY <1>2, <1>4, <1>6, <1>9, <1>10 DEF Promise!MakeBlock

LEMMA RestartForgets ==
    ASSUME BallotInv, NEW n \in Node, Restart(n)
    PROVE  Promise!Forget(n)
<1>1. /\ ran \in [Node -> Nat]
      /\ refs \in [Node -> [producer : Node \cup {None}, voters : SUBSET Node]]
  BY DEF BallotInv, AgreementInv, TypeInv, TypeOK
<1>2. /\ round' = round /\ votes' = votes /\ blocks' = blocks
      /\ refs'[n] = NoRef
      /\ \A k \in Node \ {n} : refs'[k] = refs[k] /\ ran'[k] = ran[k]
  BY <1>1 DEF Restart, sched, network
<1>3. Certificates' = [Certificates EXCEPT ![n] = NoRef]
  BY <1>2 DEF Certificates, Elected, NoRef
<1>4. Ballots' = Ballots /\ Made' = Made
  BY <1>2 DEF Ballots, Made
<1> QED
  BY <1>2, <1>3, <1>4 DEF Promise!Forget, Promise!NoCertificate, NoRef

\* Neither beginning a round nor following a candidate touches an election of
\* this round.
LEMMA NoElectionYet ==
    ASSUME BallotInv, NEW n \in Node, BeginRound(n) \/ FollowCandidate(n)
    PROVE  UNCHANGED mapped
<1>1. /\ ran \in [Node -> Nat] /\ round \in Nat /\ NoEarlyResult
      /\ refs \in [Node -> [producer : Node \cup {None}, voters : SUBSET Node]]
  BY DEF BallotInv, AgreementInv, TypeInv, TypeOK
<1>2. /\ round' = round /\ votes' = votes /\ blocks' = blocks
      /\ refs'[n].voters = {}
      /\ \A k \in Node \ {n} : refs'[k] = refs[k] /\ ran'[k] = ran[k]
  BY <1>1 DEF BeginRound, FollowCandidate, NoRef, sched, network
<1>3. ~(ran[n] = round /\ Elected(n))
  BY <1>1 DEF BeginRound, FollowCandidate, NoEarlyResult, NoRef, Elected
<1>4. \A k \in Node : Certificates'[k] = Certificates[k]
  BY <1>2, <1>3 DEF Certificates, Elected
<1>5. Certificates' = Certificates
  BY <1>4 DEF Certificates
<1> QED
  BY <1>2, <1>5 DEF mapped, Ballots, Made

LEMMA StepIsBallot ==
    ASSUME MaxStale = 0, BallotInv, [Next]_vars
    PROVE  Promise!Next \/ UNCHANGED mapped
<1>1. CASE Tick
  BY <1>1, SameBallot DEF Tick, outcome, network
<1>2. CASE NextRound
  BY <1>2, NextMinuteStep DEF Promise!Next
<1>3. ASSUME NEW n \in Node, RoundStep(n) PROVE Promise!Next \/ UNCHANGED mapped
  <2>1. CASE BeginRound(n) \/ FollowCandidate(n)
    BY <2>1, NoElectionYet
  <2>2. CASE SendVrf(n) \/ FindWinner(n) \/ ConfirmHeight(n) \/ MakeTemplate(n)
             \/ RoundError(n)
    <3>1. /\ round' = round /\ votes' = votes /\ ran' = ran /\ refs' = refs
          /\ blocks' = blocks
      BY <2>2 DEF SendVrf, FindWinner, ConfirmHeight, MakeTemplate, RoundError, sched, outcome, network
    <3> QED
      BY <3>1, SameBallot
  <2>3. CASE Vote(n)
    BY <2>3, VoteIsCast DEF Promise!Next
  <2>4. CASE Elect(n)
    BY <2>4, ElectIsElect DEF Promise!Next
  <2>5. CASE SubmitBlock(n)
    BY <2>5, SubmitIsBlock DEF Promise!Next
  <2>6. CASE Restart(n)
    BY <2>6, RestartForgets DEF Promise!Next
  <2> QED
    BY <1>3, <2>1, <2>2, <2>3, <2>4, <2>5, <2>6 DEF RoundStep
<1>4. ASSUME NEW n \in Node, Receive(n) PROVE UNCHANGED mapped
  BY <1>4, SameBallot DEF Receive, ValidateBlock, AppendBlock, RecordVote, AddVote, sched, outcome, network
<1>5. CASE UNCHANGED vars
  BY <1>5, SameBallot DEF vars, sched, outcome, network
<1> QED
  BY <1>1, <1>2, <1>3, <1>4, <1>5 DEF Next

LEMMA InitIsBallot == Init => Promise!Init
<1> SUFFICES ASSUME Init PROVE Promise!Init
  OBVIOUS
<1>1. round = 1 /\ votes = {} /\ blocks = {} /\ \A n \in Node : refs[n] = NoRef
  BY DEF Init
<1>2. Ballots = {}
  BY <1>1 DEF Ballots
<1>3. Certificates = [n \in Node |-> NoRef]
  BY <1>1 DEF Certificates
<1>4. \A n \in Node : {b \in blocks : b.round = round /\ b.producer = n} = {}
  BY <1>1
<1>5. Made = [n \in Node |-> 0]
  BY <1>4, FS_EmptySet DEF Made
<1> QED
  BY <1>1, <1>2, <1>3, <1>5 DEF Promise!Init, Promise!NoCertificate, NoRef

\* Unless vote messages outlive their round, the rounds implement the ballot:
\* a delegate votes once in a round, elections rest on two thirds of the votes
\* for one set of keys, and an election yields one block at most, also when
\* the answer to the submission is late (process_round and what it calls).
THEOREM RoundsImplementBallot == ASSUME MaxStale = 0 PROVE Spec => KeepsBallot
<1>1. Init => BallotInv /\ Promise!Init
  BY BallotInit, InitIsBallot
<1>2. BallotInv /\ [Next]_vars => BallotInv'
  BY BallotStep
<1>3. BallotInv /\ [Next]_vars => [Promise!Next]_<<round, Ballots, Certificates, Made>>
  BY StepIsBallot DEF mapped
<1> QED
  BY <1>1, <1>2, <1>3, PTL DEF Spec, KeepsBallot, Promise!Spec, Promise!ballotVars

-----------------------------------------------------------------------------
(* Blocks                                                                  *)

\* From the start of a round to its end the daemon's validation counts.
ReadyInRound == \A n \in Node : InRound(n) => ready[n]

\* An election in hand is on record.
ElectionRecorded ==
    \A n \in Node :
        pc[n] \in {"8", "9", "11"}
            => [round |-> round, producer |-> refs[n].producer] \in won

\* What a delegate lets pass, some producer has submitted.
ApprovedSubmitted == \A n \in Node : approved[n] \subseteq blocks

\* Chains only grow: from Part 4 on the tip may be past the height of the
\* round, and never short of it.
HeightBehind ==
    \A n \in Node :
        pc[n] \notin {"12", "2"} => height[n] <= NextHeight(tip[n])

\* A block that ends the tip of n and is not its own of this round.
EndsTip(n, b) ==
    /\ tip[n] = Append(b.parent, b.producer)
    /\ b.round = round => b.producer # n

\* The tip of a delegate in its round is what it started from, or ends with a
\* block that came in since and is not its own of this round.
TipKnown ==
    \A n \in Node :
        InRound(n) => tip[n] = prevHash[n] \/ \E b \in blocks : EndsTip(n, b)

BlockInv ==
    /\ TypeInv
    /\ RanInTime
    /\ ElectedBeforeBlock
    /\ DoneAfterBlock
    /\ ReadyInRound
    /\ ElectionRecorded
    /\ ApprovedSubmitted
    /\ HeightBehind
    /\ TipKnown

LEMMA BlockInit == Init => BlockInv
<1> SUFFICES ASSUME Init PROVE BlockInv
  OBVIOUS
<1>1. TypeInv
  BY TypeInit
<1>2. /\ RanInTime /\ ElectedBeforeBlock /\ DoneAfterBlock /\ ReadyInRound
      /\ ElectionRecorded /\ ApprovedSubmitted /\ HeightBehind /\ TipKnown
  BY DEF Init, RanInTime, ElectedBeforeBlock, DoneAfterBlock, ReadyInRound, InRound,
     ElectionRecorded, ApprovedSubmitted, HeightBehind, TipKnown
<1> QED
  BY <1>1, <1>2 DEF BlockInv

LEMMA ReadyInRoundNext ==
    ASSUME TypeInv, ReadyInRound, [Next]_vars
    PROVE  ReadyInRound'
<1> USE DEF ReadyInRound, InRound
<1>1. /\ pc \in [Node -> {"12", "2", "4", "7", "7_counted", "8", "9", "11"}]
      /\ ready \in [Node -> BOOLEAN]
  BY DEF TypeInv, TypeOK
<1>2. CASE Tick
  BY <1>2 DEF Tick, outcome
<1>3. CASE NextRound
  BY <1>3 DEF NextRound, outcome
<1>4. ASSUME NEW n \in Node, RoundStep(n) PROVE ReadyInRound'
  <2>1. \A k \in Node \ {n} : pc'[k] = pc[k] /\ ready'[k] = ready[k]
    BY <1>1, <1>4 DEF RoundStep, BeginRound, SendVrf, Vote, FollowCandidate, FindWinner,
       Elect, ConfirmHeight, MakeTemplate, SubmitBlock, AnswerLate, RoundError, Restart, outcome
  <2>2. CASE BeginRound(n)
    BY <1>1, <2>1, <2>2 DEF BeginRound
  <2>3. CASE SubmitBlock(n) \/ RoundError(n) \/ Restart(n)
    <3>1. pc'[n] = "12"
      BY <1>1, <2>3 DEF SubmitBlock, RoundError, Restart
    <3> QED
      BY <2>1, <3>1
  <2>4. CASE SendVrf(n) \/ Vote(n) \/ FollowCandidate(n) \/ FindWinner(n) \/ Elect(n)
             \/ ConfirmHeight(n) \/ MakeTemplate(n)
    <3>1. pc[n] # "12" /\ ready' = ready
      BY <2>4 DEF SendVrf, Vote, FollowCandidate, FindWinner, Elect, ConfirmHeight,
         MakeTemplate, outcome
    <3> QED
      BY <2>1, <3>1
  <2> QED
    BY <1>4, <2>2, <2>3, <2>4 DEF RoundStep
<1>5. ASSUME NEW n \in Node, Receive(n) PROVE ReadyInRound'
  BY <1>5 DEF Receive, ValidateBlock, AppendBlock, RecordVote, AddVote, outcome
<1>6. CASE UNCHANGED vars
  BY <1>6 DEF vars, outcome
<1> QED
  BY <1>2, <1>3, <1>4, <1>5, <1>6 DEF Next

LEMMA ElectionRecordedNext ==
    ASSUME TypeInv, ElectionRecorded, [Next]_vars
    PROVE  ElectionRecorded'
<1> USE DEF ElectionRecorded
<1>1. /\ pc \in [Node -> {"12", "2", "4", "7", "7_counted", "8", "9", "11"}]
      /\ refs \in [Node -> [producer : Node \cup {None}, voters : SUBSET Node]]
  BY DEF TypeInv, TypeOK
<1>2. CASE Tick
  BY <1>2 DEF Tick, outcome
<1>3. CASE NextRound
  BY <1>3 DEF NextRound, InRound
<1>4. ASSUME NEW n \in Node, RoundStep(n) PROVE ElectionRecorded'
  <2>1. \A k \in Node \ {n} : pc'[k] = pc[k] /\ refs'[k] = refs[k]
    BY <1>1, <1>4 DEF RoundStep, BeginRound, SendVrf, Vote, FollowCandidate, FindWinner,
       Elect, ConfirmHeight, MakeTemplate, SubmitBlock, AnswerLate, RoundError, Restart, outcome
  <2>2. round' = round /\ won \subseteq won'
    BY <1>4 DEF RoundStep, BeginRound, SendVrf, Vote, FollowCandidate, FindWinner,
       Elect, ConfirmHeight, MakeTemplate, SubmitBlock, RoundError, Restart, sched
  <2>3. CASE Elect(n)
    <3> DEFINE p == list[n][slot[n]]
    <3>1. refs'[n].producer = p
      BY <1>1, <2>3 DEF Elect
    <3>2. [round |-> round, producer |-> p] \in won'
      BY <2>3 DEF Elect
    <3> QED
      BY <2>1, <2>2, <3>1, <3>2
  <2>4. CASE ConfirmHeight(n) \/ MakeTemplate(n)
    <3>1. pc[n] \in {"8", "9"} /\ refs' = refs
      BY <2>4 DEF ConfirmHeight, MakeTemplate, outcome
    <3> QED
      BY <2>1, <2>2, <3>1
  <2>5. CASE ~Elect(n) /\ ~ConfirmHeight(n) /\ ~MakeTemplate(n)
    <3>1. pc'[n] \notin {"8", "9", "11"}
      BY <1>1, <1>4, <2>5 DEF RoundStep, BeginRound, SendVrf, Vote, FollowCandidate,
         FindWinner, SubmitBlock, RoundError, Restart
    <3> QED
      BY <2>1, <2>2, <3>1
  <2> QED
    BY <2>3, <2>4, <2>5
<1>5. ASSUME NEW n \in Node, Receive(n) PROVE ElectionRecorded'
  BY <1>5 DEF Receive, ValidateBlock, AppendBlock, RecordVote, AddVote, sched, outcome
<1>6. CASE UNCHANGED vars
  BY <1>6 DEF vars, sched, outcome
<1> QED
  BY <1>2, <1>3, <1>4, <1>5, <1>6 DEF Next

LEMMA Longer ==
    ASSUME NEW c \in Chain, NEW n \in Node
    PROVE  Append(c, n) \in Chain /\ Len(Append(c, n)) = Len(c) + 1 /\ Len(c) \in Nat
BY DEF Chain

LEMMA ApprovedSubmittedNext ==
    ASSUME TypeInv, ApprovedSubmitted, [Next]_vars
    PROVE  ApprovedSubmitted'
<1> USE DEF ApprovedSubmitted
<1>1. approved \in [Node -> SUBSET Block]
  BY DEF TypeInv, TypeOK
<1>2. CASE Tick \/ NextRound \/ UNCHANGED vars
  BY <1>2 DEF Tick, NextRound, vars, network
<1>3. ASSUME NEW n \in Node, RoundStep(n) PROVE ApprovedSubmitted'
  <2>1. CASE SubmitBlock(n)
    BY <1>1, <2>1 DEF SubmitBlock
  <2>2. CASE ~SubmitBlock(n)
    BY <1>3, <2>2 DEF RoundStep, BeginRound, SendVrf, Vote, FollowCandidate, FindWinner,
       Elect, ConfirmHeight, MakeTemplate, RoundError, Restart, network
  <2> QED
    BY <2>1, <2>2
<1>4. ASSUME NEW n \in Node, Receive(n) PROVE ApprovedSubmitted'
  BY <1>1, <1>4 DEF Receive, ValidateBlock, AppendBlock, RecordVote, AddVote, network
<1> QED
  BY <1>2, <1>3, <1>4 DEF Next

LEMMA HeightBehindNext ==
    ASSUME TypeInv, ApprovedSubmitted, HeightBehind, [Next]_vars
    PROVE  HeightBehind'
<1> USE DEF HeightBehind
<1>1. /\ pc \in [Node -> {"12", "2", "4", "7", "7_counted", "8", "9", "11"}]
      /\ tip \in [Node -> Chain] /\ height \in [Node -> Nat]
      /\ \A b \in blocks : b.producer \in Node
  BY DEF TypeInv, TypeOK, Block
<1>2. \A k \in Node : Len(tip[k]) \in Nat
  BY <1>1, Longer
<1>3. ASSUME UNCHANGED <<tip, pc, height>> PROVE HeightBehind'
  BY <1>3 DEF NextHeight
<1>4. CASE Tick \/ NextRound \/ UNCHANGED vars
  BY <1>3, <1>4 DEF Tick, NextRound, vars, chainVars
<1>5. ASSUME NEW n \in Node, RoundStep(n) PROVE HeightBehind'
  <2>1. \A k \in Node \ {n} : pc'[k] = pc[k] /\ height'[k] = height[k] /\ tip'[k] = tip[k]
    BY <1>1, <1>5 DEF RoundStep, BeginRound, SendVrf, Vote, FollowCandidate, FindWinner,
       Elect, ConfirmHeight, MakeTemplate, SubmitBlock, RoundError, Restart, chainVars
  <2>2. \/ pc'[n] \in {"12", "2"}
        \/ height'[n] <= NextHeight(tip'[n])
    <3>1. CASE SendVrf(n)
      <4>1. height'[n] = NextHeight(tip[n]) /\ tip' = tip
        BY <1>1, <3>1 DEF SendVrf
      <4> QED
        BY <1>2, <4>1 DEF NextHeight
    <3>2. CASE Vote(n) \/ FindWinner(n) \/ Elect(n) \/ ConfirmHeight(n) \/ MakeTemplate(n)
      <4>1. pc[n] \notin {"12", "2"} /\ tip' = tip /\ height' = height
        BY <3>2 DEF Vote, FindWinner, Elect, ConfirmHeight, MakeTemplate, chainVars
      <4> QED
        BY <4>1 DEF NextHeight
    <3>3. CASE BeginRound(n) \/ FollowCandidate(n) \/ SubmitBlock(n) \/ RoundError(n)
               \/ Restart(n)
      BY <1>1, <3>3 DEF BeginRound, FollowCandidate, SubmitBlock, RoundError, Restart
    <3> QED
      BY <1>5, <3>1, <3>2, <3>3 DEF RoundStep
  <2> QED
    BY <2>1, <2>2 DEF NextHeight
<1>6. ASSUME NEW n \in Node, Receive(n) PROVE HeightBehind'
  <2>1. ASSUME NEW b \in approved[n], AppendBlock(n, b) PROVE HeightBehind'
    <3>1. b.producer \in Node
      BY <1>1 DEF ApprovedSubmitted
    <3>2. /\ pc' = pc /\ height' = height
          /\ tip' = [tip EXCEPT ![n] = Append(tip[n], b.producer)]
      BY <2>1 DEF AppendBlock, chainVars
    <3>3. Len(tip'[n]) = Len(tip[n]) + 1 /\ \A k \in Node \ {n} : tip'[k] = tip[k]
      BY <1>1, <3>1, <3>2, Longer
    <3> QED
      BY <1>1, <1>2, <3>2, <3>3 DEF NextHeight
  <2>2. ASSUME NEW b, ValidateBlock(n, b) PROVE HeightBehind'
    BY <1>3, <2>2 DEF ValidateBlock, chainVars
  <2>3. ASSUME NEW m, RecordVote(n, m) \/ AddVote(n, m) PROVE HeightBehind'
    BY <1>3, <2>3 DEF RecordVote, AddVote, chainVars
  <2> QED
    BY <1>6, <2>1, <2>2, <2>3 DEF Receive
<1> QED
  BY <1>4, <1>5, <1>6 DEF Next

\* What is known of the tip of a delegate stays, or its round has ended.
LEMMA TipStays ==
    ASSUME TipKnown, NEW k \in Node, InRound(k)' => InRound(k), round' = round,
           tip'[k] = tip[k], prevHash'[k] = prevHash[k], blocks \subseteq blocks'
    PROVE  InRound(k)' => tip'[k] = prevHash'[k] \/ \E b \in blocks' : EndsTip(k, b)'
BY DEF TipKnown, EndsTip

LEMMA TipKnownNext ==
    ASSUME TypeInv, DoneAfterBlock, ApprovedSubmitted, TipKnown, [Next]_vars
    PROVE  TipKnown'
<1>1. /\ pc \in [Node -> {"12", "2", "4", "7", "7_counted", "8", "9", "11"}]
      /\ tip \in [Node -> Chain]
      /\ prevHash \in [Node -> Seq(Node \cup {None})]
  BY DEF TypeInv, TypeOK
<1> DEFINE Known(k) == InRound(k)' =>
                          tip'[k] = prevHash'[k] \/ \E b \in blocks' : EndsTip(k, b)'
<1>2. SUFFICES ASSUME NEW k \in Node PROVE Known(k)
  BY DEF TipKnown
<1>3. ASSUME InRound(k)' => InRound(k), round' = round, tip'[k] = tip[k],
             prevHash'[k] = prevHash[k], blocks \subseteq blocks'
      PROVE  Known(k)
  BY <1>3, TipStays
<1>4. CASE NextRound
  BY <1>4 DEF NextRound, InRound
<1>5. CASE Tick \/ UNCHANGED vars
  BY <1>3, <1>5 DEF Tick, vars, InRound, sched, chainVars, network
<1>6. ASSUME NEW n \in Node, RoundStep(n) PROVE Known(k)
  <2>1. round' = round /\ blocks \subseteq blocks'
    BY <1>6 DEF RoundStep, BeginRound, SendVrf, Vote, FollowCandidate, FindWinner,
       Elect, ConfirmHeight, MakeTemplate, SubmitBlock, RoundError, Restart, sched, network
  <2>2. CASE n # k
    <3>1. pc'[k] = pc[k] /\ tip'[k] = tip[k] /\ prevHash'[k] = prevHash[k]
      BY <1>1, <1>6, <2>2 DEF RoundStep, BeginRound, SendVrf, Vote, FollowCandidate,
         FindWinner, Elect, ConfirmHeight, MakeTemplate, SubmitBlock, RoundError, Restart,
         chainVars
    <3> QED
      BY <1>3, <2>1, <3>1 DEF InRound
  <2>3. CASE n = k /\ BeginRound(k)
    <3>1. tip'[k] = prevHash'[k]
      BY <1>1, <2>3 DEF BeginRound
    <3> QED
      BY <3>1
  <2>4. CASE n = k /\ (SubmitBlock(k) \/ Restart(k) \/ RoundError(k) \/ FollowCandidate(k))
    <3>1. pc'[k] = "12"
      BY <1>1, <2>4 DEF SubmitBlock, Restart, RoundError, FollowCandidate
    <3> QED
      BY <3>1 DEF InRound
  <2>5. CASE n = k /\ (SendVrf(k) \/ Vote(k) \/ FindWinner(k) \/ Elect(k)
                          \/ ConfirmHeight(k) \/ MakeTemplate(k))
    <3>1. pc[k] # "12" /\ tip' = tip /\ prevHash' = prevHash
      BY <2>5 DEF SendVrf, Vote, FindWinner, Elect, ConfirmHeight, MakeTemplate, chainVars
    <3> QED
      BY <1>3, <2>1, <3>1 DEF InRound
  <2> QED
    BY <1>6, <2>2, <2>3, <2>4, <2>5 DEF RoundStep
<1>7. ASSUME NEW n \in Node, NEW b \in approved[n], AppendBlock(n, b) PROVE Known(k)
  <2>1. /\ round' = round /\ pc' = pc /\ prevHash' = prevHash /\ blocks' = blocks
        /\ b.parent = tip[n] /\ tip' = [tip EXCEPT ![n] = Append(tip[n], b.producer)]
    BY <1>7 DEF AppendBlock, sched, chainVars
  <2>2. CASE n # k
    BY <1>1, <1>3, <2>1, <2>2 DEF InRound
  <2>3. CASE n = k
    <3>1. tip'[k] = Append(b.parent, b.producer) /\ b \in blocks
      BY <1>1, <2>1, <2>3 DEF ApprovedSubmitted
    <3>2. InRound(k)' /\ b.round = round => b.producer # k
      BY <2>1, <3>1 DEF DoneAfterBlock, InRound
    <3>3. InRound(k)' => EndsTip(k, b)'
      BY <2>1, <3>1, <3>2 DEF EndsTip
    <3> QED
      BY <2>1, <3>1, <3>3
  <2> QED
    BY <2>2, <2>3
<1>8. ASSUME NEW n \in Node, NEW x, ValidateBlock(n, x) \/ RecordVote(n, x) \/ AddVote(n, x)
      PROVE  Known(k)
  BY <1>3, <1>8 DEF ValidateBlock, RecordVote, AddVote, InRound, sched, chainVars, network
<1> QED
  BY <1>4, <1>5, <1>6, <1>7, <1>8 DEF Next, Receive

LEMMA BlockStep == BlockInv /\ [Next]_vars => BlockInv'
<1> SUFFICES ASSUME BlockInv, [Next]_vars PROVE BlockInv'
  OBVIOUS
<1> USE DEF BlockInv
<1>1. TypeOK
  BY DEF TypeInv
<1>2. TypeInv' /\ RanInTime'
  BY <1>1, TypeNext, RanInTimeNext
<1>3. ElectedBeforeBlock' /\ DoneAfterBlock'
  BY ElectedBeforeBlockNext, DoneAfterBlockNext
<1>4. ReadyInRound' /\ ElectionRecorded'
  BY ReadyInRoundNext, ElectionRecordedNext
<1>5. ApprovedSubmitted' /\ HeightBehind' /\ TipKnown'
  BY ApprovedSubmittedNext, HeightBehindNext, TipKnownNext
<1> QED
  BY <1>2, <1>3, <1>4, <1>5

\* What a submission shows: its producer was elected in this round, and the
\* block is on another chain than the election only past its height.
ElectedAtHeight(b) ==
    /\ b.round = round
    /\ [round |-> round, producer |-> b.producer] \in won
    /\ b.parent # prevHash[b.producer] =>
          /\ NextHeight(b.parent) > height[b.producer]
          /\ \E c \in blocks : b.parent = Append(c.parent, c.producer)
                               /\ (c.round = round => c.producer # b.producer)

LEMMA SubmitElected ==
    ASSUME BlockInv, NEW n \in Node, SubmitBlock(n)
    PROVE  LET b == [parent |-> template[n], producer |-> n, round |-> round]
           IN  blocks' = blocks \cup {b} /\ ElectedAtHeight(b)
<1> DEFINE b == [parent |-> template[n], producer |-> n, round |-> round]
           t == tip[n]
<1>1. /\ pc[n] = "11" /\ blocks' = blocks \cup {b} /\ template[n] = t
      /\ AcceptsBlock(n, [parent |-> template[n], producer |-> n])
  BY DEF SubmitBlock, Submittable
<1>2. InRound(n) /\ ready[n] /\ refs[n].producer = n
  BY <1>1 DEF BlockInv, ReadyInRound, InRound, ElectedBeforeBlock
<1>3. NextHeight(t) = height[n] => t = prevHash[n]
  BY <1>1, <1>2 DEF AcceptsBlock
<1>4. height[n] <= NextHeight(t)
  BY <1>1 DEF BlockInv, HeightBehind
<1>5. height[n] \in Nat /\ NextHeight(t) \in Nat
  <2>1. t \in Chain /\ height[n] \in Nat
    BY DEF BlockInv, TypeInv, TypeOK
  <2> QED
    BY <2>1, Longer DEF NextHeight
<1>6. t = prevHash[n] \/ \E c \in blocks : EndsTip(n, c)
  BY <1>2 DEF BlockInv, TipKnown
<1>7. [round |-> round, producer |-> n] \in won
  BY <1>1, <1>2 DEF BlockInv, ElectionRecorded
<1>8. b.parent = t /\ b.producer = n /\ b.round = round
  BY <1>1
<1>9. t # prevHash[n] =>
        /\ NextHeight(t) > height[n]
        /\ \E c \in blocks : t = Append(c.parent, c.producer)
                             /\ (c.round = round => c.producer # n)
  <2> HIDE DEF t
  <2>1. t # prevHash[n] => NextHeight(t) > height[n]
    BY <1>3, <1>4, <1>5
  <2> QED
    BY <1>6, <2>1 DEF EndsTip, t
<1> HIDE DEF b, t
<1>10. ElectedAtHeight(b)
  BY <1>7, <1>8, <1>9 DEF ElectedAtHeight
<1> QED
  BY <1>1, <1>10 DEF b

LEMMA NewBlockElected ==
    ASSUME BlockInv, [Next]_vars
    PROVE  \A b \in blocks' \ blocks : ElectedAtHeight(b)
<1>1. ASSUME NEW n \in Node, SubmitBlock(n)
      PROVE  \A b \in blocks' \ blocks : ElectedAtHeight(b)
  BY <1>1, SubmitElected
<1>2. ASSUME NEW n \in Node, RoundStep(n), ~SubmitBlock(n) PROVE blocks' = blocks
  BY <1>2 DEF RoundStep, BeginRound, SendVrf, Vote, FollowCandidate, FindWinner,
     Elect, ConfirmHeight, MakeTemplate, RoundError, Restart, network
<1>3. ASSUME NEW n \in Node, Receive(n) PROVE blocks' = blocks
  BY <1>3 DEF Receive, ValidateBlock, AppendBlock, RecordVote, AddVote, network
<1>4. CASE Tick \/ NextRound \/ UNCHANGED vars
  BY <1>4 DEF Tick, NextRound, vars, network
<1> QED
  BY <1>1, <1>2, <1>3, <1>4 DEF Next

-----------------------------------------------------------------------------
(* One producer for all the blocks of a round                              *)

\* An election of this round rests on votes that are still there, whatever has
\* become of the delegate that counted them.
WonOnVotes ==
    \A w \in won :
        /\ w.round <= round
        /\ w.round = round =>
              \E keys \in SUBSET Node : \E voters \in (SUBSET keys) \ {{}} :
                  /\ Promise!Majority(voters, keys)
                  /\ \A v \in voters :
                        [voter |-> v, choice |-> w.producer, keys |-> keys] \in Ballots

BlocksWon == \A b \in blocks : [round |-> b.round, producer |-> b.producer] \in won

ProducerInv == BallotInv /\ BlockInv /\ WonOnVotes /\ BlocksWon

LEMMA ProducerInit == Init => ProducerInv
<1> SUFFICES ASSUME Init PROVE ProducerInv
  OBVIOUS
<1>1. WonOnVotes /\ BlocksWon
  BY DEF Init, WonOnVotes, BlocksWon
<1> QED
  BY <1>1, BallotInit, BlockInit DEF ProducerInv

LEMMA BallotsStay ==
    ASSUME round' = round, votes \subseteq votes'
    PROVE  Ballots \subseteq Ballots'
BY DEF Ballots

LEMMA WonOnVotesNext ==
    ASSUME BallotInv, WonOnVotes, [Next]_vars
    PROVE  WonOnVotes'
<1>1. TypeInv /\ TypeOK /\ VotesBoundToRound /\ round \in Nat
      /\ (\A w \in won : w.round \in Nat)
  BY DEF BallotInv, AgreementInv, TypeInv, TypeOK
<1>2. ASSUME round' = round, votes \subseteq votes', won' = won PROVE WonOnVotes'
  <2>1. Ballots \subseteq Ballots'
    BY <1>2, BallotsStay
  <2> QED
    BY <1>2, <2>1 DEF WonOnVotes, Promise!Majority, Promise!Counted
<1>3. CASE NextRound
  <2>1. round' = round + 1 /\ won' = won
    BY <1>3 DEF NextRound
  <2>2. \A w \in won : w.round <= round' /\ w.round # round'
    BY <1>1, <2>1 DEF WonOnVotes
  <2> QED
    BY <2>1, <2>2 DEF WonOnVotes
<1>4. ASSUME NEW n \in Node, Elect(n) PROVE WonOnVotes'
  <2> DEFINE p    == list[n][slot[n]]
             keys == Members(list[n])
             new  == [round |-> round, producer |-> p]
  <2>1. round' = round /\ votes' = votes /\ won' = won \cup {new}
    BY <1>4 DEF Elect, sched, network
  <2>2. Ballots' = Ballots
    BY <2>1 DEF Ballots
  <2>3. /\ CountedVoters(n) \in (SUBSET keys) \ {{}}
        /\ Promise!Majority(CountedVoters(n), keys)
        /\ \A v \in CountedVoters(n) :
              [voter |-> v, choice |-> p, keys |-> keys] \in Ballots
    BY <1>1, <1>4, ElectionIsMajority
  <2>4. keys \in SUBSET Node
    BY <1>1 DEF TypeOK, Members
  <2>5. new.round = round /\ new.producer = p
    OBVIOUS
  <2> HIDE DEF new, keys, p
  <2>6. \A w \in won' : w \in won \/ w = new
    BY <2>1
  <2>7. ASSUME NEW w \in won', w.round = round
        PROVE  \E k \in SUBSET Node : \E voters \in (SUBSET k) \ {{}} :
                  /\ Promise!Majority(voters, k)
                  /\ \A v \in voters :
                        [voter |-> v, choice |-> w.producer, keys |-> k] \in Ballots
    <3>1. CASE w \in won
      BY <2>7, <3>1 DEF WonOnVotes
    <3>2. CASE w = new
      BY <2>3, <2>4, <2>5, <3>2
    <3> QED
      BY <2>6, <3>1, <3>2
  <2>8. \A w \in won' : w.round <= round
    BY <1>1, <2>5, <2>6 DEF WonOnVotes
  <2> QED
    BY <2>1, <2>2, <2>7, <2>8 DEF WonOnVotes, Promise!Majority, Promise!Counted
<1>5. ASSUME NEW n \in Node, RoundStep(n), ~Elect(n) PROVE WonOnVotes'
  <2>1. round' = round /\ votes \subseteq votes' /\ won' = won
    BY <1>5 DEF RoundStep, BeginRound, SendVrf, Vote, FollowCandidate, FindWinner,
       ConfirmHeight, MakeTemplate, SubmitBlock, RoundError, Restart, sched, network
  <2> QED
    BY <1>2, <2>1
<1>6. ASSUME NEW n \in Node, Receive(n) PROVE WonOnVotes'
  BY <1>2, <1>6 DEF Receive, ValidateBlock, AppendBlock, RecordVote, AddVote, sched, network
<1>7. CASE Tick \/ UNCHANGED vars
  BY <1>2, <1>7 DEF Tick, vars, sched, network
<1> QED
  BY <1>3, <1>4, <1>5, <1>6, <1>7 DEF Next

LEMMA BlocksWonNext ==
    ASSUME BlockInv, BlocksWon, [Next]_vars
    PROVE  BlocksWon'
<1>1. won \subseteq won' /\ \A b \in blocks' \ blocks : b.round = round
  <2>1. CASE Tick \/ NextRound \/ UNCHANGED vars
    BY <2>1 DEF Tick, NextRound, vars, network
  <2>2. ASSUME NEW n \in Node, SubmitBlock(n)
        PROVE  won' = won /\ \A b \in blocks' \ blocks : b.round = round
    BY <2>2 DEF SubmitBlock
  <2>3. ASSUME NEW n \in Node, RoundStep(n), ~SubmitBlock(n)
        PROVE  won \subseteq won' /\ blocks' = blocks
    BY <2>3 DEF RoundStep, BeginRound, SendVrf, Vote, FollowCandidate, FindWinner,
       Elect, ConfirmHeight, MakeTemplate, RoundError, Restart, network
  <2>4. ASSUME NEW n \in Node, Receive(n)
        PROVE  won' = won /\ blocks' = blocks
    BY <2>4 DEF Receive, ValidateBlock, AppendBlock, RecordVote, AddVote, network
  <2> QED
    BY <2>1, <2>2, <2>3, <2>4 DEF Next
<1>2. \A b \in blocks : [round |-> b.round, producer |-> b.producer] \in won'
  BY <1>1 DEF BlocksWon
<1>3. \A b \in blocks' \ blocks : [round |-> b.round, producer |-> b.producer] \in won'
  BY <1>1, NewBlockElected DEF ElectedAtHeight
<1> QED
  BY <1>2, <1>3 DEF BlocksWon

LEMMA ProducerStep ==
    ASSUME MaxStale = 0, ProducerInv, [Next]_vars
    PROVE  ProducerInv'
<1> USE DEF ProducerInv
<1>1. BallotInv' /\ BlockInv'
  BY BallotStep, BlockStep
<1>2. WonOnVotes' /\ BlocksWon'
  BY WonOnVotesNext, BlocksWonNext
<1> QED
  BY <1>1, <1>2

\* Two thirds of the keys that count are no fewer than the code asks for.
LEMMA MajorityIsEnough ==
    ASSUME NEW keys \in SUBSET Node, NEW voters \in SUBSET keys,
           Promise!Majority(voters, keys)
    PROVE  LET needed == AgreementNeeded(Smaller(Cardinality(keys), CommitteeSize + SeedCount))
           IN  needed \in Nat /\ Cardinality(voters) >= needed
<1> DEFINE c == Smaller(Cardinality(keys), CommitteeSize + SeedCount)
<1>1. IsFiniteSet(keys) /\ IsFiniteSet(voters)
  BY FS_Subset, CommitteeAssumption
<1>2. Cardinality(keys) \in Nat /\ Cardinality(voters) \in Nat
  BY <1>1, FS_CardinalityType
<1>3. CommitteeSize + SeedCount \in Nat
  BY CommitteeAssumption
<1>4. c \in Nat /\ Promise!Counted(keys) = c
  BY <1>2, <1>3, SameCardinality DEF Promise!Counted, Smaller
<1>5. 3 * Cardinality(voters) >= 2 * c
  BY <1>4, SameCardinality DEF Promise!Majority
<1> HIDE DEF c
<1>6. AgreementNeeded(c) \in Nat /\ Cardinality(voters) >= AgreementNeeded(c)
  BY <1>2, <1>4, <1>5 DEF AgreementNeeded
<1> QED
  BY <1>6 DEF c

\* Two elections of this round are of one producer if the votes overlap.
LEMMA ElectionsOverlap ==
    ASSUME ProducerInv, VotesOverlap,
           NEW w1 \in won, NEW w2 \in won, w1.round = round, w2.round = round
    PROVE  w1.producer = w2.producer
<1> DEFINE needed(keys) ==
               AgreementNeeded(Smaller(Cardinality(keys), CommitteeSize + SeedCount))
<1>2. PICK k1 \in SUBSET Node : \E voters \in (SUBSET k1) \ {{}} :
        /\ Promise!Majority(voters, k1)
        /\ \A v \in voters : [voter |-> v, choice |-> w1.producer, keys |-> k1] \in Ballots
  BY DEF ProducerInv, WonOnVotes
<1>3. PICK V1 \in (SUBSET k1) \ {{}} :
        /\ Promise!Majority(V1, k1)
        /\ \A v \in V1 : [voter |-> v, choice |-> w1.producer, keys |-> k1] \in Ballots
  BY <1>2
<1>4. PICK k2 \in SUBSET Node : \E voters \in (SUBSET k2) \ {{}} :
        /\ Promise!Majority(voters, k2)
        /\ \A v \in voters : [voter |-> v, choice |-> w2.producer, keys |-> k2] \in Ballots
  BY DEF ProducerInv, WonOnVotes
<1>5. PICK V2 \in (SUBSET k2) \ {{}} :
        /\ Promise!Majority(V2, k2)
        /\ \A v \in V2 : [voter |-> v, choice |-> w2.producer, keys |-> k2] \in Ballots
  BY <1>4
<1>6. \A v \in V1 : \E m \in votes : m.from = v /\ m.choice = w1.producer /\ m.keys = k1
  BY <1>3 DEF Ballots
<1>7. \A v \in V2 : \E m \in votes : m.from = v /\ m.choice = w2.producer /\ m.keys = k2
  BY <1>5 DEF Ballots
<1>8. needed(k1) + needed(k2) > Cardinality(k1 \cup k2)
  BY <1>3, <1>5, <1>6, <1>7 DEF VotesOverlap
<1>9. /\ needed(k1) \in Nat /\ Cardinality(V1) >= needed(k1)
      /\ needed(k2) \in Nat /\ Cardinality(V2) >= needed(k2)
  BY <1>3, <1>5, MajorityIsEnough
<1> HIDE DEF needed
<1>10. /\ IsFiniteSet(k1 \cup k2) /\ IsFiniteSet(V1) /\ IsFiniteSet(V2)
       /\ V1 \in SUBSET (k1 \cup k2) /\ V2 \in SUBSET (k1 \cup k2)
  <2>1. IsFiniteSet(Node) /\ k1 \cup k2 \in SUBSET Node
    BY CommitteeAssumption
  <2> QED
    BY <2>1, FS_Subset
<1>11. /\ Cardinality(V1) \in Nat /\ Cardinality(V2) \in Nat
       /\ Cardinality(k1 \cup k2) \in Nat
  BY <1>10, FS_CardinalityType
<1>12. Cardinality(V1) + Cardinality(V2) > Cardinality(k1 \cup k2)
  BY <1>8, <1>9, <1>11
<1>13. V1 \cap V2 # {}
  BY <1>10, <1>12, PartsOverlap
<1>14. PICK v \in V1 \cap V2 : TRUE
  BY <1>13
<1>15. PICK m1 \in votes : m1.from = v /\ m1.choice = w1.producer
  BY <1>6, <1>14
<1>16. PICK m2 \in votes : m2.from = v /\ m2.choice = w2.producer
  BY <1>7, <1>14
<1>17. m1 = m2
  BY <1>15, <1>16 DEF ProducerInv, BallotInv, AgreementInv, OneVoteEach
<1> QED
  BY <1>15, <1>16, <1>17

LEMMA BlocksOverlap == ProducerInv => OneProducer
<1> SUFFICES ASSUME ProducerInv, VotesOverlap,
                    NEW b1 \in blocks, NEW b2 \in blocks,
                    b1.round = round, b2.round = round
             PROVE  b1.producer = b2.producer
  BY DEF OneProducer
<1> DEFINE w1 == [round |-> round, producer |-> b1.producer]
           w2 == [round |-> round, producer |-> b2.producer]
<1>1. w1 \in won /\ w2 \in won
  BY DEF ProducerInv, BlocksWon
<1>2. /\ w1.round = round /\ w1.producer = b1.producer
      /\ w2.round = round /\ w2.producer = b2.producer
  OBVIOUS
<1> HIDE DEF w1, w2
<1> QED
  BY <1>1, <1>2, ElectionsOverlap

\* Unless vote messages outlive their round, the blocks of a round have one
\* producer as long as the committees that vote overlap, though the producer
\* and those that elected it may have failed, been restarted or heard nothing
\* of their block (process_round, Parts 7 to 11).
THEOREM OneProducerInRound == ASSUME MaxStale = 0 PROVE Spec => []OneProducer
<1>1. Init => ProducerInv
  BY ProducerInit
<1>2. ProducerInv /\ [Next]_vars => ProducerInv'
  BY ProducerStep
<1>3. ProducerInv => OneProducer
  BY BlocksOverlap
<1> QED
  BY <1>1, <1>2, <1>3, PTL DEF Spec

\* A tip past the height of the election ends with a block of an earlier round.
LEMMA PastHeight ==
    ASSUME ProducerInv, VotesOverlap, NEW b, ElectedAtHeight(b),
           b.parent # prevHash[b.producer]
    PROVE  EndsEarlier(b.parent)
<1>1. PICK c \in blocks : /\ b.parent = Append(c.parent, c.producer)
                          /\ c.round = round => c.producer # b.producer
  BY DEF ElectedAtHeight
<1>2. c.round \in Nat /\ round \in Nat /\ c.round <= round
  BY DEF ProducerInv, BallotInv, DoneAfterBlock, AgreementInv, TypeInv, TypeOK, Block
<1>3. c.round # round
  <2> SUFFICES ASSUME c.round = round PROVE FALSE
    OBVIOUS
  <2> DEFINE w1 == [round |-> round, producer |-> b.producer]
             w2 == [round |-> round, producer |-> c.producer]
  <2>1. w1 \in won /\ w2 \in won
    BY DEF ElectedAtHeight, ProducerInv, BlocksWon
  <2>2. /\ w1.round = round /\ w1.producer = b.producer
        /\ w2.round = round /\ w2.producer = c.producer
    OBVIOUS
  <2> HIDE DEF w1, w2
  <2>3. b.producer = c.producer
    BY <2>1, <2>2, ElectionsOverlap
  <2> QED
    BY <1>1, <2>3
<1> QED
  BY <1>1, <1>2, <1>3 DEF EndsEarlier

\* BlocksElectedOnChain, of one step.
ElectedOnChain ==
    \A b \in blocks' \ blocks :
        LET p == b.producer
        IN  /\ [round |-> round, producer |-> p] \in won
            /\ b.parent # prevHash[p] =>
                  /\ NextHeight(b.parent) > height[p]
                  /\ VotesOverlap => EndsEarlier(b.parent)

LEMMA NewBlockOnChain ==
    ASSUME ProducerInv, [Next]_vars
    PROVE  ElectedOnChain
<1>1. \A b \in blocks' \ blocks : ElectedAtHeight(b)
  BY NewBlockElected DEF ProducerInv
<1> SUFFICES ASSUME NEW b \in blocks' \ blocks
             PROVE  /\ [round |-> round, producer |-> b.producer] \in won
                    /\ b.parent # prevHash[b.producer] =>
                          /\ NextHeight(b.parent) > height[b.producer]
                          /\ VotesOverlap => EndsEarlier(b.parent)
  BY DEF ElectedOnChain
<1>2. ElectedAtHeight(b)
  BY <1>1
<1>3. VotesOverlap /\ b.parent # prevHash[b.producer] => EndsEarlier(b.parent)
  BY <1>2, PastHeight
<1> QED
  BY <1>2, <1>3 DEF ElectedAtHeight

\* A block is submitted only by a producer that a committee elected in that
\* round.  It extends the chain the election was about unless that chain has
\* passed the height of the election, whether the check of the height failed
\* or a block let pass before Part 3 was appended after it; what it extends
\* then is a late block of an earlier round, as long as the votes overlap and
\* do not outlive their round (block_verifiers_create_block, validate_block).
THEOREM BlocksAreElected == ASSUME MaxStale = 0 PROVE Spec => BlocksElectedOnChain
<1>1. Init => ProducerInv
  BY ProducerInit
<1>2. ProducerInv /\ [Next]_vars => ProducerInv'
  BY ProducerStep
<1>3. ProducerInv /\ [Next]_vars => [ElectedOnChain]_vars
  BY NewBlockOnChain
<1> QED
  BY <1>1, <1>2, <1>3, PTL DEF Spec, BlocksElectedOnChain, ElectedOnChain

-----------------------------------------------------------------------------
(* The tally: the two critical sections of the vote handler count no vote  *)
(* twice and lose none whose candidate's VRF data was complete, however    *)
(* handlers, the tally and the round thread interleave and whether or not  *)
(* vote messages outlive their round.                                      *)

\* Who votes, votes for one of the keys it signs.
ChoiceAmongKeys == \A m \in votes : m.choice \in m.keys

\* When a delegate packs its list, no handler holds a vote.
NothingPending == \A n \in Node : pc[n] = "4" /\ clock > 0 => pending[n] = {}

\* What the handlers of a voting delegate hold was cast at the height of its
\* round and is recorded, once for each voter, and for a member of the list.
PendingRecorded ==
    \A n \in Node : Voting(n) =>
        /\ \A m \in pending[n] :
              /\ m \in votes /\ m.height = height[n]
              /\ selected[n][m.from] = m.choice /\ m.choice \in Members(list[n])
        /\ \A m1, m2 \in pending[n] : m1.from = m2.from => m1 = m2

TallyInv ==
    /\ TypeInv
    /\ ChoiceAmongKeys
    /\ NothingPending
    /\ PendingRecorded
    /\ TotalsMatchVoters

LEMMA TallyInit == Init => TallyInv
<1> SUFFICES ASSUME Init PROVE TallyInv
  OBVIOUS
<1>1. TypeInv
  BY TypeInit
<1>2. ChoiceAmongKeys /\ NothingPending /\ PendingRecorded /\ TotalsMatchVoters
  BY DEF Init, ChoiceAmongKeys, NothingPending, PendingRecorded, TotalsMatchVoters, Voting
<1> QED
  BY <1>1, <1>2 DEF TallyInv

\* VRF data that was not complete, here or where the vote comes from.
Incomplete(n, p) == p \in gaps[n] \/ \E m \in votes : m.choice = p /\ ~m.whole

Counted(n, p) == voteTotal[n][p] + Cardinality({m \in pending[n] : m.choice = p})
Voters(n, p) == Cardinality({v \in Node : selected[n][v] = p})

\* The tally of one delegate.
Tallied(n) ==
    Voting(n) =>
        /\ \A m \in pending[n] :
              /\ m \in votes /\ m.height = height[n]
              /\ selected[n][m.from] = m.choice /\ m.choice \in Members(list[n])
        /\ \A m1, m2 \in pending[n] : m1.from = m2.from => m1 = m2
        /\ \A p \in Node :
              /\ Counted(n, p) <= Voters(n, p)
              /\ Counted(n, p) < Voters(n, p) => Incomplete(n, p)

LEMMA TalliedAll ==
    /\ PendingRecorded /\ TotalsMatchVoters <=> \A n \in Node : Tallied(n)
    /\ (PendingRecorded /\ TotalsMatchVoters <=> \A n \in Node : Tallied(n))'
BY DEF PendingRecorded, TotalsMatchVoters, Tallied, Counted, Voters, Incomplete

\* What the tally of a delegate is about stays, or it is not voting.
LEMMA TalliedStays ==
    ASSUME NEW n \in Node, Tallied(n), Voting(n)' => Voting(n),
           pending'[n] = pending[n], selected'[n] = selected[n], list'[n] = list[n],
           voteTotal'[n] = voteTotal[n], gaps'[n] = gaps[n], height'[n] = height[n],
           votes \subseteq votes'
    PROVE  Tallied(n)'
<1>1. \A p : Counted(n, p)' = Counted(n, p) /\ Voters(n, p)' = Voters(n, p)
  BY DEF Counted, Voters
<1>2. \A p : Incomplete(n, p) => Incomplete(n, p)'
  BY DEF Incomplete
<1>3. Members(list[n])' = Members(list[n])
  BY DEF Members
<1> QED
  BY <1>1, <1>2, <1>3 DEF Tallied

LEMMA FewPending ==
    ASSUME NEW n \in Node, NEW p, TypeOK, Tallied(n), Voting(n)
    PROVE  /\ IsFiniteSet({m \in pending[n] : m.choice = p})
           /\ Cardinality({m \in pending[n] : m.choice = p}) \in Nat
           /\ IsFiniteSet({v \in Node : selected[n][v] = p})
           /\ Cardinality({v \in Node : selected[n][v] = p}) \in Nat
<1> DEFINE S == {m \in pending[n] : m.choice = p}
           f == [m \in S |-> m.from]
<1>1. \A m \in S : m \in VoteMessage
  BY DEF TypeOK
<1>2. f \in [S -> Node]
  BY <1>1 DEF VoteMessage
<1>3. \A a, b \in S : f[a] = f[b] => a = b
  BY DEF Tallied
<1>4. f \in Injection(S, Node)
  BY <1>2, <1>3 DEF Injection, IsInjective
<1>5. IsFiniteSet(S)
  BY <1>4, FS_Injection, CommitteeAssumption
<1>6. IsFiniteSet({v \in Node : selected[n][v] = p})
  BY FS_Subset, CommitteeAssumption
<1> QED
  BY <1>5, <1>6, FS_CardinalityType

LEMMA ChoiceAmongKeysNext ==
    ASSUME TypeInv, ChoiceAmongKeys, [Next]_vars
    PROVE  ChoiceAmongKeys'
<1> USE DEF ChoiceAmongKeys
<1>1. CASE Tick \/ NextRound \/ UNCHANGED vars
  BY <1>1 DEF Tick, NextRound, vars, network
<1>2. ASSUME NEW n \in Node, RoundStep(n) PROVE ChoiceAmongKeys'
  <2>1. CASE Vote(n)
    <3>1. PICK w \in Views(n) :
            LET com == CommitteeOf(n, w.online, w.late)
                p   == com[SlotOf(n, com)]
                own == n \in VotersOf(n, com)
            IN  /\ CanVote(n, w)
                /\ votes' = IF own
                      THEN votes \cup {[from |-> n, round |-> round, choice |-> p,
                                        prev |-> prevHash[n], height |-> height[n],
                                        keys |-> Members(com), whole |-> p \notin w.torn,
                                        to |-> VotersOf(n, com) \ {n}]}
                      ELSE votes
      BY <2>1 DEF Vote
    <3> DEFINE com == CommitteeOf(n, w.online, w.late)
    <3>2. com \in Seq(Node) /\ SlotOf(n, com) \in 1..Len(com)
      BY <3>1, VoteTyped DEF TypeInv
    <3>3. com[SlotOf(n, com)] \in Members(com)
      BY <3>2 DEF Members
    <3> QED
      BY <3>1, <3>3
  <2>2. CASE ~Vote(n)
    BY <1>2, <2>2 DEF RoundStep, BeginRound, SendVrf, FollowCandidate, FindWinner,
       Elect, ConfirmHeight, MakeTemplate, SubmitBlock, RoundError, Restart, network
  <2> QED
    BY <2>1, <2>2
<1>3. ASSUME NEW n \in Node, Receive(n) PROVE ChoiceAmongKeys'
  BY <1>3 DEF Receive, ValidateBlock, AppendBlock, RecordVote, AddVote, network
<1> QED
  BY <1>1, <1>2, <1>3 DEF Next

LEMMA NothingPendingNext ==
    ASSUME TypeInv, NothingPending, [Next]_vars
    PROVE  NothingPending'
<1> USE DEF NothingPending
<1>1. /\ pc \in [Node -> {"12", "2", "4", "7", "7_counted", "8", "9", "11"}]
      /\ clock \in 0..3
      /\ pending \in [Node -> SUBSET VoteMessage]
  BY DEF TypeInv, TypeOK
<1>2. CASE Tick
  BY <1>1, <1>2 DEF Tick
<1>3. CASE NextRound
  BY <1>3 DEF NextRound
<1>4. ASSUME NEW n \in Node, RoundStep(n) PROVE NothingPending'
  <2>1. clock' = clock
    BY <1>4 DEF RoundStep, BeginRound, SendVrf, Vote, FollowCandidate, FindWinner,
       Elect, ConfirmHeight, MakeTemplate, SubmitBlock, RoundError, Restart, sched
  <2>2. \A k \in Node \ {n} : pc'[k] = pc[k] /\ pending'[k] = pending[k]
    BY <1>1, <1>4 DEF RoundStep, BeginRound, SendVrf, Vote, FollowCandidate, FindWinner,
       Elect, ConfirmHeight, MakeTemplate, SubmitBlock, RoundError, Restart
  <2>3. pc'[n] = "4" => clock = 0
    BY <1>1, <1>4 DEF RoundStep, BeginRound, SendVrf, Vote, FollowCandidate, FindWinner,
       Elect, ConfirmHeight, MakeTemplate, SubmitBlock, RoundError, Restart
  <2> QED
    BY <2>1, <2>2, <2>3
<1>5. ASSUME NEW n \in Node, NEW b, ValidateBlock(n, b) \/ AppendBlock(n, b)
      PROVE  NothingPending'
  BY <1>5 DEF ValidateBlock, AppendBlock, sched
<1>6. ASSUME NEW n \in Node, NEW m, RecordVote(n, m) PROVE NothingPending'
  <2>1. /\ pc[n] \in {"7", "7_counted"} /\ pc' = pc /\ clock' = clock
        /\ \A k \in Node \ {n} : pending'[k] = pending[k]
    BY <1>1, <1>6 DEF RecordVote, VoteAdmitted, sched
  <2> QED
    BY <2>1
<1>7. ASSUME NEW n \in Node, NEW m \in pending[n], AddVote(n, m) PROVE NothingPending'
  <2>1. /\ pc' = pc /\ clock' = clock
        /\ \A k \in Node : pending'[k] \subseteq pending[k]
    BY <1>1, <1>7 DEF AddVote, sched
  <2> QED
    BY <2>1
<1>8. CASE UNCHANGED vars
  BY <1>8 DEF vars, sched
<1> QED
  BY <1>2, <1>3, <1>4, <1>5, <1>6, <1>7, <1>8 DEF Next, Receive

\* Part 5 clears the list; a member's own vote is the first in it.
LEMMA VoteTallied ==
    ASSUME TypeInv, NothingPending, NEW n \in Node, Vote(n)
    PROVE  Tallied(n)'
<1>1. /\ pc \in [Node -> {"12", "2", "4", "7", "7_counted", "8", "9", "11"}]
      /\ selected \in [Node -> [Node -> Node \cup {None}]]
      /\ voteTotal \in [Node -> [Node -> Nat]]
      /\ TypeOK
  BY DEF TypeInv, TypeOK
<1>2. pending' = pending /\ pending[n] = {}
  <2>1. pc[n] = "4" /\ clock = 1
    BY DEF Vote
  <2> QED
    BY <2>1 DEF Vote, NothingPending
<1>3. PICK w \in Views(n) :
        LET com  == CommitteeOf(n, w.online, w.late)
            p    == com[SlotOf(n, com)]
            mine == n \in VotersOf(n, com)
        IN  /\ CanVote(n, w)
            /\ selected' = [selected EXCEPT ![n] =
                  IF mine THEN [NoVotes EXCEPT ![n] = p] ELSE NoVotes]
            /\ voteTotal' = [voteTotal EXCEPT ![n] =
                  IF mine THEN [NoTotals EXCEPT ![p] = 1] ELSE NoTotals]
  BY DEF Vote
<1> DEFINE com  == CommitteeOf(n, w.online, w.late)
           p    == com[SlotOf(n, com)]
           mine == n \in VotersOf(n, com)
<1>4. p \in Node
  BY <1>1, <1>3, VoteTyped
<1>5. \A q : {m \in pending'[n] : m.choice = q} = {}
  BY <1>2
<1>6. CASE mine
  <2>1. selected'[n] = [NoVotes EXCEPT ![n] = p] /\ voteTotal'[n] = [NoTotals EXCEPT ![p] = 1]
    BY <1>1, <1>3, <1>6
  <2>2. ASSUME NEW q \in Node
        PROVE  voteTotal'[n][q] = Cardinality({v \in Node : selected'[n][v] = q})
    <3>1. CASE q = p
      <4>1. {v \in Node : selected'[n][v] = q} = {n}
        BY <2>1, <3>1, CommitteeAssumption DEF NoVotes
      <4> QED
        BY <1>4, <2>1, <3>1, <4>1, FS_Singleton DEF NoTotals
    <3>2. CASE q # p
      <4>1. {v \in Node : selected'[n][v] = q} = {}
        BY <2>1, <3>2, CommitteeAssumption DEF NoVotes
      <4> QED
        BY <1>4, <2>1, <3>2, <4>1, FS_EmptySet DEF NoTotals
    <3> QED
      BY <3>1, <3>2
  <2>3. \A q \in Node : voteTotal'[n][q] \in Nat
    BY <2>1 DEF NoTotals
  <2>4. ASSUME NEW q \in Node
        PROVE  Counted(n, q)' = Voters(n, q)' /\ Counted(n, q)' \in Nat
    <3>1. Counted(n, q)' = voteTotal'[n][q] + Cardinality({})
      BY <1>5 DEF Counted
    <3>2. Counted(n, q)' = voteTotal'[n][q] /\ voteTotal'[n][q] \in Nat
      BY <2>3, <3>1, FS_EmptySet
    <3> QED
      BY <2>2, <3>2 DEF Voters
  <2> QED
    BY <1>2, <2>4 DEF Tallied
<1>7. CASE ~mine
  <2>1. selected'[n] = NoVotes /\ voteTotal'[n] = NoTotals
    BY <1>1, <1>3, <1>7
  <2>2. ASSUME NEW q \in Node PROVE {v \in Node : selected'[n][v] = q} = {}
    BY <2>1, CommitteeAssumption DEF NoVotes
  <2>3. \A q \in Node : voteTotal'[n][q] = 0
    BY <2>1 DEF NoTotals
  <2>4. ASSUME NEW q \in Node PROVE Counted(n, q)' = 0 /\ Voters(n, q)' = 0
    <3>1. Counted(n, q)' = voteTotal'[n][q] + Cardinality({})
      BY <1>5 DEF Counted
    <3>2. Counted(n, q)' = 0
      BY <2>3, <3>1, FS_EmptySet
    <3> QED
      BY <2>2, <3>2, FS_EmptySet DEF Voters
  <2> QED
    BY <1>2, <2>4 DEF Tallied
<1> QED
  BY <1>6, <1>7

\* The first critical section: one voter more, one vote more to be added.
LEMMA RecordTallied ==
    ASSUME TypeInv, ChoiceAmongKeys, NEW n \in Node, Tallied(n),
           NEW m \in votes, RecordVote(n, m)
    PROVE  Tallied(n)'
<1> SUFFICES ASSUME Voting(n)' PROVE Tallied(n)'
  BY DEF Tallied
<1>1. /\ selected \in [Node -> [Node -> Node \cup {None}]]
      /\ pending \in [Node -> SUBSET VoteMessage]
      /\ voteTotal \in [Node -> [Node -> Nat]]
      /\ m.from \in Node /\ m.choice \in Node
      /\ TypeOK
  BY DEF TypeInv, TypeOK, VoteMessage
<1>2. /\ pc' = pc /\ list' = list /\ voteTotal' = voteTotal
      /\ gaps' = gaps /\ height' = height /\ votes' = votes
      /\ selected[n][m.from] = None /\ m.height = height[n]
      /\ m.choice \in Members(list[n])
      /\ selected'[n] = [selected[n] EXCEPT ![m.from] = m.choice]
      /\ pending'[n] = pending[n] \cup {m}
  BY <1>1 DEF RecordVote, VoteAdmitted, VoteSigned, ChoiceAmongKeys, chainVars, network
<1>3. Voting(n) /\ Members(list[n])' = Members(list[n])
  BY <1>2 DEF Voting, Members
<1>4. \A x \in pending[n] : x.from # m.from
  <2> SUFFICES ASSUME NEW x \in pending[n], x.from = m.from PROVE FALSE
    OBVIOUS
  <2>1. x.choice \in Node
    BY <1>1 DEF VoteMessage
  <2> QED
    BY <1>2, <1>3, <2>1, CommitteeAssumption DEF Tallied
<1>5. \A x \in pending'[n] :
        /\ x \in votes' /\ x.height = height'[n]
        /\ selected'[n][x.from] = x.choice /\ x.choice \in Members(list[n])'
  BY <1>1, <1>2, <1>3, <1>4 DEF Tallied
<1>6. \A x, y \in pending'[n] : x.from = y.from => x = y
  BY <1>2, <1>3, <1>4 DEF Tallied
<1>7. ASSUME NEW p \in Node
      PROVE  \/ Counted(n, p)' = Counted(n, p) /\ Voters(n, p)' = Voters(n, p)
             \/ Counted(n, p)' = Counted(n, p) + 1 /\ Voters(n, p)' = Voters(n, p) + 1
  <2> DEFINE P == {x \in pending[n] : x.choice = p}
             V == {v \in Node : selected[n][v] = p}
  <2>1. Counted(n, p) = voteTotal[n][p] + Cardinality(P) /\ Voters(n, p) = Cardinality(V)
    BY DEF Counted, Voters
  <2>2. /\ IsFiniteSet(P) /\ Cardinality(P) \in Nat /\ IsFiniteSet(V)
        /\ Cardinality(V) \in Nat /\ voteTotal[n][p] \in Nat
    BY <1>1, <1>3, FewPending
  <2>3. CASE p = m.choice
    <3>1. {x \in pending'[n] : x.choice = p} = P \cup {m} /\ m \notin P
      BY <1>2, <1>4, <2>3
    <3>2. {v \in Node : selected'[n][v] = p} = V \cup {m.from} /\ m.from \notin V
      <4>1. selected[n] \in [Node -> Node \cup {None}] /\ m.from \in Node /\ p # None
        BY <1>1, CommitteeAssumption
      <4>2. selected'[n][m.from] = p /\ m.from \notin V
        BY <1>2, <2>3, <4>1
      <4>3. \A v \in Node \ {m.from} : selected'[n][v] = selected[n][v]
        BY <1>2, <4>1
      <4> QED
        BY <4>1, <4>2, <4>3
    <3> HIDE DEF P, V
    <3>3. Cardinality(P \cup {m}) = Cardinality(P) + 1
      BY <2>2, <3>1, FS_AddElement
    <3>4. Cardinality(V \cup {m.from}) = Cardinality(V) + 1
      BY <2>2, <3>2, FS_AddElement
    <3>5. voteTotal'[n][p] = voteTotal[n][p]
      BY <1>2
    <3>6. /\ Counted(n, p)' = voteTotal'[n][p] + Cardinality(P \cup {m})
          /\ Voters(n, p)' = Cardinality(V \cup {m.from})
      BY <3>1, <3>2 DEF Counted, Voters
    <3> QED
      BY <2>1, <2>2, <3>3, <3>4, <3>5, <3>6
  <2>4. CASE p # m.choice
    <3>1. {x \in pending'[n] : x.choice = p} = P
      BY <1>2, <2>4
    <3>2. {v \in Node : selected'[n][v] = p} = V
      BY <1>1, <1>2, <2>4, CommitteeAssumption
    <3> QED
      BY <1>2, <2>1, <3>1, <3>2 DEF Counted, Voters
  <2> QED
    BY <2>3, <2>4
<1>8. ASSUME NEW p \in Node PROVE Counted(n, p) \in Nat /\ Voters(n, p) \in Nat
  <2>1. Cardinality({x \in pending[n] : x.choice = p}) \in Nat
    BY <1>1, <1>3, FewPending
  <2>2. Voters(n, p) \in Nat
    BY <1>1, <1>3, FewPending DEF Voters
  <2>3. voteTotal[n][p] \in Nat
    BY <1>1
  <2> QED
    BY <2>1, <2>2, <2>3 DEF Counted
<1>9. \A p : Incomplete(n, p)' <=> Incomplete(n, p)
  BY <1>2 DEF Incomplete
<1>10. ASSUME NEW p \in Node
       PROVE  /\ Counted(n, p)' <= Voters(n, p)'
              /\ Counted(n, p)' < Voters(n, p)' => Incomplete(n, p)'
  <2>1. /\ Counted(n, p) <= Voters(n, p)
        /\ Counted(n, p) < Voters(n, p) => Incomplete(n, p)
    BY <1>3 DEF Tallied
  <2>2. Counted(n, p)' < Voters(n, p)' => Counted(n, p) < Voters(n, p)
    BY <1>7, <1>8
  <2>3. Counted(n, p)' <= Voters(n, p)'
    BY <1>7, <1>8, <2>1
  <2> QED
    BY <1>9, <2>1, <2>2, <2>3
<1> QED
  BY <1>5, <1>6, <1>10 DEF Tallied

\* The second critical section: one vote less to be added, and one added; or
\* none, and then the VRF data was not complete.
LEMMA AddTallied ==
    ASSUME TypeInv, NEW n \in Node, Tallied(n), NEW m \in pending[n], AddVote(n, m)
    PROVE  Tallied(n)'
<1> SUFFICES ASSUME Voting(n)' PROVE Tallied(n)'
  BY DEF Tallied
<1>1. /\ pending \in [Node -> SUBSET VoteMessage]
      /\ voteTotal \in [Node -> [Node -> Nat]]
      /\ TypeOK
  BY DEF TypeInv, TypeOK
<1>10. m \in VoteMessage /\ m.choice \in Node
  BY <1>1 DEF VoteMessage
<1>2. /\ pc' = pc /\ list' = list /\ selected' = selected
      /\ gaps' = gaps /\ height' = height /\ votes' = votes
      /\ pending'[n] = pending[n] \ {m}
  BY <1>1 DEF AddVote, chainVars, network
<1>3. Voting(n) /\ Members(list[n])' = Members(list[n])
  BY <1>2 DEF Voting, Members
<1>4. m.choice \in Members(list[n]) /\ m \in votes /\ m.height = height[n]
  BY <1>3 DEF Tallied
<1>5. /\ VoteMatches(n, m) => voteTotal'[n] = [voteTotal[n] EXCEPT ![m.choice] = @ + 1]
      /\ ~VoteMatches(n, m) => voteTotal'[n] = voteTotal[n]
  BY <1>1, <1>4, <1>10 DEF AddVote
<1>11. ~VoteMatches(n, m) => Incomplete(n, m.choice)
  BY <1>4 DEF VoteMatches, Incomplete
<1>12. \A p : Voters(n, p)' = Voters(n, p) /\ (Incomplete(n, p)' <=> Incomplete(n, p))
  BY <1>2 DEF Voters, Incomplete
<1>13. ASSUME NEW p \in Node PROVE Counted(n, p) \in Nat /\ Voters(n, p) \in Nat
  <2>1. Cardinality({x \in pending[n] : x.choice = p}) \in Nat
    BY <1>1, <1>3, FewPending
  <2>2. Voters(n, p) \in Nat
    BY <1>1, <1>3, FewPending DEF Voters
  <2>3. voteTotal[n][p] \in Nat
    BY <1>1
  <2> QED
    BY <2>1, <2>2, <2>3 DEF Counted
<1>6. ASSUME NEW p \in Node
      PROVE  \/ Counted(n, p)' = Counted(n, p)
             \/ Counted(n, p)' = Counted(n, p) - 1 /\ Incomplete(n, p)
  <2> DEFINE P == {x \in pending[n] : x.choice = p}
  <2>1. Counted(n, p) = voteTotal[n][p] + Cardinality(P)
    BY DEF Counted
  <2>2. IsFiniteSet(P) /\ Cardinality(P) \in Nat /\ voteTotal[n][p] \in Nat
    BY <1>1, <1>3, FewPending
  <2>3. CASE p = m.choice
    <3>1. {x \in pending'[n] : x.choice = p} = P \ {m} /\ m \in P
      BY <1>2, <2>3
    <3> HIDE DEF P
    <3>2. Cardinality(P \ {m}) = Cardinality(P) - 1
      BY <2>2, <3>1, FS_RemoveElement
    <3>3. Counted(n, p)' = voteTotal'[n][p] + Cardinality(P \ {m})
      BY <3>1 DEF Counted
    <3>4. CASE VoteMatches(n, m)
      <4>1. voteTotal'[n][p] = voteTotal[n][p] + 1
        BY <1>1, <1>5, <2>3, <3>4
      <4> QED
        BY <2>1, <2>2, <3>2, <3>3, <4>1
    <3>5. CASE ~VoteMatches(n, m)
      <4>1. voteTotal'[n][p] = voteTotal[n][p] /\ Incomplete(n, p)
        BY <1>5, <1>11, <2>3, <3>5
      <4>2. Counted(n, p)' = Counted(n, p) - 1
        BY <2>1, <2>2, <3>2, <3>3, <4>1
      <4> QED
        BY <4>1, <4>2
    <3> QED
      BY <3>4, <3>5
  <2>4. CASE p # m.choice
    <3>1. {x \in pending'[n] : x.choice = p} = P /\ voteTotal'[n][p] = voteTotal[n][p]
      BY <1>1, <1>2, <1>5, <2>4
    <3> QED
      BY <2>1, <3>1 DEF Counted
  <2> QED
    BY <2>3, <2>4
<1>14. ASSUME NEW p \in Node
       PROVE  /\ Counted(n, p)' <= Voters(n, p)'
              /\ Counted(n, p)' < Voters(n, p)' => Incomplete(n, p)'
  <2>1. /\ Counted(n, p) <= Voters(n, p)
        /\ Counted(n, p) < Voters(n, p) => Incomplete(n, p)
    BY <1>3 DEF Tallied
  <2>2. CASE Counted(n, p)' = Counted(n, p)
    <3>1. Counted(n, p)' <= Voters(n, p)'
      BY <1>12, <2>1, <2>2
    <3>2. Counted(n, p)' < Voters(n, p)' => Counted(n, p) < Voters(n, p)
      BY <1>12, <2>2
    <3> QED
      BY <1>12, <2>1, <3>1, <3>2
  <2>3. CASE Counted(n, p)' = Counted(n, p) - 1 /\ Incomplete(n, p)
    <3>1. Counted(n, p)' <= Voters(n, p)'
      BY <1>12, <1>13, <2>1, <2>3
    <3> QED
      BY <1>12, <2>3, <3>1
  <2> QED
    BY <1>6, <2>2, <2>3
<1>7. \A x \in pending'[n] :
        /\ x \in votes' /\ x.height = height'[n]
        /\ selected'[n][x.from] = x.choice /\ x.choice \in Members(list[n])'
  BY <1>2, <1>3 DEF Tallied
<1>8. \A x, y \in pending'[n] : x.from = y.from => x = y
  BY <1>2, <1>3 DEF Tallied
<1> QED
  BY <1>7, <1>8, <1>14 DEF Tallied

LEMMA TalliedNext ==
    ASSUME TallyInv, [Next]_vars, NEW k \in Node
    PROVE  Tallied(k)'
<1>1. /\ TypeInv /\ NothingPending /\ ChoiceAmongKeys /\ Tallied(k)
      /\ pc \in [Node -> {"12", "2", "4", "7", "7_counted", "8", "9", "11"}]
      /\ list \in [Node -> Seq(Node)]
      /\ selected \in [Node -> [Node -> Node \cup {None}]]
      /\ voteTotal \in [Node -> [Node -> Nat]]
      /\ pending \in [Node -> SUBSET VoteMessage]
      /\ gaps \in [Node -> SUBSET Node] /\ height \in [Node -> Nat]
  BY TalliedAll DEF TallyInv, TypeInv, TypeOK
<1>2. ASSUME ~Voting(k)' PROVE Tallied(k)'
  BY <1>2 DEF Tallied
<1>3. CASE Tick \/ UNCHANGED vars
  BY <1>1, <1>3, TalliedStays DEF Tick, vars, Voting, chainVars, listVars, network
<1>4. CASE NextRound
  BY <1>2, <1>4 DEF NextRound, InRound, Voting
<1>5. ASSUME NEW n \in Node, RoundStep(n), n # k PROVE Tallied(k)'
  <2>1. /\ pc'[k] = pc[k] /\ list'[k] = list[k] /\ selected'[k] = selected[k]
        /\ voteTotal'[k] = voteTotal[k] /\ pending'[k] = pending[k]
    BY <1>1, <1>5 DEF RoundStep, BeginRound, SendVrf, Vote, FollowCandidate, FindWinner,
       Elect, ConfirmHeight, MakeTemplate, SubmitBlock, RoundError, Restart, listVars
  <2>3. gaps'[k] = gaps[k] /\ height'[k] = height[k]
    BY <1>1, <1>5 DEF RoundStep, BeginRound, SendVrf, Vote, FollowCandidate, FindWinner,
       Elect, ConfirmHeight, MakeTemplate, SubmitBlock, RoundError, Restart, listVars,
       chainVars
  <2>2. votes \subseteq votes'
    BY <1>5 DEF RoundStep, BeginRound, SendVrf, Vote, FollowCandidate, FindWinner,
       Elect, ConfirmHeight, MakeTemplate, SubmitBlock, RoundError, Restart, network
  <2> QED
    BY <1>1, <2>1, <2>2, <2>3, TalliedStays DEF Voting
<1>6. ASSUME RoundStep(k) PROVE Tallied(k)'
  <2>1. CASE Vote(k)
    BY <1>1, <2>1, VoteTallied
  <2>2. CASE FindWinner(k) \/ Elect(k) \/ ConfirmHeight(k) \/ MakeTemplate(k)
    <3>1. /\ Voting(k)
          /\ UNCHANGED <<list, selected, voteTotal, pending, gaps, height, votes>>
      BY <2>2 DEF FindWinner, Elect, ConfirmHeight, MakeTemplate, Voting, listVars,
         chainVars, network
    <3> QED
      BY <1>1, <3>1, TalliedStays
  <2>3. CASE BeginRound(k) \/ SendVrf(k) \/ FollowCandidate(k) \/ SubmitBlock(k)
             \/ RoundError(k) \/ Restart(k)
    <3>1. pc'[k] \in {"12", "2", "4"}
      BY <1>1, <2>3 DEF BeginRound, SendVrf, FollowCandidate, SubmitBlock, RoundError, Restart
    <3> QED
      BY <1>2, <3>1 DEF Voting
  <2> QED
    BY <1>6, <2>1, <2>2, <2>3 DEF RoundStep
<1>7. ASSUME NEW n \in Node, NEW b, ValidateBlock(n, b) \/ AppendBlock(n, b)
      PROVE  Tallied(k)'
  BY <1>1, <1>7, TalliedStays
  DEF ValidateBlock, AppendBlock, Voting, listVars, chainVars
<1>8. ASSUME NEW n \in Node, NEW m \in votes, RecordVote(n, m) PROVE Tallied(k)'
  <2>1. CASE n = k
    BY <1>1, <1>8, <2>1, RecordTallied
  <2>2. CASE n # k
    <3>1. /\ pc' = pc /\ list' = list /\ voteTotal' = voteTotal
          /\ selected'[k] = selected[k] /\ pending'[k] = pending[k]
          /\ gaps' = gaps /\ height' = height /\ votes' = votes
      BY <1>1, <1>8, <2>2 DEF RecordVote, chainVars, network
    <3> QED
      BY <1>1, <3>1, TalliedStays DEF Voting
  <2> QED
    BY <2>1, <2>2
<1>9. ASSUME NEW n \in Node, NEW m \in pending[n], AddVote(n, m) PROVE Tallied(k)'
  <2>1. CASE n = k
    BY <1>1, <1>9, <2>1, AddTallied
  <2>2. CASE n # k
    <3>1. /\ pc' = pc /\ list' = list /\ selected' = selected
          /\ voteTotal'[k] = voteTotal[k] /\ pending'[k] = pending[k]
          /\ gaps' = gaps /\ height' = height /\ votes' = votes
      BY <1>1, <1>9, <2>2 DEF AddVote, chainVars, network
    <3> QED
      BY <1>1, <3>1, TalliedStays DEF Voting
  <2> QED
    BY <2>1, <2>2
<1> QED
  BY <1>3, <1>4, <1>5, <1>6, <1>7, <1>8, <1>9 DEF Next, Receive

LEMMA TallyStep == TallyInv /\ [Next]_vars => TallyInv'
<1> SUFFICES ASSUME TallyInv, [Next]_vars PROVE TallyInv'
  OBVIOUS
<1>1. TypeInv /\ ChoiceAmongKeys /\ NothingPending
  BY DEF TallyInv
<1>2. TypeInv'
  BY <1>1, TypeNext
<1>3. ChoiceAmongKeys' /\ NothingPending'
  BY <1>1, ChoiceAmongKeysNext, NothingPendingNext
<1>4. \A k \in Node : Tallied(k)'
  BY TalliedNext
<1>5. PendingRecorded' /\ TotalsMatchVoters'
  BY <1>4, TalliedAll
<1> QED
  BY <1>2, <1>3, <1>5 DEF TallyInv

\* A total never runs ahead of the voters recorded; what it lacks is with the
\* handlers between their critical sections, or was a vote for a candidate
\* whose VRF data was not complete here or at a voter: for any number of
\* delegates, late votes and handlers that outlast the round included
\* (server_receive_data_socket_..._vote_majority_results).
THEOREM TotalsMatch == Spec => []TotalsMatchVoters
<1>1. Init => TallyInv
  BY TallyInit
<1>2. TallyInv /\ [Next]_vars => TallyInv'
  BY TallyStep
<1>3. TallyInv => TotalsMatchVoters
  BY DEF TallyInv
<1> QED
  BY <1>1, <1>2, <1>3, PTL DEF Spec
=============================================================================
