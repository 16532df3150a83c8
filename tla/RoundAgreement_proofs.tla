----------------------- MODULE RoundAgreement_proofs -----------------------
(***************************************************************************)
(* When vote messages do not outlive their round, every election result is *)
(* certified by votes of that round and two elections agree whenever the   *)
(* majorities of their committees overlap: for any number of delegates,    *)
(* any of them late, failing or restarting, and whatever each of them sees *)
(* online.                                                                 *)
(***************************************************************************)
EXTENDS DpopsRound_proofs

\* A delegate enters a round at most once, and is in no other.
RanInTime ==
    \A n \in Node : ran[n] <= round /\ (InRound(n) => ran[n] = round)

\* Vote messages are of this round, from delegates that have passed Part 7,
\* and there is one of each.
OneVoteEach ==
    /\ \A m \in votes : m.round = round /\ ran[m.from] = round /\ pc[m.from] \notin {"2", "4"}
    /\ \A m1, m2 \in votes : m1.from = m2.from => m1 = m2

\* Before it has counted, a delegate holds no result.
NoEarlyResult ==
    \A n \in Node : pc[n] \in {"2", "4", "7", "7_counted"} => refs[n] = NoRef

AgreementInv ==
    /\ TypeInv
    /\ RanInTime
    /\ OneVoteEach
    /\ NoEarlyResult
    /\ VotesBoundToRound
    /\ ElectionCertified

LEMMA AgreementInit == Init => AgreementInv
<1> SUFFICES ASSUME Init PROVE AgreementInv
  OBVIOUS
<1>1. TypeInv
  BY TypeInit
<1>2. RanInTime /\ OneVoteEach /\ NoEarlyResult
  BY DEF Init, RanInTime, InRound, OneVoteEach, NoEarlyResult
<1>3. VotesBoundToRound
  BY DEF Init, VotesBoundToRound, Voting
<1>4. ElectionCertified
  BY DEF Init, ElectionCertified
<1> QED
  BY <1>1, <1>2, <1>3, <1>4 DEF AgreementInv

LEMMA RanInTimeNext ==
    ASSUME TypeOK, RanInTime, [Next]_vars
    PROVE  RanInTime'
<1> USE DEF RanInTime, InRound
<1>1. /\ ran \in [Node -> Nat] /\ round \in Nat
      /\ pc \in [Node -> {"12", "2", "4", "7", "7_counted", "8", "9", "11"}]
  BY DEF TypeOK
<1>2. CASE Tick
  BY <1>2 DEF Tick
<1>3. CASE NextRound
  BY <1>1, <1>3 DEF NextRound
<1>4. ASSUME NEW n \in Node, RoundStep(n) PROVE RanInTime'
  <2>1. CASE BeginRound(n)
    BY <1>1, <2>1 DEF BeginRound, sched
  <2>2. CASE Restart(n)
    BY <1>1, <2>2 DEF Restart, sched
  <2>3. CASE ~BeginRound(n) /\ ~Restart(n)
    <3>1. ran' = ran /\ round' = round
      BY <1>4, <2>3 DEF RoundStep, SendVrf, Vote, FollowCandidate, FindWinner, Elect,
         ConfirmHeight, MakeTemplate, SubmitBlock, RoundError, sched
    <3>2. \A k \in Node \ {n} : pc'[k] = pc[k]
      BY <1>1, <1>4, <2>3 DEF RoundStep, SendVrf, Vote, FollowCandidate, FindWinner, Elect,
         ConfirmHeight, MakeTemplate, SubmitBlock, RoundError
    <3>3. pc[n] # "12" \/ pc'[n] = "12"
      BY <1>1, <1>4, <2>3 DEF RoundStep, SendVrf, Vote, FollowCandidate, FindWinner, Elect,
         ConfirmHeight, MakeTemplate, SubmitBlock, RoundError
    <3> QED
      BY <3>1, <3>2, <3>3
  <2> QED
    BY <2>1, <2>2, <2>3
<1>5. ASSUME NEW n \in Node, Receive(n) PROVE RanInTime'
  BY <1>5 DEF Receive, ValidateBlock, AppendBlock, RecordVote, AddVote, sched
<1>6. CASE UNCHANGED vars
  BY <1>6 DEF vars, sched
<1> QED
  BY <1>2, <1>3, <1>4, <1>5, <1>6 DEF Next

LEMMA OneVoteEachNext ==
    ASSUME MaxStale = 0, TypeInv, RanInTime, OneVoteEach, [Next]_vars
    PROVE  OneVoteEach'
<1>1. /\ ran \in [Node -> Nat] /\ round \in Nat
      /\ pc \in [Node -> {"12", "2", "4", "7", "7_counted", "8", "9", "11"}]
      /\ \A m \in votes : m.from \in Node
  BY DEF TypeInv, TypeOK, VoteMessage
<1>2. CASE Tick
  BY <1>2 DEF Tick, OneVoteEach, network
<1>3. CASE NextRound
  <2>1. votes' = {m \in votes : m.round + MaxStale > round}
    BY <1>3 DEF NextRound
  <2>2. votes' = {}
    BY <1>1, <2>1 DEF OneVoteEach
  <2> QED
    BY <2>2 DEF OneVoteEach
<1>4. ASSUME NEW n \in Node, RoundStep(n) PROVE OneVoteEach'
  <2>1. CASE BeginRound(n)
    <3>1. \A m \in votes : m.from # n
      BY <1>1, <2>1 DEF BeginRound, OneVoteEach
    <3>2. votes' = votes /\ round' = round
      BY <2>1 DEF BeginRound, network, sched
    <3>3. \A k \in Node \ {n} : pc'[k] = pc[k] /\ ran'[k] = ran[k]
      BY <1>1, <2>1 DEF BeginRound
    <3> QED
      BY <1>1, <3>1, <3>2, <3>3 DEF OneVoteEach
  <2>2. CASE Vote(n)
    <3>1. pc[n] = "4" /\ ran[n] = round /\ ran' = ran /\ round' = round
      BY <2>2 DEF Vote, RanInTime, InRound, sched
    <3>2. \A m \in votes : m.from # n
      BY <3>1 DEF OneVoteEach
    <3>3. pc'[n] = "7" /\ \A k \in Node \ {n} : pc'[k] = pc[k]
      BY <1>1, <2>2 DEF Vote
    <3>4. \/ votes' = votes
          \/ \E m : m.from = n /\ m.round = round /\ votes' = votes \cup {m}
      BY <2>2 DEF Vote
    <3> QED
      BY <1>1, <3>1, <3>2, <3>3, <3>4 DEF OneVoteEach
  <2>3. CASE Restart(n)
    BY <1>1, <2>3 DEF Restart, OneVoteEach, sched, network
  <2>4. CASE ~BeginRound(n) /\ ~Vote(n) /\ ~Restart(n)
    <3>1. ran' = ran /\ round' = round /\ votes' = votes
      BY <1>4, <2>4 DEF RoundStep, SendVrf, FollowCandidate, FindWinner, Elect,
         ConfirmHeight, MakeTemplate, SubmitBlock, RoundError, sched, network
    <3>2. \A k \in Node \ {n} : pc'[k] = pc[k]
      BY <1>1, <1>4, <2>4 DEF RoundStep, SendVrf, FollowCandidate, FindWinner, Elect,
         ConfirmHeight, MakeTemplate, SubmitBlock, RoundError
    <3>3. pc'[n] \in {"2", "4"} => pc[n] \in {"2", "4"}
      BY <1>1, <1>4, <2>4 DEF RoundStep, SendVrf, FollowCandidate, FindWinner, Elect,
         ConfirmHeight, MakeTemplate, SubmitBlock, RoundError
    <3> QED
      BY <1>1, <3>1, <3>2, <3>3 DEF OneVoteEach
  <2> QED
    BY <2>1, <2>2, <2>3, <2>4
<1>5. ASSUME NEW n \in Node, Receive(n) PROVE OneVoteEach'
  BY <1>5 DEF Receive, ValidateBlock, AppendBlock, RecordVote, AddVote, OneVoteEach, sched, network
<1>6. CASE UNCHANGED vars
  BY <1>6 DEF vars, OneVoteEach, sched, network
<1> QED
  BY <1>2, <1>3, <1>4, <1>5, <1>6 DEF Next

LEMMA NoEarlyResultNext ==
    ASSUME TypeOK, NoEarlyResult, [Next]_vars
    PROVE  NoEarlyResult'
<1> USE DEF NoEarlyResult
<1>1. /\ pc \in [Node -> {"12", "2", "4", "7", "7_counted", "8", "9", "11"}]
      /\ refs \in [Node -> [producer : Node \cup {None}, voters : SUBSET Node]]
  BY DEF TypeOK
<1>2. CASE Tick
  BY <1>2 DEF Tick, outcome
<1>3. CASE NextRound
  BY <1>3 DEF NextRound, outcome
<1>4. ASSUME NEW n \in Node, RoundStep(n) PROVE NoEarlyResult'
  <2>1. \A k \in Node \ {n} : pc'[k] = pc[k] /\ refs'[k] = refs[k]
    BY <1>1, <1>4 DEF RoundStep, BeginRound, SendVrf, Vote, FollowCandidate, FindWinner,
       Elect, ConfirmHeight, MakeTemplate, SubmitBlock, AnswerLate, RoundError, Restart, outcome
  <2>2. CASE BeginRound(n)
    BY <1>1, <2>1, <2>2 DEF BeginRound
  <2>3. CASE SendVrf(n) \/ Vote(n) \/ FindWinner(n)
    BY <1>1, <2>1, <2>3 DEF SendVrf, Vote, FindWinner, outcome
  <2>4. CASE FollowCandidate(n) \/ Elect(n) \/ ConfirmHeight(n) \/ MakeTemplate(n)
             \/ SubmitBlock(n) \/ RoundError(n) \/ Restart(n)
    <3>1. pc'[n] \in {"8", "9", "11", "12"}
      BY <1>1, <2>4 DEF FollowCandidate, Elect, ConfirmHeight, MakeTemplate, SubmitBlock, RoundError, Restart
    <3> QED
      BY <2>1, <3>1
  <2> QED
    BY <1>4, <2>2, <2>3, <2>4 DEF RoundStep
<1>5. ASSUME NEW n \in Node, Receive(n) PROVE NoEarlyResult'
  BY <1>5 DEF Receive, ValidateBlock, AppendBlock, RecordVote, AddVote, outcome
<1>6. CASE UNCHANGED vars
  BY <1>6 DEF vars, outcome
<1> QED
  BY <1>2, <1>3, <1>4, <1>5, <1>6 DEF Next

\* What a vote recorded by k is bound to stays, as long as k works on the same
\* list and chain.
LEMMA BoundStays ==
    ASSUME NEW k \in Node, NEW v \in Node,
           Voting(k) /\ selected[k][v] # None => Cast(v, selected[k][v], k),
           Voting(k)' => Voting(k),
           round' = round, votes \subseteq votes', selected'[k] = selected[k],
           prevHash'[k] = prevHash[k], list'[k] = list[k]
    PROVE  Voting(k)' /\ selected'[k][v] # None => Cast(v, selected[k][v], k)'
BY DEF Cast, Members

LEMMA VotesBoundNext ==
    ASSUME TypeInv, RanInTime, OneVoteEach, VotesBoundToRound, [Next]_vars
    PROVE  VotesBoundToRound'
<1> USE DEF TypeInv
<1>1. /\ pc \in [Node -> {"12", "2", "4", "7", "7_counted", "8", "9", "11"}]
      /\ prevHash \in [Node -> Seq(Node \cup {None})]
      /\ list \in [Node -> Seq(Node)]
      /\ selected \in [Node -> [Node -> Node \cup {None}]]
  BY DEF TypeOK
<1>2. SUFFICES ASSUME NEW k \in Node, NEW v \in Node
               PROVE  Voting(k)' /\ selected'[k][v] # None => Cast(v, selected[k][v], k)'
  BY DEF VotesBoundToRound
<1>3. Voting(k) /\ selected[k][v] # None => Cast(v, selected[k][v], k)
  BY DEF VotesBoundToRound
<1>4. ASSUME Voting(k)' => Voting(k), round' = round, votes \subseteq votes',
             selected'[k] = selected[k], prevHash'[k] = prevHash[k], list'[k] = list[k]
      PROVE  Voting(k)' /\ selected'[k][v] # None => Cast(v, selected[k][v], k)'
  BY <1>3, <1>4, BoundStays
<1>5. CASE Tick
  BY <1>4, <1>5 DEF Tick, Voting, chainVars, listVars, network
<1>6. CASE NextRound
  BY <1>6 DEF NextRound, InRound, Voting
<1>7. ASSUME NEW n \in Node, RoundStep(n), n # k
      PROVE  Voting(k)' /\ selected'[k][v] # None => Cast(v, selected[k][v], k)'
  <2>1. /\ pc'[k] = pc[k] /\ selected'[k] = selected[k]
        /\ prevHash'[k] = prevHash[k] /\ list'[k] = list[k]
    BY <1>1, <1>7 DEF RoundStep, BeginRound, SendVrf, Vote, FollowCandidate, FindWinner,
       Elect, ConfirmHeight, MakeTemplate, SubmitBlock, RoundError, Restart, chainVars, listVars
  <2>2. round' = round /\ votes \subseteq votes'
    BY <1>7 DEF RoundStep, BeginRound, SendVrf, Vote, FollowCandidate, FindWinner,
       Elect, ConfirmHeight, MakeTemplate, SubmitBlock, RoundError, Restart, sched, network
  <2> QED
    BY <1>4, <2>1, <2>2 DEF Voting
<1>8. ASSUME RoundStep(k)
      PROVE  Voting(k)' /\ selected'[k][v] # None => Cast(v, selected[k][v], k)'
  <2>1. CASE Vote(k)
    <3>1. PICK w \in Views(k) :
            LET com == CommitteeOf(k, w.online, w.late)
                p   == com[SlotOf(k, com)]
                own == k \in VotersOf(k, com)
            IN  /\ CanVote(k, w)
                /\ list' = [list EXCEPT ![k] = com]
                /\ selected' = [selected EXCEPT ![k] =
                      IF own THEN [NoVotes EXCEPT ![k] = p] ELSE NoVotes]
                /\ votes' = IF own
                      THEN votes \cup {[from |-> k, round |-> round, choice |-> p,
                                        prev |-> prevHash[k], height |-> height[k],
                                        keys |-> Members(com), whole |-> p \notin w.torn,
                                        to |-> VotersOf(k, com) \ {k}]}
                      ELSE votes
      BY <2>1 DEF Vote
    <3> DEFINE com == CommitteeOf(k, w.online, w.late)
               p   == com[SlotOf(k, com)]
               m   == [from |-> k, round |-> round, choice |-> p,
                       prev |-> prevHash[k], height |-> height[k],
                       keys |-> Members(com), whole |-> p \notin w.torn,
                       to |-> VotersOf(k, com) \ {k}]
    <3>2. selected'[k][v] # None => v = k /\ selected'[k][v] = p /\ m \in votes'
      BY <1>1, <3>1 DEF NoVotes
    <3>3. list'[k] = com /\ round' = round /\ prevHash' = prevHash
      BY <1>1, <2>1, <3>1 DEF Vote, sched, chainVars
    <3>4. Members(list[k])' = Members(com)
      BY <3>3 DEF Members
    <3>5. /\ m.from = k /\ m.choice = p /\ m.round = round
          /\ m.prev = prevHash[k] /\ m.keys = Members(com)
      OBVIOUS
    <3> QED
      BY <3>2, <3>3, <3>4, <3>5 DEF Cast
  <2>2. CASE FindWinner(k) \/ Elect(k) \/ ConfirmHeight(k) \/ MakeTemplate(k)
    BY <1>1, <1>4, <2>2
    DEF FindWinner, Elect, ConfirmHeight, MakeTemplate, Voting, sched, chainVars, listVars, network
  <2>3. CASE BeginRound(k) \/ SendVrf(k) \/ FollowCandidate(k) \/ SubmitBlock(k)
             \/ RoundError(k) \/ Restart(k)
    <3>1. pc'[k] \in {"12", "2", "4"}
      BY <1>1, <2>3 DEF BeginRound, SendVrf, FollowCandidate, SubmitBlock, RoundError, Restart
    <3> QED
      BY <3>1 DEF Voting
  <2> QED
    BY <1>8, <2>1, <2>2, <2>3 DEF RoundStep
<1>9. ASSUME NEW n \in Node, NEW b, ValidateBlock(n, b) \/ AppendBlock(n, b)
      PROVE  Voting(k)' /\ selected'[k][v] # None => Cast(v, selected[k][v], k)'
  BY <1>4, <1>9 DEF ValidateBlock, AppendBlock, Voting, sched, chainVars, listVars, network
<1>10. ASSUME NEW n \in Node, NEW m \in votes, RecordVote(n, m)
       PROVE  Voting(k)' /\ selected'[k][v] # None => Cast(v, selected[k][v], k)'
  <2>1. /\ round' = round /\ votes' = votes /\ pc' = pc /\ list' = list
        /\ prevHash' = prevHash /\ m.from \in Node
    BY <1>10 DEF RecordVote, sched, network, chainVars, TypeOK, VoteMessage
  <2>2. CASE n = k /\ v = m.from
    <3>1. selected'[k][v] = m.choice
      BY <1>1, <1>10, <2>1, <2>2 DEF RecordVote
    <3>2. m.prev = prevHash[k] /\ m.keys = Members(list[k]) /\ m.round = round
      BY <1>10, <2>2 DEF RecordVote, VoteAdmitted, VoteSigned, OneVoteEach
    <3> QED
      BY <2>1, <2>2, <3>1, <3>2 DEF Cast, Members
  <2>3. CASE ~(n = k /\ v = m.from)
    <3>1. selected'[k][v] = selected[k][v]
      BY <1>1, <1>10, <2>1, <2>3 DEF RecordVote
    <3> QED
      BY <1>3, <2>1, <3>1 DEF Cast, Members, Voting
  <2> QED
    BY <2>2, <2>3
<1>11. ASSUME NEW n \in Node, NEW m \in pending[n], AddVote(n, m)
       PROVE  Voting(k)' /\ selected'[k][v] # None => Cast(v, selected[k][v], k)'
  BY <1>4, <1>11 DEF AddVote, Voting, sched, chainVars, network
<1>12. CASE UNCHANGED vars
  BY <1>4, <1>12 DEF vars, Voting, sched, chainVars, listVars, network
<1> QED
  BY <1>5, <1>6, <1>7, <1>8, <1>9, <1>10, <1>11, <1>12 DEF Next, Receive

\* ElectionCertified, for one delegate.
Certified(k) ==
    ran[k] = round /\ Elected(k)
    => /\ Cardinality(refs[k].voters) >= Need(k)
       /\ \A v \in refs[k].voters : v \in Electors(k) /\ Cast(v, refs[k].producer, k)

LEMMA CertifiedStays ==
    ASSUME NEW k \in Node, Certified(k), round' = round, votes \subseteq votes',
           ran'[k] = ran[k], refs'[k] = refs[k], list'[k] = list[k],
           height'[k] = height[k], prevHash'[k] = prevHash[k]
    PROVE  Certified(k)'
<1>1. Count(k)' = Count(k)
  BY DEF Count, Bootstrap
<1>2. Need(k)' = Need(k) /\ Electors(k)' = Electors(k)
  BY <1>1 DEF Need, Electors
<1>3. \A v, p : Cast(v, p, k) => Cast(v, p, k)'
  BY DEF Cast, Members
<1> QED
  BY <1>2, <1>3 DEF Certified, Elected

LEMMA ElectionCertifiedNext ==
    ASSUME TypeInv, RanInTime, NoEarlyResult, VotesBoundToRound, ElectionCertified,
           [Next]_vars
    PROVE  ElectionCertified'
<1> USE DEF TypeInv
<1>1. /\ pc \in [Node -> {"12", "2", "4", "7", "7_counted", "8", "9", "11"}]
      /\ prevHash \in [Node -> Seq(Node \cup {None})]
      /\ height \in [Node -> Nat] /\ round \in Nat /\ ran \in [Node -> Nat]
      /\ list \in [Node -> Seq(Node)]
      /\ refs \in [Node -> [producer : Node \cup {None}, voters : SUBSET Node]]
  BY DEF TypeOK
<1>2. SUFFICES ASSUME NEW k \in Node PROVE Certified(k)'
  BY DEF ElectionCertified, Certified
<1>3. Certified(k)
  BY DEF ElectionCertified, Certified
<1>4. ASSUME round' = round, votes \subseteq votes', ran'[k] = ran[k], refs'[k] = refs[k],
             list'[k] = list[k], height'[k] = height[k], prevHash'[k] = prevHash[k]
      PROVE  Certified(k)'
  BY <1>3, <1>4, CertifiedStays
<1>5. CASE Tick
  BY <1>4, <1>5 DEF Tick, chainVars, listVars, outcome, network
<1>6. CASE NextRound
  <2>1. ran'[k] < round'
    BY <1>1, <1>6 DEF NextRound, RanInTime
  <2> QED
    BY <1>1, <2>1, <1>6 DEF Certified, NextRound
<1>7. ASSUME NEW n \in Node, RoundStep(n), n # k PROVE Certified(k)'
  <2>1. /\ ran'[k] = ran[k] /\ refs'[k] = refs[k] /\ list'[k] = list[k]
        /\ height'[k] = height[k] /\ prevHash'[k] = prevHash[k]
    BY <1>1, <1>7 DEF RoundStep, BeginRound, SendVrf, Vote, FollowCandidate, FindWinner,
       Elect, ConfirmHeight, MakeTemplate, SubmitBlock, AnswerLate, RoundError, Restart, chainVars, listVars, outcome
  <2>2. round' = round /\ votes \subseteq votes'
    BY <1>7 DEF RoundStep, BeginRound, SendVrf, Vote, FollowCandidate, FindWinner,
       Elect, ConfirmHeight, MakeTemplate, SubmitBlock, RoundError, Restart, sched, network
  <2> QED
    BY <1>4, <2>1, <2>2
<1>8. ASSUME RoundStep(k) PROVE Certified(k)'
  <2>1. CASE Elect(k)
    <3>1. PICK p \in Node : p = list[k][slot[k]] /\ p # None
      <4>1. slot[k] \in 1..Len(list[k])
        BY <2>1 DEF Elect, SlotInList
      <4>2. list[k][slot[k]] \in Node
        BY <1>1, <4>1
      <4> QED
        BY <4>2, CommitteeAssumption
    <3>2. /\ CountedVoters(k) = VotersFor(k, p)
          /\ Cardinality(CountedVoters(k)) >= Need(k)
      BY <2>1, <3>1 DEF Elect, VotesCoherent, EnoughVotes, CountedVoters
    <3>3. refs'[k].producer = p /\ refs'[k].voters = VotersFor(k, p)
      BY <1>1, <2>1, <3>1, <3>2 DEF Elect
    <3>4. /\ round' = round /\ votes' = votes /\ list' = list /\ height' = height
          /\ prevHash' = prevHash
      BY <2>1 DEF Elect, sched, network, listVars, chainVars
    <3>5. ASSUME NEW v \in VotersFor(k, p)
          PROVE  v \in Electors(k) /\ Cast(v, p, k)
      <4>1. v \in Electors(k) /\ v \in Node /\ selected[k][v] = p
        BY CountBound DEF VotersFor
      <4>2. Voting(k)
        BY <2>1 DEF Elect, Voting
      <4> QED
        BY <3>1, <4>1, <4>2 DEF VotesBoundToRound
    <3>6. Count(k)' = Count(k)
      BY <3>4 DEF Count, Bootstrap
    <3>7. Need(k)' = Need(k) /\ Electors(k)' = Electors(k)
      BY <3>4, <3>6 DEF Need, Electors
    <3>8. \A v \in VotersFor(k, p) : Cast(v, p, k)'
      BY <3>4, <3>5 DEF Cast, Members
    <3>9. /\ Cardinality(refs'[k].voters) >= Need(k)'
          /\ \A v \in refs'[k].voters : v \in Electors(k)' /\ Cast(v, p, k)'
      BY <3>2, <3>3, <3>5, <3>7, <3>8
    <3>10. \A v : Cast(v, p, k)' => Cast(v, refs[k].producer, k)'
      BY <3>3 DEF Cast
    <3> QED
      BY <3>9, <3>10 DEF Certified
  <2>2. CASE BeginRound(k) \/ SendVrf(k) \/ Vote(k) \/ Restart(k) \/ FollowCandidate(k)
    <3>1. refs'[k].voters = {}
      BY <1>1, <2>2 DEF BeginRound, SendVrf, Vote, Restart, FollowCandidate, NoEarlyResult,
         NoRef, outcome
    <3> QED
      BY <3>1 DEF Certified, Elected
  <2>3. CASE FindWinner(k) \/ ConfirmHeight(k) \/ MakeTemplate(k) \/ SubmitBlock(k)
             \/ RoundError(k)
    BY <1>4, <2>3
    DEF FindWinner, ConfirmHeight, MakeTemplate, SubmitBlock, AnswerLate, RoundError, sched, chainVars,
        listVars, outcome, network
  <2> QED
    BY <1>8, <2>1, <2>2, <2>3 DEF RoundStep
<1>9. ASSUME NEW n \in Node, Receive(n) PROVE Certified(k)'
  BY <1>4, <1>9
  DEF Receive, ValidateBlock, AppendBlock, RecordVote, AddVote, sched, chainVars, listVars, outcome, network
<1>10. CASE UNCHANGED vars
  BY <1>4, <1>10 DEF vars, sched, chainVars, listVars, outcome, network
<1> QED
  BY <1>5, <1>6, <1>7, <1>8, <1>9, <1>10 DEF Next

LEMMA AgreementStep ==
    ASSUME MaxStale = 0, AgreementInv, [Next]_vars
    PROVE  AgreementInv'
<1> USE DEF AgreementInv
<1>1. TypeInv'
  BY TypeNext
<1>2. TypeOK
  BY DEF TypeInv
<1>3. RanInTime' /\ NoEarlyResult'
  BY <1>2, RanInTimeNext, NoEarlyResultNext
<1>4. OneVoteEach'
  BY OneVoteEachNext
<1>5. VotesBoundToRound'
  BY VotesBoundNext
<1>6. ElectionCertified'
  BY ElectionCertifiedNext
<1> QED
  BY <1>1, <1>3, <1>4, <1>5, <1>6

\* Two parts of a finite set that together are larger than it share an element.
LEMMA PartsOverlap ==
    ASSUME NEW U, IsFiniteSet(U), NEW S \in SUBSET U, NEW T \in SUBSET U,
           Cardinality(S) + Cardinality(T) > Cardinality(U)
    PROVE  S \cap T # {}
<1>1. IsFiniteSet(S) /\ IsFiniteSet(T) /\ IsFiniteSet(S \cup T) /\ S \cup T \in SUBSET U
  BY FS_Subset
<1>2. Cardinality(S \cup T) <= Cardinality(U)
  BY <1>1, FS_Subset
<1>3. Cardinality(S \cup T) = Cardinality(S) + Cardinality(T) - Cardinality(S \cap T)
  BY <1>1, FS_Union
<1>4. /\ Cardinality(S) \in Nat /\ Cardinality(T) \in Nat /\ Cardinality(U) \in Nat
      /\ Cardinality(S \cup T) \in Nat
  BY <1>1, FS_CardinalityType
<1>5. CASE S \cap T = {}
  <2>1. Cardinality(S \cap T) = 0
    BY <1>5, FS_EmptySet
  <2> QED
    BY <1>2, <1>3, <1>4, <2>1
<1> QED
  BY <1>5

LEMMA CertifiedAgree == AgreementInv => Agreement
<1> SUFFICES ASSUME AgreementInv,
                    NEW n1 \in Node, ran[n1] = round, Elected(n1),
                    NEW n2 \in Node, ran[n2] = round, Elected(n2),
                    MustOverlap(n1, n2)
             PROVE  refs[n1].producer = refs[n2].producer
  BY DEF Agreement
<1> DEFINE U  == Electors(n1) \cup Electors(n2)
           S  == refs[n1].voters
           T  == refs[n2].voters
<1>1. TypeOK
  BY DEF AgreementInv, TypeInv
<1>2. U \in SUBSET Node
  BY <1>1, CountBound
<1>3. IsFiniteSet(U)
  BY <1>2, FS_Subset, CommitteeAssumption
<1>4. /\ Cardinality(S) >= Need(n1) /\ S \in SUBSET U
      /\ \A v \in S : Cast(v, refs[n1].producer, n1)
  BY DEF AgreementInv, ElectionCertified
<1>5. /\ Cardinality(T) >= Need(n2) /\ T \in SUBSET U
      /\ \A v \in T : Cast(v, refs[n2].producer, n2)
  BY DEF AgreementInv, ElectionCertified
<1>6. Need(n1) + Need(n2) > Cardinality(U)
  BY DEF MustOverlap
<1>7. Need(n1) \in Int /\ Need(n2) \in Int
  BY <1>1, CountBound DEF Need, AgreementNeeded
<1>8. /\ Cardinality(S) \in Nat /\ Cardinality(T) \in Nat /\ Cardinality(U) \in Nat
  BY <1>3, <1>4, <1>5, FS_Subset, FS_CardinalityType
<1>9. Cardinality(S) + Cardinality(T) > Cardinality(U)
  BY <1>4, <1>5, <1>6, <1>7, <1>8
<1>10. S \cap T # {}
  BY <1>3, <1>4, <1>5, <1>9, PartsOverlap
<1>11. PICK v \in S \cap T : TRUE
  BY <1>10
<1>12. PICK m1 \in votes : m1.from = v /\ m1.choice = refs[n1].producer
  BY <1>4, <1>11 DEF Cast
<1>13. PICK m2 \in votes : m2.from = v /\ m2.choice = refs[n2].producer
  BY <1>5, <1>11 DEF Cast
<1>14. m1 = m2
  BY <1>12, <1>13 DEF AgreementInv, OneVoteEach
<1> QED
  BY <1>12, <1>13, <1>14

\* Unless vote messages outlive their round, whoever holds an election result
\* holds enough votes for it, each of them cast in that round by a member of
\* the committee it counted in (first and second tally of process_round).
THEOREM ElectionsCertified == ASSUME MaxStale = 0 PROVE Spec => []ElectionCertified
<1>1. Init => AgreementInv
  BY AgreementInit
<1>2. AgreementInv /\ [Next]_vars => AgreementInv'
  BY AgreementStep
<1>3. AgreementInv => ElectionCertified
  BY DEF AgreementInv
<1> QED
  BY <1>1, <1>2, <1>3, PTL DEF Spec

\* Unless vote messages outlive their round, two delegates that elect in a
\* round elect the same producer, whatever each of them sees online, when the
\* majorities of their committees have to overlap (process_round, Part 7).
THEOREM ElectionsAgree == ASSUME MaxStale = 0 PROVE Spec => []Agreement
<1>1. Init => AgreementInv
  BY AgreementInit
<1>2. AgreementInv /\ [Next]_vars => AgreementInv'
  BY AgreementStep
<1>3. AgreementInv => Agreement
  BY CertifiedAgree
<1> QED
  BY <1>1, <1>2, <1>3, PTL DEF Spec

-----------------------------------------------------------------------------
(* One committee                                                           *)

LEMMA ElectorsCounted ==
    ASSUME TypeOK, NEW n \in Node
    PROVE  /\ IsFiniteSet(Electors(n))
           /\ Cardinality(Electors(n)) \in Nat
           /\ Cardinality(Electors(n)) <= Count(n)
<1> DEFINE K == 1..Count(n)
           f == [i \in K |-> list[n][i]]
<1>1. Count(n) \in Nat
  BY CountBound
<1>2. IsFiniteSet(K) /\ Cardinality(K) = Count(n)
  BY <1>1, FS_Interval
<1>3. f \in Surjection(K, Electors(n))
  BY DEF Surjection, Electors
<1> HIDE DEF f
<1>4. IsFiniteSet(Electors(n)) /\ Cardinality(Electors(n)) <= Cardinality(K)
  BY <1>2, <1>3, FS_Surjection
<1> QED
  BY <1>2, <1>4, FS_CardinalityType

\* The delegates that hold a result and count in the same committee agree.
OneCommitteeOneWinner ==
    \A n1, n2 \in Node :
        /\ ran[n1] = round /\ Elected(n1)
        /\ ran[n2] = round /\ Elected(n2)
        /\ Electors(n1) = Electors(n2)
        => refs[n1].producer = refs[n2].producer

LEMMA OneCommitteeOverlaps ==
    ASSUME TypeOK, ElectionCertified,
           NEW n1 \in Node, ran[n1] = round, Elected(n1),
           NEW n2 \in Node, Electors(n1) = Electors(n2)
    PROVE  MustOverlap(n1, n2)
<1> DEFINE c == Cardinality(Electors(n1))
<1>1. /\ Count(n1) \in Nat /\ Count(n2) \in Nat /\ c \in Nat
      /\ c <= Count(n1) /\ c <= Count(n2)
  BY CountBound, ElectorsCounted
<1>2. PICK v : v \in refs[n1].voters
  BY DEF Elected
<1>3. v \in Electors(n1)
  BY <1>2 DEF ElectionCertified
<1>4. c # 0
  BY <1>3, ElectorsCounted, FS_EmptySet
<1>5. Count(n1) \in Nat \ {0} /\ Count(n2) \in Nat \ {0}
  BY <1>1, <1>4
<1>6. 2 * Need(n1) > Count(n1) /\ 2 * Need(n2) > Count(n2)
  BY <1>5, MoreThanHalf DEF Need
<1>7. Need(n1) \in Int /\ Need(n2) \in Int
  BY <1>5 DEF Need, AgreementNeeded
<1>8. Need(n1) + Need(n2) > c
  BY <1>1, <1>6, <1>7
<1> QED
  BY <1>8 DEF MustOverlap

\* Unless vote messages outlive their round, a committee never elects two
\* producers in a round, however its members' tallies and votes interleave.
THEOREM OneWinnerPerCommittee == ASSUME MaxStale = 0 PROVE Spec => []OneCommitteeOneWinner
<1>1. Init => AgreementInv
  BY AgreementInit
<1>2. AgreementInv /\ [Next]_vars => AgreementInv'
  BY AgreementStep
<1>3. AgreementInv => OneCommitteeOneWinner
  <2> SUFFICES ASSUME AgreementInv,
                      NEW n1 \in Node, ran[n1] = round, Elected(n1),
                      NEW n2 \in Node, ran[n2] = round, Elected(n2),
                      Electors(n1) = Electors(n2)
               PROVE  refs[n1].producer = refs[n2].producer
    BY DEF OneCommitteeOneWinner
  <2>1. MustOverlap(n1, n2)
    BY OneCommitteeOverlaps DEF AgreementInv, TypeInv
  <2>2. Agreement
    BY CertifiedAgree
  <2> QED
    BY <2>1, <2>2 DEF Agreement
<1> QED
  BY <1>1, <1>2, <1>3, PTL DEF Spec
=============================================================================
