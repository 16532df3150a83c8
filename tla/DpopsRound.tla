----------------------------- MODULE DpopsRound -----------------------------
(***************************************************************************)
(* The block production rounds of all delegates together: process_round    *)
(* and the round loop (xcash_round.c), the vote handler                    *)
(* (block_verifiers_server_functions.c) behind the message gate            *)
(* verify_data (network_security_functions.c), block creation              *)
(* (block_verifiers_functions.c) and block validation                      *)
(* (delegate_server_functions.c).                                          *)
(*                                                                         *)
(* Every delegate runs one round per minute on its own clock; the sync     *)
(* points at :20, :30 and :50 cut a minute into four windows.  Messages    *)
(* may be lost and reordered; the threads that handle votes run beside the *)
(* round thread.  A chain is the sequence of the producers of its blocks,  *)
(* which stands for the hash of its tip as well.                           *)
(***************************************************************************)
EXTENDS Committee

CONSTANTS
    PoSHeight,   \* XCASH_PROOF_OF_STAKE_BLOCK_HEIGHT
    Genesis,     \* the chain when the rounds start
    MaxStale,    \* how many rounds a vote message may stay on its way
    MaxRound,    \* bound: rounds explored
    MaxMissing,  \* bound: VRF messages a delegate may miss in a round
    Faulty,      \* bound: delegates that may be late, fail a call or restart
    Torn         \* bound: delegates whose VRF proof may be read while it arrives

ASSUME RoundAssumption ==
    /\ Genesis \in Seq(Node)
    /\ MaxStale \in Nat
    /\ MaxRound \in Nat \ {0}
    /\ MaxMissing \in Nat
    /\ PoSHeight \in Nat
    /\ Faulty \subseteq Node
    /\ Torn \subseteq Node

VARIABLES
    round,       \* the minute
    clock,       \* its window: 0 up to :20, 1 up to :30, 2 up to :50, 3 the rest
    tip,         \* the chain of each delegate's daemon
    pc,          \* where the round thread is: current_round_part and the sync points
    ran,         \* the last round a delegate entered
    prevHash,    \* previous_block_hash
    height,      \* current_block_height
    stuck,       \* blockchain_stuck
    template,    \* the parent of the block template, empty while there is none
    list,        \* current_block_verifiers_list, its addresses
    slot,        \* producer_indx
    selected,    \* block_verifiers_selected_public_address, None while voted is 0
    voteTotal,   \* block_verifiers_vote_total
    tallied,     \* max_votes, max_index
    gaps,        \* the entries of the list packed without their whole VRF data
    pending,     \* votes recorded by a handler that has yet to add them up
    refs,        \* producer_refs[0]: the producer and the voters in vote_hash_hex
    lastWinner,  \* last_winner_name
    ready,       \* startup_complete && blockchain_ready
    vrfs,        \* VRF messages of this round
    votes,       \* vote messages that may still arrive
    blocks,      \* blocks submitted to the network
    approved,    \* blocks a delegate has let pass that its daemon has yet to append
    won          \* history: producers elected by a committee, by round

sched  == <<round, clock>>
chainVars == <<prevHash, height, stuck, template>>
listVars  == <<list, slot, selected, voteTotal, tallied, gaps>>
outcome   == <<refs, lastWinner, ready>>
network   == <<vrfs, votes, blocks, approved>>
vars == <<sched, tip, pc, ran, chainVars, listVars, pending, outcome, network, won>>

Chain == Seq(Node)

NextHeight(c) == Len(c) + 1

Bootstrap(n) == height[n] = PoSHeight

Count(n) == CommitteeCount(list[n], Bootstrap(n))

Electors(n) == {list[n][i] : i \in 1..Count(n)}

Need(n) == AgreementNeeded(Count(n))

VotersFor(n, p) == {v \in Electors(n) : selected[n][v] = p}

NoRef == [producer |-> None, voters |-> {}]

\* A committee member's producer_refs carries the hash of the votes that
\* elected, a non-committee delegate's NON_COMMITTEE_VOTE_HASH (no voters).
Elected(n) == refs[n].voters # {}

\* Fault: the addresses are cleared to zeros and not to empty.
ZeroVotes == [v \in Node |-> 0]
NoVotes == [v \in Node |-> None]
NoTotals == [v \in Node |-> 0]

Init ==
    /\ round = 1
    /\ clock = 0
    /\ tip = [n \in Node |-> Genesis]
    /\ pc = [n \in Node |-> "12"]
    /\ ran = [n \in Node |-> 0]
    /\ prevHash = [n \in Node |-> <<None>>]
    /\ height = [n \in Node |-> 0]
    /\ stuck = [n \in Node |-> FALSE]
    /\ template = [n \in Node |-> <<>>]
    /\ list = [n \in Node |-> <<>>]
    /\ slot = [n \in Node |-> 0]
    /\ selected = [n \in Node |-> NoVotes]
    /\ voteTotal = [n \in Node |-> NoTotals]
    /\ tallied = [n \in Node |-> [max |-> 0, index |-> 0]]
    /\ gaps = [n \in Node |-> {}]
    /\ pending = [n \in Node |-> {}]
    /\ refs = [n \in Node |-> NoRef]
    /\ lastWinner = [n \in Node |-> None]
    /\ ready = [n \in Node |-> FALSE]
    /\ vrfs = {}
    /\ votes = {}
    /\ blocks = {}
    /\ approved = [n \in Node |-> {}]
    /\ won = {}

-----------------------------------------------------------------------------
(* The clock                                                               *)

InRound(n) == pc[n] # "12"

\* A delegate that is not Faulty has done the work of the window in time.
OnTime(n) ==
    \/ n \in Faulty
    \/ clock = 0 /\ pc[n] = "4"
    \/ clock = 1 /\ pc[n] # "4"
    \/ clock = 2 /\ pc[n] = "12"

\* Every delegate wakes at the sync point; who is late will notice.  A vote
\* handler may still be between its two critical sections when the next round
\* starts, and is through with the second at :20, when the list is cleared.
Tick ==
    /\ clock < 3
    /\ \A n \in Node : OnTime(n)
    /\ clock = 0 => \A n \in Node : pending[n] = {}
    /\ clock' = clock + 1
    /\ UNCHANGED <<round, tip, pc, ran, chainVars, listVars, pending, outcome, network, won>>

(***************************************************************************)
(* The next minute.  The work between two sync points is bounded by the    *)
(* timeouts of the calls it makes, so no round is still running.           *)
(***************************************************************************)
NextRound ==
    /\ clock = 3
    /\ round < MaxRound
    /\ \A n \in Node : ~InRound(n)
    /\ round' = round + 1
    /\ clock' = 0
    /\ vrfs' = {}
    /\ votes' = {m \in votes : m.round + MaxStale > round}
    /\ UNCHANGED <<tip, pc, ran, chainVars, listVars, pending, outcome, blocks,
                   approved, won>>

-----------------------------------------------------------------------------
(* The round thread                                                        *)

\* Fault: producer_refs keeps what the last round left there.
BeginWithOldRefs(n) ==
    /\ pc[n] = "12"
    /\ clock = 0
    /\ ran[n] < round
    /\ ran' = [ran EXCEPT ![n] = round]
    /\ ready' = [ready EXCEPT ![n] = TRUE]
    /\ height' = [height EXCEPT ![n] = 0]
    /\ stuck' = [stuck EXCEPT ![n] = (tip[n] = prevHash[n])]
    /\ prevHash' = [prevHash EXCEPT ![n] = tip[n]]
    /\ pc' = [pc EXCEPT ![n] = "2"]
    /\ UNCHANGED <<sched, tip, template, listVars, pending, refs, lastWinner, network, won>>

\* Parts 1 and 2: producer_refs is cleared and the previous hash read.
BeginRound(n) ==
    /\ pc[n] = "12"
    /\ clock = 0
    /\ ran[n] < round
    /\ ran' = [ran EXCEPT ![n] = round]
    /\ refs' = [refs EXCEPT ![n] = NoRef]
    /\ ready' = [ready EXCEPT ![n] = TRUE]
    /\ height' = [height EXCEPT ![n] = 0]
    /\ stuck' = [stuck EXCEPT ![n] = (tip[n] = prevHash[n])]
    /\ prevHash' = [prevHash EXCEPT ![n] = tip[n]]
    /\ pc' = [pc EXCEPT ![n] = "2"]
    /\ UNCHANGED <<sched, tip, template, listVars, pending, lastWinner, network, won>>

\* Parts 3 and 4: the height is read by a second call and the VRF data sent.
SendVrf(n) ==
    /\ pc[n] = "2"
    /\ clock = 0
    /\ height' = [height EXCEPT ![n] = NextHeight(tip[n])]
    /\ vrfs' = vrfs \cup {[from |-> n, prev |-> prevHash[n], height |-> height'[n]]}
    /\ pc' = [pc EXCEPT ![n] = "4"]
    /\ UNCHANGED <<sched, tip, ran, prevHash, stuck, template, listVars, pending, outcome,
                   votes, blocks, approved, won>>

\* The delegates whose VRF message passes verify_data and the VRF handler.
Heard(n) == {m.from : m \in {v \in vrfs : v.prev = prevHash[n] /\ v.height = height[n]}}

\* The committee and the slot that follow from what a delegate sees online.
CommitteeOf(n, on, late) ==
    CommitteeList(on, on \ late, height[n], Bootstrap(n))

SlotOf(n, com) == ProducerSlot(com, Bootstrap(n), stuck[n], lastWinner[n])

VotersOf(n, com) == {com[i] : i \in 1..CommitteeCount(com, Bootstrap(n))}

\* What a delegate may find online at :20.  Part 5 does not hold the lock of
\* the VRF handler: a delegate can be marked online whose beta is still to come
\* ("late"), or have a beta and a proof that was not all there yet ("torn").
Views(n) ==
    {v \in [online : SUBSET Heard(n), late : SUBSET Faulty, torn : SUBSET Torn] :
        /\ Cardinality(Heard(n) \ v.online) <= MaxMissing
        /\ v.late \cup v.torn \subseteq v.online
        /\ v.late \cap v.torn = {}}

\* Quorum, a candidate, and the VRF data of the candidate if this node votes.
CanVote(n, v) ==
    LET com == CommitteeOf(n, v.online, v.late)
        s   == SlotOf(n, com)
    IN  /\ QuorumReached(v.online)
        /\ s # 0
        /\ n \in VotersOf(n, com) => com[s] \notin v.late

\* A torn proof that is empty keeps the delegate from voting, another does not.
MayLackProof(n, v) ==
    LET com == CommitteeOf(n, v.online, v.late)
        s   == SlotOf(n, com)
    IN  s # 0 /\ n \in VotersOf(n, com) /\ com[s] \in v.torn

(***************************************************************************)
(* Parts 5 to 7, from :20: the delegates known to be online are packed, the*)
(* committee is built, a member records its own vote and sends it.         *)
(***************************************************************************)
Vote(n) ==
    /\ pc[n] = "4"
    /\ clock = 1
    /\ \E v \in Views(n) :
        LET com  == CommitteeOf(n, v.online, v.late)
            p    == com[SlotOf(n, com)]
            mine == n \in VotersOf(n, com)
        IN  /\ CanVote(n, v)
            /\ list' = [list EXCEPT ![n] = com]
            /\ slot' = [slot EXCEPT ![n] = SlotOf(n, com)]
            /\ gaps' = [gaps EXCEPT ![n] = Members(com) \cap (v.late \cup v.torn)]
            /\ selected' = [selected EXCEPT ![n] =
                  IF mine THEN [NoVotes EXCEPT ![n] = p] ELSE NoVotes]
            /\ voteTotal' = [voteTotal EXCEPT ![n] =
                  IF mine THEN [NoTotals EXCEPT ![p] = 1] ELSE NoTotals]
            /\ votes' = IF mine
                  THEN votes \cup {[from |-> n, round |-> round, choice |-> p,
                                    prev |-> prevHash[n], height |-> height[n],
                                    keys |-> Members(com), whole |-> p \notin v.torn,
                                    to |-> VotersOf(n, com) \ {n}]}
                  ELSE votes
    /\ pc' = [pc EXCEPT ![n] = "7"]
    /\ UNCHANGED <<sched, tip, ran, chainVars, tallied, pending, outcome, vrfs, blocks,
                   approved, won>>

\* From :30, a delegate outside the committee takes its own candidate for
\* the winner.
FollowCandidate(n) ==
    /\ pc[n] = "7"
    /\ clock >= 2
    /\ n \notin Electors(n)
    /\ refs' = [refs EXCEPT ![n] = [producer |-> list[n][slot[n]], voters |-> {}]]
    /\ lastWinner' = [lastWinner EXCEPT ![n] = list[n][slot[n]]]
    /\ pc' = [pc EXCEPT ![n] = "12"]
    /\ UNCHANGED <<sched, tip, ran, chainVars, listVars, pending, ready, network, won>>

\* Fault: the member counts as soon as it has voted.
FindWinnerAtOnce(n) ==
    /\ pc[n] = "7"
    /\ clock >= 1
    /\ n \in Electors(n)
    /\ \E top \in 1..Count(n) :
        LET total(i) == voteTotal[n][list[n][i]]
        IN  /\ \A i \in 1..Count(n) :
                  total(i) < total(top) \/ (total(i) = total(top) /\ top <= i)
            /\ tallied' = [tallied EXCEPT ![n] = [max |-> total(top), index |-> top]]
    /\ pc' = [pc EXCEPT ![n] = "7_counted"]
    /\ UNCHANGED <<sched, tip, ran, chainVars, list, slot, selected, voteTotal, gaps,
                   pending, outcome, network, won>>

\* From :30, a committee member finds the first slot with the most votes ...
FindWinner(n) ==
    /\ pc[n] = "7"
    /\ clock >= 2
    /\ n \in Electors(n)
    /\ \E top \in 1..Count(n) :
        LET total(i) == voteTotal[n][list[n][i]]
        IN  /\ \A i \in 1..Count(n) :
                  total(i) < total(top) \/ (total(i) = total(top) /\ top <= i)
            /\ tallied' = [tallied EXCEPT ![n] = [max |-> total(top), index |-> top]]
    /\ pc' = [pc EXCEPT ![n] = "7_counted"]
    /\ UNCHANGED <<sched, tip, ran, chainVars, list, slot, selected, voteTotal, gaps,
                   pending, outcome, network, won>>

CountedVoters(n) == VotersFor(n, list[n][tallied[n].index])

\* ... and, in a second critical section, who cast them.
VotesCoherent(n) ==
    /\ tallied[n].max > 0
    /\ Cardinality(CountedVoters(n)) = tallied[n].max
    /\ tallied[n].index = slot[n]

\* Faults: a half, or the most votes, decide.
HalfTheVotes(n) == tallied[n].max * 2 >= Count(n)
MostVotes(n) == tallied[n].max > 0

EnoughVotes(n) == tallied[n].max >= Need(n)

Elect(n) ==
    /\ pc[n] = "7_counted"
    /\ VotesCoherent(n)
    /\ EnoughVotes(n)
    /\ LET p == list[n][slot[n]]
       IN  /\ lastWinner' = [lastWinner EXCEPT ![n] = p]
           /\ refs' = [refs EXCEPT ![n] = [producer |-> p, voters |-> CountedVoters(n)]]
           /\ won' = won \cup {[round |-> round, producer |-> p]}
    /\ pc' = [pc EXCEPT ![n] = "8"]
    /\ UNCHANGED <<sched, tip, ran, chainVars, listVars, pending, ready, network>>

\* Part 8: the height must not have moved, unless the daemon does not say;
\* only the producer goes on.
ConfirmHeight(n) ==
    /\ pc[n] = "8"
    /\ NextHeight(tip[n]) = height[n] \/ n \in Faulty
    /\ pc' = [pc EXCEPT ![n] = IF refs[n].producer = n THEN "9" ELSE "12"]
    /\ UNCHANGED <<sched, tip, ran, chainVars, listVars, pending, outcome, network, won>>

-----------------------------------------------------------------------------
(* Blocks                                                                  *)

\* Fault: the parent is not compared with the previous hash of the round.
AcceptsOrphan(n, b) ==
    (ready[n] /\ NextHeight(b.parent) = height[n])
        => /\ refs[n].producer # None
           /\ pc[n] = "12" \/ (pc[n] = "11" /\ refs[n].producer = n)
           /\ b.producer = refs[n].producer

\* validate_block: only a delegate in its live round holds a block against
\* the producer it expects.
AcceptsBlock(n, b) ==
    (ready[n] /\ NextHeight(b.parent) = height[n])
        => /\ refs[n].producer # None
           /\ pc[n] = "12" \/ (pc[n] = "11" /\ refs[n].producer = n)
           /\ b.parent = prevHash[n]
           /\ b.producer = refs[n].producer

\* The daemon takes the block and its answer comes too late or not at all:
\* the block goes its way while the round of its producer ends in error.
AnswerLate(n) ==
    /\ n \in Faulty
    /\ lastWinner' = [lastWinner EXCEPT ![n] = None]
    /\ ready' = [ready EXCEPT ![n] = FALSE]
    /\ UNCHANGED refs

\* Parts 9 and 10: the template builds on what is the daemon's tip by now.
MakeTemplate(n) ==
    /\ pc[n] = "9"
    /\ template' = [template EXCEPT ![n] = tip[n]]
    /\ pc' = [pc EXCEPT ![n] = "11"]
    /\ UNCHANGED <<sched, tip, ran, prevHash, height, stuck, listVars, pending, outcome,
                   network, won>>

\* The daemon appends a block on its tip that this delegate lets pass.
Submittable(n) ==
    /\ template[n] = tip[n]
    /\ AcceptsBlock(n, [parent |-> template[n], producer |-> n])

\* Fault: a submission that was not answered is repeated.
SubmitTwice(n) ==
    /\ pc[n] = "11"
    /\ Submittable(n)
    /\ tip' = [tip EXCEPT ![n] = Append(@, n)]
    /\ approved' = [approved EXCEPT ![n] = {}]
    /\ blocks' = blocks \cup {[parent |-> template[n], producer |-> n, round |-> round]}
    /\ \/ pc' = [pc EXCEPT ![n] = "12"]
       \/ /\ n \in Faulty /\ Len(tip[n]) < Len(Genesis) + 2 * MaxRound
          /\ pc' = [pc EXCEPT ![n] = "9"]
    /\ UNCHANGED <<sched, ran, chainVars, listVars, pending, outcome, vrfs, votes, won>>

\* Part 11: the daemon asks this delegate to validate the block like any other.
SubmitBlock(n) ==
    /\ pc[n] = "11"
    /\ Submittable(n)
    /\ tip' = [tip EXCEPT ![n] = Append(@, n)]
    /\ approved' = [approved EXCEPT ![n] = {}]
    /\ blocks' = blocks \cup {[parent |-> template[n], producer |-> n, round |-> round]}
    /\ UNCHANGED outcome \/ AnswerLate(n)
    /\ template' = [template EXCEPT ![n] = <<>>]
    /\ pc' = [pc EXCEPT ![n] = "12"]
    /\ UNCHANGED <<sched, ran, prevHash, height, stuck, listVars, pending, vrfs, votes, won>>

\* A block on the tip of a delegate's daemon reaches it, and the daemon asks
\* for validation.  A refused block can be offered again: daemons keep
\* exchanging what they miss.
ValidateBlock(n, b) ==
    /\ b.parent = tip[n]
    /\ b \notin approved[n]
    /\ AcceptsBlock(n, b)
    /\ approved' = [approved EXCEPT ![n] = @ \cup {b}]
    /\ UNCHANGED <<sched, tip, pc, ran, chainVars, listVars, pending, outcome, vrfs, votes,
                   blocks, won>>

\* The daemon appends a block that passed; the round may have gone on since.
AppendBlock(n, b) ==
    /\ b \in approved[n]
    /\ b.parent = tip[n]
    /\ tip' = [tip EXCEPT ![n] = Append(@, b.producer)]
    /\ approved' = [approved EXCEPT ![n] = {}]
    /\ UNCHANGED <<sched, pc, ran, chainVars, listVars, pending, outcome, vrfs, votes,
                   blocks, won>>

-----------------------------------------------------------------------------
(* Vote messages: the gate and the first critical section, then the second *)

\* The wallet signature covers height, producer and the set of committee keys.
VoteSigned(n, m) ==
    /\ m.height = height[n]
    /\ m.keys = Members(list[n])

\* verify_data: same round part, same previous hash.
VoteAdmitted(n, m) ==
    /\ pc[n] \in {"7", "7_counted"}
    /\ m.prev = prevHash[n]
    /\ VoteSigned(n, m)

\* Fault: a delegate's vote is recorded again.
RecordVoteAgain(n, m) ==
    /\ n \in m.to
    /\ VoteAdmitted(n, m)
    /\ m.from \in Members(list[n])
    /\ selected' = [selected EXCEPT ![n][m.from] = m.choice]
    /\ pending' = [pending EXCEPT ![n] = @ \cup {m}]
    /\ UNCHANGED <<sched, tip, pc, ran, chainVars, list, slot, voteTotal, tallied, gaps,
                   outcome, network, won>>

RecordVote(n, m) ==
    /\ n \in m.to
    /\ VoteAdmitted(n, m)
    /\ m.from \in Members(list[n])
    /\ selected[n][m.from] = None
    /\ selected' = [selected EXCEPT ![n][m.from] = m.choice]
    /\ pending' = [pending EXCEPT ![n] = @ \cup {m}]
    /\ UNCHANGED <<sched, tip, pc, ran, chainVars, list, slot, voteTotal, tallied, gaps,
                   outcome, network, won>>

\* A vote counts if it was cast at the height and with the VRF data of the
\* candidate that this delegate has; two torn proofs differ.
VoteMatches(n, m) ==
    /\ m.height = height[n]
    /\ m.whole
    /\ m.choice \notin gaps[n]

\* The voter stays recorded when its vote does not count.
AddVote(n, m) ==
    /\ m \in pending[n]
    /\ pending' = [pending EXCEPT ![n] = @ \ {m}]
    /\ voteTotal' = IF m.choice \in Members(list[n]) /\ VoteMatches(n, m)
                    THEN [voteTotal EXCEPT ![n][m.choice] = @ + 1]
                    ELSE voteTotal
    /\ UNCHANGED <<sched, tip, pc, ran, chainVars, list, slot, selected, tallied, gaps,
                   outcome, network, won>>

-----------------------------------------------------------------------------
(* Failure                                                                 *)

\* What ends a round with ROUND_ERROR: a sync point missed, no quorum or no
\* candidate, its proof missing, an election that does not add up, a height
\* that drifted, a block refused by the delegate or on a tip left behind, or a
\* failing call (only of the delegates in Faulty).
RoundBlocked(n) ==
    \/ pc[n] = "2"  /\ clock > 0
    \/ pc[n] = "4"  /\ clock = 1 /\ \E v \in Views(n) : ~CanVote(n, v) \/ MayLackProof(n, v)
    \/ pc[n] = "4"  /\ clock > 1
    \/ pc[n] = "7_counted" /\ ~(VotesCoherent(n) /\ EnoughVotes(n))
    \/ pc[n] = "8"  /\ NextHeight(tip[n]) # height[n]
    \/ pc[n] = "11" /\ ~Submittable(n)
    \/ InRound(n)   /\ n \in Faulty

\* The tally names the winner before it compares the votes with the need.
RoundError(n) ==
    /\ RoundBlocked(n)
    /\ lastWinner' = [lastWinner EXCEPT ![n] = None]
    /\ ready' = [ready EXCEPT ![n] = FALSE]
    /\ template' = [template EXCEPT ![n] = <<>>]
    /\ pc' = [pc EXCEPT ![n] = "12"]
    /\ UNCHANGED <<sched, tip, ran, prevHash, height, stuck, listVars, pending, refs,
                   network, won>>

\* The process is restarted; it enters a round again at the next minute.
Restart(n) ==
    /\ n \in Faulty
    /\ ran' = [ran EXCEPT ![n] = round]
    /\ pc' = [pc EXCEPT ![n] = "12"]
    /\ prevHash' = [prevHash EXCEPT ![n] = <<None>>]
    /\ height' = [height EXCEPT ![n] = 0]
    /\ stuck' = [stuck EXCEPT ![n] = FALSE]
    /\ template' = [template EXCEPT ![n] = <<>>]
    /\ list' = [list EXCEPT ![n] = <<>>]
    /\ slot' = [slot EXCEPT ![n] = 0]
    /\ selected' = [selected EXCEPT ![n] = NoVotes]
    /\ voteTotal' = [voteTotal EXCEPT ![n] = NoTotals]
    /\ gaps' = [gaps EXCEPT ![n] = {}]
    /\ pending' = [pending EXCEPT ![n] = {}]
    /\ refs' = [refs EXCEPT ![n] = NoRef]
    /\ lastWinner' = [lastWinner EXCEPT ![n] = None]
    /\ ready' = [ready EXCEPT ![n] = FALSE]
    /\ UNCHANGED <<sched, tip, tallied, network, won>>

-----------------------------------------------------------------------------
RoundStep(n) ==
    \/ BeginRound(n)
    \/ SendVrf(n)
    \/ Vote(n)
    \/ FollowCandidate(n)
    \/ FindWinner(n)
    \/ Elect(n)
    \/ ConfirmHeight(n)
    \/ MakeTemplate(n)
    \/ SubmitBlock(n)
    \/ RoundError(n)
    \/ Restart(n)

Receive(n) ==
    \/ \E b \in blocks : ValidateBlock(n, b)
    \/ \E b \in approved[n] : AppendBlock(n, b)
    \/ \E m \in votes : RecordVote(n, m)
    \/ \E m \in pending[n] : AddVote(n, m)

Next ==
    \/ Tick
    \/ NextRound
    \/ \E n \in Node : RoundStep(n) \/ Receive(n)

Spec == Init /\ [][Next]_vars

-----------------------------------------------------------------------------
(* Properties                                                              *)

VoteMessage ==
    [from : Node, round : Nat, choice : Node, prev : Seq(Node \cup {None}),
     height : Nat, keys : SUBSET Node, whole : BOOLEAN, to : SUBSET Node]

Block == [parent : Chain, producer : Node, round : Nat]

\* The variables have their types.
TypeOK ==
    /\ round \in Nat \ {0}
    /\ clock \in 0..3
    /\ tip \in [Node -> Chain]
    /\ pc \in [Node -> {"12", "2", "4", "7", "7_counted", "8", "9", "11"}]
    /\ ran \in [Node -> Nat]
    /\ prevHash \in [Node -> Seq(Node \cup {None})]
    /\ height \in [Node -> Nat]
    /\ stuck \in [Node -> BOOLEAN]
    /\ template \in [Node -> Chain]
    /\ list \in [Node -> Seq(Node)]
    /\ slot \in [Node -> Nat]
    /\ selected \in [Node -> [Node -> Node \cup {None}]]
    /\ voteTotal \in [Node -> [Node -> Nat]]
    /\ tallied \in [Node -> [max : Nat, index : Nat]]
    /\ gaps \in [Node -> SUBSET Node]
    /\ votes \subseteq VoteMessage
    /\ pending \in [Node -> SUBSET VoteMessage]
    /\ refs \in [Node -> [producer : Node \cup {None}, voters : SUBSET Node]]
    /\ lastWinner \in [Node -> Node \cup {None}]
    /\ ready \in [Node -> BOOLEAN]
    /\ vrfs \subseteq [from : Node, prev : Seq(Node \cup {None}), height : Nat]
    /\ blocks \subseteq Block
    /\ approved \in [Node -> SUBSET Block]
    /\ won \subseteq [round : Nat, producer : Node]

\* The delegate is between its vote and the end of its round.
Voting(n) == pc[n] \in {"7", "7_counted", "8", "9", "11"}

\* A vote v cast in this round, on the chain and for the committee of n.
Cast(v, p, n) ==
    \E m \in votes : /\ m.from = v /\ m.choice = p /\ m.round = round
                     /\ m.prev = prevHash[n] /\ m.keys = Members(list[n])

\* A vote a delegate has recorded was signed by the voter in this round: the
\* comment above the signed key set says it binds the vote to the round.
VotesBoundToRound ==
    \A n, v \in Node :
        /\ Voting(n)
        /\ selected[n][v] # None
        => Cast(v, selected[n][v], n)

\* A total and the votes whose handler is between its two critical sections
\* never run ahead of the voters recorded, so that no vote is added twice; and
\* they fall behind only for a candidate whose VRF data was not complete when
\* this delegate or one of its voters packed the list: no other vote gets lost.
TotalsMatchVoters ==
    \A n, p \in Node : Voting(n) =>
        LET counted == voteTotal[n][p] + Cardinality({m \in pending[n] : m.choice = p})
            voters  == Cardinality({v \in Node : selected[n][v] = p})
        IN  /\ counted <= voters
            /\ counted < voters
                  => p \in gaps[n] \/ \E m \in votes : m.choice = p /\ ~m.whole

\* Who holds an election result of this round holds enough votes for it, each
\* cast in this round by a member of the committee the delegate counted in.
ElectionCertified ==
    \A n \in Node :
        ran[n] = round /\ Elected(n)
        => /\ Cardinality(refs[n].voters) >= Need(n)
           /\ \A v \in refs[n].voters : v \in Electors(n) /\ Cast(v, refs[n].producer, n)

\* The two thirds of two committees overlap.
MustOverlap(n1, n2) ==
    Need(n1) + Need(n2) > Cardinality(Electors(n1) \cup Electors(n2))

\* Two delegates that elect in the same round elect the same producer, even
\* when they do not see the same delegates online, as long as the majorities
\* of their committees overlap.
Agreement ==
    \A n1, n2 \in Node :
        /\ ran[n1] = round /\ Elected(n1)
        /\ ran[n2] = round /\ Elected(n2)
        /\ MustOverlap(n1, n2)
        => refs[n1].producer = refs[n2].producer

\* The two thirds of the committees that vote in this round overlap.
VotesOverlap ==
    LET needed(keys) ==
            AgreementNeeded(Smaller(Cardinality(keys), CommitteeSize + SeedCount))
    IN  \A m1, m2 \in votes :
            needed(m1.keys) + needed(m2.keys) > Cardinality(m1.keys \cup m2.keys)

\* The blocks of a round are of one producer as long as the votes overlap, also
\* when the delegate that made the first has forgotten its election since, was
\* restarted or got no answer from its daemon, and others elect only then.
OneProducer ==
    \A b1, b2 \in blocks :
        b1.round = round /\ b2.round = round /\ b1.producer # b2.producer => ~VotesOverlap

\* A chain that ends with a block of an earlier round.
EndsEarlier(c) ==
    \E b \in blocks : b.round < round /\ c = Append(b.parent, b.producer)

\* A block is only submitted by a producer a committee elected in that round.
\* It extends the chain the committee voted on, unless that chain has grown
\* past the height of the election and the check of Part 8 did not see it,
\* because it failed or came too soon.  What it then extends is a late block
\* of an earlier round, never one of its own, as long as the votes overlap.
BlocksElectedOnChain ==
    [][\A b \in blocks' \ blocks :
          LET p == b.producer
          IN  /\ [round |-> round, producer |-> p] \in won
              /\ b.parent # prevHash[p] =>
                    /\ NextHeight(b.parent) > height[p]
                    /\ VotesOverlap => EndsEarlier(b.parent)]_vars

\* What the rounds promise, read off their state.
Ballots == {[voter |-> m.from, choice |-> m.choice, keys |-> m.keys] :
               m \in {v \in votes : v.round = round}}

Certificates == [n \in Node |-> IF ran[n] = round /\ Elected(n) THEN refs[n] ELSE NoRef]

Made == [n \in Node |-> Cardinality({b \in blocks : b.round = round /\ b.producer = n})]

Promise ==
    INSTANCE Ballot WITH
        CommitteeMax <- CommitteeSize + SeedCount, minute <- round, cast <- Ballots,
        certificate <- Certificates, made <- Made

\* The rounds implement the abstract ballot: one vote for each delegate in a
\* round, elections only from two thirds of the votes for one set of keys,
\* one block from an election at most.
KeepsBallot == Promise!Spec
=============================================================================
