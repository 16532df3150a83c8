--------------------------- MODULE ReserveProofs ---------------------------
(***************************************************************************)
(* Votes for delegates.  A wallet votes with a reserve proof: the handler  *)
(* threads of the seeds store it in the reserve_proofs collection they     *)
(* share (delegate_server_functions.c), and twice a day the job of one     *)
(* seed (run_proof_check, xcash_timer_thread.c) scans the collection,      *)
(* removes the votes that no longer hold, writes the total of every        *)
(* delegate and sends each its payouts.  The collection is read through a  *)
(* cursor, batch by batch in insertion order, while votes keep coming in.  *)
(* New totals are announced to the other delegates too; handle_srv_message *)
(* has no case for that message, so that receiving it changes nothing.     *)
(***************************************************************************)
EXTENDS Integers, FiniteSets, FiniteSetsExt

CONSTANTS
    Delegate,     \* the delegates, seeds excepted
    Vote,         \* the votes wallets may send: [voter, delegate, proof, amount]
    Thread,       \* threads of the seeds that handle votes
    BatchSize,    \* documents a cursor fetches at a time
    MaxProofs,    \* MAX_PROOFS_PER_DELEGATE_HARD
    MaxInserts,   \* bound: votes stored in a behaviour
    WalletFails,  \* bound: whether the wallet's RPC may fail during the job
    None          \* no vote

ASSUME ReserveAssumption ==
    /\ \A v \in Vote : v.delegate \in Delegate /\ v.amount \in Nat \ {0}
    /\ IsFiniteSet(Vote)
    /\ BatchSize \in Nat \ {0}
    /\ MaxProofs \in Nat \ {0}
    /\ MaxInserts \in Nat
    /\ WalletFails \in BOOLEAN
    /\ None \notin Vote

VARIABLES
    spent,     \* proofs with an output that was spent since
    proofs,    \* the documents of reserve_proofs, numbered as they came in
    inserts,   \* how many came in so far
    request,   \* the vote a thread works on
    step,      \* how far it is: "idle", "proved" or "replaced"
    job,       \* "idle", "scan", "totals", "zeros" or "payouts"
    batch,     \* documents fetched and not yet looked at
    last,      \* the number of the last one fetched
    counted,   \* the documents in agg_total and in pay_buckets
    online,    \* delegates_timer_all: who was online at :47
    todo,      \* delegates the current pass has still to treat
    total,     \* total_vote_count in the seeds' delegates collection
    payouts,   \* the last payout instruction each delegate received
    standing,  \* history: documents stored since before the scan began and
               \* neither removed nor spent nor found invalid
    quiet      \* history: nothing stored, removed, spent or failed since then

handlers == <<request, step>>
cursor   == <<batch, last, counted>>
pass     == <<online, todo>>
ledger   == <<total, payouts>>
vars == <<spent, proofs, inserts, handlers, job, cursor, pass, ledger, standing, quiet>>

\* The document the handler builds for vote v, inserted as the n-th.
Document(v, n) ==
    [id |-> v.voter, public_address_voted_for |-> v.delegate,
     total_vote |-> v.amount, reserve_proof |-> v.proof, seq |-> n]

StoredBy(w) == {p \in proofs : p.id = w}
StoredFor(d) == {p \in proofs : p.public_address_voted_for = d}
CountedFor(d) == {p \in counted : p.public_address_voted_for = d}
Sum(docs) == MapThenSumSet(LAMBDA p : p.total_vote, docs)

\* check_reserve_proofs: the proof is good and none of its outputs is spent.
Holds(proof) == proof \notin spent

\* The number of votes for d as the handler asks for it: its filter names a
\* field that the documents do not have.
FilterField == "voted_for_public_address"
VotesFound(d) ==
    Cardinality({p \in proofs : FilterField \in DOMAIN p /\ p[FilterField] = d})

\* Mutant: a total that is not known yet is -1 (current_total).
Unknown == [d \in Delegate |-> -1]

NoTotal == [d \in Delegate |-> 0]

Init ==
    /\ spent = {}
    /\ proofs = {}
    /\ inserts = 0
    /\ request = [t \in Thread |-> None]
    /\ step = [t \in Thread |-> "idle"]
    /\ job = "idle"
    /\ batch = {}
    /\ last = 0
    /\ counted = {}
    /\ online = {}
    /\ todo = {}
    /\ total = NoTotal
    /\ payouts = [d \in Delegate |-> {}]
    /\ standing = {}
    /\ quiet = FALSE

-----------------------------------------------------------------------------
(* External: a wallet spends an output that a proof covers.                *)

Spend(proof) ==
    /\ Holds(proof)
    /\ spent' = spent \cup {proof}
    /\ standing' = {p \in standing : p.reserve_proof # proof}
    /\ quiet' = FALSE
    /\ UNCHANGED <<proofs, inserts, handlers, job, cursor, pass, ledger>>

-----------------------------------------------------------------------------
(* The handler of NODES_TO_BLOCK_VERIFIERS_VOTE and _REVOTE.               *)

\* The proof holds, and this very vote is not stored yet.
Prove(t, v) ==
    /\ step[t] = "idle"
    /\ inserts < MaxInserts
    /\ Holds(v.proof)
    /\ \A p \in StoredBy(v.voter) : p # Document(v, p.seq)
    /\ request' = [request EXCEPT ![t] = v]
    /\ step' = [step EXCEPT ![t] = "proved"]
    /\ UNCHANGED <<spent, proofs, inserts, job, cursor, pass, ledger, standing, quiet>>

\* "One vote per wallet": the earlier vote is deleted by its voter; whether the
\* database did so is not looked at.
Replace(t) ==
    /\ step[t] = "proved"
    /\ proofs' \in {proofs, proofs \ StoredBy(request[t].voter)}
    /\ step' = [step EXCEPT ![t] = "replaced"]
    /\ standing' = standing \cap proofs'
    /\ quiet' = (quiet /\ proofs' = proofs)
    /\ UNCHANGED <<spent, inserts, request, job, cursor, pass, ledger>>

\* The insertion fails when the delegate is full, another thread stored a vote
\* of this wallet, or the database (or the seed) stops: the vote is then lost.
Insert(t) ==
    /\ step[t] = "replaced"
    /\ step' = [step EXCEPT ![t] = "idle"]
    /\ request' = [request EXCEPT ![t] = None]
    /\ \/ /\ VotesFound(request[t].delegate) < MaxProofs
          /\ StoredBy(request[t].voter) = {}
          /\ inserts < MaxInserts
          /\ inserts' = inserts + 1
          /\ proofs' = proofs \cup {Document(request[t], inserts + 1)}
          /\ quiet' = FALSE
       \/ UNCHANGED <<proofs, inserts, quiet>>
    /\ UNCHANGED <<spent, job, cursor, pass, ledger, standing>>

-----------------------------------------------------------------------------
(* The job: the scan.                                                      *)

StartScan ==
    /\ job = "idle"
    /\ job' = "scan"
    /\ batch' = {}
    /\ last' = 0
    /\ counted' = {}
    /\ standing' = {p \in proofs : Holds(p.reserve_proof)}
    /\ quiet' = TRUE
    /\ UNCHANGED <<spent, proofs, inserts, handlers, pass, ledger>>

Ahead == {p \in proofs : p.seq > last}
First(docs) == CHOOSE p \in docs : \A q \in docs : p.seq <= q.seq

\* External: the driver fetches the next documents of the collection.
Fetch ==
    /\ job = "scan"
    /\ batch = {}
    /\ Ahead # {}
    /\ batch' = {p \in Ahead : Cardinality({q \in Ahead : q.seq < p.seq}) < BatchSize}
    /\ last' = Max({p.seq : p \in batch'})
    /\ UNCHANGED <<spent, proofs, inserts, handlers, job, counted, pass, ledger,
                   standing, quiet>>

\* Deletes by voter whatever that voter has stored by now; a deletion that the
\* database refuses is logged.
Prune(p) ==
    /\ proofs' \in {proofs, proofs \ StoredBy(p.id)}
    /\ standing' = (standing \cap proofs') \ {p}
    /\ quiet' = FALSE
    /\ UNCHANGED counted

CountDocument(p) ==
    /\ counted' = counted \cup {p}
    /\ UNCHANGED <<proofs, standing, quiet>>

\* Mutant: the loop stops at the first document that is not counted.
CheckUntilInvalid ==
    /\ job = "scan"
    /\ batch # {}
    /\ LET p == First(batch)
       IN  IF Holds(p.reserve_proof)
             THEN CountDocument(p) /\ batch' = batch \ {p}
             ELSE Prune(p) /\ batch' = {}
    /\ UNCHANGED <<spent, inserts, handlers, job, last, pass, ledger>>

\* Validates the next document.  A wallet that does not answer makes it invalid.
Check ==
    /\ job = "scan"
    /\ batch # {}
    /\ LET p == First(batch)
       IN  /\ batch' = batch \ {p}
           /\ \/ Holds(p.reserve_proof) /\ CountDocument(p)
              \/ (WalletFails \/ ~Holds(p.reserve_proof)) /\ Prune(p)
    /\ UNCHANGED <<spent, inserts, handlers, job, last, pass, ledger>>

\* At :47 after the scan: who is online.
Snapshot ==
    /\ job' = "totals"
    /\ online' \in SUBSET Delegate
    /\ todo' = {d \in Delegate : CountedFor(d) # {}}

EndScan ==
    /\ job = "scan"
    /\ batch = {}
    /\ Ahead = {}
    /\ Snapshot
    /\ UNCHANGED <<spent, proofs, inserts, handlers, cursor, ledger, standing, quiet>>

\* A cursor error is logged, and the job goes on with what it has counted.
ScanFails ==
    /\ job = "scan"
    /\ batch = {}
    /\ Snapshot
    /\ standing' = {}
    /\ quiet' = FALSE
    /\ UNCHANGED <<spent, proofs, inserts, handlers, cursor, ledger>>
-----------------------------------------------------------------------------
(* The job: totals and payouts.                                            *)

\* A write that the database refuses is logged, and the pass goes on.
WriteFails == quiet' = FALSE /\ UNCHANGED total

\* Writes a total, unless it is the one already stored.
WriteTotal(d) ==
    /\ job = "totals"
    /\ d \in todo
    /\ todo' = todo \ {d}
    /\ LET amount == Sum(CountedFor(d))
       IN  \/ /\ total[d] # amount
              /\ total' = [total EXCEPT ![d] = amount]
              /\ UNCHANGED quiet
           \/ total[d] # amount /\ WriteFails
           \/ total[d] = amount /\ UNCHANGED <<total, quiet>>
    /\ UNCHANGED <<spent, proofs, inserts, handlers, job, cursor, online, payouts,
                   standing>>

EndTotals ==
    /\ job = "totals"
    /\ todo = {}
    /\ job' = "zeros"
    /\ todo' = online
    /\ UNCHANGED <<spent, proofs, inserts, handlers, cursor, online, ledger, standing,
                   quiet>>

\* Mutant: a delegate without votes keeps its total.
KeepTotal(d) ==
    /\ job = "zeros"
    /\ d \in todo
    /\ todo' = todo \ {d}
    /\ UNCHANGED <<spent, proofs, inserts, handlers, job, cursor, online, total, payouts,
                   standing, quiet>>

\* The total of an online delegate that has no votes becomes 0.
ZeroTotal(d) ==
    /\ job = "zeros"
    /\ d \in todo
    /\ todo' = todo \ {d}
    /\ \/ /\ StoredFor(d) = {}
          /\ total' = [total EXCEPT ![d] = 0]
          /\ UNCHANGED quiet
       \/ StoredFor(d) = {} /\ WriteFails
       \/ StoredFor(d) # {} /\ UNCHANGED <<total, quiet>>
    /\ UNCHANGED <<spent, proofs, inserts, handlers, job, cursor, online, payouts,
                   standing>>

EndZeros ==
    /\ job = "zeros"
    /\ todo = {}
    /\ job' = "payouts"
    /\ todo' = online \cup {d \in Delegate : CountedFor(d) # {}}
    /\ UNCHANGED <<spent, proofs, inserts, handlers, cursor, online, ledger, standing,
                   quiet>>

\* Mutant: the empty instruction goes to delegates that have votes as well.
PayNothing(d) ==
    /\ job = "payouts"
    /\ d \in todo
    /\ todo' = todo \ {d}
    /\ payouts' = [payouts EXCEPT ![d] = {}]
    /\ UNCHANGED <<spent, proofs, inserts, handlers, job, cursor, online, total,
                   standing, quiet>>

\* First the instructions with outputs, then the empty ones; delegates that
\* are not online get none, and a message that does not arrive is not resent.
Pay(d) ==
    /\ job = "payouts"
    /\ d \in todo
    /\ CountedFor(d) = {} => \A e \in todo : CountedFor(e) = {}
    /\ todo' = todo \ {d}
    /\ \/ /\ d \in online
          /\ payouts' = [payouts EXCEPT ![d] = CountedFor(d)]
          /\ UNCHANGED quiet
       \/ d \in online /\ quiet' = FALSE /\ UNCHANGED payouts
       \/ d \notin online /\ UNCHANGED <<payouts, quiet>>
    /\ UNCHANGED <<spent, proofs, inserts, handlers, job, cursor, online, total,
                   standing>>

\* The job ends, or the seed stops in the middle of it; what it holds in memory
\* is gone or cleared by the next one.
EndJob ==
    /\ job # "idle"
    /\ job' = "idle"
    /\ batch' = {}
    /\ last' = 0
    /\ counted' = {}
    /\ online' = {}
    /\ todo' = {}
    /\ standing' = {}
    /\ quiet' = FALSE
    /\ UNCHANGED <<spent, proofs, inserts, handlers, ledger>>

-----------------------------------------------------------------------------

Handle == \E t \in Thread : (\E v \in Vote : Prove(t, v)) \/ Replace(t) \/ Insert(t)

Scan == StartScan \/ Fetch \/ Check \/ EndScan \/ ScanFails

Settle ==
    \/ EndTotals \/ EndZeros \/ EndJob
    \/ \E d \in Delegate : WriteTotal(d) \/ ZeroTotal(d) \/ Pay(d)

Next ==
    \/ \E v \in Vote : Spend(v.proof)
    \/ Handle
    \/ Scan
    \/ Settle

Spec == Init /\ [][Next]_vars

-----------------------------------------------------------------------------

Documents == {Document(v, n) : v \in Vote, n \in 1 .. MaxInserts}

TypeOK ==
    /\ spent \subseteq {v.proof : v \in Vote}
    /\ proofs \subseteq Documents
    /\ inserts \in 0 .. MaxInserts
    /\ request \in [Thread -> Vote \cup {None}]
    /\ step \in [Thread -> {"idle", "proved", "replaced"}]
    /\ job \in {"idle", "scan", "totals", "zeros", "payouts"}
    /\ batch \subseteq Documents
    /\ last \in 0 .. MaxInserts
    /\ counted \subseteq Documents
    /\ online \subseteq Delegate
    /\ todo \subseteq Delegate
    /\ total \in [Delegate -> Nat]
    /\ payouts \in [Delegate -> SUBSET Documents]
    /\ standing \subseteq proofs
    /\ quiet \in BOOLEAN

Scanned == job \in {"totals", "zeros", "payouts"}

\* Whatever votes come, go or fail during the scan, a vote that was stored
\* before it, still is, still holds and was not found invalid has been counted
\* (run_proof_check).
ScanCountsStanding == Scanned => standing \subseteq counted

\* After a job that nothing disturbed the total of every delegate that has
\* votes or is online is the sum of its votes, whatever it was before
\* (agg_total, the skip of unchanged totals, the pass that zeroes).
TotalsMatchVotes ==
    job = "payouts" /\ quiet =>
        \A d \in Delegate :
            d \in online \/ StoredFor(d) # {} => total[d] = Sum(StoredFor(d))

\* A job that nothing disturbed instructs every online delegate to pay the
\* votes it has, and no vote of an earlier job (pay_buckets).
PayoutsMatchVotes ==
    job = "payouts" /\ quiet =>
        \A d \in online \ todo : payouts[d] = StoredFor(d)

\* A stored vote goes away only because its voter votes again or because its
\* proof does not hold: the job "prunes invalid entries".
PrunesOnlySpent ==
    [][\A p \in proofs \ proofs' :
          \/ ~Holds(p.reserve_proof)
          \/ \E t \in Thread : step[t] = "proved" /\ Replace(t) /\ request[t].voter = p.id]_vars

\* A delegate never has more voters than MAX_PROOFS_PER_DELEGATE_HARD.
CapEnforced == \A d \in Delegate : Cardinality(StoredFor(d)) <= MaxProofs
=============================================================================
