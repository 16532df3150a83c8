------------------------------- MODULE DbSync -------------------------------
(***************************************************************************)
(* Keeping the copies of the delegates collection alike.  At the start of  *)
(* a round every delegate hashes its copy and sends the hash along with    *)
(* its VRF data (xcash_round.c); who receives another hash than its own    *)
(* marks the sender "partial" (block_verifiers_server_functions.c).  A     *)
(* delegate whose round failed although more than a fifth of the delegates *)
(* reported another hash asks one of them for its copy, drops its own and  *)
(* fills it again (db_sync.c,                                              *)
(* block_verifiers_synchronize_server_functions.c).  Seeds share one copy. *)
(*                                                                         *)
(* A copy is the sequence of its documents in the order they were written; *)
(* a document is a delegate and what its copy says of it.                  *)
(***************************************************************************)
EXTENDS Integers, Sequences, FiniteSets

CONSTANTS
    Node,             \* the delegates
    Seed,             \* those of them that are seed nodes
    FirstSeed,        \* network_nodes[0]
    Store,            \* the databases
    StoreOf,          \* the database of each delegate
    Content,          \* what a document may say of its delegate
    Start,            \* the copy in each database when the rounds start
    ValidAmount,      \* BLOCK_VERIFIERS_VALID_AMOUNT
    MajorityPercent,  \* MAJORITY_PERCENT
    MaxMissing,       \* bound: VRF messages a delegate may miss in a round
    MaxFails,         \* bound: fills that break off
    MaxMinute         \* bound: rounds explored

Doc == [delegate : Node, content : Content]

ASSUME SyncAssumption ==
    /\ IsFiniteSet(Node)
    /\ Seed \subseteq Node
    /\ StoreOf \in [Node -> Store]
    /\ \A n, m \in Node : StoreOf[n] = StoreOf[m] => n = m \/ {n, m} \subseteq Seed
    /\ Start \in [Store -> Seq(Doc)]
    /\ ValidAmount \in Nat \ {0}
    /\ MajorityPercent \in 0..100
    /\ MaxMissing \in Nat
    /\ MaxFails \in Nat
    /\ MaxMinute \in Nat \ {0}

VARIABLES
    minute,
    window,    \* 0 up to :20, 1 up to :50, 2 up to :57, 3 the rest
    chain,     \* height of the block to be made
    coll,      \* the delegates collection of each database
    known,     \* the delegates in delegates_all
    pc,        \* how far the round thread is in the minute
    height,    \* current_block_height
    hash,      \* delegates_hash: the documents that were hashed
    partial,   \* delegates marked "partial" in delegates_all
    mismatch,  \* delegate_db_hash_mismatch
    hellos,    \* VRF messages of the minute
    token,     \* sync_token, numbered
    requests,  \* sync requests under way
    answers,   \* copies under way
    filling,   \* documents the sync handler has still to write
    fails      \* how many fills broke off

roundVars == <<pc, height, hash, partial, mismatch>>
syncVars  == <<token, requests, answers, filling, fails>>
vars == <<minute, window, chain, coll, known, roundVars, hellos, syncVars>>

Docs(copy) == {copy[i] : i \in DOMAIN copy}
Delegates(copy) == {d.delegate : d \in Docs(copy)}
Own(n) == coll[StoreOf[n]]

\* The sync handler of n holds delegates_all_lock.
Locked(n) == filling[n] # <<>>

Init ==
    /\ minute = 1
    /\ window = 0
    /\ chain = 1
    /\ coll = Start
    /\ known = [n \in Node |-> Delegates(Start[StoreOf[n]])]
    /\ pc = [n \in Node |-> "idle"]
    /\ height = [n \in Node |-> 0]
    /\ hash = [n \in Node |-> {}]
    /\ partial = [n \in Node |-> {}]
    /\ mismatch = [n \in Node |-> 0]
    /\ hellos = {}
    /\ token = [n \in Node |-> 0]
    /\ requests = {}
    /\ answers = {}
    /\ filling = [n \in Node |-> <<>>]
    /\ fails = 0

-----------------------------------------------------------------------------
(* The clock                                                               *)

\* What the round threads have to reach before a sync point is passed.
Reached == <<{"sent", "failed"}, {"succeeded", "failed"}, {"done"}, {"loaded"}>>

Tick ==
    /\ window < 3
    /\ \A n \in Node : pc[n] \in Reached[window + 1]
    /\ window' = window + 1
    /\ UNCHANGED <<minute, chain, coll, known, roundVars, hellos, syncVars>>

\* The next minute; the chain may have advanced or be stuck.
NextMinute ==
    /\ window = 3
    /\ \A n \in Node : pc[n] \in Reached[4]
    /\ minute < MaxMinute
    /\ minute' = minute + 1
    /\ window' = 0
    /\ chain' \in {chain, chain + 1}
    /\ pc' = [n \in Node |-> "idle"]
    /\ hellos' = {}
    /\ UNCHANGED <<coll, known, height, hash, partial, mismatch, syncVars>>

-----------------------------------------------------------------------------
(* The round, as far as it concerns the copies                             *)

\* Fault: the count of the last round goes on.
LastMismatch(n) == mismatch[n]

\* delegate_db_hash_mismatch at the start of a round
NoMismatch(n) == 0

\* The VRF message, as far as it is about the copy; it is sent to all delegates
\* of the own list (XNET_DELEGATES_ALL).
Recipients(n) == known[n]
Hello(n) == [from |-> n, to |-> Recipients(n), hash |-> Docs(Own(n))]

\* Parts 1 to 4: the copy is hashed and the hash sent to all known delegates.
\* A delegate that is not in its own list ends the round here.
BeginRound(n) ==
    /\ window = 0
    /\ pc[n] = "idle"
    /\ mismatch' = [mismatch EXCEPT ![n] = NoMismatch(n)]
    /\ IF n \in known[n]
         THEN /\ hash' = [hash EXCEPT ![n] = Docs(Own(n))]
              /\ height' = [height EXCEPT ![n] = chain]
              /\ hellos' = hellos \cup {Hello(n)}
              /\ pc' = [pc EXCEPT ![n] = "sent"]
         ELSE /\ height' = [height EXCEPT ![n] = 0]
              /\ pc' = [pc EXCEPT ![n] = "failed"]
              /\ UNCHANGED <<hash, hellos>>
    /\ UNCHANGED <<minute, window, chain, coll, known, partial, syncVars>>

\* The messages that delegates known to n sent to it, and those among them
\* whose sender is in its copy (verify_the_ip).
Incoming(n) == {m \in hellos : m.from \in known[n] /\ n \in m.to}
Verified(n) == {m \in Incoming(n) : m.from \in Delegates(Own(n))}

Need(n) == (Cardinality(known[n]) * MajorityPercent + 99) \div 100

\* What n has heard by :20 decides whether it is online with enough delegates
\* that hold the same copy; later parts of the round may still fail.
CheckOnline(n) ==
    /\ window = 1
    /\ pc[n] = "sent"
    /\ \E heard \in SUBSET Incoming(n) :
        LET differing == {m \in heard : m.hash # hash[n]}
            online    == Cardinality(heard) - Cardinality(differing)
        IN  /\ Cardinality(Verified(n) \ heard) <= MaxMissing
            /\ partial' = [partial EXCEPT ![n] = {m.from : m \in differing}]
            /\ mismatch' = [mismatch EXCEPT ![n] = @ + Cardinality(differing)]
            /\ \/ /\ online >= ValidAmount /\ online >= Need(n)
                  /\ pc' = [pc EXCEPT ![n] = "succeeded"]
               \/ pc' = [pc EXCEPT ![n] = "failed"]
    /\ UNCHANGED <<minute, window, chain, coll, known, height, hash, hellos, syncVars>>

-----------------------------------------------------------------------------
(* The synchronization                                                     *)

\* Fault: a fifth is enough.
FifthDiffers(n) == mismatch[n] * 100 >= Cardinality(known[n]) * 20

\* More than 20 % of the delegates reported another hash.
TooManyDiffer(n) == mismatch[n] * 100 > Cardinality(known[n]) * 20

\* Fault: a delegate that was not marked partial is asked.
OtherSources(n) == {m \in known[n] \ partial[n] : m # n}

\* select_random_online_delegate
Sources(n) == {m \in partial[n] : m # n /\ ~(n \in Seed /\ m \in Seed)}

MayResync(n) == n \in Seed => n = FirstSeed

\* create_sync_token; every token is another
NewToken(n) == token[n] + 1

\* create_delegates_db_sync_request
Request(n, m) == [from |-> n, to |-> m, token |-> NewToken(n)]

\* From :50 on, a delegate whose round failed makes a new token and asks for a
\* copy; the request may get lost.
Resync(n) ==
    /\ window = 2
    /\ pc[n] = "failed"
    /\ ~Locked(n)
    /\ IF TooManyDiffer(n) /\ MayResync(n)
         THEN /\ token' = [token EXCEPT ![n] = NewToken(n)]
              /\ IF Sources(n) = {}
                   THEN UNCHANGED requests
                   ELSE \E m \in Sources(n) :
                           requests' = requests \cup {Request(n, m)}
         ELSE UNCHANGED <<token, requests>>
    /\ pc' = [pc EXCEPT ![n] = "done"]
    /\ UNCHANGED <<minute, window, chain, coll, known, height, hash, partial, mismatch,
                   hellos, answers, filling, fails>>

\* A round that succeeded only writes fields that the hash leaves out.
Record(n) ==
    /\ window = 2
    /\ pc[n] = "succeeded"
    /\ pc' = [pc EXCEPT ![n] = "done"]
    /\ UNCHANGED <<minute, window, chain, coll, known, height, hash, partial, mismatch,
                   hellos, syncVars>>

\* db_export_collection_to_bson
Export(n) == Own(n)

\* The handler of the request exports the copy as it is, without a lock.  It
\* answers senders it finds there (verify_the_ip).
Answer(n, r) ==
    /\ r \in requests
    /\ r.to = n
    /\ requests' = requests \ {r}
    /\ IF r.from \in Delegates(Own(n))
         THEN answers' = answers \cup {[from |-> n, to |-> r.from, token |-> r.token,
                                        height |-> height[n], copy |-> Export(n)]}
         ELSE UNCHANGED answers
    /\ UNCHANGED <<minute, window, chain, coll, known, roundVars, hellos, token, filling,
                   fails>>

\* The answer bears the token asked with, is signed for the height of the
\* round, comes from a delegate in the copy and holds documents.
Acceptable(n, a) ==
    /\ a.token = token[n]
    /\ a.height = height[n]
    /\ a.from \in Delegates(Own(n))
    /\ a.copy # <<>>

\* The handler of the answer drops the collection ...
Drop(n, a) ==
    /\ a \in answers
    /\ a.to = n
    /\ ~Locked(n)
    /\ answers' = answers \ {a}
    /\ IF Acceptable(n, a)
         THEN /\ coll' = [coll EXCEPT ![StoreOf[n]] = <<>>]
              /\ filling' = [filling EXCEPT ![n] = a.copy]
         ELSE UNCHANGED <<coll, filling>>
    /\ UNCHANGED <<minute, window, chain, known, roundVars, hellos, token, requests, fails>>

\* ... and writes the documents one by one; then the token is spent.
WriteDocument(n) ==
    /\ Locked(n)
    /\ coll' = [coll EXCEPT ![StoreOf[n]] = Append(@, Head(filling[n]))]
    /\ filling' = [filling EXCEPT ![n] = Tail(@)]
    /\ token' = IF Len(filling[n]) = 1 THEN [token EXCEPT ![n] = NewToken(n)] ELSE token
    /\ UNCHANGED <<minute, window, chain, known, roundVars, hellos, requests, answers, fails>>

\* The database refuses a document, or the process stops: the rest is missing.
FillFails(n) ==
    /\ Locked(n)
    /\ fails < MaxFails
    /\ fails' = fails + 1
    /\ filling' = [filling EXCEPT ![n] = <<>>]
    /\ UNCHANGED <<minute, window, chain, coll, known, roundVars, hellos, token, requests,
                   answers>>

\* At :57 delegates_all is loaded again, and nobody is marked.
Load(n) ==
    /\ window = 3
    /\ pc[n] = "done"
    /\ ~Locked(n)
    /\ known' = [known EXCEPT ![n] = Delegates(Own(n))]
    /\ partial' = [partial EXCEPT ![n] = {}]
    /\ pc' = [pc EXCEPT ![n] = "loaded"]
    /\ UNCHANGED <<minute, window, chain, coll, height, hash, mismatch, hellos, syncVars>>

-----------------------------------------------------------------------------
RoundStep(n) == BeginRound(n) \/ CheckOnline(n) \/ Resync(n) \/ Record(n) \/ Load(n)

Handle(n) ==
    \/ \E r \in requests : Answer(n, r)
    \/ \E a \in answers : Drop(n, a)
    \/ WriteDocument(n)

Next ==
    \/ Tick
    \/ NextMinute
    \/ \E n \in Node : RoundStep(n) \/ Handle(n) \/ FillFails(n)

Spec == Init /\ [][Next]_vars

-----------------------------------------------------------------------------
(* Everything asked for at :50 is answered and written before :57.         *)

Settled == requests = {} /\ answers = {} /\ \A n \in Node : ~Locked(n)

PromptTick == Tick /\ (window = 2 => Settled)

PromptNext ==
    \/ PromptTick
    \/ NextMinute
    \/ \E n \in Node : RoundStep(n) \/ Handle(n)

PromptSpec ==
    /\ Init /\ [][PromptNext]_vars
    /\ WF_vars(PromptTick) /\ WF_vars(NextMinute)
    /\ \A n \in Node : WF_vars(RoundStep(n)) /\ WF_vars(Handle(n))

-----------------------------------------------------------------------------
(* Properties                                                              *)

Copy == Seq(Doc)

\* The variables have their types.
TypeOK ==
    /\ minute \in 1..MaxMinute
    /\ window \in 0..3
    /\ chain \in Nat \ {0}
    /\ coll \in [Store -> Copy]
    /\ known \in [Node -> SUBSET Node]
    /\ pc \in [Node -> {"idle", "sent", "failed", "succeeded", "done", "loaded"}]
    /\ height \in [Node -> Nat]
    /\ hash \in [Node -> SUBSET Doc]
    /\ partial \in [Node -> SUBSET Node]
    /\ mismatch \in [Node -> 0..Cardinality(Node)]
    /\ hellos \subseteq [from : Node, to : SUBSET Node, hash : SUBSET Doc]
    /\ token \in [Node -> Nat]
    /\ requests \subseteq [from : Node, to : Node, token : Nat]
    /\ answers \subseteq [from : Node, to : Node, token : Nat, height : Nat, copy : Copy]
    /\ filling \in [Node -> Copy]
    /\ fails \in Nat

\* The copies that more than four fifths of the delegates hold at the start.
Shared(copy) ==
    5 * Cardinality({n \in Node : Start[StoreOf[n]] # copy}) <= Cardinality(Node)

\* Delegates whose copy all but a fifth share keep it, whatever the others
\* hold, send or fail to write, and however many rounds of their own fail: the
\* threshold "If >20% of delegates report a DB hash mismatch, trigger a resync"
\* keeps a minority from spreading its copies.
SharedCopyKept ==
    \A s \in Store :
        Shared(Start[s]) /\ Delegates(Start[s]) = Node => coll[s] = Start[s]

\* A delegate that holds another copy than all but a fifth ends with theirs, and
\* all copies stay alike, when what is asked for is answered in time.
CopiesConverge ==
    \A s \in Store :
        Shared(Start[s]) => <>[](\A t \in Store : Docs(coll[t]) = Docs(Start[s]))
=============================================================================
