--------------------------- MODULE DelegateRecords ---------------------------
(***************************************************************************)
(* The collections the seed nodes share: delegates, statistics,            *)
(* consensus_rounds and the solo addresses.  Every seed runs the same      *)
(* program on one replicated database:                                     *)
(*                                                                         *)
(*   - at start-up it fills an empty database with the seed delegates and  *)
(*     makes the indexes (init_processing.c);                              *)
(*   - its client threads register and update delegates                    *)
(*     (delegate_server_functions.c); a request goes to every seed;        *)
(*   - one of them removes and bans delegates on behalf of the operator    *)
(*     (xcash_timer_thread.c);                                             *)
(*   - after each block all of them count it in the statistics and record  *)
(*     the round (xcash_round.c).                                          *)
(*                                                                         *)
(* A step is one operation of the database; it may be refused, and a seed  *)
(* may stop between any two.                                               *)
(***************************************************************************)
EXTENDS Integers, Sequences, FiniteSets, SequencesExt

CONSTANTS
    Seed,            \* the seed nodes
    Maintainer,      \* the seed whose operator leaves maintenance files
    Key,             \* public keys of delegates
    Address,         \* their public addresses
    Genesis,         \* network_nodes: the documents of the seed delegates
    Order,           \* the keys as read_organize_delegates orders them
    Approved,        \* keys in the collection of approvals
    Request,         \* the requests to register or to update a delegate
    Workload,        \* what the operator and the clients do, see Init
    Winner,          \* the producer elected for each height
    VerifierAmount,  \* BLOCK_VERIFIERS_AMOUNT
    TotalAmount,     \* BLOCK_VERIFIERS_TOTAL_AMOUNT
    MaxFaults        \* bound: refused operations and stops of a seed

Fields == {"key", "address", "name", "ip"}

Registration(r) == r.op = "register"

\* A delegate's document as far as it must be told from another.
IsDocument(d) == Fields \subseteq DOMAIN d /\ d.key \in Key

IsRequest(r) ==
    \/ r.op = "register" /\ IsDocument(r.doc)
    \/ r.op = "update" /\ r.address \in Address /\ r.lists \in Seq(Seq(Address))

Lines == Seq([flag : {"BAN", "UNB", "DEL"}, key : Key])

\* The seed delegates differ from each other in every field.
ASSUME RecordsAssumption ==
    /\ Maintainer \in Seed
    /\ Genesis \in Seq(ToSet(Genesis)) /\ Genesis # <<>>
    /\ \A i \in DOMAIN Genesis : IsDocument(Genesis[i])
    /\ \A i, j \in DOMAIN Genesis : i # j => \A f \in Fields : Genesis[i][f] # Genesis[j][f]
    /\ Order \in Seq(Key) /\ Key \subseteq ToSet(Order)
    /\ \A r \in Request : IsRequest(r)
    /\ \A w \in Workload : /\ w.messages \subseteq Seed \X Request
                           /\ w.lines \in Lines
                           /\ w.heights \in Nat
                           /\ w.fresh \in BOOLEAN
    /\ VerifierAmount \in Nat \ {0}
    /\ TotalAmount \in Nat \ {0}
    /\ MaxFaults \in Nat

VARIABLES
    delegates,     \* documents of the delegates collection
    banned,        \* keys of those that are banned
    unique,        \* the unique indexes of that collection exist
    stats,         \* documents of the statistics collection, by key
    rounds,        \* documents of consensus_rounds
    heightUnique,  \* the unique index of consensus_rounds exists
    solo,          \* solo addresses, by address of the delegate
    boot,          \* how far each seed is with its start
    at,            \* the seed delegate it is inserting
    job,           \* the client thread that handles a request on a seed
    file,          \* the maintenance file, and what is left of it to process
    chain,         \* height of the block to be made
    until,         \* bound: the last height explored
    writer,        \* the end of the round on each seed
    known,         \* keys in delegates_all of each seed
    faults,        \* how many faults happened
    credited,      \* auxiliary: the heights counted in each document of stats
    owed,          \* auxiliary: the keys a writer has to count
    torn,          \* auxiliary: keys whose two documents were written apart
    spoiled,       \* auxiliary: a start was cut off or overtaken
    cleared        \* auxiliary: who emptied the solo addresses last

bootVars  == <<boot, at, spoiled>>
jobVars   == <<job, solo, cleared>>
roundVars == <<rounds, chain, writer, known, credited, owed>>
vars == <<delegates, banned, unique, stats, heightUnique, file, until, faults, torn,
          bootVars, jobVars, roundVars>>

-----------------------------------------------------------------------------
(* The database                                                            *)

Keys == {d.key : d \in delegates}

\* The fields add_indexes_delegates makes unique.
UniqueFields == Fields

Alike(d, e) == \E f \in UniqueFields : d[f] = e[f]

\* _id is the public key, and always unique.
Refuses(d) == \E e \in delegates : d.key = e.key \/ (unique /\ Alike(d, e))

NewStats == [total |-> 0, producer |-> 0, mark |-> -1]

With(f, k, v) == [x \in DOMAIN f \cup {k} |-> IF x = k THEN v ELSE f[x]]
Without(f, k) == [x \in DOMAIN f \ {k} |-> f[x]]

\* Somebody is between the two writes that create or remove a delegate.
Between(k) ==
    \/ \E s \in Seed : boot[s] = "stats" /\ Genesis[at[s]].key = k
    \/ \E j \in Seed \X Request : job[j].pc = "stats" /\ j[2].doc.key = k
    \/ file.pc = "stats" /\ Head(file.left).key = k

\* A second one makes the outcome a matter of luck.
Enter(k) == torn' = IF Between(k) THEN torn \cup {k} ELSE torn

InsertStats(k) ==
    /\ stats' = With(stats, k, NewStats)
    /\ credited' = [credited EXCEPT ![k] = {}]

Fault == faults < MaxFaults /\ faults' = faults + 1

-----------------------------------------------------------------------------
\* The database and the seeds before anything was started, or at work.
Empty ==
    /\ delegates = {} /\ unique = FALSE
    /\ stats = <<>>
    /\ heightUnique = FALSE
    /\ boot = [s \in Seed |-> "down"]
    /\ known = [s \in Seed |-> {}]

AtWork ==
    /\ delegates = ToSet(Genesis) /\ unique = TRUE
    /\ stats = [k \in {d.key : d \in delegates} |-> NewStats]
    /\ heightUnique = TRUE
    /\ boot = [s \in Seed |-> "up"]
    /\ known = [s \in Seed |-> {d.key : d \in delegates}]

Init ==
    /\ banned = {}
    /\ rounds = {}
    /\ solo = [a \in Address |-> {}]
    /\ at = [s \in Seed |-> 1]
    /\ chain = 1
    /\ writer = [s \in Seed |-> [pc |-> "idle", height |-> 0, next |-> 1, member |-> FALSE]]
    /\ faults = 0
    /\ credited = [k \in Key |-> {}]
    /\ owed = [s \in Seed |-> {}]
    /\ torn = {}
    /\ spoiled = FALSE
    /\ cleared = [a \in Address |-> {}]
    /\ \E w \in Workload :
        /\ IF w.fresh THEN Empty ELSE AtWork
        /\ job = [j \in Seed \X Request |->
                    [pc |-> IF j \in w.messages THEN "new" ELSE "none", list |-> 1, row |-> 1]]
        /\ file = [pc |-> "new", left |-> w.lines]
        /\ until = w.heights

-----------------------------------------------------------------------------
(* The start of a seed                                                     *)

\* The server listens from here on.
Start(s) ==
    /\ boot[s] = "down"
    /\ boot' = [boot EXCEPT ![s] = "count"]
    /\ at' = [at EXCEPT ![s] = 1]
    /\ UNCHANGED <<delegates, banned, unique, stats, heightUnique, file, until, faults, torn,
                   spoiled, jobVars, roundVars>>

\* The collection is filled when it holds nothing.
CountDelegates(s) ==
    /\ boot[s] = "count"
    /\ boot' = [boot EXCEPT ![s] = IF delegates = {} THEN "insert" ELSE "load"]
    /\ UNCHANGED <<delegates, banned, unique, stats, heightUnique, file, until, faults, torn,
                   at, spoiled, jobVars, roundVars>>

\* A failed count is -1, or 0 when the look-up of the collection failed: the
\* start goes on to fill whatever is there.
MiscountDelegates(s) ==
    /\ boot[s] = "count"
    /\ Fault
    /\ boot' = [boot EXCEPT ![s] = "insert"]
    /\ UNCHANGED <<delegates, banned, unique, stats, heightUnique, file, until, torn, at, spoiled,
                   jobVars, roundVars>>

\* A refused insertion ends the program.
InsertSeed(s) ==
    /\ boot[s] = "insert"
    /\ IF Refuses(Genesis[at[s]])
         THEN /\ boot' = [boot EXCEPT ![s] = "down"]
              /\ UNCHANGED <<delegates, torn>>
         ELSE /\ boot' = [boot EXCEPT ![s] = "stats"]
              /\ delegates' = delegates \cup {Genesis[at[s]]}
              /\ Enter(Genesis[at[s]].key)
    /\ UNCHANGED <<banned, unique, stats, heightUnique, file, until, faults, at, spoiled,
                   jobVars, roundVars>>

\* Fault: the loop ends one seed early.
LastButOne(i) == i >= Len(Genesis) - 1

LastSeed(i) == i = Len(Genesis)

\* What follows a seed delegate: the next one, or the indexes.
NextSeed(s) ==
    /\ boot' = [boot EXCEPT ![s] = IF LastSeed(at[s]) THEN "indexes" ELSE "insert"]
    /\ at' = [at EXCEPT ![s] = IF LastSeed(@) THEN @ ELSE @ + 1]

InsertSeedStats(s) ==
    /\ boot[s] = "stats"
    /\ LET k == Genesis[at[s]].key
       IN  IF k \in DOMAIN stats
             THEN /\ boot' = [boot EXCEPT ![s] = "down"]
                  /\ UNCHANGED <<at, stats, credited>>
             ELSE /\ InsertStats(k)
                  /\ IF at[s] = 1
                       THEN boot' = [boot EXCEPT ![s] = "seed indexes"] /\ UNCHANGED at
                       ELSE NextSeed(s)
    /\ UNCHANGED <<delegates, banned, unique, heightUnique, file, until, faults, torn, spoiled,
                   jobVars, rounds, chain, writer, known, owed>>

\* add_seed_indexes
AddSeedIndexes(s) ==
    /\ boot[s] = "seed indexes"
    /\ IF \E r, q \in rounds : r # q /\ r.height = q.height
         THEN boot' = [boot EXCEPT ![s] = "down"] /\ UNCHANGED <<at, heightUnique>>
         ELSE heightUnique' = TRUE /\ NextSeed(s)
    /\ UNCHANGED <<delegates, banned, unique, stats, file, until, faults, torn, spoiled,
                   jobVars, roundVars>>

\* add_indexes_delegates
AddIndexes(s) ==
    /\ boot[s] = "indexes"
    /\ IF \E d, e \in delegates : d # e /\ Alike(d, e)
         THEN boot' = [boot EXCEPT ![s] = "down"] /\ UNCHANGED unique
         ELSE boot' = [boot EXCEPT ![s] = "load"] /\ unique' = TRUE
    /\ UNCHANGED <<delegates, banned, stats, heightUnique, file, until, faults, torn, at,
                   spoiled, jobVars, roundVars>>

\* delegates_all, sorted; banned delegates are left out.
Listed == Keys \ banned

Run(s) ==
    /\ boot[s] = "load"
    /\ boot' = [boot EXCEPT ![s] = "up"]
    /\ known' = [known EXCEPT ![s] = Listed]
    /\ UNCHANGED <<delegates, banned, unique, stats, heightUnique, file, until, faults, torn, at,
                   spoiled, jobVars, rounds, chain, writer, credited, owed>>

Boot(s) ==
    \/ Start(s) \/ CountDelegates(s) \/ MiscountDelegates(s) \/ InsertSeed(s)
    \/ InsertSeedStats(s) \/ AddSeedIndexes(s) \/ AddIndexes(s) \/ Run(s)

Starting(s) == boot[s] \in {"insert", "stats", "seed indexes", "indexes"}

-----------------------------------------------------------------------------
(* Registration and update, on the thread of a client                      *)

Serving(s) == boot[s] # "down"

JobAt(j, pc) == Serving(j[1]) /\ job[j].pc = pc

GoTo(j, pc) == job' = [job EXCEPT ![j].pc = pc]

\* Registrations need an approval.
CheckApproval(j) ==
    /\ JobAt(j, "new")
    /\ Registration(j[2])
    /\ GoTo(j, IF j[2].doc.key \in Approved THEN "address" ELSE "refused")
    /\ UNCHANGED <<delegates, banned, unique, stats, heightUnique, file, until, faults, torn,
                   bootVars, solo, cleared, roundVars>>

\* What is checked next.
After == [address |-> "ip", ip |-> "key", key |-> "name", name |-> "room"]

Taken(d, f) == \E e \in delegates : e[f] = d[f]

\* A known address is answered as registered: another seed has done it.
CheckField(j, f) ==
    /\ JobAt(j, f)
    /\ GoTo(j, IF ~Taken(j[2].doc, f) THEN After[f]
               ELSE IF f = "address" THEN "registered" ELSE "refused")
    /\ UNCHANGED <<delegates, banned, unique, stats, heightUnique, file, until, faults, torn,
                   bootVars, solo, cleared, roundVars>>

\* A count that fails reads as -1, or as 0 when it is the look-up of the
\* collection that failed.
MiscountField(j, f) ==
    /\ JobAt(j, f)
    /\ Fault
    /\ \E next \in {After[f], IF f = "address" THEN "registered" ELSE "refused"} : GoTo(j, next)
    /\ UNCHANGED <<delegates, banned, unique, stats, heightUnique, file, until, torn,
                   bootVars, solo, cleared, roundVars>>

CheckRoom(j) ==
    /\ JobAt(j, "room")
    /\ GoTo(j, IF Cardinality(delegates) < TotalAmount THEN "insert" ELSE "refused")
    /\ UNCHANGED <<delegates, banned, unique, stats, heightUnique, file, until, faults, torn,
                   bootVars, solo, cleared, roundVars>>

\* A client that comes before a start has counted makes the database look
\* filled, and one that comes before the indexes may keep them from being made.
InsertDelegate(j) ==
    /\ JobAt(j, "insert")
    /\ IF Refuses(j[2].doc)
         THEN /\ GoTo(j, "refused")
              /\ UNCHANGED <<delegates, torn, spoiled>>
         ELSE /\ GoTo(j, "stats")
              /\ delegates' = delegates \cup {j[2].doc}
              /\ spoiled' = (spoiled \/ ~unique)
              /\ Enter(j[2].doc.key)
    /\ UNCHANGED <<banned, unique, stats, heightUnique, file, until, faults, boot, at, solo,
                   cleared, roundVars>>

InsertDelegateStats(j) ==
    /\ JobAt(j, "stats")
    /\ IF j[2].doc.key \in DOMAIN stats
         THEN GoTo(j, "refused") /\ UNCHANGED <<stats, credited>>
         ELSE GoTo(j, "registered") /\ InsertStats(j[2].doc.key)
    /\ UNCHANGED <<delegates, banned, unique, heightUnique, file, until, faults, torn, bootVars,
                   solo, cleared, rounds, chain, writer, known, owed>>

Register(j) ==
    \/ CheckApproval(j)
    \/ \E f \in Fields : CheckField(j, f) \/ MiscountField(j, f)
    \/ CheckRoom(j) \/ InsertDelegate(j) \/ InsertDelegateStats(j)

Updated(j) == [pc |-> "updated", list |-> 1, row |-> 1]

\* The refreshes of the solo addresses that are left after n of them.
NextList(j, n) ==
    IF n < Len(j[2].lists) THEN [pc |-> "clear", list |-> n + 1, row |-> 1] ELSE Updated(j)

\* An update is written to the document with the address, if there is one; only
\* the address of the machine can collide.
UpdateFields(j) ==
    /\ JobAt(j, "new")
    /\ ~Registration(j[2])
    /\ LET r     == j[2]
           old   == {d \in delegates : d.address = r.address}
           new   == {[d EXCEPT !.ip = r.ip] : d \in old}
           other == delegates \ old
       IN  IF unique /\ \E d \in new, e \in other : Alike(d, e)
             THEN GoTo(j, "refused") /\ UNCHANGED <<delegates, spoiled>>
             ELSE /\ job' = [job EXCEPT ![j] = NextList(j, 0)]
                  /\ delegates' = other \cup new
                  /\ spoiled' = (spoiled \/ ~unique)
    /\ UNCHANGED <<banned, unique, stats, heightUnique, file, until, faults, torn, boot, at,
                   solo, cleared, roundVars>>

\* Fault: the old rows stay.
NoneStale(a) == {}

\* The rows that go when a list is written: all of the delegate.
Stale(a) == solo[a]

\* refresh_allowed_solo_addresses: the rows of the delegate are deleted ...
ClearSolo(j) ==
    /\ JobAt(j, "clear")
    /\ LET a    == j[2].address
           list == j[2].lists[job[j].list]
           with == {i \in Seed \X Request : i # j /\ job[i].pc = "rows" /\ i[2].address = a}
       IN  /\ solo' = [solo EXCEPT ![a] = @ \ Stale(a)]
           /\ cleared' = [cleared EXCEPT ![a] = {[by |-> j, list |-> ToSet(list), with |-> with]}]
           /\ job' = [job EXCEPT ![j] = IF list = <<>> THEN NextList(j, @.list)
                                        ELSE [@ EXCEPT !.pc = "rows"]]
    /\ UNCHANGED <<delegates, banned, unique, stats, heightUnique, file, until, faults, torn,
                   bootVars, roundVars>>

\* ... and the new ones written one by one.
InsertSolo(j) ==
    /\ JobAt(j, "rows")
    /\ LET a    == j[2].address
           list == j[2].lists[job[j].list]
           row  == job[j].row
       IN  /\ solo' = [solo EXCEPT ![a] = @ \cup {list[row]}]
           /\ job' = [job EXCEPT ![j] = IF row < Len(list) THEN [@ EXCEPT !.row = row + 1]
                                        ELSE NextList(j, @.list)]
    /\ UNCHANGED <<delegates, banned, unique, stats, heightUnique, file, until, faults, torn,
                   bootVars, cleared, roundVars>>

Update(j) == UpdateFields(j) \/ ClearSolo(j) \/ InsertSolo(j)

-----------------------------------------------------------------------------
(* The maintenance file of the operator                                    *)

\* The file is renamed before it is read: it is processed at most once.
TakeFile ==
    /\ boot[Maintainer] = "up"
    /\ file.pc = "new"
    /\ file' = [file EXCEPT !.pc = "line"]
    /\ UNCHANGED <<delegates, banned, unique, stats, heightUnique, until, faults, torn,
                   bootVars, jobVars, roundVars>>

Line(flag) ==
    /\ boot[Maintainer] = "up"
    /\ file.pc = "line"
    /\ file.left # <<>>
    /\ Head(file.left).flag = flag

Rest == [pc |-> "line", left |-> Tail(file.left)]

\* Fault: the ban creates the document it does not find.
BannedAnyway(k) == {k}

\* The delegates the filter of the ban finds.
Found(k) == Keys \cap {k}

\* BAN and UNB
Ban ==
    /\ \/ /\ Line("BAN")
          /\ banned' = banned \cup Found(Head(file.left).key)
       \/ /\ Line("UNB")
          /\ banned' = banned \ {Head(file.left).key}
    /\ file' = Rest
    /\ UNCHANGED <<delegates, unique, stats, heightUnique, until, faults, torn, bootVars,
                   jobVars, roundVars>>

\* DEL takes the delegate ...
RemoveDelegate ==
    /\ Line("DEL")
    /\ LET k == Head(file.left).key
       IN  /\ delegates' = {d \in delegates : d.key # k}
           /\ banned' = banned \ {k}
           /\ Enter(k)
    /\ file' = [file EXCEPT !.pc = "stats"]
    /\ UNCHANGED <<unique, stats, heightUnique, until, faults, bootVars, jobVars, roundVars>>

\* Fault: the statistics stay.
KeptStats(k) == stats

StatsWithout(k) == Without(stats, k)

\* ... and then its statistics.
RemoveStats ==
    /\ boot[Maintainer] = "up"
    /\ file.pc = "stats"
    /\ LET k == Head(file.left).key
       IN  /\ stats' = StatsWithout(k)
           /\ credited' = [credited EXCEPT ![k] = {}]
           /\ owed' = [s \in Seed |-> owed[s] \ {k}]
    /\ file' = Rest
    /\ UNCHANGED <<delegates, banned, unique, heightUnique, until, faults, torn, bootVars,
                   jobVars, rounds, chain, writer, known>>

Maintain == TakeFile \/ Ban \/ RemoveDelegate \/ RemoveStats

-----------------------------------------------------------------------------
(* The end of a round                                                      *)

W(s) == writer[s]

\* The delegates of delegates_all, in its order.
List(s) == FoldLeft(LAMBDA list, k : IF k \in known[s] THEN Append(list, k) ELSE list, <<>>, Order)

\* A round succeeded on s; a seed outside the committee has no hash of its vote.
EndRound(s) ==
    /\ boot[s] = "up"
    /\ W(s).pc = "idle"
    /\ chain <= until
    /\ \E member \in BOOLEAN :
        writer' = [writer EXCEPT ![s] = [pc |-> "status", height |-> chain, next |-> 1,
                                         member |-> member]]
    /\ UNCHANGED <<delegates, banned, unique, stats, heightUnique, file, until, faults, torn,
                   bootVars, jobVars, rounds, chain, known, credited, owed>>

\* The block of the height is on the chain.
Advance ==
    /\ chain <= until
    /\ \E s \in Seed : W(s).pc = "status"
    /\ chain' = chain + 1
    /\ UNCHANGED <<delegates, banned, unique, stats, heightUnique, file, until, faults, torn,
                   bootVars, jobVars, rounds, writer, known, credited, owed>>

\* The online status is written; nothing is counted unless the height advanced.
BeginCount(s) ==
    /\ boot[s] = "up"
    /\ W(s).pc = "status"
    /\ IF chain > W(s).height
         THEN /\ writer' = [writer EXCEPT ![s].pc = "count"]
              /\ owed' = [owed EXCEPT ![s] = known[s] \cap DOMAIN stats]
         ELSE /\ writer' = [writer EXCEPT ![s].pc = "load"]
              /\ UNCHANGED owed
    /\ UNCHANGED <<delegates, banned, unique, stats, heightUnique, file, until, faults, torn,
                   bootVars, jobVars, rounds, chain, known, credited>>

\* Fault: the height itself still passes.
NotAfter(k, h) == stats[k].mark <= h

\* The filter of the update: a height counts once for a delegate.
NotCounted(k, h) == stats[k].mark < h

\* $inc and $set of one update; only the first delegates of the list are
\* verifiers.
Counted(s, k) ==
    LET verifier == W(s).next <= VerifierAmount
        producer == verifier /\ Winner[W(s).height] = k
    IN  [total    |-> stats[k].total + (IF verifier THEN 1 ELSE 0),
         producer |-> stats[k].producer + (IF producer THEN 1 ELSE 0),
         mark     |-> W(s).height]

Skip(s) == writer' = [writer EXCEPT ![s].next = @ + 1]

\* Fault: a delegate that has nothing to count ends the loop.
Stop(s) == writer' = [writer EXCEPT ![s].next = Len(List(s)) + 1]

\* What happens to the loop when the update matches no document.
NoMatch(s) == Skip(s)

\* The statistics of the next delegate of the list.
CountNext(s) ==
    /\ boot[s] = "up"
    /\ W(s).pc = "count"
    /\ W(s).next <= Len(List(s))
    /\ LET k == List(s)[W(s).next]
           h == W(s).height
       IN  IF k \in DOMAIN stats /\ NotCounted(k, h)
             THEN /\ stats' = [stats EXCEPT ![k] = Counted(s, k)]
                  /\ credited' = IF W(s).next <= VerifierAmount
                                   THEN [credited EXCEPT ![k] = @ \cup {h}] ELSE credited
                  /\ Skip(s)
             ELSE NoMatch(s) /\ UNCHANGED <<stats, credited>>
    /\ UNCHANGED <<delegates, banned, unique, heightUnique, file, until, faults, torn, bootVars,
                   jobVars, rounds, chain, known, owed>>

HasRound(h) == \E r \in rounds : r.height = h

\* All are counted.  The round is written by a member of the committee; the
\* upsert looks for the height ...
FindRound(s) ==
    /\ boot[s] = "up"
    /\ W(s).pc = "count"
    /\ W(s).next > Len(List(s))
    /\ writer' = [writer EXCEPT ![s].pc =
                    IF W(s).member /\ ~HasRound(W(s).height) THEN "round" ELSE "load"]
    /\ UNCHANGED <<delegates, banned, unique, stats, heightUnique, file, until, faults, torn,
                   bootVars, jobVars, rounds, chain, known, credited, owed>>

\* Fault: the index admits another document of the height.
NeverKnown(h) == FALSE

\* The unique index on block_height refuses the insertion.
RoundKnown(h) == heightUnique /\ HasRound(h)

\* ... and inserts it, unless the index knows it by now.  A round that comes
\* before the index may be doubled, and then keeps it from being made.
InsertRound(s) ==
    /\ boot[s] = "up"
    /\ W(s).pc = "round"
    /\ rounds' = IF RoundKnown(W(s).height) THEN rounds
                 ELSE rounds \cup {[height |-> W(s).height, by |-> s]}
    /\ spoiled' = (spoiled \/ ~heightUnique)
    /\ writer' = [writer EXCEPT ![s].pc = "load"]
    /\ UNCHANGED <<delegates, banned, unique, stats, heightUnique, file, until, faults, torn,
                   boot, at, jobVars, chain, known, credited, owed>>

\* delegates_all for the next round
Reload(s) ==
    /\ boot[s] = "up"
    /\ W(s).pc = "load"
    /\ writer' = [writer EXCEPT ![s].pc = "idle"]
    /\ known' = [known EXCEPT ![s] = Listed]
    /\ owed' = [owed EXCEPT ![s] = {}]
    /\ UNCHANGED <<delegates, banned, unique, stats, heightUnique, file, until, faults, torn,
                   bootVars, jobVars, rounds, chain, credited>>

Write(s) ==
    \/ EndRound(s) \/ BeginCount(s) \/ CountNext(s) \/ FindRound(s) \/ InsertRound(s) \/ Reload(s)

-----------------------------------------------------------------------------
(* Refused operations and stops                                            *)

\* A failed count of the approvals is not 0 and passes for one.
MiscountApproval(j) ==
    /\ JobAt(j, "new")
    /\ Registration(j[2])
    /\ Fault
    /\ GoTo(j, "address")
    /\ UNCHANGED <<delegates, banned, unique, stats, heightUnique, file, until, torn, bootVars,
                   solo, cleared, roundVars>>

RefuseJob(j) ==
    /\ Serving(j[1])
    /\ job[j].pc \in {"insert", "stats", "clear", "rows"}
    /\ Fault
    /\ GoTo(j, "refused")
    /\ torn' = IF job[j].pc = "stats" THEN torn \cup {j[2].doc.key} ELSE torn
    /\ UNCHANGED <<delegates, banned, unique, stats, heightUnique, file, until, bootVars, solo,
                   cleared, roundVars>>

RefuseBoot(s) ==
    /\ Starting(s)
    /\ Fault
    /\ boot' = [boot EXCEPT ![s] = "down"]
    /\ spoiled' = TRUE
    /\ torn' = IF boot[s] = "stats" THEN torn \cup {Genesis[at[s]].key} ELSE torn
    /\ UNCHANGED <<delegates, banned, unique, stats, heightUnique, file, until, at, jobVars,
                   roundVars>>

\* A refused line of the maintenance file is not repeated; DEL goes on to the
\* statistics.
RefuseLine ==
    /\ boot[Maintainer] = "up"
    /\ file.pc \in {"line", "stats"}
    /\ file.left # <<>>
    /\ Fault
    /\ LET l == Head(file.left)
       IN  IF file.pc = "line" /\ l.flag = "DEL"
             THEN /\ file' = [file EXCEPT !.pc = "stats"]
                  /\ torn' = torn \cup {l.key}
             ELSE /\ file' = Rest
                  /\ torn' = IF file.pc = "stats" THEN torn \cup {l.key} ELSE torn
    /\ UNCHANGED <<delegates, banned, unique, stats, heightUnique, until, bootVars, jobVars,
                   roundVars>>

\* A refused update of the statistics is logged and the loop goes on; the others
\* end the writing.
RefuseWrite(s) ==
    /\ boot[s] = "up"
    /\ Fault
    /\ \/ /\ W(s).pc \in {"status", "round"}
          /\ writer' = [writer EXCEPT ![s].pc = "load"]
          /\ UNCHANGED owed
       \/ /\ W(s).pc = "count"
          /\ W(s).next <= Len(List(s))
          /\ owed' = [owed EXCEPT ![s] = @ \ {List(s)[W(s).next]}]
          /\ Skip(s)
    /\ UNCHANGED <<delegates, banned, unique, stats, heightUnique, file, until, torn, bootVars,
                   jobVars, rounds, chain, known, credited>>

InFlight(pc) == pc \notin {"none", "new", "registered", "refused", "updated"}

\* The seed stops: what it was doing stays undone.
Crash(s) ==
    /\ boot[s] # "down"
    /\ Fault
    /\ boot' = [boot EXCEPT ![s] = "down"]
    /\ spoiled' = (spoiled \/ Starting(s))
    /\ torn' = torn \cup {k \in Key : \/ boot[s] = "stats" /\ Genesis[at[s]].key = k
                                      \/ \E j \in {s} \X Request :
                                            job[j].pc = "stats" /\ j[2].doc.key = k
                                      \/ s = Maintainer /\ file.pc = "stats"
                                            /\ Head(file.left).key = k}
    /\ job' = [j \in Seed \X Request |->
                 IF j[1] = s /\ InFlight(job[j].pc)
                   THEN [pc |-> "refused", list |-> 1, row |-> 1] ELSE job[j]]
    /\ file' = IF s = Maintainer /\ file.pc # "new" THEN [pc |-> "line", left |-> <<>>] ELSE file
    /\ writer' = [writer EXCEPT ![s] = [@ EXCEPT !.pc = "idle"]]
    /\ owed' = [owed EXCEPT ![s] = {}]
    /\ UNCHANGED <<delegates, banned, unique, stats, heightUnique, until, at, solo, cleared,
                   rounds, chain, known, credited>>

Refuse ==
    \/ \E j \in Seed \X Request : MiscountApproval(j) \/ RefuseJob(j)
    \/ \E s \in Seed : RefuseBoot(s) \/ RefuseWrite(s) \/ Crash(s)
    \/ RefuseLine

-----------------------------------------------------------------------------
Next ==
    \/ \E s \in Seed : Boot(s) \/ Write(s)
    \/ \E j \in Seed \X Request : Register(j) \/ Update(j)
    \/ Maintain
    \/ Advance
    \/ Refuse

Spec == Init /\ [][Next]_vars

-----------------------------------------------------------------------------
(* Properties                                                              *)

Job == [pc : Fields \cup {"none", "new", "room", "insert", "stats", "registered", "refused",
                          "clear", "rows", "updated"},
        list : Nat, row : Nat]

\* The variables have their types.
TypeOK ==
    /\ Keys \subseteq Key
    /\ banned \subseteq Keys
    /\ {unique, heightUnique, spoiled} \subseteq BOOLEAN
    /\ DOMAIN stats \subseteq Key
    /\ \A k \in DOMAIN stats : stats[k] \in [total : Nat, producer : Nat, mark : Int]
    /\ rounds \subseteq [height : Nat, by : Seed]
    /\ boot \in [Seed -> {"down", "count", "insert", "stats", "seed indexes", "indexes", "load",
                          "up"}]
    /\ at \in [Seed -> DOMAIN Genesis]
    /\ job \in [Seed \X Request -> Job]
    /\ file.pc \in {"new", "line", "stats"}
    /\ writer \in [Seed -> [pc : {"idle", "status", "count", "round", "load"}, height : Nat,
                            next : Nat \ {0}, member : BOOLEAN]]
    /\ known \in [Seed -> SUBSET Key]
    /\ credited \in [Key -> SUBSET Nat]
    /\ owed \in [Seed -> SUBSET Key]
    /\ torn \subseteq Key

\* When no start was cut off, and none overtaken by a registration or by the
\* round of a seed that found the database filled, the database is complete as
\* soon as nobody is starting: seeds that start side by side do not undo or
\* double each other's work (init_processing counts once and stops at the first
\* refused insertion).  It speaks of operators that remove no seed delegate.
GenesisComplete ==
    (\E s \in Seed : boot[s] \in {"load", "up"}) /\ (\A s \in Seed : ~Starting(s)) /\ ~spoiled =>
        /\ unique
        /\ heightUnique
        /\ \A i \in DOMAIN Genesis : Genesis[i].key \in Keys \cap DOMAIN stats

\* A delegate has statistics, and statistics have a delegate, except while they
\* are written or removed, and where that was cut off or done twice at once:
\* "docs are created at startup/registration" and never by the counting.
StatisticsPaired ==
    \A k \in Key : \/ k \in Keys <=> k \in DOMAIN stats
                   \/ Between(k)
                   \/ k \in torn

\* However many seeds count a height, and however late, it adds one round to a
\* delegate and one block to its producer ("one increment per height, keyed by
\* public_key").
CreditedOnce ==
    \A k \in DOMAIN stats :
        /\ stats[k].total = Cardinality(credited[k])
        /\ stats[k].producer = Cardinality({h \in credited[k] : Winner[h] = k})

\* A seed that has been through its list leaves no delegate uncounted, whoever
\* counted it, unless the database refused the update.
StatisticsComplete ==
    \A s \in Seed :
        W(s).pc = "round" \/ (W(s).pc = "count" /\ W(s).next > Len(List(s))) =>
            \A k \in owed[s] : k \in DOMAIN stats /\ stats[k].mark >= W(s).height

\* A height has one round however many seeds write it at the same time, unless a
\* start was cut off before it made the index or a round was there before it.
OneRoundPerHeight ==
    \/ spoiled /\ ~heightUnique
    \/ \A r, q \in rounds : r.height = q.height => r = q

\* The solo addresses are those of the update that emptied them last: all of
\* them once it is done, and none of an earlier update that was not still
\* writing its own.
SoloOfLastUpdate ==
    \A a \in Address : \A c \in cleared[a] :
        /\ job[c.by].pc = "updated" => c.list \subseteq solo[a]
        /\ solo[a] \subseteq c.list \cup UNION {UNION {ToSet(j[2].lists[i]) : i \in DOMAIN j[2].lists} :
                                                 j \in c.with}
=============================================================================
