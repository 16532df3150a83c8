----------------------------- MODULE ClientPool -----------------------------
(***************************************************************************)
(* The pool of database clients all threads of the daemon share            *)
(* (db_init.c, db_functions.c).  An operation on the database takes a      *)
(* client and gives it back; taking one waits until one is free.  Some     *)
(* operations look the collection up first, with a second client.          *)
(*                                                                         *)
(* What the operations read and write is the matter of other modules: here *)
(* an operation is the calls it makes on the pool, on every path through   *)
(* it, and a thread is the calls it has yet to make.                       *)
(***************************************************************************)
EXTENDS Integers, Sequences, FiniteSets, FiniteSetsExt

CONSTANTS
    Thread,      \* the threads of the process
    PoolSize     \* clients in the pool

ASSUME PoolAssumption ==
    /\ IsFiniteSet(Thread)
    /\ PoolSize \in Nat \ {0}

VARIABLES
    pool,        \* database_client_thread_pool: "none", "open" or "destroyed"
    held,        \* clients a thread has taken and not given back
    todo,        \* calls a thread has yet to make for what it is doing
    inside,      \* threads inside mongoc_client_pool_pop
    aborted      \* threads that ended the process by calling on no pool

poolVars == <<pool, held, todo, inside, aborted>>

-----------------------------------------------------------------------------
(* The calls.  get_temporary_connection tests the pool first and leaves    *)
(* the operation when there is none, over "skip" calls; a pop elsewhere    *)
(* tests nothing.  The limiter's call uses the lists of the server.        *)

Checked(n) == [call |-> "pop", skip |-> n]
Unchecked  == [call |-> "pop", skip |-> 0]
Push       == [call |-> "push", skip |-> 0]
Limit      == [call |-> "limit", skip |-> 0]
Rest       == 100     \* more calls than any thread has yet to make

Single == <<Checked(2), Push>>
Bare   == <<Unchecked, Push>>

(* The operations                                                          *)

CheckCollection  == Single

\* Fault: the error path leaves the first client out of the pool.
LookedUpLeaky    == <<Checked(3)>> \o CheckCollection

\* Fault: the error path and its caller both give the client back.
LookedUpTwice    == <<Checked(5)>> \o CheckCollection \o <<Push, Push>>

\* The first client is kept while check_if_database_collection_exist runs.
LookedUp         == <<Checked(4)>> \o CheckCollection \o <<Push>>


CountDocuments   == LookedUp
ReadInt64        == LookedUp
ReadField        == LookedUp
UpdateDocument   == LookedUp
DeleteDocument   == LookedUp
InsertDocument   == Single

ReplicaSetReady  == Bare
SeedIndexes      == Bare
DelegateIndexes  == Bare
FoundIndexes     == Bare
FindDocs         == Bare
UpsertDocs       == Bare
DropCollection   == Bare
CountDocs        == Bare
VoteTotal        == Bare
ProofFields      == Bare
DelegateFee      == Bare
RefreshSolo      == Bare
HashDelegates    == Single

-----------------------------------------------------------------------------
(* The pool                                                                *)

Out == MapThenSumSet(LAMBDA t : held[t], Thread)

About(t, call) == todo[t] # <<>> /\ Head(todo[t]).call = call

Done(t, n) == todo' = [todo EXCEPT ![t] = SubSeq(@, n + 1, Len(@))]

InitPool ==
    /\ pool = "none"
    /\ held = [t \in Thread |-> 0]
    /\ todo = [t \in Thread |-> <<>>]
    /\ inside = {}
    /\ aborted = {}

\* The library asserts that it is given a pool.
Abort(t) == aborted' = aborted \cup {t}

CallPop(t) ==
    /\ About(t, "pop")
    /\ pool = "open"
    /\ inside' = inside \cup {t}
    /\ UNCHANGED <<pool, held, todo, aborted>>

\* mongoc_client_pool_pop waits for as long as it takes.
TakeClient(t) ==
    /\ t \in inside
    /\ pool = "open"
    /\ Out < PoolSize
    /\ inside' = inside \ {t}
    /\ held' = [held EXCEPT ![t] = @ + 1]
    /\ Done(t, 1)
    /\ UNCHANGED <<pool, aborted>>

PopWithoutPool(t) ==
    /\ About(t, "pop")
    /\ t \notin inside
    /\ pool # "open"
    /\ \/ /\ Head(todo[t]).skip = 0
          /\ Abort(t)
          /\ UNCHANGED todo
       \/ /\ Head(todo[t]).skip > 0
          /\ Done(t, Head(todo[t]).skip)
          /\ UNCHANGED aborted
    /\ UNCHANGED <<pool, held, inside>>

\* The pool was freed under a thread that waits in it: it may never wake.
WakeInNoPool(t) ==
    /\ t \in inside
    /\ pool = "destroyed"
    /\ Abort(t)
    /\ UNCHANGED <<pool, held, todo, inside>>

GiveBack(t) ==
    /\ About(t, "push")
    /\ \/ /\ pool = "open"
          /\ held' = [held EXCEPT ![t] = @ - 1]
          /\ Done(t, 1)
          /\ UNCHANGED aborted
       \/ /\ pool # "open"
          /\ Abort(t)
          /\ UNCHANGED <<held, todo>>
    /\ UNCHANGED <<pool, inside>>

\* Between two operations a handler may find a reason to stop.
GiveUp(t) ==
    /\ todo[t] # <<>>
    /\ held[t] = 0
    /\ t \notin inside
    /\ todo' = [todo EXCEPT ![t] = <<>>]
    /\ UNCHANGED <<pool, held, inside, aborted>>

Work(t, calls) == todo[t] = <<>> /\ todo' = [todo EXCEPT ![t] = calls]

\* All clients are out, and who holds one waits for another.
Starved ==
    /\ pool = "open"
    /\ Out = PoolSize
    /\ \A t \in Thread : held[t] > 0 => t \in inside

-----------------------------------------------------------------------------
PoolTypeOK ==
    /\ pool \in {"none", "open", "destroyed"}
    /\ held \in [Thread -> 0..PoolSize]
    /\ \A t \in Thread : \A i \in DOMAIN todo[t] :
           todo[t][i].call \in {"pop", "push", "limit"} /\ todo[t][i].skip \in 0..Rest
    /\ inside \subseteq Thread
    /\ aborted \subseteq Thread
=============================================================================
