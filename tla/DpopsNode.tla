------------------------------ MODULE DpopsNode ------------------------------
(***************************************************************************)
(* The life of one daemon: the main thread starts the server, opens the    *)
(* database, prepares it, starts the scheduler on a seed and makes blocks  *)
(* (xcash_dpops.c, init_processing.c, node_functions.c, xcash_round.c),    *)
(* until a signal or a fault asks it to stop.  Main, the scheduler         *)
(* (xcash_timer_thread.c) and the clients share the pool of database       *)
(* clients; the order in which main takes things down is the matter here.  *)
(***************************************************************************)
EXTENDS TcpServer

CONSTANTS
    Main,           \* the main thread
    Timer,          \* the scheduler
    Roles,          \* what the daemon may be
    Lines,          \* what the lines of the maintenance file ask for
    MaxMissed,      \* failed loads of the delegates in a row that end the daemon
    MaxSignals      \* bound: signals

ASSUME NodeAssumption ==
    /\ Thread = Conn \cup {Main, Timer}
    /\ Main \notin Conn /\ Timer \notin Conn /\ Main # Timer
    /\ Roles \subseteq {"delegate", "seed", "job"}
    /\ MaxMissed \in Nat \ {0}
    /\ MaxSignals \in 0..2

VARIABLES
    role,           \* what this daemon is
    main,           \* where main() is
    timer,          \* where timer_thread is
    job,            \* the scheduler is at its last instructions, or lines left
    shutdown,       \* shutdown_requested
    signals,        \* sig_requests
    missed          \* missed_load

nodeVars == <<role, main, timer, job, shutdown, signals, missed>>
vars == <<poolVars, serverVars, nodeVars>>

SeedNode == role # "delegate"     \* SEED_NODE_ON
JobNode  == role = "job"          \* is_job_node

Alive == aborted = {} /\ main # "exited"

-----------------------------------------------------------------------------
(* What main and the scheduler ask of the database                         *)

\* init_processing on an empty collection; one seed delegate stands for all.
FillDatabase ==
    IF SeedNode
    THEN InsertDocument \o InsertDocument \o SeedIndexes \o DelegateIndexes
    ELSE InsertDocument \o DelegateIndexes \o FoundIndexes

\* get_node_data: the key, this machine's address when there is a key, and the
\* least payout when the address is right.
NodeData == {ReadField \o ReadInt64, ReadField \o ReadField, ReadField \o ReadField \o ReadInt64}

\* The end of the round: a status that changed stands for any number of them.
RoundWrite == IF SeedNode THEN Bare ELSE InsertDocument

\* A round may fail before it hashes the delegates, and after.
Round ==
    {<<>>, HashDelegates, HashDelegates \o UpdateDocument,
     HashDelegates \o RoundWrite, HashDelegates \o UpdateDocument \o RoundWrite}

LineCalls(flag) ==
    IF flag = "DEL" THEN DeleteDocument \o DeleteDocument ELSE UpdateDocument

\* Fault: the job updates the totals through the checked operation.
JobNesting == <<Unchecked>> \o UpdateDocument \o <<Push>>

\* run_proof_check keeps one client from its first line to its last.
RunProofCheck == <<Unchecked, Push>>

Enter(step, calls) ==
    /\ main' = step
    /\ todo' = [todo EXCEPT ![Main] = calls]

\* main is at a step and has made the calls of it.
At(step) == main = step /\ todo[Main] = <<>>

-----------------------------------------------------------------------------
Init ==
    /\ InitPool
    /\ InitServer
    /\ role \in Roles
    /\ main = "server"
    /\ timer = "none"
    /\ job = <<>>
    /\ shutdown = FALSE
    /\ signals = 0
    /\ missed = 0

(* Start-up.  Clients are served before there is a pool.                   *)

Launch ==
    /\ main = "server"
    /\ \/ StartServer /\ main' = "database"
       \/ main' = "exited" /\ UNCHANGED serverVars
    /\ UNCHANGED <<poolVars, timer, job, shutdown, signals, missed, role>>

InitializeDatabase ==
    /\ main = "database"
    /\ \/ /\ pool' = "open"
          /\ IF SeedNode THEN Enter("replica", ReplicaSetReady) ELSE Enter("count", CountDocs)
       \/ /\ main' = "fatalStop"
          /\ UNCHANGED <<pool, todo>>
    /\ UNCHANGED <<held, inside, aborted, serverVars, timer, job, shutdown, signals, missed, role>>

ReplicaReady ==
    /\ At("replica")
    /\ Enter("count", CountDocs)
    /\ UNCHANGED <<pool, held, inside, aborted, serverVars, timer, job, shutdown, signals, missed, role>>

ReplicaNotReady ==
    /\ At("replica")
    /\ Enter("replica", ReplicaSetReady)
    /\ UNCHANGED <<pool, held, inside, aborted, serverVars, timer, job, shutdown, signals, missed, role>>

Prepare ==
    /\ \/ At("count") /\ \/ Enter("fill", FillDatabase)
                         \/ \E calls \in NodeData : Enter("node", calls)
       \/ At("fill") /\ \E calls \in NodeData : Enter("node", calls)
    /\ UNCHANGED <<pool, held, inside, aborted, serverVars, timer, job, shutdown, signals, missed, role>>

\* FATAL_ERROR_EXIT between two operations.
PrepareFails ==
    /\ main = "fill"
    /\ held[Main] = 0 /\ Main \notin inside
    /\ main' = "exited"
    /\ UNCHANGED <<poolVars, serverVars, timer, job, shutdown, signals, missed, role>>

\* A false get_node_data is only logged.
StartScheduler ==
    /\ At("node")
    /\ SeedNode
    /\ \/ main' = "starter" /\ timer' = "start"
       \/ main' = "exited" /\ UNCHANGED timer
    /\ UNCHANGED <<poolVars, serverVars, job, shutdown, signals, missed, role>>

ReadFee ==
    /\ At("node")
    /\ ~SeedNode
    /\ Enter("starter", DelegateFee)
    /\ UNCHANGED <<pool, held, inside, aborted, serverVars, timer, job, shutdown, signals, missed, role>>

PrintStarterState ==
    /\ At("starter")
    /\ \/ Enter("address", ReadField)
       \/ Enter("ending", <<>>)
    /\ UNCHANGED <<pool, held, inside, aborted, serverVars, timer, job, shutdown, signals, missed, role>>

(* start_block_production                                                  *)

ReadKey ==
    /\ \/ At("address") /\ Enter("key", ReadField)
       \/ At("key") /\ \/ Enter("synced", <<>>)
                       \/ ~shutdown /\ Enter("key", ReadField)
                       \/ shutdown /\ Enter("ending", <<>>)
    /\ UNCHANGED <<pool, held, inside, aborted, serverVars, timer, job, shutdown, signals, missed, role>>

\* The chain is synchronized, or the daemon is to stop.
BlockchainSynced ==
    /\ At("synced")
    /\ Enter("load", FindDocs)
    /\ UNCHANGED <<pool, held, inside, aborted, serverVars, timer, job, shutdown, signals, missed, role>>

FirstLoad ==
    /\ At("load")
    /\ \/ main' = "rounds" /\ UNCHANGED shutdown
       \/ main' = "ending" /\ shutdown' = TRUE
    /\ UNCHANGED <<poolVars, serverVars, timer, job, signals, missed, role>>

BeginRound ==
    /\ At("rounds")
    /\ IF shutdown THEN Enter("ending", <<>>)
                   ELSE \E calls \in Round : Enter("round", calls)
    /\ UNCHANGED <<pool, held, inside, aborted, serverVars, timer, job, shutdown, signals, missed, role>>

Reload ==
    /\ At("round")
    /\ Enter("reload", FindDocs)
    /\ UNCHANGED <<pool, held, inside, aborted, serverVars, timer, job, shutdown, signals, missed, role>>

\* The delegates are loaded, or those of the round are used again.
Reloaded ==
    /\ At("reload")
    /\ main' = "rounds"
    /\ \/ missed' = 0 /\ UNCHANGED shutdown
       \/ /\ missed' = missed + 1
          /\ shutdown' = (shutdown \/ missed' >= MaxMissed)
    /\ missed' <= MaxMissed
    /\ UNCHANGED <<poolVars, serverVars, timer, job, signals, role>>

(* The end                                                                 *)

StopScheduler ==
    /\ At("ending")
    /\ shutdown' = TRUE
    /\ main' = "join"
    /\ UNCHANGED <<poolVars, serverVars, timer, job, signals, missed, role>>

\* Fault: the scheduler is told to stop and not waited for.
NotJoined == TRUE

\* pthread_join, when there is a scheduler.
SchedulerJoined == timer \in {"none", "ended"}

ShutdownDb ==
    /\ main = "join"
    /\ SchedulerJoined
    /\ pool' = "destroyed"
    /\ main' = "stop"
    /\ UNCHANGED <<held, todo, inside, aborted, serverVars, timer, job, shutdown, signals, missed, role>>

StopServer ==
    /\ \/ main = "stop" /\ main' = "joinLoop"
       \/ main = "fatalStop" /\ main' = "fatalJoin"
    /\ StopListening
    /\ UNCHANGED <<poolVars, timer, job, shutdown, signals, missed, role>>

ServerStopped ==
    /\ \/ main = "joinLoop" /\ main' = "cleanup"
       \/ main = "fatalJoin" /\ main' = "exited"
    /\ DestroySlots
    /\ UNCHANGED <<poolVars, timer, job, shutdown, signals, missed, role>>

Cleanup ==
    /\ main = "cleanup"
    /\ main' = "return"
    /\ lists' = FALSE
    /\ UNCHANGED <<poolVars, running, listener, slots, semaphore, loop, conn, sent,
                   timer, job, shutdown, signals, missed, role>>

Return ==
    /\ main = "return"
    /\ main' = "exited"
    /\ UNCHANGED <<poolVars, serverVars, timer, job, shutdown, signals, missed, role>>

\* The first signal asks, the second ends.
Signal ==
    /\ signals < MaxSignals
    /\ signals' = signals + 1
    /\ shutdown' = TRUE
    /\ main' = IF signals' >= 2 THEN "exited" ELSE main
    /\ UNCHANGED <<poolVars, serverVars, timer, job, missed, role>>

(* The scheduler                                                           *)

\* On the job node, after five minutes that are slept through: the file, when
\* there is one.
TimerStart ==
    /\ timer = "start"
    /\ timer' = "lines"
    /\ \/ JobNode /\ job' = Lines
       \/ job' = <<>>
    /\ UNCHANGED <<poolVars, serverVars, main, shutdown, signals, missed, role>>

Maintain ==
    /\ timer = "lines"
    /\ todo[Timer] = <<>>
    /\ \/ /\ job # <<>>
          /\ Work(Timer, LineCalls(Head(job)))
          /\ job' = Tail(job)
          /\ UNCHANGED timer
       \/ /\ job = <<>>
          /\ timer' = "slots"
          /\ UNCHANGED <<job, todo>>
    /\ UNCHANGED <<pool, held, inside, aborted, serverVars, main, shutdown, signals, missed, role>>

Slot ==
    /\ timer = "slots"
    /\ todo[Timer] = <<>>
    /\ ~shutdown
    /\ JobNode
    /\ Work(Timer, RunProofCheck)
    /\ UNCHANGED <<pool, held, inside, aborted, serverVars, main, timer, job, shutdown, signals, missed, role>>

TimerEnd ==
    /\ timer = "slots"
    /\ todo[Timer] = <<>>
    /\ shutdown
    /\ timer' = "ended"
    /\ UNCHANGED <<poolVars, serverVars, main, job, shutdown, signals, missed, role>>

-----------------------------------------------------------------------------
PoolStep(t) ==
    /\ CallPop(t) \/ TakeClient(t) \/ PopWithoutPool(t) \/ WakeInNoPool(t) \/ GiveBack(t)
    /\ UNCHANGED <<serverVars, nodeVars>>

LoopStep ==
    /\ CheckRunning \/ AcceptFails \/ TakeSlot \/ (\E c \in Conn : Accept(c) \/ Spawn(c))
    /\ UNCHANGED nodeVars

ClientStep(c) ==
    \/ PoolStep(c)
    \/ /\ \/ Receive(c) \/ PassLimiter(c) \/ HangUp(c) \/ PostSlot(c)
       /\ UNCHANGED nodeVars
    \/ GiveUp(c) /\ UNCHANGED <<serverVars, nodeVars>>

Starting ==
    \/ Launch \/ InitializeDatabase \/ ReplicaReady \/ ReplicaNotReady \/ Prepare \/ PrepareFails
    \/ StartScheduler \/ ReadFee \/ PrintStarterState

Producing == ReadKey \/ BlockchainSynced \/ FirstLoad \/ BeginRound \/ Reload \/ Reloaded

Ending == StopScheduler \/ ShutdownDb \/ StopServer \/ ServerStopped \/ Cleanup \/ Return

MainStep == PoolStep(Main) \/ Starting \/ Producing \/ Ending

TimerStep == PoolStep(Timer) \/ TimerStart \/ Maintain \/ Slot \/ TimerEnd

Next ==
    /\ Alive
    /\ \/ MainStep
       \/ TimerStep
       \/ LoopStep
       \/ \E c \in Conn : ClientStep(c) \/ (Connect(c) /\ UNCHANGED nodeVars)
       \/ Signal

\* Every thread goes on; the replica set gets ready some time, the wallet
\* answers and the chain synchronizes.  Nothing obliges a peer to connect.
Fairness ==
    /\ WF_vars(Alive /\ MainStep)
    /\ SF_vars(Alive /\ ReplicaReady)
    /\ WF_vars(Alive /\ TimerStep)
    /\ WF_vars(Alive /\ LoopStep)
    /\ \A c \in Conn : WF_vars(Alive /\ ClientStep(c))

Spec == Init /\ [][Next]_vars /\ Fairness

-----------------------------------------------------------------------------
TypeOK ==
    /\ PoolTypeOK
    /\ ServerTypeOK
    /\ main \in {"server", "database", "replica", "count", "fill", "node", "starter", "address",
                 "key", "synced", "load", "rounds", "round", "reload", "ending", "join", "stop",
                 "fatalStop", "joinLoop", "fatalJoin", "cleanup", "return", "exited"}
    /\ timer \in {"none", "start", "lines", "slots", "ended"}
    /\ role \in Roles
    /\ shutdown \in BOOLEAN
    /\ signals \in 0..2
    /\ missed \in 0..MaxMissed

\* Main and the scheduler always find the pool they ask: it is made before
\* their first operation and destroyed after their last.  What ends the
\* process for want of a pool is a client served too early or too late.
OnlyClientsMissPool == aborted \subseteq Conn

\* When the clients of the pool are all taken by threads that wait for
\* another, each of these threads holds one, inside a look-up: as many threads
\* as the pool has clients are looking collections up at the same time.
StarvedByLookups ==
    Starved => Cardinality({t \in Thread : held[t] = 1}) = PoolSize

\* Somebody was waiting for a client when the pool was destroyed.
Stranded == pool = "destroyed" /\ inside # {}

\* Once asked to stop, the daemon does, unless the pool is starved or was
\* destroyed under a client: nobody else can hold main, the scheduler or the
\* accept loop up, wherever the request finds them.
StopsOrStarves == shutdown ~> (~Alive \/ Starved \/ Stranded)
=============================================================================
