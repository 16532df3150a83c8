------------------------------ MODULE TcpServer ------------------------------
(***************************************************************************)
(* The TCP server of the daemon (net_server.c), the dispatch of messages   *)
(* (xcash_message.c) and the limiter (server_functions.c).  One thread     *)
(* accepts connections, waits for a slot and starts a thread for each; the *)
(* client's thread handles one message after another, gives the slot back  *)
(* and ends.  Client threads are detached: nobody waits for them.          *)
(***************************************************************************)
EXTENDS ClientPool

CONSTANTS
    Conn,           \* connections, and the threads that serve them
    Traffic,        \* the kinds of message each connection may carry
    MaxActive,      \* MAX_ACTIVE_CLIENTS
    MaxMessages     \* bound: messages on one connection

ASSUME ServerAssumption ==
    /\ Conn \subseteq Thread
    /\ Traffic \in [Conn -> SUBSET {"register", "list", "vote", "checkVote", "update", "syncReq",
                                    "syncData", "ban", "del", "round", "block", "unknown"}]
    /\ MaxActive \in Nat \ {0}
    /\ MaxMessages \in Nat

VARIABLES
    running,        \* server_running
    listener,       \* server_fd: "none", "open" or "closed"
    slots,          \* value of client_slots
    semaphore,      \* client_slots is "none", "ready" or "destroyed"
    loop,           \* where server_thread_loop is
    conn,           \* the connections
    sent,           \* messages received on each
    lists           \* the limiter's lists are allocated

serverVars == <<running, listener, slots, semaphore, loop, conn, sent, lists>>

-----------------------------------------------------------------------------
(* What the handling of a message calls: the checks of handle_srv_message, *)
(* the limiter, the handler.                                               *)

\* A refused check ends the handling of the message.
VerifyIp   == <<Checked(Rest)>> \o Tail(ReadField)
VerifyData == CountDocuments

Register ==
    CountDocuments \o CountDocuments \o CountDocuments \o CountDocuments
    \o CountDocuments \o CountDocuments \o InsertDocument \o InsertDocument

Vote ==
    ReadField \o CountDocuments \o CountDocuments \o ReadField \o ProofFields
    \o DeleteDocument \o CountDocuments \o InsertDocument

CheckVote == VoteTotal

Update == UpdateDocument \o RefreshSolo \o RefreshSolo

SyncRequest == FindDocs

SyncData == DropCollection \o UpsertDocs \o DelegateIndexes

Ban  == UpdateDocument
Del  == DeleteDocument

Handling(kind) ==
    CASE kind = "register"   -> <<Limit>> \o Register
      [] kind = "list"       -> <<Limit>>
      [] kind = "vote"       -> <<Limit>> \o Vote
      [] kind = "checkVote"  -> <<Limit>> \o CheckVote
      [] kind = "update"     -> VerifyIp \o <<Limit>> \o Update
      [] kind = "syncReq"    -> VerifyIp \o VerifyData \o <<Limit>> \o SyncRequest
      [] kind = "syncData"   -> VerifyIp \o <<Limit>> \o SyncData
      [] kind = "ban"        -> VerifyIp \o VerifyData \o <<Limit>> \o Ban
      [] kind = "del"        -> VerifyIp \o VerifyData \o <<Limit>> \o Del
      [] kind = "round"      -> VerifyIp \o VerifyData \o <<Limit>>
      [] kind = "block"      -> VerifyIp \o <<Limit>>
      [] kind = "unknown"    -> VerifyIp

Busy == {c \in Conn : conn[c] \in {"serving", "closing"}}

-----------------------------------------------------------------------------
InitServer ==
    /\ running = TRUE
    /\ listener = "none"
    /\ slots = 0
    /\ semaphore = "none"
    /\ loop = "none"
    /\ conn = [c \in Conn |-> "away"]
    /\ sent = [c \in Conn |-> 0]
    /\ lists = TRUE

StartServer ==
    /\ listener' = "open"
    /\ semaphore' = "ready"
    /\ slots' = MaxActive
    /\ loop' = "check"
    /\ UNCHANGED <<running, conn, sent, lists>>

\* The kernel takes a connection as long as the socket listens.
Connect(c) ==
    /\ listener = "open"
    /\ conn[c] = "away"
    /\ conn' = [conn EXCEPT ![c] = "waiting"]
    /\ UNCHANGED <<running, listener, slots, semaphore, loop, sent, lists, poolVars>>

CheckRunning ==
    /\ loop = "check"
    /\ loop' = IF running THEN "accept" ELSE "ended"
    /\ UNCHANGED <<running, listener, slots, semaphore, conn, sent, lists, poolVars>>

Accept(c) ==
    /\ loop = "accept"
    /\ listener = "open"
    /\ conn[c] = "waiting"
    /\ conn' = [conn EXCEPT ![c] = "accepted"]
    /\ loop' = "slot"
    /\ UNCHANGED <<running, listener, slots, semaphore, sent, lists, poolVars>>

\* accept fails once the socket is closed.
AcceptFails ==
    /\ loop = "accept"
    /\ listener = "closed"
    /\ loop' = IF running THEN "check" ELSE "ended"
    /\ UNCHANGED <<running, listener, slots, semaphore, conn, sent, lists, poolVars>>

TakeSlot ==
    /\ loop = "slot"
    /\ slots > 0
    /\ slots' = slots - 1
    /\ loop' = "spawn"
    /\ UNCHANGED <<running, listener, semaphore, conn, sent, lists, poolVars>>

\* Fault: the slot is not given back when the thread cannot be started.
FailAndKeepSlot(c) ==
    /\ conn' = [conn EXCEPT ![c] = "gone"]
    /\ UNCHANGED slots

SpawnFails(c) ==
    /\ conn' = [conn EXCEPT ![c] = "gone"]
    /\ slots' = slots + 1

Spawn(c) ==
    /\ loop = "spawn"
    /\ conn[c] = "accepted"
    /\ loop' = "check"
    /\ \/ /\ conn' = [conn EXCEPT ![c] = "serving"]
          /\ UNCHANGED slots
       \/ SpawnFails(c)
    /\ UNCHANGED <<running, listener, semaphore, sent, lists, poolVars>>

Receive(c) ==
    /\ conn[c] = "serving"
    /\ sent[c] < MaxMessages
    /\ sent' = [sent EXCEPT ![c] = @ + 1]
    /\ \E kind \in Traffic[c] : Work(c, Handling(kind))
    /\ UNCHANGED <<running, listener, slots, semaphore, loop, conn, lists,
                   pool, held, inside, aborted>>

\* The lists of the limiter never hold a whole address, so nobody is
\* refused.  After they are freed, their end is looked for at address zero.
PassLimiter(c) ==
    /\ About(c, "limit")
    /\ \/ /\ lists
          /\ Done(c, 1)
          /\ UNCHANGED aborted
       \/ /\ ~lists
          /\ Abort(c)
          /\ UNCHANGED todo
    /\ UNCHANGED <<pool, held, inside, serverVars>>

\* The peer closes, sends nothing for RECEIVE_TIMEOUT_SEC, or speaks HTTP.
HangUp(c) ==
    /\ conn[c] = "serving"
    /\ todo[c] = <<>>
    /\ conn' = [conn EXCEPT ![c] = "closing"]
    /\ sent' = [sent EXCEPT ![c] = 0]
    /\ UNCHANGED <<running, listener, slots, semaphore, loop, lists, poolVars>>

\* A destroyed semaphore is posted all the same; nobody is left to notice.
PostSlot(c) ==
    /\ conn[c] = "closing"
    /\ conn' = [conn EXCEPT ![c] = "gone"]
    /\ slots' = IF semaphore = "ready" THEN slots + 1 ELSE slots
    /\ UNCHANGED <<running, listener, semaphore, loop, sent, lists, poolVars>>

\* Fault: the flag is cleared and the socket left to itself.
ClearFlag ==
    /\ running' = FALSE
    /\ UNCHANGED <<listener, slots, semaphore, loop, conn, sent, lists>>

\* stop_tcp_server, before it joins the loop and after.
StopListening ==
    /\ running' = FALSE
    /\ listener' = IF listener = "open" THEN "closed" ELSE listener
    /\ UNCHANGED <<slots, semaphore, loop, conn, sent, lists>>

\* Fault: the semaphore goes without regard for the loop.
LoopForgotten == TRUE

LoopJoined == loop = "ended"

DestroySlots ==
    /\ LoopJoined
    /\ semaphore' = "destroyed"
    /\ UNCHANGED <<running, listener, slots, loop, conn, sent, lists>>

-----------------------------------------------------------------------------
ServerTypeOK ==
    /\ running \in BOOLEAN
    /\ listener \in {"none", "open", "closed"}
    /\ slots \in 0..MaxActive
    /\ semaphore \in {"none", "ready", "destroyed"}
    /\ loop \in {"none", "check", "accept", "slot", "spawn", "ended"}
    /\ conn \in [Conn -> {"away", "waiting", "accepted", "serving", "closing", "gone"}]
    /\ sent \in [Conn -> 0..MaxMessages]
    /\ lists \in BOOLEAN

\* A slot is free, taken for a connection that is about to get its thread, or
\* held by one client thread, however threads fail to start and clients hang up.
SlotsAccounted ==
    semaphore = "ready" =>
        slots + Cardinality(Busy) + (IF loop = "spawn" THEN 1 ELSE 0) = MaxActive

\* The loop never waits on a semaphore stop_tcp_server has destroyed.
SemaphoreOutlivesLoop == loop \in {"check", "accept", "slot", "spawn"} => semaphore = "ready"

\* A client thread that ended, or waits for a message, has given every client
\* of the pool back, whichever of its operations failed.
ClientsReturned ==
    \A c \in Conn : conn[c] # "serving" \/ todo[c] = <<>> => held[c] = 0 /\ c \notin inside
=============================================================================
