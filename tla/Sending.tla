------------------------------ MODULE Sending ------------------------------
(***************************************************************************)
(* Sending a message to other nodes: xnet_send_data_multi (xcash_net.c)    *)
(* picks the hosts of a destination from the node's tables,                *)
(* send_multi_request (net_multi.c) starts workers that take the hosts one *)
(* by one, connect, send and store an answer, and                          *)
(* send_message_to_ip_or_hostname (net_server.c) sends to a single host    *)
(* from the calling thread.  At the other end handle_client reads the      *)
(* connection, and takes what one recv returns for one message.            *)
(*                                                                         *)
(* The module describes one call, to any destination.  Calls share         *)
(* nothing: the context of a call is a local variable of its caller.       *)
(***************************************************************************)
EXTENDS Naturals, Sequences, FiniteSets

CONSTANTS
    Hosts,              \* addresses of nodes: IP addresses or names
    NetworkNodes,       \* network_nodes, as a sequence of table entries
    DelegatesAll,       \* delegates_all
    DelegatesTimerAll,  \* delegates_timer_all
    BlockVerifiers,     \* current_block_verifiers_list
    Self,               \* xcash_wallet_public_address
    Addresses,          \* how many addresses each host's name resolves to
    Workers,            \* NET_MULTI_WORKERS
    Retries,            \* CONNECT_RETRY_COUNT
    Units,              \* the compressed message, in pieces send may split
    MaxHosts            \* bound: entries of a table

Empty == ""

ASSUME SendingAssumption ==
    /\ \A table \in {NetworkNodes, DelegatesAll, DelegatesTimerAll, BlockVerifiers} :
         /\ table \in Seq([addr : STRING, ip : Hosts \cup {Empty}])
         /\ Len(table) <= MaxHosts
    /\ Empty \notin Hosts
    /\ Addresses \in [Hosts -> Nat]
    /\ MaxHosts \in Nat \ {0}
    /\ Workers \in Nat \ {0}
    /\ Retries \in Nat \ {0}
    /\ Units \in Nat \ {0}

VARIABLES
    call,       \* the caller: where it is, the hosts, those not taken yet
    worker,     \* the threads that send; worker 0 is the caller itself
    answer,     \* the status of each host's response, "none" while it is NULL
    link,       \* the connection made to each host, both ends
    tried       \* the addresses of each host that were attempted

vars == <<call, worker, answer, link, tried>>

Position == 1 .. MaxHosts
Thread   == 0 .. Workers

-----------------------------------------------------------------------------
(* The hosts of a destination.  The list of hosts is a compacted copy of   *)
(* a table; here a host is known by its position in the table, and the     *)
(* order of the list is the order of the positions.                        *)

Seeds == {NetworkNodes[i].addr : i \in DOMAIN NetworkNodes}

\* The entries of a table before its first empty one.
Filled(table) ==
    {i \in DOMAIN table : \A j \in 1 .. i : table[j].addr # Empty}

HasIp(entry) == entry.ip # Empty

Another(entry) == HasIp(entry) /\ entry.addr # Self

NotSeed(entry) == HasIp(entry) /\ entry.addr \notin Seeds

Listed(table, chosen) == [i \in chosen |-> table[i].ip]

\* The host lists of xnet_send_data_multi.
HostsOf(dest) ==
    CASE dest = "seeds" ->
           Listed(NetworkNodes,
                  {i \in DOMAIN NetworkNodes : Another(NetworkNodes[i])})
      [] dest = "noSeeds" ->
           Listed(DelegatesTimerAll,
                  {i \in Filled(DelegatesTimerAll) : NotSeed(DelegatesTimerAll[i])})
      [] dest = "delegates" ->
           Listed(DelegatesAll, {i \in DOMAIN DelegatesAll : HasIp(DelegatesAll[i])})
      [] dest = "committee" ->
           Listed(BlockVerifiers,
                  {i \in Filled(BlockVerifiers) : Another(BlockVerifiers[i])})

Destination == {"seeds", "noSeeds", "delegates", "committee"}

-----------------------------------------------------------------------------
NoLink == [at |-> "none", sent |-> 0, got |-> 0, handled |-> 0]

Resting == [at |-> "none", i |-> 0, addr |-> 0, try |-> 0]

Init ==
    /\ call = [at |-> "idle", hosts |-> <<>>, left |-> {}, t |-> 1]
    /\ worker = [w \in Thread |-> Resting]
    /\ answer = [i \in Position |-> "none"]
    /\ link = [i \in Position |-> NoLink]
    /\ tried = [i \in Position |-> {}]

Total == Cardinality(DOMAIN call.hosts)

\* nworkers
Started == IF Total < Workers THEN Total ELSE Workers

-----------------------------------------------------------------------------
(* The caller                                                              *)

\* The hosts are listed and the message compressed; a call without hosts
\* returns at once.
Call(dest) ==
    /\ call.at = "idle"
    /\ LET hosts == HostsOf(dest)
       IN  call' = [call EXCEPT !.at = IF DOMAIN hosts = {} THEN "done" ELSE "launch",
                                !.hosts = hosts, !.left = DOMAIN hosts]
    /\ UNCHANGED <<worker, answer, link, tried>>

\* compress_gzip_with_prefix fails: no worker is started.
CompressFails ==
    /\ call.at = "launch"
    /\ call.t = 1
    /\ call' = [call EXCEPT !.at = "done"]
    /\ UNCHANGED <<worker, answer, link, tried>>

\* pthread_create; its result is ignored.
Launch ==
    /\ call.at = "launch"
    /\ \E created \in BOOLEAN :
         worker' = [worker EXCEPT ![call.t].at = IF created THEN "take" ELSE "failed"]
    /\ call' = IF call.t = Started THEN [call EXCEPT !.at = "join", !.t = 1]
                                   ELSE [call EXCEPT !.t = @ + 1]
    /\ UNCHANGED <<answer, link, tried>>

Joinable(w) == worker[w].at \in {"ended", "failed"}

\* Fault: the caller returns without waiting for its workers.
AnyWorker(w) == TRUE

CanJoin(w) == Joinable(w)

Join ==
    /\ call.at = "join"
    /\ CanJoin(call.t)
    /\ call' = IF call.t = Started THEN [call EXCEPT !.at = "done"]
                                   ELSE [call EXCEPT !.t = @ + 1]
    /\ UNCHANGED <<worker, answer, link, tried>>

\* The identifier of a thread that was not created was never written:
\* joining it may return at once (Join) or end the program.
JoinGarbage ==
    /\ call.at = "join"
    /\ worker[call.t].at = "failed"
    /\ call' = [call EXCEPT !.at = "crashed"]
    /\ UNCHANGED <<worker, answer, link, tried>>

\* send_message_to_ip_or_hostname: the caller connects and sends itself.
CallOne(h) ==
    /\ call.at = "idle"
    /\ call' = [call EXCEPT !.at = "single", !.hosts = <<h>>]
    /\ worker' = [worker EXCEPT ![0] = [Resting EXCEPT !.at = "resolve", !.i = 1]]
    /\ UNCHANGED <<answer, link, tried>>

ReturnOne ==
    /\ call.at = "single"
    /\ worker[0].at = "ended"
    /\ call' = [call EXCEPT !.at = "done"]
    /\ UNCHANGED <<worker, answer, link, tried>>

-----------------------------------------------------------------------------
(* A thread that sends                                                     *)

\* Once it has stored its answer a worker looks for another host; the
\* caller of a single send returns.
Ready(w) == [Resting EXCEPT !.at = IF w = 0 THEN "ended" ELSE "take"]

Finish(w, status) ==
    /\ answer' = [answer EXCEPT ![worker[w].i] = status]
    /\ worker' = [worker EXCEPT ![w] = Ready(w)]

\* Fault: the last host of the list is left out.
ButLast(i) == i \in call.left /\ Cardinality(call.left) > 1 /\ \A j \in call.left : i <= j

NextIndex(i) == i \in call.left /\ \A j \in call.left : i <= j

\* The next index is read and incremented under ctx->mu.
Take(w) ==
    /\ worker[w].at = "take"
    /\ \E i \in Position :
         /\ NextIndex(i)
         /\ call' = [call EXCEPT !.left = @ \ {i}]
         /\ worker' = [worker EXCEPT ![w].at = "resolve", ![w].i = i]
    /\ UNCHANGED <<answer, link, tried>>

\* Fault: a worker that finds no more hosts looks again.
LookAgain(w) ==
    /\ worker[w].at = "take"
    /\ ~\E i \in Position : NextIndex(i)
    /\ UNCHANGED vars

NoMore(w) ==
    /\ worker[w].at = "take"
    /\ ~\E i \in Position : NextIndex(i)
    /\ worker' = [worker EXCEPT ![w].at = "ended"]
    /\ UNCHANGED <<call, answer, link, tried>>

HostOf(w) == call.hosts[worker[w].i]

ResolveFails(w) ==
    /\ worker[w].at = "resolve"
    /\ Finish(w, "error")
    /\ UNCHANGED <<call, link, tried>>

Resolve(w) ==
    /\ worker[w].at = "resolve"
    /\ Addresses[HostOf(w)] > 0
    /\ worker' = [worker EXCEPT ![w].at = "connect", ![w].addr = 1, ![w].try = 1]
    /\ UNCHANGED <<call, answer, link, tried>>

\* The failures an attempt is repeated after.
Transient == {"timeout", "unreachable", "noSocket"}

\* Fault: a refused connection ends the loop over the addresses.
OnlyTransient(w, err) ==
    /\ worker[w].addr < Addresses[HostOf(w)]
    /\ err \in Transient

AnotherAddress(w, err) == w # 0 /\ worker[w].addr < Addresses[HostOf(w)]

\* Fault: one attempt more than CONNECT_RETRY_COUNT.
OneMoreTry(w, err) == w # 0 /\ err \in Transient /\ worker[w].try <= Retries

AnotherTry(w, err) == w # 0 /\ err \in Transient /\ worker[w].try < Retries

Attempted(w) ==
    tried' = [tried EXCEPT ![worker[w].i] = @ \cup {worker[w].addr}]

ConnectFails(w, err) ==
    /\ worker[w].at = "connect"
    /\ Attempted(w)
    /\ \/ /\ AnotherTry(w, err)
          /\ worker' = [worker EXCEPT ![w].try = @ + 1]
          /\ UNCHANGED answer
       \/ /\ ~AnotherTry(w, err)
          /\ AnotherAddress(w, err)
          /\ worker' = [worker EXCEPT ![w].addr = @ + 1, ![w].try = 1]
          /\ UNCHANGED answer
       \/ /\ ~AnotherTry(w, err)
          /\ ~AnotherAddress(w, err)
          /\ Finish(w, IF err = "timeout" /\ w # 0 THEN "timeout" ELSE "error")
    /\ UNCHANGED <<call, link>>

Connect(w) ==
    /\ worker[w].at = "connect"
    /\ Attempted(w)
    /\ link' = [link EXCEPT ![worker[w].i].at = "open"]
    /\ worker' = [worker EXCEPT ![w].at = "send"]
    /\ UNCHANGED <<call, answer>>

\* send takes part of what is left.
SendPart(w) ==
    /\ worker[w].at = "send"
    /\ \E n \in 1 .. Units - link[worker[w].i].sent :
         link' = [link EXCEPT ![worker[w].i].sent = @ + n]
    /\ UNCHANGED <<call, worker, answer, tried>>

\* Fault: a message is reported as sent when its first piece is.
SomeSent(w) == link[worker[w].i].sent > 0

AllSent(w) == link[worker[w].i].sent = Units

Sent(w) ==
    /\ worker[w].at = "send"
    /\ AllSent(w)
    /\ Finish(w, "ok")
    /\ UNCHANGED <<call, link, tried>>

\* Fault: after the last piece the loop waits for room once more.
UpToWhole(w) == link[worker[w].i].sent <= Units

Unfinished(w) == link[worker[w].i].sent < Units

\* select times out, or send fails; for a single send, the compression too.
SendFails(w) ==
    /\ worker[w].at = "send"
    /\ Unfinished(w)
    /\ Finish(w, "error")
    /\ UNCHANGED <<call, link, tried>>

-----------------------------------------------------------------------------
(* The other end                                                           *)

\* One recv is one message: a piece of it fails to decompress, and is lost.
Receive(i) ==
    /\ link[i].at = "open"
    /\ \E n \in 1 .. link[i].sent - link[i].got :
         link' = [link EXCEPT ![i].got = @ + n,
                              ![i].handled = IF n = Units THEN @ + 1 ELSE @]
    /\ UNCHANGED <<call, worker, answer, tried>>

\* recv times out or fails, the connection is reset, the peer ends: what is
\* on its way is lost.
HangUp(i) ==
    /\ link[i].at = "open"
    /\ link' = [link EXCEPT ![i].at = "over"]
    /\ UNCHANGED <<call, worker, answer, tried>>

-----------------------------------------------------------------------------
\* The system runs until a garbage identifier ends the program.
Alive == call.at # "crashed"

Request ==
    \/ \E dest \in Destination : Call(dest)
    \/ \E h \in Hosts : CallOne(h)

CallerStep == CompressFails \/ Launch \/ Join \/ JoinGarbage \/ ReturnOne

WorkerStep(w) ==
    \/ Take(w) \/ NoMore(w) \/ ResolveFails(w) \/ Resolve(w)
    \/ \E err \in Transient \cup {"refused"} : ConnectFails(w, err)
    \/ Connect(w) \/ SendPart(w) \/ Sent(w) \/ SendFails(w)

Next ==
    \/ Request
    \/ CallerStep
    \/ Alive /\ \E w \in Thread : WorkerStep(w)
    \/ \E i \in Position : Receive(i) \/ HangUp(i)

\* Every step of the caller and of a worker is bounded by a timeout.
Fairness ==
    /\ WF_vars(CallerStep)
    /\ \A w \in Thread : WF_vars(Alive /\ WorkerStep(w))

Spec == Init /\ [][Next]_vars /\ Fairness

-----------------------------------------------------------------------------
TypeOK ==
    /\ call.at \in {"idle", "launch", "join", "single", "done", "crashed"}
    /\ DOMAIN call.hosts \subseteq Position
    /\ \A i \in DOMAIN call.hosts : call.hosts[i] \in Hosts
    /\ call.left \subseteq DOMAIN call.hosts
    /\ call.t \in 1 .. Workers
    /\ worker \in [Thread ->
         [at : {"none", "failed", "take", "resolve", "connect", "send", "ended"},
          i : Position \cup {0}, addr : Nat, try : 0 .. Retries]]
    /\ answer \in [Position -> {"none", "ok", "error", "timeout"}]
    /\ link \in [Position -> [at : {"none", "open", "over"}, sent : 0 .. Units,
                             got : 0 .. Units, handled : Nat]]
    /\ tried \in [Position -> SUBSET Nat]

Active(w) == worker[w].at \notin {"none", "failed", "ended"}

\* When a fan-out returns, every member of the destination but the node
\* itself and those without an address has an answer, however the workers
\* shared the hosts, provided the message was compressed and one worker
\* started.  The round counts and frees these answers up to the first hole.
AnsweredAll ==
    call.at = "done" /\ (\E w \in Thread \ {0} : worker[w].at = "ended") =>
        \A i \in DOMAIN call.hosts : answer[i] # "none"

\* No worker outlives the call: the context they share is a local variable
\* of send_multi_request, and the message is freed when it returns.
NoWorkerLeft == call.at = "done" => \A w \in Thread : ~Active(w)

\* An answer other than "ok" means that the host does not handle the
\* message and never will: sending it again cannot make it count twice.
FailureUnhandled ==
    \A i \in Position : answer[i] \in {"error", "timeout"} => link[i].handled = 0

\* A fan-out gives a host up without a connection only once every address
\* of its name was attempted.
GivenUpAfterAll ==
    \A i \in DOMAIN call.hosts :
        answer[i] # "none" /\ link[i].at = "none" /\ tried[i] # {} /\ worker[0].at = "none"
            => tried[i] = 1 .. Addresses[call.hosts[i]]

\* The caller is always answered, unless joining a thread that was never
\* created ends the program.
CallReturns == call.at \notin {"idle", "done", "crashed"} ~> call.at \in {"done", "crashed"}

-----------------------------------------------------------------------------
(* What a call promises, and how this module keeps it.                     *)

Promise == INSTANCE FanOut WITH
    Host    <- Position,
    handed  <- {i \in Position : link[i].sent = Units},
    handled <- [i \in Position |-> link[i].handled],
    answer  <- [i \in Position |-> IF answer[i] \in {"error", "timeout"}
                                   THEN "failed" ELSE answer[i]]

\* Workers, connections, retries and partial sends together hand each host
\* the message at most once, let it be handled at most once, and answer
\* once for each, "ok" exactly when it was handed over.
KeepsPromise == Promise!Spec
=============================================================================
