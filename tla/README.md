# Verification of xcash-labs-dpops

TLA+ modules, TLC runs and TLAPS proofs about the delegated proof-of-private-stake
daemon (`src/src`). Paths below are relative to `src/src`; line numbers refer to
the commit the modules were written from. `PROJECT.json` maps every definition to
the lines it models.

Run a model: `tlc -workers 2 -config round_two.cfg MCRound`. Check proofs:
`tlapm RoundAgreement_proofs.tla`.

## 1. The system

A delegate is one process with a local daemon (`xcashd`), a local wallet RPC and a
MongoDB. Seed nodes share one replica set; other delegates have a database of their
own. Once a minute every delegate runs a round, on its own clock, to decide who
makes the next block.

| Component | State it keeps | Operations | Modelled |
|---|---|---|---|
| committee selection (`xcash_round/xcash_round.c`) | none | `build_committee_list_from_online_list`, `committee_candidate_cmp`, quorum, agreement threshold, producer slot | `Committee` |
| production rounds (`xcash_round.c`, `block_verifiers_functions.c`) | `current_round_part`, `previous_block_hash`, `current_block_height`, `current_block_verifiers_list`, `producer_indx`, `producer_refs[0]`, `last_winner_name`, `blockchain_ready`, `blockchain_stuck` | `start_block_production`, `process_round`, `sync_block_verifiers_minutes_and_seconds`, `block_verifiers_create_vote_majority_result`, `block_verifiers_create_block` | `DpopsRound` |
| round message handlers (`block_verifiers_server_functions.c`) | the VRF fields of `delegates_all`, votes and totals in the verifiers list | the VRF handler, the vote handler, maintenance | `DpopsRound`, `DbSync` (partly) |
| message gate (`network_security_functions.c`) | none | `sign_data`, `verify_data`, `verify_the_ip` | in the vote handler and in `Handling` of `TcpServer` |
| block validation (`delegate_server_functions.c:286`) | none | the daemon's `XCASHD_TO_DPOPS_VERIFY` request | `AcceptsBlock` |
| votes (`delegate_server_functions.c:766`) | collection `reserve_proofs` | vote, revote, `check_vote_status` | `ReserveProofs` |
| proof-check and payout job (`xcash_timer_thread.c`) | `agg_total`, `pay_buckets`, `delegates_timer_all`; `total_vote_count` of the delegates | `run_proof_check` | `ReserveProofs` |
| delegate database sync (`db/db_sync`, `block_verifiers_synchronize_server_functions.c`) | collection `delegates`, its hash, a sync token | compare hashes, choose a source, export, drop and refill | `DbSync` |
| registration and update (`delegate_server_functions.c`) | collections `delegates`, `statistics`, the solo addresses | register, update | `DelegateRecords` |
| round records (`xcash_round.c:755-1220`) | `statistics`, `consensus_rounds`, `delegates_all` | what every seed writes after :50, the reload | `DelegateRecords` |
| ranking (`xcash_delegates.c`) | `delegates_all` | `read_organize_delegates`, sort | its result is the constant `Order`; the reload is in `DbSync` and `DelegateRecords` |
| client pool (`db_init.c`, `db_functions.c`) | pooled database clients | pop, push, on every path of every operation | `ClientPool` |
| TCP server, dispatch, limiter (`net_server.c`, `xcash_message.c`, `server_functions.c`) | socket, client slots, threads, address lists | accept, spawn, handle, hang up, stop; check, remove | `TcpServer` |
| start-up and shutdown (`xcash_dpops.c`, `init_processing.c`) | `shutdown_requested`, the pool, the scheduler, the server | `main`, `init_processing`, signals | `DpopsNode`, and `DelegateRecords` for what is written |
| timer, maintenance (`xcash_timer_thread.c`) | the maintenance file | start, process the file, run the job, end | `DpopsNode`, `DelegateRecords` |
| sending (`xcash_net.c`, `net_multi.c`, `net_server.c`) | the context of a call | `xnet_send_data_multi`, `send_multi_request`, `send_message_to_ip_or_hostname` | `Sending`, `FanOut` |
| HTTP, daemon and wallet RPC, VRF, strings | - | - | not modelled, or by what their answers mean |

**How they interact.** The round thread writes the round state; handler threads, one
per TCP connection, write VRF data and votes into it under two different mutexes
(`delegates_all_lock`, `current_block_verifiers_lock`); the daemon calls back for each
block, its own delegate's included. Rounds of different delegates meet only in
messages and blocks. The timer thread of one seed (`is_job_node`) shares the database
with the handler threads of all seeds. All threads of a process share one pool of database
clients, which main makes after it starts the server and destroys before it stops it. Seeds
write the same statistics and the same consensus round after every block.

### What is hard

* **Rounds**: delegates see different delegates online and so count in different
  committees; a vote is recorded and totalled in two critical sections, and the tally
  reads totals and voters in two others; VRF data is read while it is written; the
  previous hash and the height are two RPCs, the height is compared once more unless that
  call fails, and the template is another reading; a delegate may be late at a sync point,
  fail a call or restart; a block may arrive before its election is known, or be validated
  in one part of a round and appended in another; votes are lost, reordered, or late by a
  round; `last_winner_name` outlives the round.
* **Votes and job**: the job reads a cursor batch by batch while votes are stored,
  replaced and removed; it deletes by voter what it judged by document; the wallet, the
  database and the cursor may fail in the middle; totals are written only when they
  changed; a vote is deleted before its successor is inserted.
* **Sync**: the collection is dropped and refilled document by document while the round
  thread hashes it and other handlers export it; what a source reported may have changed
  when it is asked; requests and answers get lost or come rounds later; a fill breaks off.
* **Records**: seeds start side by side on one empty database while their servers already take
  registrations; the same client registers on every seed; a delegate is two documents, written and
  removed one after the other; all seeds count the same height; two find no round of a height and
  both insert one; two updates rewrite the same solo addresses row by row; any operation may be
  refused and any seed may stop between any two.
* **One process**: an operation that holds a pooled client waits for a second one; the accept loop
  waits for a slot; client threads are detached and outlive the pool, the semaphore and the
  limiter's lists; a stop may come at any point of the start.
* **Sending**: workers share the list of hosts, the answers and a context on the caller's stack; a
  connection is tried at several addresses, several times; `send` splits; the receiver takes one
  `recv` for one message; threads may not start.

The full list, each at its line with the properties that watch it, is `hazards` in
`PROJECT.json`.

### What makes each component correct

* Rounds: no two producers elected in a round where majorities must overlap; a result is
  always backed by enough votes of committee members of this round; no vote is added
  twice, and none is left out but for VRF data that was not complete; a block is made
  only by an elected producer, on the chain voted on or, where the check of Part 8 missed
  that it has grown, on a late block of an earlier round; when nothing fails every round
  ends with a block.
* Votes and job: a standing vote is counted, whatever happens beside the scan; totals and
  payouts of an undisturbed job are those of the stored votes; votes are only removed for
  a reason; the cap on voters holds.
* Sync: a minority never spreads its copy; a delegate that differs ends with the copy the
  others share.
* Records: a start that was neither cut off nor overtaken leaves a whole database; a delegate has statistics exactly
  while it is registered; each height is counted once for each delegate and left out for none, and
  has one round; solo addresses are those of the last update.
* One process: every slot and every client is given back; main and the scheduler never ask a pool
  that is not there; a request to stop is followed.
* Sending: a call returns, answers once for every host, and truthfully; no thread outlives it.

## 2. Modules

| Module | Role |
|---|---|
| `Committee` | pure decisions of a round, as operators |
| `Ballot` | what the rounds promise: votes, elections, blocks |
| `DpopsRound` | all delegates' rounds together; extends `Committee`, implements `Ballot` |
| `RoundLiveness` | the rounds when nothing fails, with fairness; extends `DpopsRound` |
| `ReserveProofs` | vote intake and the proof-check job |
| `DbSync` | the delegates collections of all delegates, and how they are made alike |
| `DelegateRecords` | the collections of the seeds: start, registration, update, maintenance, statistics, rounds |
| `ClientPool` | the database operations as what they take from the pool and give back |
| `TcpServer` | accept loop, client threads, dispatch, limiter; extends `ClientPool` |
| `DpopsNode` | the life of one daemon: main and the scheduler around the server; extends `TcpServer` |
| `FanOut` | what sending to several hosts promises |
| `Sending` | how it is done; implements `FanOut` |
| `MCRound`, `MCRoundLiveness`, `MCReserve`, `MCDbSync`, `MCRecords`, `MCNode`, `MCSending` | small instances for TLC |
| `*_proofs` | lemmas and theorems, section 5 |

### DpopsRound and the code

`clock` cuts a minute at the sync points :20, :30 and :50; `round` numbers the minutes.
A chain is the sequence of its producers, which stands for the hash of its tip too, so two
chains are equal exactly when their hashes would be.

| Action | Code |
|---|---|
| `BeginRound`, `SendVrf` | `start_block_production` and Parts 1-4 of `process_round`: the hash and the height come from two calls, between which a block may arrive |
| `Vote` | Parts 5-7 after :20: packing the online delegates with what VRF data they have (`Views`, `gaps`), the quorum, the committee, the slot, the own vote, the broadcast |
| `FollowCandidate` | the non-committee branch after :30 (`xcash_round.c:447-495`) |
| `FindWinner`, `Elect` | the two critical sections of the tally (`:502-700`) and the decision |
| `ConfirmHeight` | Part 8 (`block_verifiers_functions.c:147`): a height that moved ends the round, a call that fails does not, so a delegate in `Faulty` may pass with a height that moved |
| `MakeTemplate` | Parts 9 and 10: the template is made on whatever is the daemon's tip by then |
| `SubmitBlock`, `AnswerLate` | Part 11; the daemon may take the block and its answer may come too late (`network_daemon_functions.c:249`): then the block is on its way and the round of its producer ends in error |
| `RoundError` | every path that returns `ROUND_ERROR` or skips; it forgets the last winner and `blockchain_ready` and leaves the rest |
| `ValidateBlock`, `AcceptsBlock` | the daemon offers a block, `validate_block` answers; the answer is remembered in `approved` |
| `AppendBlock` | external: the daemon appends a block that passed, at any later time while it extends its tip. A block let pass before Part 3, when the height is still empty and no block counts as live, may so be appended after it: this is the drift of Part 8 |
| `RecordVote`, `AddVote` | the two critical sections of the vote handler (`block_verifiers_server_functions.c:155-217`); between them the handler leaves when the height is not that of the round any more (`:181`), in the second when key, proof or beta of the candidate differ from its own list's (`:192-208`): the voter stays recorded and its vote is not added (`VoteMatches`) |
| `Restart` | the process is restarted; it keeps its chain only |
| `Tick`, `NextRound` | the clocks |

`Ballot` is the promise behind the messages and clocks: in a round a delegate casts at most one vote, for
a producer and a set of keys; it elects a producer only with two thirds of such a set, all of them voters
for that producer and that very set; an election is changed only by forgetting it; a producer that holds
its own election makes at most one block from it; nothing but the number of the round outlives the round.
`DpopsRound` implements it by the mapping `Promise`: the votes of the current round, the result a delegate
holds with its voters while it is in the current round, and the blocks it made in that round.
A result without voters, which a delegate outside the committee takes from its own candidate, is no
election and maps to none. Agreement is not part of `Ballot`: it holds only where majorities must overlap
and is stated on its own.

Assumptions and abstractions, by name:

* One `Order` for all delegates: their rankings agree. `delegates_all` sorts by totals
  that only the seeds are sure to know (see the note in section 6), so this holds while no
  more than `BLOCK_VERIFIERS_AMOUNT` (50) delegates exist, since then the ranking only
  decides ties of VRF outputs.
* Messages are sets that never shrink within a round, so that they are lost, delayed and
  reordered at will; a handler is free to take one never. The vote handler refuses a
  second vote of the same voter, so duplicates need no copies.
* `verify_data` and the first critical section of the vote handler are one step: the gate
  reads state the round thread changes only at part boundaries, and the handler then
  checks the signature against the same state under the lock.
* The VRF handler is reduced to what Part 5 sees (`Views`): any part of the delegates
  heard, at most `MaxMissing` of them missing, which includes those that Part 4 could not
  hand its own message (`xcash_round.c:305-318` asks for `STATUS_OK` of each host);
  and, because Part 5 does not take that handler's lock, some marked online whose VRF data
  is not all there: of the delegates in `Faulty`, some whose beta is missing (`late`), and of
  those in `Torn` some whose proof was copied half, or not at all, while their beta had come
  by the time it was read (`torn`): the handler writes proof and beta in that order
  (`block_verifiers_server_functions.c:102`) and Part 5 reads them in that order. A list keeps
  in `gaps` whose data it lacks; a vote for a candidate whose proof the voter has torn is not
  `whole`. Two torn copies of a proof count as different; that they happen to be cut at the
  same character is left out. An empty torn proof keeps the delegate from voting
  (`MayLackProof`), another does not.
* A vote handler holds its vote between its two critical sections for as long as it likes, also
  into the next round, up to :20. The wallet's check of a signature takes at most the four seconds of
  `HTTP_TIMEOUT_SETTINGS`, and handlers queue for the lock with one check each; `Tick` says that
  they are through before the list is cleared.
* The daemon builds a template on its tip only, refuses a submission whose parent is not its tip any
  more, and offers no block twice that it has appended: external, `Submittable` and `AppendBlock`.
* The VRF output is a number for each height and delegate (`Lottery`); it does not depend
  on the minute, as in the code.
* `NextRound` requires that no round is still running. The sync points compare the second within
  the block time, which is one minute, so a round that lasts a minute more would meet those of the
  next minute unnoticed; the model leaves to the timeouts of the calls that none does.
* A producer may offer its block before other delegates have reached part "12"; they
  refuse it and the daemons offer it again.
* What is written to the database after :50 is in `DelegateRecords`.

### ReserveProofs and the code

`proofs` is the collection, each document numbered in insertion order, in which the cursor
returns them. Two kinds of process run: handler threads (`Prove`, `Replace`, `Insert`: the
check with the look-ups, the deletion of the earlier vote, the insertion) and the job
(`StartScan`, `Fetch`, `Check`, `EndScan`, then the passes `WriteTotal`, `ZeroTotal`, `Pay`).
A fetched batch is a copy and may be out of date when it is looked at. `Spend` is the
external event that makes a stored proof invalid. Failures: a wallet that does not answer
(`WalletFails`), refused deletions, insertions and writes, a cursor error (`ScanFails`), an
instruction that does not arrive, and a seed that stops in the middle (`EndJob`). The
history variables `standing` and `quiet` exist for the properties only. Counting the votes
of a delegate and zeroing its total are one step, which is sound because the intake does not
write totals and the pass treats each delegate once.

### DbSync and the code

A copy of the collection is the sequence of its documents in the order they were written; its
hash is the set of them, because `hash_delegates_collection` sorts by `_id` and two different
contents hash differently. `window` cuts the minute at :20, :50 and :57.

| Action | Code |
|---|---|
| `BeginRound` | the reset of `delegate_db_hash_mismatch`, Parts 1-4: a delegate that is not in its own list ends the round, the others hash their copy and send the hash with the VRF data |
| `CheckOnline` | the VRF handler's comparison of the hashes (`block_verifiers_server_functions.c:34-59`), the quorum of Part 5, and whatever else makes the round succeed or fail |
| `Resync` | the error branch after :50 (`xcash_round.c:1163-1189`) with `select_random_online_delegate`, the token and the request; the request may get lost |
| `Record` | the branch of a round that succeeded; it writes only `online_status`, which the hash leaves out |
| `Answer` | `server_receive_data_socket_node_to_node_db_sync_req` |
| `Drop`, `WriteDocument`, `FillFails` | `server_receive_data_socket_node_to_node_db_sync_data`: the checks and the drop, each upsert, an upsert that fails |
| `Load` | `fill_delegates_from_db` at :57, which waits for `delegates_all_lock` |

Assumptions and abstractions, by name:

* The seeds share one database (`StoreOf`); every other delegate has its own.
* Hashing and exporting are one step each: the collection has at most 100 documents, which the
  database returns in one batch.
* A VRF message is handled in its minute or not at all; `MaxMissing` bounds what a delegate misses
  beyond the senders its copy does not hold (`verify_the_ip`). All delegates see the same height.
* The signature of an answer is checked in the same step as the token and the drop: a request has
  one answer, so nothing can come in between that uses the token up.
* Registration and updates do not happen meanwhile, and the database answers the reload of :57 (the
  counter `missed_load` is in `DpopsNode`).
* No delegate is banned or was registered in the last ten minutes, so the list is the collection.

### DelegateRecords and the code

The collections are sets of documents and functions on keys; every step is one operation of the
database, which is atomic, may be refused, and may be the last one of a seed.

| Action | Code |
|---|---|
| `Start`, `CountDelegates`, `MiscountDelegates`, `InsertSeed`, `InsertSeedStats`, `AddSeedIndexes`, `AddIndexes`, `Run` | `init_processing`, operation by operation, for every seed; a count that fails is -1 or 0 and, like 0, lets the start go on to insert (`init_processing.c:23`); a refused insertion or index ends the program |
| `CheckApproval`, `CheckField`, `CheckRoom`, `InsertDelegate`, `InsertDelegateStats` | the registration handler: approval, address, machine, key and name looked up one by one, the cap, the two insertions |
| `MiscountApproval`, `MiscountField` | a count that fails reads as -1, or as 0 when it is the look-up of the collection that fails |
| `UpdateFields`, `ClearSolo`, `InsertSolo` | the update handler and `refresh_allowed_solo_addresses` for each of its lists |
| `TakeFile`, `Ban`, `RemoveDelegate`, `RemoveStats` | the maintenance file, line by line |
| `EndRound`, `Advance`, `BeginCount`, `CountNext`, `FindRound`, `InsertRound`, `Reload` | after :50: online status, whether the height advanced, one statistics update per delegate with the watermark filter, the upsert of the round as the look-up and the insertion it is, the reload |
| `RefuseJob`, `RefuseBoot`, `RefuseLine`, `RefuseWrite`, `Crash` | operations the database refuses; a seed that stops |

Abstractions: the winner of a height is the same for all seeds (`Agreement` is about that); the field
`block_verifier_online_total_rounds` and the values of the online status are left out, refusing them is
not; the maintenance lines of the instance remove no seed delegate; replies to clients are left out except
for what follows them. The history variables say which heights were counted where (`credited`), what a
writer still owes (`owed`), whose two documents were written apart or twice at once (`torn`), which
starts were cut off or overtaken (`spoiled`) and who emptied the solo addresses last (`cleared`). A start
is overtaken by a registration or an update that comes before the indexes, and by a consensus round that
is recorded before its index: a seed that counts while another one is inserting finds the database filled
and goes to work. The list of a writer (`List`) is a fold over `Order`.

### ClientPool, TcpServer, DpopsNode and the code

An operation on the database is the list of calls it makes on the pool. `get_temporary_connection` tests
whether there is a pool and leaves the operation otherwise; other operations call the library without a
test, which ends the process when there is none. Operations that first look the collection up
(`LookedUp`) hold one client while they take another. A handler is the operations of its checks
(`verify_the_ip`, `verify_data`), the limiter and its own; it may stop between any two (`GiveUp`).

| Action | Code |
|---|---|
| `Accept`, `TakeSlot`, `Spawn`, `CheckRunning`, `AcceptFails` | `server_thread_loop` |
| `Receive`, `PassLimiter`, `HangUp`, `PostSlot` | `handle_client` and `handle_srv_message` |
| `StopListening`, `DestroySlots` | `stop_tcp_server` before and after it joins the loop |
| `Launch` ... `PrintStarterState` | `main` up to `start_block_production` |
| `ReadKey` ... `Reloaded` | `start_block_production`: waiting for key and chain, the first load, a round, the reload with `missed_load` |
| `StopScheduler` ... `Return` | the end of `main`: join the scheduler, `shutdown_db`, `stop_tcp_server`, `cleanup_data_structures` |
| `TimerStart`, `Maintain`, `Slot`, `TimerEnd` | `timer_thread` |
| `Signal` | `sigint_handler`: the first asks, the second ends the process |

Abstractions: the job is the one client it holds and may start at any time; a thread that waits in a
pool that is destroyed either ends the process or never wakes; clients stop talking after
`MaxMessages` or are cut off by the receive timeout; accept errors on an open socket and failing
allocations are left out; the limiter never refuses, as in the code (section 6), and reading its lists
after `cleanup_data_structures` freed them ends the process.

### Sending, FanOut and the code

One behaviour is one call: calls share nothing, since the context is a local variable. A host is
known by its place in the table it comes from.

| Action | Code |
|---|---|
| `Call` | the host list of `xnet_send_data_multi`, the compression |
| `Launch`, `Join`, `JoinGarbage` | `send_multi_request`; the result of `pthread_create` is ignored, so an identifier nobody wrote may be joined: it returns, or the program ends |
| `Take`, `NoMore` | the shared index under `ctx->mu` |
| `Resolve`, `ConnectFails`, `Connect`, `SendPart`, `Sent`, `SendFails` | `send_to_one_host`: addresses, attempts, what is repeated after which error, partial sends, the status |
| `CallOne`, `ReturnOne` | `send_message_to_ip_or_hostname` |
| `Receive`, `HangUp` | `handle_client` at the other end: one `recv` is one message |

`FanOut` is the promise: a host is handed the message at most once, handles it at most once and only
when it was handed, and is answered for once, "ok" exactly when it was handed. `Sending` implements it
by the mapping `Promise`: handed are the connections that took all pieces, handled what the receiver
counts, answers with the two kinds of failure made one. An "ok" is no promise that the host handles the
message: a message that arrives in two pieces is lost. Of the callers, Part 4 uses the answers per host:
Part 5 packs only delegates whose host answered "ok" (`xcash_round.c:305-318`), so that a delegate it could
not reach counts as offline, which is one more way to be missing in `Views` of `DpopsRound`. For this it
matters that each host is answered for, and truthfully. The sending of votes (`:436`) and the job use the
result of the call as a whole. Ports, the stagger of the workers and failing allocations are left out.

## 3. Runs

`CHECK_DEADLOCK FALSE` everywhere: the bounds on rounds and on insertions end the behaviours, and so
do the end of a call and of the daemon.

| Run | Shows | Bounds |
|---|---|---|
| `round_views` | `TypeOK`, `TotalsMatchVoters`, `Agreement`, `ElectionCertified`, `OneProducer`, `KeepsBallot`: with delegates that miss a VRF message, in every order of handlers and tallies, one of them late, failing, restarting or with late VRF data at any step | 3 delegates, committee of 2 + 1 seed, one round, one missing message each: committees of 2 and 3 members coexist, with thresholds that do and do not overlap |
| `round_two` | `TotalsMatchVoters`, `BlocksElectedOnChain` | 3 delegates, committee of 1 + 1 seed, 2 rounds, so that a first round without a block leaves a stuck chain, a last winner and an old list behind, and a block of the first may come in the middle of the second; one delegate that is late, fails calls, restarts, and may be packed with a torn proof |
| `round_live` | `EveryRoundMakesABlock`, `KeepsBallot` | 3 rounds from the empty chain: the bootstrap block, then two different winners or the same one twice |
| `round_stale` (violated) | `VotesBoundToRound` | votes may be one round late |
| `reserve_job` | `TypeOK`, `TotalsMatchVotes`, `PayoutsMatchVotes`, `ScanCountsStanding` | 1 thread, 2 wallets, 2 delegates, 3 insertions, a wallet that may fail: jobs follow disturbed jobs |
| `reserve_prune_wallet` (violated) | `PrunesOnlySpent` | wallet may fail |
| `reserve_cap` (violated) | `CapEnforced` | cap of 1, two voters |
| `sync_keep` | `TypeOK`, `SharedCopyKept` | 5 delegates, two of them seeds with one database, one delegate with an old and incomplete copy; 2 minutes, one fill that breaks off; every round may fail, every request may get lost |
| `sync_converge` | `CopiesConverge` | the same five, 3 minutes, one missing VRF message each |
| `records` | `TypeOK`, `GenesisComplete`, `StatisticsPaired`, `CreditedOnce`, `StatisticsComplete`, `OneRoundPerHeight`, `SoloOfLastUpdate` | 2 seeds, 2 seed delegates and 2 candidates of which one is a verifier, 7 workloads, one refused operation, failed count or stop anywhere |
| `node` | `TypeOK`, `SlotsAccounted`, `SemaphoreOutlivesLoop`, `ClientsReturned`, `OnlyClientsMissPool`, `StarvedByLookups`, `StopsOrStarves` | every role, 2 connections on one slot, a pool of 2, one message each, one signal, one maintenance line |
| `sending` | `TypeOK`, `AnsweredAll`, `NoWorkerLeft`, `FailureUnhandled`, `GivenUpAfterAll`, `CallReturns`, `KeepsPromise` | 2 workers, 2 attempts, 2 pieces, destinations of 1 to 3 hosts with two, one or no address |

`KeepsBallot` is checked where delegates differ and fail (`round_views`) and over three rounds in a row
(`round_live`). Drift of the height, torn proofs and handlers that outlast their round need a second round
or a third kind of view and are in `round_two`, with a smaller committee; `Torn` is empty in the other runs. There
a daemon appends, between Part 3 and Part 8, the block of the first round that its delegate let pass before:
Part 8 sees it and ends the round, or does not because its call fails or because the block comes after it, and a
block on the longer chain is submitted. The proofs hold for any `Torn` and `Faulty`.

Why the bounds are enough. A property of a round relates at most two delegates that elect and
one voter they share: three delegates suffice, and seeds differ from candidates only in never
being picked. State crosses from a round to the next only through the chain, `last_winner_name`,
the old list and the previous hash, all of them set by one round and used by the next: two
rounds show it. All safety properties of the rounds are proved for all bounds as well
(section 5).
In the job each vote is treated on its own; two wallets, of which one moves its vote, give every
relation of a document to a batch (fetched, looked at, deleted, replaced ahead of or behind the
cursor). `MajorityPercent` is 50 in some runs so that three delegates may miss one; the quorum is
then still two.

One deviant of five is exactly a fifth, the boundary of the threshold, and its copy lacks a delegate, so
that the list it loads, the senders it accepts and the hash it sends all differ. Two minutes let an
answer come a round late. `SharedCopyKept` is proved for all bounds (section 5).

Records: the database arbitrates between seeds one operation at a time, so what two of them can do to
each other three cannot do differently to one document; a delegate is touched by at most a
registration, a removal and a count at a time, and the workloads put each two of them (and once all
three) side by side. One fault shows every operation refused and every stop; two heights show a late
count meeting the next height. Node: two clients, main and the job are four threads on two clients, the
smallest pool in which look-ups can wait for each other while somebody else works; an instance with two
slots and a longer traffic was checked once (5.7 million states). Sending: two workers and three hosts
make a worker take a second host; two addresses and two attempts give every path through the loops.

Every property of a passing run has a mutant in `PROJECT.json`: a slip in a definition (marked "Fault" or
"Mutant" in the modules, next to the definition it replaces) that makes the property fail under the run's
own bounds.

## 4. Fairness

`PromptSpec` of `RoundLiveness` describes a network without failures: what is sent
before a sync point is handled before it (`PromptTick`), blocks arrive before the next minute
(`PromptNextRound`), no call fails and no delegate restarts. Weak fairness of the clock, of each
round thread and of each handler thread says that these threads keep running, as operating-system
threads do; nothing is assumed of messages that the window did not deliver. The safety runs of rounds,
votes, sync and records use `Spec`, without fairness.

`PromptSpec` of `DbSync` lets :57 come only when everything asked for at :50 was answered and written
(`PromptTick`), and lets no fill break off; rounds still fail and VRF messages still get lost. Seven
seconds are long for a request, an answer and a hundred upserts. Fairness is again that of threads
that keep running.

`DpopsNode`: weak fairness of main, the scheduler, the accept loop and each client's thread. Threads
that wait (for a client, a slot, a join) are not enabled while they wait. `SF(ReplicaReady)`: the
replica set, asked again and again, is ready some time. Waiting for the wallet's key and for the chain
are steps that end. A client hangs up after its messages because the receive timeout makes the thread
do so. No peer has to connect and no signal has to come.

`Sending`: weak fairness of the caller and of each worker: connecting, waiting for room and sending all
have timeouts, so none of these steps takes for ever. Nothing is assumed of the receiver.

## 5. Proofs

| Module | Theorem | States |
|---|---|---|
| `DpopsRound_proofs` | `TypeCorrect` | `Spec => []TypeOK` |
| `RoundAgreement_proofs` | `ElectionsCertified` | `MaxStale = 0` gives `Spec => []ElectionCertified` |
| | `ElectionsAgree` | `MaxStale = 0` gives `Spec => []Agreement` |
| | `OneWinnerPerCommittee` | `MaxStale = 0`: members of one committee never hold results for two producers |
| `RoundBallot_proofs` | `RoundsImplementBallot` | `MaxStale = 0` gives `Spec => KeepsBallot`: the refinement |
| | `BlocksAreElected` | `MaxStale = 0` gives `Spec => BlocksElectedOnChain` |
| | `OneProducerInRound` | `MaxStale = 0` gives `Spec => []OneProducer` |
| | `TotalsMatch` | `Spec => []TotalsMatchVoters` |
| `DbSync_proofs` | `SyncTypeCorrect` | `TypeOK` of `DbSync` |
| | `MinorityDoesNotSpread` | `Spec => []SharedCopyKept` of `DbSync` |
| `Sending_proofs` | `SendingTypes`, `WorkersEnd`, `FailureNeverHandled` | `TypeOK`, `NoWorkerLeft`, `FailureUnhandled` of `Sending` |
| | `EveryHostAnswered`, `AllAddressesTried` | `AnsweredAll`, `GivenUpAfterAll` of `Sending` |
| | `SendingImplementsFanOut` | `Spec => KeepsPromise`: the refinement |
| `ReserveProofs_proofs` | `ReserveTypes` | `TypeOK` of `ReserveProofs` |
| | `StandingVotesCounted` | `Spec => []ScanCountsStanding` |
| | `TotalsAreSums`, `PayoutsAreVotes` | `Spec => []TotalsMatchVotes`, `Spec => []PayoutsMatchVotes` |
| `DelegateRecords_proofs` | `RecordTypes` | `TypeOK` of `DelegateRecords` |
| | `DelegatesHaveStatistics` | `Spec => []StatisticsPaired` |
| | `HeightsCountOnce`, `NobodyUncounted` | `Spec => []CreditedOnce`, `Spec => []StatisticsComplete` |
| | `RoundsOncePerHeight` | `Spec => []OneRoundPerHeight` |
| | `StartsComplete` | `SeedsStay` gives `Spec => []GenesisComplete` |
| | `LastUpdateKept` | `Spec => []SoloOfLastUpdate` |
| `DpopsNode_proofs` | `NodeInvariant`, `NodeTypes` | the inductive invariant of the daemon, `TypeOK` of `DpopsNode` |
| | `SlotsNeverLost`, `LoopOutlived`, `EveryClientReturned` | `SlotsAccounted`, `SemaphoreOutlivesLoop`, `ClientsReturned` of `TcpServer` |
| | `PoolThereForMain`, `LookUpsStarve` | `OnlyClientsMissPool`, `StarvedByLookups` |

All invariants that a passing run checks, the action property `BlocksElectedOnChain` and both
refinements are theorems.

They hold for any number of delegates and rounds, any sizes, thresholds, lotteries and set of
faulty delegates, under `CommitteeAssumption` and `RoundAssumption`; those on `DbSync` for any
delegates, databases, copies, lost messages and broken fills, under `SyncAssumption`; those on
`Sending` for any tables, addresses, workers, attempts and pieces, under `SendingAssumption`; those on
`ReserveProofs` for any wallets, delegates, amounts, cap and verdicts of the wallet, under
`ReserveAssumption`; those on `DelegateRecords` for any seeds, seed delegates, requests, workloads,
sizes and faults, under `RecordsAssumption`; those on `DpopsNode` for any finite set of connections,
pool, slots, messages and signals, under `PoolAssumption`, `ServerAssumption` and `NodeAssumption`.
`RecordsAssumption` asks that seed delegates differ from each other in every field, as the table
`network_nodes` does, and that the order of the list holds every key. `StartsComplete` has a hypothesis
of its own, `SeedsStay`: no maintenance line removes a seed delegate. The code does not refuse such a line
(`xcash_timer_thread.c:1028`), and after it the database lacks that delegate whatever the start did.

`TypeOK` is not inductive: that an elected producer is a delegate depends on the slot lying in the
list, `SlotInList`; together they are `TypeInv`. `AgreementInv` adds:

* `RanInTime`: nobody is in a round other than the current one;
* `OneVoteEach`: the votes under way are of this round, one for each voter, from delegates past
  Part 7. `RanInTime` is what keeps a voter from entering the round again;
* `NoEarlyResult`: no result before the count;
* `VotesBoundToRound`: recorded votes were cast in this round for this chain and committee;
* `ElectionCertified` itself.

The argument: what the tally counts are recorded votes (`VotesCoherent` compares the count of voters
with the maximum), recorded votes were cast in this round, a delegate casts one, so two sets of
voters for different producers are disjoint; `PartsOverlap` then contradicts `MustOverlap`. For two
members of the same committee the overlap is arithmetic on `(2 * count + 2) / 3`
(`MoreThanHalf`, `OneCommitteeOverlaps`). `MaxStale = 0` is needed: `round_stale` shows a late vote
taken for a new one, and with it `Agreement` breaks too. `DpopsRound_proofs` holds the lemmas on the
committee: the lists are sequences of delegates without repetition and the slot lies inside.

`RoundsImplementBallot`. `BallotInv` adds to `AgreementInv` what relates blocks to elections: who is past
the count holds its election until it is done (`ElectedBeforeBlock`), and a block of this round was made
by a delegate that is done with it (`DoneAfterBlock`), which is why it makes no second one when the
daemon's answer to the first was late. Each step then maps to one of `Ballot` or to a stutter; `Vote`, `Elect`,
`SubmitBlock`, `NextRound` and the paths that forget a result are the ones that do not stutter.

`OneProducerInRound`. `Agreement` compares results that are held at the same time; a block outlives the
result it came from, which `AnswerLate`, `RoundError` and `Restart` clear. `WonOnVotes` therefore ties every
election of the round to the votes it rests on and not to the delegate that counted them: votes are not taken
back before the next minute. With `BlocksWon` (every block has its election) two producers would have two
majorities without a common voter, against `VotesOverlap`. `VotesOverlap` cannot be left
out: in the instance of `round_views` a delegate that misses one VRF message and has the data of the other still to
come has a committee of itself alone and elects itself, while the other two elect the second candidate, and both make a block.

`BlocksAreElected`. `BlockInv` says that a delegate in its round is ready and an election in hand on record
(`ReadyInRound`, `ElectionRecorded`), that what a delegate lets pass was submitted (`ApprovedSubmitted`), that from
Part 4 on the tip is at the height of the round or past it (`HeightBehind`), and where the tip comes from: it is the
one the round began with, or ends with a block that came in since and is not the delegate's own of this round
(`TipKnown`; `DoneAfterBlock` excludes the own). At the submission there are two cases. Either the block is at the height
of the round, and `validate_block`, asked for it like for any other, compares its parent with the hash voted on; or
the chain has grown, Part 8 did not see it, and the block is not live for its own delegate. Nothing in the code
compares it then, and the theorem says what is left: its producer was elected, and by `TipKnown` it extends some
block that came in during the round. If that were of this round, its producer would be another elected one, against
`ElectionsOverlap`, the argument of `OneProducerInRound`; so it is a late one of an earlier round, as long as the votes
overlap (`EndsEarlier`). This last step, and with it the theorem, needs `MaxStale = 0`.

`TotalsMatch` needs no bound on late votes. `TallyInv` adds that no vote is between the two critical sections of a
handler when a delegate packs its list (`NothingPending`), and that the ones that are while it votes were recorded for
their voters, one each, for a member of the list and at the height of the round (`PendingRecorded`, from `ChoiceAmongKeys`).
Recording a vote then adds one to the voters and to what is counted or under way; adding it moves one over, or drops one whose
candidate's VRF data was incomplete in this delegate's list or in the voter's (`VoteMatches`), which is the one way in
which totals fall behind. The return for the height (`:181`) drops a vote only after its round is over, when no tally is left to read it.

`MinorityDoesNotSpread`. `TypeInv` of `DbSync` adds to `TypeOK` that a delegate sends one hash in a minute
(`OneHello`) and that the count starts from zero (`CountFromZero`); only with them is the count bounded by
the number of delegates (`Senders`). For a copy that all but a fifth share, `Kept` says that nothing on the
way can change it: those that hold it neither ask nor are answered, and their databases are not those of
the others. `Heard` says that they hear other hashes from the others only, hence from at most a fifth, and
`20 * 5 * mismatch <= 20 * total` is what `TooManyDiffer` denies. The proof needs the strict comparison of
the code: the mutant `FifthDiffers` breaks it.

`Sending`. `IInv` says which workers exist at each stage of the call (`Staged`), that a host is in the
hands of one worker, unanswered, and not in the rest of the list (`Held`), and that answers, what was
sent and what was handled agree (`Agreed`). `Held` makes a store into `answer` the first one for its
host; `Agreed` makes it truthful: "ok" needs all pieces sent, a failure needs a piece missing, and a
message is handled only by a `recv` that returned all pieces. `Promise!Next` then follows action by
action; most steps of `Sending` are stutters of `FanOut`. `DInv` adds that a host of the call is still to be
taken, in a worker's hands or answered, and that a worker ends only when none is to be taken (`Served`),
which with `Staged` gives `AnsweredAll`; and that a worker has tried the addresses before the one it is
at, and that one when its attempt failed (`Attempts`), which at the last address are all of them.

`ReserveProofs`. `Reached` says where a vote that stands unchanged since before the scan is: counted,
fetched, or ahead of the cursor; `Least` and `Greatest` show that the cursor passes over no key. From it
follows `StandingVotesCounted`. `Undisturbed` says what the passes over the totals have written so far
and what they still have in hand, delegate by delegate; at the end nothing is in hand, and the totals
are the sums. The sums are a fold: that their defining function exists and is a natural number for
every finite set is shown by taking a least counterexample (`SumFcnExists`, `SumType`), since induction
with a predicate as a parameter is out of reach.

`DelegateRecords`. `Typed` adds to `TypeOK` which states exclude each other: only a registration
inserts, only an update refreshes, a writer works only on a seed that is up, a line half done is there.
On it rest six invariants, each inductive by itself or beside those before it:

* `RoundInv`: the index admits one round of a height, and where no start was spoiled it was there before
  the first round. The second part is what an index made too late needs, and what a first form of the
  property missed: with three seeds, a round may come before the index of an undisturbed start, so
  `InsertRound` marks the start as overtaken.
* `CreditInv`: the heights counted for a delegate are a finite set below its watermark, so the filter of
  the update (`NotCounted`) admits only a height that is not in it.
* `CountInv`: what a writer owes is counted at its height or still ahead of it in its list. The list does
  not change while it is gone through (`SameList`) and holds every known key at some place (`ListHolds`);
  the watermark of a document only grows, and who loses its document is owed no more.
* `PairInv`: of a key that is not torn at most one seed, job or line is between its two writes; the first
  write found or left neither of the two documents, and the second restores the pair. A stop, a refusal or
  a second one in between makes the key torn.
* `StartInv`: while no start is spoiled, either nothing is written and everybody waits (`Nothing`), or
  one seed fills and has written exactly the documents up to where it is (`Filling`), or all is written
  (`Complete`). Every other seed is behind: it finds the collection filled, or its first insertion
  refused. `NoneBetween` keeps registrations that came before the indexes out.
* `SoloInv`: who emptied the addresses has put back the rows up to where it is, a refresh is at a row of
  its list, and whoever else writes rows of that delegate was writing when they were emptied.

`DpopsNode`. The invariant `IInv` is the balance of the pool and the stages of the program. An operation is a list
of calls with jumps for want of a pool; `Balanced(calls, h)` says that with `h` clients in hand it ends with
none, holds two at most and asks for one only with one or none in hand, along every jump (`Follows`). It is
shown for every operation, handler, maintenance line and part of a round, and a call keeps it (`PoolInv`).
`PoolUp` says in which stages of main and of the scheduler the pool is open; `NothingToDo` that a stage ends
with no calls left. `StarvedByLookups` follows from the balance by counting: the clients out are the sum of
what threads hold, who waits inside the pool holds one at most, and a sum of ones that is `PoolSize` has
`PoolSize` terms. The sum is a fold, and that its function exists is again shown by a least counterexample
(`SumExists`).

Model-checked only: `EveryRoundMakesABlock`, `CopiesConverge`, `StopsOrStarves` and `CallReturns`,
because liveness under fairness and `ENABLED` are out of the prover's reach, as are inductions over data
and `RECURSIVE` operators (none is used). The three violated properties have counterexamples instead.

## 6. What the violated runs show, and what was seen without a run

* `round_stale`: what a vote signs does not change while the chain does not advance, so a vote a
  minute late counts in the next round, in place of the voter's new one.
* `reserve_cap`: the filter of the cap names a field that the documents do not have.
* `reserve_prune_wallet`: a wallet that does not answer is taken for an invalid proof, and the vote is
  deleted. The same property fails for a second reason when `WalletFails` is `FALSE`: the job deletes by
  voter, so a valid vote stored after the fetch goes with the invalid one it replaced.

Two passing runs say in their properties what else the code leaves possible: `StopsOrStarves` and
`StarvedByLookups` that a daemon may hang for ever once as many threads as the pool has clients are
inside look-ups (the pool has the library's default of 100 clients, `MAX_ACTIVE_CLIENTS` is 200), and,
because main holds `delegates_all_lock` while it waits for a client (`xcash_round.c:1195`), the handlers
with it; `OnlyClientsMissPool` that clients served before `initialize_database` or after `shutdown_db`
may end the process or, when they were waiting, never wake.

Seen while reading or in runs no longer kept:

* Rounds: a delegate outside the committee writes its candidate into `last_winner_name` without an
  election (`xcash_round.c:471`), members whose election failed clear theirs (`:740`); on a stuck chain
  the two then expect different producers. A delegate whose copy lacks its own document ends every round
  in Part 1 (`:214`), counts no mismatch and never asks for another copy.
* Votes: a wallet that votes again during the scan is counted for both delegates
  (`delegate_server_functions.c:988`); a vote whose insertion fails is gone with its predecessor. A payout
  instruction that cannot be sent is not sent again (`xcash_timer_thread.c:769`). No handler exists for
  the message that announces new totals (`xcash_message.c:269`), `delegates_apply_vote_total` has no
  caller, and the hash of the collection leaves `total_vote_count` out (`db_sync.c:49`).
* Sync: the lock under which the collection is replaced is not taken by those who read it
  (`block_verifiers_synchronize_server_functions.c:439`, `:78`), so half a copy may be handed out;
  delegates split in halves may swap their copies, since each asks the other.
* Registration: a count that fails is -1, which passes the approval (`delegate_server_functions.c:127`);
  a failed look-up of the collection reads as 0; the cap on delegates (`:197`) is looked up and not
  enforced by an index; a client that registers again is told "Registered" although its statistics may
  be missing. A registration before the start has counted keeps the seed delegates and the indexes
  from being written; two clients with one name before the index exists make its creation fail; a start
  cut off midway is not resumed (`init_processing.c:23`). Lines of a maintenance file not yet processed
  when the seed stops are lost (`xcash_timer_thread.c:914`).
* Records: a seed that starts while another one fills the database finds it filled and goes to work; the
  rounds it and a third one record before the index of rounds exists may be two of one height, and then the
  creation of the index fails and with it the start of the first (`init_processing.c:99`, seen with three
  seeds). A seed outside the committee never writes the consensus round, because it holds a text where
  64 hex digits are asked for (`xcash_round.c:969`).
* Limiter: its lists are `char` pointers bounded by their `sizeof` (`server_functions.c:34`), so an entry
  keeps seven characters at most and nobody is ever refused; the vote's entry is removed under the
  message text (`xcash_message.c:281`). After `cleanup_data_structures` the lists are `NULL`.
* Scheduler: it copies `delegates_all` under another lock than the one its writers take
  (`xcash_timer_thread.c:1076`).
* Vote handler: the wallet checks the signature while `current_block_verifiers_lock` is held
  (`block_verifiers_server_functions.c:157`).
* Part 8: its comment says that it confirms that the height "hasn't drifted"
  (`block_verifiers_functions.c:144`). It does so only when the daemon answers (`:147`), and before the template is
  made from another reading: in `round_two` a producer submits on a chain that has grown past the height of its
  election, and `BlocksElectedOnChain` says what it then extends.

## 7. What could come next

1. Each delegate's own `Order`, from the totals it knows.
2. Agreement and certified elections under late votes: what still holds when `MaxStale` is not zero.

## 8. Not modelled

HTTP (`network_functions`), cryptography (`VRF_functions`, vendored), string
helpers, message building and option parsing are I/O, formatting or vendored code with no
state of the protocol; the models use what their answers mean. DNS checks and the check of the
program's own hash have no state. The times of day of the scheduler and the ten minutes a new delegate
waits before it is listed are left out, as there are no clocks in those modules.
