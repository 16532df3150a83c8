--------------------------- MODULE Sending_proofs ---------------------------
(***************************************************************************)
(* Theorems about Sending, for tables of any length, any number of         *)
(* workers, attempts, addresses and pieces: its types, that no worker      *)
(* outlives a call, that what was not answered "ok" is never handled, that *)
(* a call keeps the promise of FanOut, that every host is answered for and *)
(* that none is given up before all its addresses were tried.              *)
(***************************************************************************)
EXTENDS Sending, TLAPS, FiniteSetTheorems, NaturalsInduction, WellFoundedInduction

-----------------------------------------------------------------------------
(* The inductive invariant                                                 *)

HostLists == UNION {[S -> Hosts] : S \in SUBSET Position}

CallRecord ==
    [at : {"idle", "launch", "join", "single", "done", "crashed"},
     hosts : HostLists, left : SUBSET Position, t : 1 .. Workers]

WorkerRecord ==
    [at : {"none", "failed", "take", "resolve", "connect", "send", "ended"},
     i : Position \cup {0}, addr : Nat, try : 0 .. Retries]

LinkRecord ==
    [at : {"none", "open", "over"}, sent : 0 .. Units, got : 0 .. Units, handled : Nat]

Typed ==
    /\ call \in CallRecord
    /\ worker \in [Thread -> WorkerRecord]
    /\ answer \in [Position -> {"none", "ok", "error", "timeout"}]
    /\ link \in [Position -> LinkRecord]
    /\ tried \in [Position -> SUBSET Nat]
    /\ call.left \subseteq DOMAIN call.hosts

Untouched(i) == answer[i] = "none" /\ link[i].sent = 0

\* Which workers exist at each stage of the call.
Staged ==
    /\ call.at = "idle" =>
         /\ \A w \in Thread : worker[w].at = "none"
         /\ call.left = {}
         /\ call.t = 1
         /\ \A i \in Position : Untouched(i)
    /\ call.at \in {"launch", "join"} => call.t <= Started /\ worker[0].at = "none"
    /\ call.at = "launch" => \A w \in Thread : w >= call.t => worker[w].at = "none"
    /\ call.at = "join" =>
         \A w \in Thread : (w < call.t => ~Active(w)) /\ (w > Started => ~Active(w))
    /\ call.at = "single" => \A w \in Thread \ {0} : worker[w].at = "none"
    /\ call.at = "done" => \A w \in Thread : ~Active(w)

OnHost(w) == worker[w].at \in {"resolve", "connect", "send"}

\* A host is in the hands of one worker, and has no answer yet.
Held ==
    /\ \A w \in Thread : OnHost(w) =>
         /\ worker[w].i \in DOMAIN call.hosts
         /\ worker[w].i \notin call.left
         /\ answer[worker[w].i] = "none"
    /\ \A v, w \in Thread : OnHost(v) /\ OnHost(w) /\ v # w => worker[v].i # worker[w].i
    /\ \A w \in Thread : worker[w].at \in {"resolve", "connect"} => link[worker[w].i].sent = 0
    /\ \A i \in call.left : Untouched(i)

\* What is answered and handled agrees with what was sent.
Agreed ==
    /\ \A i \in Position : link[i].got <= link[i].sent
    /\ \A i \in Position :
         \/ link[i].handled = 0
         \/ link[i].handled = 1 /\ link[i].got = Units
    /\ \A i \in Position : answer[i] = "ok" => link[i].sent = Units
    /\ \A i \in Position : answer[i] \in {"error", "timeout"} => link[i].sent < Units

IInv == Typed /\ Staged /\ Held /\ Agreed

-----------------------------------------------------------------------------
LEMMA ListedType ==
    ASSUME NEW table \in {NetworkNodes, DelegatesAll, DelegatesTimerAll, BlockVerifiers},
           NEW chosen \in SUBSET DOMAIN table,
           \A i \in chosen : HasIp(table[i])
    PROVE  Listed(table, chosen) \in HostLists
<1>1. table \in Seq([addr : STRING, ip : Hosts \cup {Empty}]) /\ Len(table) <= MaxHosts
  BY SendingAssumption
<1>2. DOMAIN table = 1 .. Len(table) /\ Len(table) \in Nat
  BY <1>1
<1>3. chosen \in SUBSET Position
  BY <1>1, <1>2, SendingAssumption DEF Position
<1>4. \A i \in chosen : table[i].ip \in Hosts
  <2>1. \A S : \A s \in Seq(S) : \A i \in 1 .. Len(s) : s[i] \in S
    OBVIOUS
  <2>2. \A i \in 1 .. Len(table) : table[i] \in [addr : STRING, ip : Hosts \cup {Empty}]
    BY <1>1, <2>1
  <2>3. \A i \in chosen : i \in 1 .. Len(table)
    BY <1>2
  <2> QED
    BY <2>2, <2>3 DEF HasIp
<1>5. Listed(table, chosen) \in [chosen -> Hosts]
  BY <1>4 DEF Listed
<1> QED
  BY <1>3, <1>5 DEF HostLists

LEMMA HostsOfType == ASSUME NEW dest \in Destination PROVE HostsOf(dest) \in HostLists
<1>1. CASE dest = "seeds"
  <2>1. Listed(NetworkNodes, {i \in DOMAIN NetworkNodes : Another(NetworkNodes[i])})
          \in HostLists
    BY ListedType DEF Another
  <2> QED
    BY <1>1, <2>1 DEF HostsOf
<1>2. CASE dest = "noSeeds"
  <2>1. Listed(DelegatesTimerAll,
               {i \in Filled(DelegatesTimerAll) : NotSeed(DelegatesTimerAll[i])})
          \in HostLists
    BY ListedType DEF NotSeed, Filled
  <2> QED
    BY <1>2, <2>1 DEF HostsOf
<1>3. CASE dest = "delegates"
  <2>1. Listed(DelegatesAll, {i \in DOMAIN DelegatesAll : HasIp(DelegatesAll[i])})
          \in HostLists
    BY ListedType
  <2> QED
    BY <1>3, <2>1 DEF HostsOf
<1>4. CASE dest = "committee"
  <2>1. Listed(BlockVerifiers,
               {i \in Filled(BlockVerifiers) : Another(BlockVerifiers[i])})
          \in HostLists
    BY ListedType DEF Another, Filled
  <2> QED
    BY <1>4, <2>1 DEF HostsOf
<1> QED
  BY <1>1, <1>2, <1>3, <1>4 DEF Destination

LEMMA HostListsDomain ==
    ASSUME NEW f \in HostLists
    PROVE  /\ DOMAIN f \in SUBSET Position
           /\ \A i \in DOMAIN f : f[i] \in Hosts
BY DEF HostLists

\* A call with hosts starts at least one worker.
LEMMA HostCount ==
    ASSUME NEW f \in HostLists
    PROVE  /\ Cardinality(DOMAIN f) \in Nat
           /\ DOMAIN f # {} => Cardinality(DOMAIN f) >= 1
<1>1. DOMAIN f \in SUBSET Position
  BY HostListsDomain
<1>2. IsFiniteSet(Position)
  BY FS_Interval, SendingAssumption DEF Position
<1>3. IsFiniteSet(DOMAIN f)
  BY <1>1, <1>2, FS_Subset
<1>4. Cardinality(DOMAIN f) \in Nat
  BY <1>3, FS_CardinalityType
<1>5. DOMAIN f # {} => Cardinality(DOMAIN f) # 0
  BY <1>3, FS_EmptySet
<1> QED
  BY <1>4, <1>5

LEMMA StartedType == ASSUME Typed PROVE Started \in 0 .. Workers
BY HostCount, SendingAssumption DEF Started, Total, Typed, CallRecord

\* The number of workers depends on the hosts only.
LEMMA StartedKept == ASSUME call'.hosts = call.hosts PROVE Started' = Started
BY DEF Started, Total

-----------------------------------------------------------------------------
LEMMA InvInit == Init => IInv
<1> SUFFICES ASSUME Init PROVE IInv
  OBVIOUS
<1>1. Typed
  <2>1. <<>> \in HostLists
    <3>1. <<>> = [i \in {} |-> 0]
      OBVIOUS
    <3> QED
      BY <3>1 DEF HostLists
  <2> QED
    BY <2>1, SendingAssumption DEF Init, Typed, Resting, NoLink, Thread, CallRecord, WorkerRecord, LinkRecord
<1>2. Staged
  BY DEF Init, Staged, Resting, NoLink, Untouched
<1>3. Held
  BY DEF Init, Held, OnHost, Resting
<1>4. Agreed
  BY SendingAssumption DEF Init, Agreed, NoLink
<1> QED
  BY <1>1, <1>2, <1>3, <1>4 DEF IInv

-----------------------------------------------------------------------------
(* The caller keeps the invariant                                          *)

LEMMA SomeThread == 0 \in Thread /\ 1 .. Workers \subseteq Thread /\ 1 \in 1 .. Workers
BY SendingAssumption DEF Thread

LEMMA CallInv == ASSUME IInv, NEW dest \in Destination, Call(dest) PROVE IInv'
<1> USE DEF IInv
<1> DEFINE hosts == HostsOf(dest)
<1>1. hosts \in HostLists /\ DOMAIN hosts \in SUBSET Position
  BY HostsOfType, HostListsDomain
<1>2. /\ call'.hosts = hosts /\ call'.left = DOMAIN hosts /\ call'.t = call.t
      /\ call'.at = IF DOMAIN hosts = {} THEN "done" ELSE "launch"
      /\ UNCHANGED <<worker, answer, link, tried>>
  BY DEF Call, Typed, CallRecord
<1>3. Typed'
  BY <1>1, <1>2 DEF Call, Typed, CallRecord
<1>4. Staged'
  <2>1. Cardinality(DOMAIN hosts) \in Nat
        /\ (DOMAIN hosts # {} => Cardinality(DOMAIN hosts) >= 1)
    BY <1>1, HostCount
  <2>2. Started' = IF Cardinality(DOMAIN hosts) < Workers THEN Cardinality(DOMAIN hosts)
                   ELSE Workers
    BY <1>2 DEF Started, Total
  <2>3. call'.at = "launch" => 1 <= Started'
    <3> HIDE DEF hosts
    <3>1. call'.at = "launch" => DOMAIN hosts # {}
      BY <1>2
    <3> QED
      BY <2>1, <2>2, <3>1, SendingAssumption
  <2>4. call'.t = 1 /\ \A w \in Thread : worker'[w].at = "none"
    BY <1>2 DEF Call, Staged
  <2> HIDE DEF hosts
  <2>5. call'.at = "launch" \/ call'.at = "done"
    BY <1>2
  <2> QED
    BY <2>3, <2>4, <2>5, SomeThread DEF Staged, Active
<1>5. Held'
  BY <1>1, <1>2 DEF Call, Held, Staged, OnHost, Untouched
<1>6. Agreed'
  BY <1>2 DEF Agreed
<1> QED
  BY <1>3, <1>4, <1>5, <1>6

LEMMA CallOneInv == ASSUME IInv, NEW h \in Hosts, CallOne(h) PROVE IInv'
<1> USE DEF IInv
<1> DEFINE me == [Resting EXCEPT !.at = "resolve", !.i = 1]
<1>1. 0 \in Thread /\ 1 \in Position
  BY SendingAssumption DEF Thread, Position
<1>2. <<h>> \in HostLists /\ DOMAIN <<h>> = {1}
  <2>1. <<h>> \in [{1} -> Hosts]
    OBVIOUS
  <2> QED
    BY <1>1, <2>1 DEF HostLists
<1>3. /\ call'.at = "single" /\ call'.hosts = <<h>> /\ call'.left = {} /\ call'.t = 1
      /\ \A w \in Thread : worker'[w] = IF w = 0 THEN me ELSE worker[w]
      /\ UNCHANGED <<answer, link, tried>>
  BY DEF CallOne, Typed, CallRecord, Staged
<1>4. me.at = "resolve" /\ me.i = 1
  BY DEF Resting
<1>5. Typed'
  <2>1. call' \in CallRecord
    BY <1>2 DEF CallOne, Typed, CallRecord
  <2>2. me \in WorkerRecord
    <3>1. Resting \in WorkerRecord
      BY SendingAssumption DEF Resting, WorkerRecord
    <3> QED
      BY <1>1, <3>1 DEF WorkerRecord
  <2>3. worker' = [worker EXCEPT ![0] = me]
    BY DEF CallOne
  <2> HIDE DEF me
  <2> QED
    BY <1>3, <2>1, <2>2, <2>3 DEF Typed, CallRecord
<1>6. Staged'
  BY <1>1, <1>3 DEF CallOne, Staged
<1>7. Held'
  BY <1>1, <1>2, <1>3, <1>4 DEF CallOne, Held, Staged, OnHost, Untouched
<1>8. Agreed'
  BY <1>3 DEF Agreed
<1> QED
  BY <1>5, <1>6, <1>7, <1>8

LEMMA LaunchInv == ASSUME IInv, Launch PROVE IInv'
<1> USE DEF IInv
<1>1. Started \in 0 .. Workers /\ call.t \in Thread /\ call.t # 0 /\ call.t <= Started
  <2>1. Started \in 0 .. Workers
    BY StartedType
  <2>2. call.t \in 1 .. Workers
    BY DEF Typed, CallRecord
  <2> QED
    BY <2>1, <2>2, SomeThread, SendingAssumption DEF Staged, Launch
<1>2. PICK at \in {"take", "failed"} : worker' = [worker EXCEPT ![call.t].at = at]
  BY DEF Launch
<1>3. /\ call'.hosts = call.hosts /\ call'.left = call.left
      /\ call'.at = (IF call.t = Started THEN "join" ELSE "launch")
      /\ call'.t = (IF call.t = Started THEN 1 ELSE call.t + 1)
      /\ UNCHANGED <<answer, link, tried>>
  BY DEF Launch, Typed, CallRecord
<1>4. Started' = Started
  BY <1>3, StartedKept
<1>5. \A w \in Thread : w # call.t => worker'[w] = worker[w]
  BY <1>2 DEF Typed, CallRecord
<1>6. worker'[call.t].at = at
  BY <1>1, <1>2 DEF Typed, CallRecord
<1>7. Typed'
  <2>1. (IF call.t = Started THEN 1 ELSE call.t + 1) \in 1 .. Workers
    BY <1>1, SendingAssumption DEF Thread
  <2>2. call' \in CallRecord
    BY <2>1 DEF Typed, Launch, CallRecord
  <2>3. worker' \in [Thread -> WorkerRecord]
    <3>1. worker[call.t] \in WorkerRecord
      BY <1>1 DEF Typed, CallRecord
    <3>2. [worker[call.t] EXCEPT !.at = at] \in WorkerRecord
      BY <3>1 DEF WorkerRecord
    <3>3. worker' = [worker EXCEPT ![call.t] = [worker[call.t] EXCEPT !.at = at]]
      BY <1>2 DEF Typed, CallRecord
    <3> QED
      BY <3>2, <3>3 DEF Typed, CallRecord
  <2> QED
    BY <1>3, <2>2, <2>3 DEF Typed, CallRecord
<1>8. Staged'
  <2>1. \A w \in Thread : w > call.t => worker'[w].at = "none"
    BY <1>1, <1>5 DEF Staged, Launch, Thread
  <2>2. worker'[0].at = "none"
    BY <1>1, <1>5 DEF Staged, Launch, Thread
  <2>3. CASE call.t = Started
    BY <1>1, <1>3, <1>4, <2>1, <2>2, <2>3 DEF Staged, Thread, Active
  <2>4. CASE call.t # Started
    BY <1>1, <1>3, <1>4, <2>1, <2>2, <2>4 DEF Staged, Thread
  <2> QED
    BY <2>3, <2>4
<1>9. Held'
  <2>1. \A w \in Thread : w # call.t \/ worker'[w].at \notin {"resolve", "connect", "send"}
    BY <1>6
  <2>2. \A w \in Thread : OnHost(w)' => OnHost(w) /\ worker'[w] = worker[w]
    BY <1>5, <2>1 DEF OnHost
  <2> QED
    BY <1>3, <1>5, <2>1, <2>2 DEF Held, OnHost, Untouched
<1>10. Agreed'
  BY <1>3 DEF Agreed
<1> QED
  BY <1>7, <1>8, <1>9, <1>10

\* The steps of the caller that leave the workers alone.
LEMMA CallerInv ==
    ASSUME IInv, CompressFails \/ Join \/ JoinGarbage \/ ReturnOne
    PROVE  IInv'
<1> USE DEF IInv
<1>1. Started \in 0 .. Workers
  BY StartedType
<1>2. /\ call'.hosts = call.hosts /\ call'.left = call.left
      /\ UNCHANGED <<worker, answer, link, tried>>
  BY DEF CompressFails, Join, JoinGarbage, ReturnOne, Typed, CallRecord
<1>3. Started' = Started
  BY <1>2, StartedKept
<1>4. Typed'
  <2>1. Join /\ call.t # Started => call.t + 1 \in 1 .. Workers
    <3>1. Join => call.t <= Started
      BY DEF Join, Staged
    <3>2. call.t \in 1 .. Workers
      BY DEF Typed, CallRecord
    <3> QED
      BY <1>1, <3>1, <3>2, SendingAssumption
  <2>2. call' \in CallRecord
    BY <2>1 DEF CompressFails, Join, JoinGarbage, ReturnOne, Typed, CallRecord
  <2> QED
    BY <1>2, <2>2 DEF Typed, CallRecord
<1>5. Staged'
  <2>1. CASE CompressFails
    BY <1>2, <2>1, SendingAssumption DEF CompressFails, Typed, CallRecord, Staged, Active, Thread
  <2>2. CASE Join
    <3>1. ~Active(call.t)
      BY <2>2 DEF Join, CanJoin, Joinable, Active
    <3>2. \A w \in Thread : w <= call.t => ~Active(w)
      BY <2>2, <3>1 DEF Join, Staged, Typed, CallRecord, Thread
    <3>3. call.t <= Started /\ worker[0].at = "none"
      BY <2>2 DEF Join, Staged
    <3>4. CASE call.t = Started
      BY <1>1, <1>2, <2>2, <3>2, <3>4 DEF Join, Staged, Typed, CallRecord, Thread, Active
    <3>5. CASE call.t # Started
      BY <1>1, <1>2, <1>3, <2>2, <3>2, <3>3, <3>5 DEF Join, Staged, Typed, CallRecord, Thread, Active
    <3> QED
      BY <3>4, <3>5
  <2>3. CASE JoinGarbage
    BY <2>3 DEF JoinGarbage, Staged, Typed, CallRecord
  <2>4. CASE ReturnOne
    BY <1>2, <2>4 DEF ReturnOne, Staged, Typed, CallRecord, Active
  <2> QED
    BY <2>1, <2>2, <2>3, <2>4
<1>6. Held' /\ Agreed'
  BY <1>2 DEF Held, Agreed, OnHost, Untouched
<1> QED
  BY <1>4, <1>5, <1>6

-----------------------------------------------------------------------------
(* The workers keep the invariant                                          *)

\* A worker that is at work can only be one that was started and not joined.
LEMMA WorkerStaged ==
    ASSUME Typed, Staged, NEW w \in Thread, Active(w),
           NEW r, worker' = [worker EXCEPT ![w] = r],
           call'.at = call.at, call'.hosts = call.hosts, call'.t = call.t
    PROVE  Staged'
<1>1. worker[w].at # "none"
  BY DEF Active
<1>2. call.at # "idle" /\ call.at # "done"
  BY <1>1 DEF Staged
<1>3. \A u \in Thread : u # w => worker'[u] = worker[u]
  BY DEF Typed
<1>4. Started' = Started
  BY StartedKept
<1>5. call.at = "single" => w = 0
  BY <1>1 DEF Staged
<1>6. call.at \in {"launch", "join"} => w # 0
  BY <1>1 DEF Staged
<1>7. call.at = "launch" => ~(w >= call.t)
  BY <1>1 DEF Staged
<1>8. call.at = "join" => ~(w < call.t) /\ ~(w > Started)
  BY DEF Staged
<1>9. \A u \in Thread : u # w => Active(u)' = Active(u)
  BY <1>3 DEF Active
<1> QED
  BY <1>2, <1>3, <1>4, <1>5, <1>6, <1>7, <1>8, <1>9, SomeThread DEF Staged

LEMMA Position0 == 0 \notin Position
BY DEF Position

LEMMA HeldPosition ==
    ASSUME IInv, NEW w \in Thread, OnHost(w) PROVE worker[w].i \in Position
<1>1. worker[w].i \in DOMAIN call.hosts
  BY DEF IInv, Held
<1> QED
  BY <1>1, HostListsDomain DEF IInv, Typed, CallRecord

\* A worker that keeps its host may change its stage freely.
LEMMA StageInv ==
    ASSUME IInv, NEW w \in Thread, OnHost(w),
           NEW r \in WorkerRecord, worker' = [worker EXCEPT ![w] = r],
           r.i = worker[w].i, r.at \in {"connect", "send"},
           r.at = "connect" => worker[w].at \in {"resolve", "connect"},
           UNCHANGED <<call, answer>>,
           tried' \in [Position -> SUBSET Nat],
           \/ link' = link
           \/ /\ r.at = "send"
              /\ link' = [link EXCEPT ![worker[w].i].at = "open"]
    PROVE  IInv'
<1> USE DEF IInv
<1>1. worker[w].i \in Position
  BY HeldPosition
<1>2. \A u \in Thread : u # w => worker'[u] = worker[u]
  BY DEF Typed
<1>3. worker'[w] = r
  BY DEF Typed
<1>4. link' \in [Position -> LinkRecord]
      /\ \A i \in Position : /\ link'[i].sent = link[i].sent
                            /\ link'[i].got = link[i].got
                            /\ link'[i].handled = link[i].handled
  <2>1. CASE link' = link
    BY <2>1 DEF Typed
  <2>2. CASE link' = [link EXCEPT ![worker[w].i].at = "open"]
    <3> DEFINE l == [link[worker[w].i] EXCEPT !.at = "open"]
    <3>1. link[worker[w].i] \in LinkRecord
      BY <1>1 DEF Typed
    <3>2. /\ l \in LinkRecord /\ l.sent = link[worker[w].i].sent
          /\ l.got = link[worker[w].i].got /\ l.handled = link[worker[w].i].handled
      BY <3>1 DEF LinkRecord
    <3>3. link' = [link EXCEPT ![worker[w].i] = l]
      BY <2>2
    <3> QED
      BY <1>1, <3>2, <3>3 DEF Typed
  <2> QED
    BY <2>1, <2>2
<1>5. Typed'
  BY <1>4 DEF Typed
<1>6. Staged'
  BY WorkerStaged DEF Active, OnHost
<1>7. Held'
  <2>1. \A u \in Thread : OnHost(u)' => OnHost(u) /\ worker'[u].i = worker[u].i
    BY <1>2, <1>3 DEF OnHost
  <2>2. \A u \in Thread :
          worker'[u].at \in {"resolve", "connect"} => worker[u].at \in {"resolve", "connect"}
    BY <1>2, <1>3
  <2>3. \A i \in call.left : i \in Position
    BY DEF Typed, CallRecord
  <2>4. \A u \in Thread : worker[u].at \in {"resolve", "connect"} => worker[u].i \in Position
    BY HeldPosition DEF OnHost
  <2> QED
    BY <1>4, <2>1, <2>2, <2>3, <2>4 DEF Held, Untouched
<1>8. Agreed'
  BY <1>4 DEF Agreed
<1> QED
  BY <1>5, <1>6, <1>7, <1>8

\* An answer is stored for a host in hand, and agrees with what was sent.
LEMMA FinishInv ==
    ASSUME IInv, NEW w \in Thread, OnHost(w),
           NEW status \in {"ok", "error", "timeout"}, Finish(w, status),
           status = "ok" => link[worker[w].i].sent = Units,
           status # "ok" => link[worker[w].i].sent < Units,
           UNCHANGED <<call, link>>,
           tried' \in [Position -> SUBSET Nat]
    PROVE  IInv'
<1> USE DEF IInv
<1>1. worker[w].i \in Position
  BY HeldPosition
<1>2. Ready(w) \in WorkerRecord /\ Ready(w).at \in {"take", "ended"}
  BY SendingAssumption DEF Ready, Resting, WorkerRecord
<1>3. worker' = [worker EXCEPT ![w] = Ready(w)]
  BY DEF Finish
<1>4. \A u \in Thread : u # w => worker'[u] = worker[u]
  BY <1>3 DEF Typed
<1>5. worker'[w].at \in {"take", "ended"}
  BY <1>2, <1>3 DEF Typed
<1>6. answer' \in [Position -> {"none", "ok", "error", "timeout"}]
      /\ answer'[worker[w].i] = status
      /\ \A i \in Position : i # worker[w].i => answer'[i] = answer[i]
  BY <1>1 DEF Finish, Typed
<1>7. Typed'
  BY <1>2, <1>3, <1>6 DEF Typed
<1>8. Staged'
  BY <1>3, WorkerStaged DEF Active, OnHost
<1>9. Held'
  <2>1. \A u \in Thread : OnHost(u)' => u # w /\ OnHost(u)
    BY <1>4, <1>5 DEF OnHost
  <2>2. \A u \in Thread : OnHost(u) => worker[u].i \in Position
    BY HeldPosition
  <2>3. \A u \in Thread : OnHost(u)' => answer'[worker[u].i] = "none"
    BY <1>6, <2>1, <2>2 DEF Held
  <2>4. \A u \in Thread : worker'[u].at \in {"resolve", "connect"} => OnHost(u)'
    BY DEF OnHost
  <2>5. \A i \in call.left : i \in Position /\ i # worker[w].i
    BY DEF Held, Typed, CallRecord
  <2> QED
    BY <1>4, <1>6, <2>1, <2>3, <2>4, <2>5 DEF Held, Untouched
<1>10. Agreed'
  BY <1>6 DEF Agreed
<1> QED
  BY <1>7, <1>8, <1>9, <1>10

LEMMA TakeInv == ASSUME IInv, NEW w \in Thread, Take(w) PROVE IInv'
<1> USE DEF IInv
<1>1. PICK i \in Position :
        /\ NextIndex(i)
        /\ call' = [call EXCEPT !.left = @ \ {i}]
        /\ worker' = [worker EXCEPT ![w].at = "resolve", ![w].i = i]
  BY DEF Take
<1> DEFINE r == [worker[w] EXCEPT !.at = "resolve", !.i = i]
<1>2. r \in WorkerRecord /\ r.at = "resolve" /\ r.i = i
  BY DEF Typed, WorkerRecord
<1>3. worker' = [worker EXCEPT ![w] = r]
  BY <1>1 DEF Typed
<1>4. /\ call'.at = call.at /\ call'.hosts = call.hosts /\ call'.t = call.t
      /\ call'.left = call.left \ {i} /\ i \in call.left
      /\ UNCHANGED <<answer, link, tried>>
  BY <1>1 DEF Take, NextIndex, Typed, CallRecord
<1> HIDE DEF r
<1>5. worker'[w] = r /\ \A u \in Thread : u # w => worker'[u] = worker[u]
  BY <1>3 DEF Typed
<1>6. call' \in CallRecord
  BY <1>1 DEF Typed, CallRecord
<1>7. Typed'
  BY <1>2, <1>3, <1>4, <1>6 DEF Typed
<1>8. Staged'
  BY <1>3, <1>4, WorkerStaged DEF Active, Take
<1>9. Held'
  BY <1>2, <1>4, <1>5 DEF Held, OnHost, Untouched, Typed
<1>10. Agreed'
  BY <1>4 DEF Agreed
<1> QED
  BY <1>7, <1>8, <1>9, <1>10

LEMMA NoMoreInv == ASSUME IInv, NEW w \in Thread, NoMore(w) PROVE IInv'
<1> USE DEF IInv
<1> DEFINE r == [worker[w] EXCEPT !.at = "ended"]
<1>1. r \in WorkerRecord /\ r.at = "ended"
  BY DEF Typed, WorkerRecord
<1>2. worker' = [worker EXCEPT ![w] = r]
  BY DEF NoMore, Typed
<1> HIDE DEF r
<1>3. worker'[w] = r /\ \A u \in Thread : u # w => worker'[u] = worker[u]
  BY <1>2 DEF Typed
<1>4. UNCHANGED <<call, answer, link, tried>>
  BY DEF NoMore
<1>5. Typed'
  BY <1>1, <1>2, <1>4 DEF Typed
<1>6. Staged'
  BY <1>2, <1>4, WorkerStaged DEF Active, NoMore
<1>7. Held'
  BY <1>1, <1>3, <1>4 DEF Held, OnHost, Untouched
<1>8. Agreed'
  BY <1>4 DEF Agreed
<1> QED
  BY <1>5, <1>6, <1>7, <1>8

LEMMA NothingSent ==
    ASSUME IInv, NEW w \in Thread, worker[w].at \in {"resolve", "connect"}
    PROVE  link[worker[w].i].sent < Units
BY SendingAssumption DEF IInv, Held

LEMMA ResolveFailsInv == ASSUME IInv, NEW w \in Thread, ResolveFails(w) PROVE IInv'
<1>1. OnHost(w) /\ link[worker[w].i].sent < Units
  BY NothingSent DEF ResolveFails, OnHost
<1>2. tried' \in [Position -> SUBSET Nat]
  BY DEF ResolveFails, IInv, Typed
<1> QED
  BY <1>1, <1>2, FinishInv DEF ResolveFails

LEMMA FirstTry == 1 \in 0 .. Retries /\ 1 \in Nat
BY SendingAssumption

LEMMA ResolveInv == ASSUME IInv, NEW w \in Thread, Resolve(w) PROVE IInv'
<1> DEFINE r == [worker[w] EXCEPT !.at = "connect", !.addr = 1, !.try = 1]
<1>1. r \in WorkerRecord /\ r.at = "connect" /\ r.i = worker[w].i
  <2>1. worker[w] \in WorkerRecord
    BY DEF IInv, Typed
  <2> QED
    BY <2>1, FirstTry DEF WorkerRecord
<1>2. worker' = [worker EXCEPT ![w] = r]
  BY DEF Resolve, IInv, Typed
<1>3. tried' \in [Position -> SUBSET Nat]
  BY DEF Resolve, IInv, Typed
<1> HIDE DEF r
<1> QED
  BY <1>1, <1>2, <1>3, StageInv DEF Resolve, OnHost

LEMMA AttemptedType ==
    ASSUME IInv, NEW w \in Thread, Attempted(w) PROVE tried' \in [Position -> SUBSET Nat]
<1>1. worker[w].addr \in Nat
  BY DEF IInv, Typed, WorkerRecord
<1> QED
  BY <1>1 DEF Attempted, IInv, Typed

LEMMA ConnectFailsInv ==
    ASSUME IInv, NEW w \in Thread, NEW err, ConnectFails(w, err) PROVE IInv'
<1>1. OnHost(w) /\ link[worker[w].i].sent < Units
  BY NothingSent DEF ConnectFails, OnHost
<1>2. tried' \in [Position -> SUBSET Nat]
  BY AttemptedType DEF ConnectFails
<1>3. worker[w] \in WorkerRecord /\ worker[w].at = "connect"
  BY DEF IInv, Typed, ConnectFails
<1>4. CASE AnotherTry(w, err)
  <2> DEFINE r == [worker[w] EXCEPT !.try = @ + 1]
  <2>1. worker[w].try < Retries
    BY <1>4 DEF AnotherTry
  <2>2. r \in WorkerRecord /\ r.at = "connect" /\ r.i = worker[w].i
    <3>1. worker[w].try \in 0 .. Retries
      BY <1>3 DEF WorkerRecord
    <3>2. worker[w].try + 1 \in 0 .. Retries
      BY <2>1, <3>1, SendingAssumption
    <3> QED
      BY <1>3, <3>2 DEF WorkerRecord
  <2>3. worker' = [worker EXCEPT ![w] = r] /\ UNCHANGED answer
    BY <1>4 DEF ConnectFails, IInv, Typed
  <2> HIDE DEF r
  <2> QED
    BY <1>1, <1>2, <1>3, <2>2, <2>3, StageInv DEF ConnectFails
<1>5. CASE ~AnotherTry(w, err) /\ AnotherAddress(w, err)
  <2> DEFINE r == [worker[w] EXCEPT !.addr = @ + 1, !.try = 1]
  <2>1. r \in WorkerRecord /\ r.at = "connect" /\ r.i = worker[w].i
    <3>1. worker[w].addr + 1 \in Nat
      BY <1>3 DEF WorkerRecord
    <3> QED
      BY <1>3, <3>1, FirstTry DEF WorkerRecord
  <2>2. worker' = [worker EXCEPT ![w] = r] /\ UNCHANGED answer
    BY <1>5 DEF ConnectFails, IInv, Typed
  <2> HIDE DEF r
  <2> QED
    BY <1>1, <1>2, <1>3, <2>1, <2>2, StageInv DEF ConnectFails
<1>6. CASE ~AnotherTry(w, err) /\ ~AnotherAddress(w, err)
  <2> DEFINE status == IF err = "timeout" /\ w # 0 THEN "timeout" ELSE "error"
  <2>1. Finish(w, status) /\ status \in {"ok", "error", "timeout"} /\ status # "ok"
    BY <1>6 DEF ConnectFails
  <2>2. UNCHANGED <<call, link>>
    BY DEF ConnectFails
  <2> HIDE DEF status
  <2> QED
    BY <1>1, <1>2, <2>1, <2>2, FinishInv
<1> QED
  BY <1>4, <1>5, <1>6

LEMMA ConnectInv == ASSUME IInv, NEW w \in Thread, Connect(w) PROVE IInv'
<1> DEFINE r == [worker[w] EXCEPT !.at = "send"]
<1>1. r \in WorkerRecord /\ r.at = "send" /\ r.i = worker[w].i
  BY DEF IInv, Typed, WorkerRecord
<1>2. worker' = [worker EXCEPT ![w] = r]
  BY DEF Connect, IInv, Typed
<1>3. tried' \in [Position -> SUBSET Nat]
  BY AttemptedType DEF Connect
<1> HIDE DEF r
<1> QED
  BY <1>1, <1>2, <1>3, StageInv DEF Connect, OnHost

LEMMA SentInv == ASSUME IInv, NEW w \in Thread, Sent(w) PROVE IInv'
<1>1. OnHost(w) /\ link[worker[w].i].sent = Units
  BY DEF Sent, AllSent, OnHost
<1>2. tried' \in [Position -> SUBSET Nat]
  BY DEF Sent, IInv, Typed
<1> QED
  BY <1>1, <1>2, FinishInv DEF Sent

LEMMA SendFailsInv == ASSUME IInv, NEW w \in Thread, SendFails(w) PROVE IInv'
<1>1. OnHost(w) /\ link[worker[w].i].sent < Units
  BY DEF SendFails, Unfinished, OnHost
<1>2. tried' \in [Position -> SUBSET Nat]
  BY DEF SendFails, IInv, Typed
<1> QED
  BY <1>1, <1>2, FinishInv DEF SendFails

-----------------------------------------------------------------------------
(* The connections keep the invariant                                      *)

\* A piece of what is left fits into the whole.
LEMMA Piece ==
    \A whole, part \in Nat : \A n \in 1 .. whole - part :
        /\ part + n \in 0 .. whole
        /\ part + n <= whole
        /\ part <= part + n
        /\ n = whole => part = 0
OBVIOUS

LEMMA SendPartInv == ASSUME IInv, NEW w \in Thread, SendPart(w) PROVE IInv'
<1> USE DEF IInv
<1> DEFINE i == worker[w].i
<1>1. i \in Position /\ OnHost(w) /\ worker[w].at = "send"
  BY HeldPosition DEF SendPart, OnHost
<1>2. link[i] \in LinkRecord
  BY <1>1 DEF Typed
<1>3. PICK n \in 1 .. Units - link[i].sent : link' = [link EXCEPT ![i].sent = @ + n]
  BY DEF SendPart
<1> DEFINE l == [link[i] EXCEPT !.sent = @ + n]
<1>4. /\ l \in LinkRecord /\ link[i].sent <= l.sent
      /\ l.got = link[i].got /\ l.handled = link[i].handled
  <2>1. link[i].sent \in 0 .. Units
    BY <1>2 DEF LinkRecord
  <2>2. link[i].sent + n \in 0 .. Units /\ link[i].sent <= link[i].sent + n
    <3>1. n \in 1 .. Units - link[i].sent
      BY <1>3
    <3>2. link[i].sent \in Nat /\ Units \in Nat
      BY <2>1, SendingAssumption
    <3> HIDE DEF l, i
    <3> QED
      BY <3>1, <3>2, Piece
  <2> QED
    BY <1>2, <2>2 DEF LinkRecord
<1>5. link' = [link EXCEPT ![i] = l]
  BY <1>3 DEF Typed
<1> HIDE DEF l
<1>6. /\ link' \in [Position -> LinkRecord] /\ link'[i] = l
      /\ \A j \in Position : j # i => link'[j] = link[j]
  BY <1>1, <1>4, <1>5 DEF Typed
<1>7. UNCHANGED <<call, worker, answer, tried>>
  BY DEF SendPart
<1>8. Typed'
  BY <1>6, <1>7 DEF Typed
<1>9. Staged'
  BY <1>1, <1>7, StartedKept DEF Staged, Active, OnHost
<1>10. Held'
  <2>1. \A u \in Thread : worker[u].at \in {"resolve", "connect"} =>
          worker[u].i \in Position /\ worker[u].i # i
    BY <1>1, HeldPosition DEF Held, OnHost
  <2>2. \A j \in call.left : j \in Position /\ j # i
    BY <1>1 DEF Held, Typed, CallRecord
  <2> QED
    BY <1>6, <1>7, <2>1, <2>2 DEF Held, OnHost, Untouched
<1>11. Agreed'
  <2>1. answer[i] = "none"
    BY <1>1 DEF Held
  <2>2. link[i].got <= l.sent
    <3>1. link[i].got \in Nat /\ link[i].sent \in Nat /\ l.sent \in Nat
      BY <1>2, <1>4, SendingAssumption DEF LinkRecord
    <3>2. link[i].got <= link[i].sent
      BY <1>1 DEF Agreed
    <3> QED
      BY <1>4, <3>1, <3>2
  <2> QED
    BY <1>4, <1>6, <1>7, <2>1, <2>2 DEF Agreed
<1> QED
  BY <1>8, <1>9, <1>10, <1>11

LEMMA ReceiveInv == ASSUME IInv, NEW i \in Position, Receive(i) PROVE IInv'
<1> USE DEF IInv
<1>1. link[i] \in LinkRecord
  BY DEF Typed
<1>2. PICK n \in 1 .. link[i].sent - link[i].got :
        link' = [link EXCEPT ![i].got = @ + n,
                             ![i].handled = IF n = Units THEN @ + 1 ELSE @]
  BY DEF Receive
<1> DEFINE l == [link[i] EXCEPT !.got = @ + n,
                                !.handled = IF n = Units THEN @ + 1 ELSE @]
<1>3. link[i].sent \in 0 .. Units /\ link[i].got \in 0 .. Units /\ link[i].handled \in Nat
  BY <1>1 DEF LinkRecord
<1>4. link[i].got + n \in 0 .. Units /\ link[i].got + n <= link[i].sent
  <2>1. link[i].got + n \in 0 .. link[i].sent /\ link[i].got + n <= link[i].sent
    BY <1>3, <1>2, Piece
  <2> QED
    BY <1>3, <2>1, SendingAssumption
<1>5. n = Units => link[i].got = 0
  BY <1>3, SendingAssumption
<1>6. /\ l \in LinkRecord /\ l.sent = link[i].sent /\ l.got = link[i].got + n
      /\ l.handled = IF n = Units THEN link[i].handled + 1 ELSE link[i].handled
  <2>1. (IF n = Units THEN link[i].handled + 1 ELSE link[i].handled) \in Nat
    BY <1>3
  <2> QED
    BY <1>1, <1>4, <2>1 DEF LinkRecord
<1>7. link' = [link EXCEPT ![i] = l]
  BY <1>2 DEF Typed
<1> HIDE DEF l
<1>8. /\ link' \in [Position -> LinkRecord] /\ link'[i] = l
      /\ \A j \in Position : j # i => link'[j] = link[j]
  BY <1>6, <1>7 DEF Typed
<1>9. UNCHANGED <<call, worker, answer, tried>>
  BY DEF Receive
<1>10. \A j \in Position : link'[j].sent = link[j].sent
  BY <1>6, <1>8
<1>11. Typed'
  BY <1>8, <1>9 DEF Typed
<1>12. Staged'
  BY <1>9, <1>10, StartedKept DEF Staged, Active, Untouched
<1>13. Held'
  <2>1. \A u \in Thread : worker[u].at \in {"resolve", "connect"} => worker[u].i \in Position
    BY HeldPosition DEF OnHost
  <2>2. \A j \in call.left : j \in Position
    BY DEF Typed, CallRecord
  <2> QED
    BY <1>9, <1>10, <2>1, <2>2 DEF Held, OnHost, Untouched
<1>14. Agreed'
  <2>1. \/ l.handled = 0
        \/ l.handled = 1 /\ l.got = Units
    <3>1. link[i].handled = 0 \/ (link[i].handled = 1 /\ link[i].got = Units)
      BY DEF Agreed
    <3>2. CASE n = Units
      BY <1>3, <1>5, <1>6, <3>1, <3>2, SendingAssumption
    <3>3. CASE n # Units
      BY <1>3, <1>4, <1>6, <3>1, <3>3, SendingAssumption
    <3> QED
      BY <3>2, <3>3
  <2> QED
    BY <1>4, <1>6, <1>8, <1>9, <1>10, <2>1 DEF Agreed
<1> QED
  BY <1>11, <1>12, <1>13, <1>14

LEMMA HangUpInv == ASSUME IInv, NEW i \in Position, HangUp(i) PROVE IInv'
<1> USE DEF IInv
<1> DEFINE l == [link[i] EXCEPT !.at = "over"]
<1>1. /\ l \in LinkRecord /\ l.sent = link[i].sent
      /\ l.got = link[i].got /\ l.handled = link[i].handled
  <2>1. link[i] \in LinkRecord
    BY DEF Typed
  <2> QED
    BY <2>1 DEF LinkRecord
<1>2. link' = [link EXCEPT ![i] = l]
  BY DEF HangUp
<1> HIDE DEF l
<1>3. /\ link' \in [Position -> LinkRecord]
      /\ \A j \in Position : /\ link'[j].sent = link[j].sent
                            /\ link'[j].got = link[j].got
                            /\ link'[j].handled = link[j].handled
  BY <1>1, <1>2 DEF Typed
<1>4. UNCHANGED <<call, worker, answer, tried>>
  BY DEF HangUp
<1>5. Typed'
  BY <1>3, <1>4 DEF Typed
<1>6. Staged'
  BY <1>3, <1>4, StartedKept DEF Staged, Active, Untouched
<1>7. Held'
  <2>1. \A u \in Thread : worker[u].at \in {"resolve", "connect"} => worker[u].i \in Position
    BY HeldPosition DEF OnHost
  <2>2. \A j \in call.left : j \in Position
    BY DEF Typed, CallRecord
  <2> QED
    BY <1>3, <1>4, <2>1, <2>2 DEF Held, OnHost, Untouched
<1>8. Agreed'
  BY <1>3, <1>4 DEF Agreed
<1> QED
  BY <1>5, <1>6, <1>7, <1>8

-----------------------------------------------------------------------------
(* Every step keeps it                                                     *)

LEMMA WorkerStepInv ==
    ASSUME IInv, NEW w \in Thread, WorkerStep(w) PROVE IInv'
BY TakeInv, NoMoreInv, ResolveFailsInv, ResolveInv, ConnectFailsInv, ConnectInv,
   SendPartInv, SentInv, SendFailsInv DEF WorkerStep

LEMMA StutterInv == IInv /\ UNCHANGED vars => IInv'
<1> SUFFICES ASSUME IInv, UNCHANGED vars PROVE IInv'
  OBVIOUS
<1>1. UNCHANGED <<call, worker, answer, link, tried>>
  BY DEF vars
<1>2. Started' = Started
  BY <1>1, StartedKept
<1>3. Typed' /\ Held' /\ Agreed'
  BY <1>1 DEF IInv, Typed, Held, Agreed, OnHost, Untouched
<1>4. Staged'
  BY <1>1, <1>2 DEF IInv, Staged, Active, Untouched
<1> QED
  BY <1>3, <1>4 DEF IInv

LEMMA NextInv == IInv /\ [Next]_vars => IInv'
<1> SUFFICES ASSUME IInv, [Next]_vars PROVE IInv'
  OBVIOUS
<1>1. CASE Request
  BY <1>1, CallInv, CallOneInv DEF Request
<1>2. CASE CallerStep
  BY <1>2, CallerInv, LaunchInv DEF CallerStep
<1>3. CASE \E w \in Thread : WorkerStep(w)
  BY <1>3, WorkerStepInv
<1>4. CASE \E i \in Position : Receive(i) \/ HangUp(i)
  BY <1>4, ReceiveInv, HangUpInv
<1>5. CASE UNCHANGED vars
  BY <1>5, StutterInv
<1> QED
  BY <1>1, <1>2, <1>3, <1>4, <1>5 DEF Next

\* In every state of a call the parts of the invariant hold together.
THEOREM SendingInvariant == Spec => []IInv
BY InvInit, NextInv, PTL DEF Spec

-----------------------------------------------------------------------------
(* What follows from the invariant                                         *)

\* The types of the caller, the workers, the answers and the connections.
THEOREM SendingTypes == Spec => []TypeOK
<1>1. IInv => TypeOK
  <2> SUFFICES ASSUME IInv PROVE TypeOK
    OBVIOUS
  <2>1. call \in CallRecord
    BY DEF IInv, Typed
  <2>2. DOMAIN call.hosts \subseteq Position /\ \A i \in DOMAIN call.hosts : call.hosts[i] \in Hosts
    BY <2>1, HostListsDomain DEF CallRecord
  <2> QED
    BY <2>1, <2>2 DEF IInv, Typed, TypeOK, CallRecord, WorkerRecord, LinkRecord
<1> QED
  BY <1>1, SendingInvariant, PTL

\* No worker is at work after send_multi_request has returned, so none reads
\* the context or the message the caller has freed.
THEOREM WorkersEnd == Spec => []NoWorkerLeft
<1>1. IInv => NoWorkerLeft
  BY DEF IInv, Staged, NoWorkerLeft
<1> QED
  BY <1>1, SendingInvariant, PTL

\* A host that was answered "error" or "timeout" for has not handled the
\* message.
THEOREM FailureNeverHandled == Spec => []FailureUnhandled
<1>1. IInv => FailureUnhandled
  <2> SUFFICES ASSUME IInv, NEW i \in Position, answer[i] \in {"error", "timeout"}
               PROVE  link[i].handled = 0
    BY DEF FailureUnhandled
  <2>1. link[i].sent \in Nat /\ link[i].got \in Nat
    BY SendingAssumption DEF IInv, Typed, LinkRecord
  <2>2. link[i].got <= link[i].sent /\ link[i].sent < Units
    BY DEF IInv, Agreed
  <2>3. link[i].handled = 0 \/ link[i].got = Units
    BY DEF IInv, Agreed
  <2> QED
    BY <2>1, <2>2, <2>3, SendingAssumption
<1> QED
  BY <1>1, SendingInvariant, PTL

-----------------------------------------------------------------------------
(* A call keeps its promise                                                *)

Given   == {i \in Position : link[i].sent = Units}
Count   == [i \in Position |-> link[i].handled]
Told    == [i \in Position |-> IF answer[i] \in {"error", "timeout"}
                               THEN "failed" ELSE answer[i]]

LEMMA PromiseInit == Init => Promise!Init
<1> SUFFICES ASSUME Init PROVE Promise!Init
  OBVIOUS
<1>1. Given = {} /\ Count = [i \in Position |-> 0] /\ Told = [i \in Position |-> "none"]
  BY SendingAssumption DEF Init, Given, Count, Told, NoLink
<1> QED
  BY <1>1 DEF Promise!Init, Given, Count, Told

\* The promise looks at what was sent and handled and at the answers only.
LEMMA Unseen ==
    ASSUME \A i \in Position : /\ link'[i].sent = link[i].sent
                              /\ link'[i].handled = link[i].handled,
           answer' = answer
    PROVE  UNCHANGED Promise!fanVars
BY DEF Promise!fanVars

LEMMA SendPartPromise ==
    ASSUME IInv, NEW w \in Thread, SendPart(w) PROVE [Promise!Next]_(Promise!fanVars)
<1>0. worker[w].i \in Position /\ answer[worker[w].i] = "none"
  BY HeldPosition DEF SendPart, OnHost, IInv, Held
<1>1. PICK i \in Position : i = worker[w].i /\ answer[i] = "none"
  BY <1>0
<1>2. link[i] \in LinkRecord /\ link[i].sent \in 0 .. Units
  BY <1>1 DEF IInv, Typed, LinkRecord
<1>3. PICK n \in 1 .. Units - link[i].sent : link' = [link EXCEPT ![i].sent = @ + n]
  BY <1>1 DEF SendPart
<1>4. link[i].sent # Units
  BY <1>2, <1>3, SendingAssumption
<1>5. \A j \in Position : j # i => link'[j] = link[j]
  BY <1>3 DEF IInv, Typed
<1>6. link'[i].handled = link[i].handled
  BY <1>1, <1>2, <1>3 DEF IInv, Typed, LinkRecord
<1>7. answer' = answer /\ Told' = Told
  BY DEF SendPart, Told
<1>8. Count' = Count
  BY <1>5, <1>6 DEF Count
<1>9. CASE link'[i].sent = Units
  <2>1. Given' = Given \cup {i} /\ i \notin Given /\ Told[i] = "none"
    BY <1>1, <1>4, <1>5, <1>9 DEF Given, Told
  <2>2. Promise!HandOver(i)
    BY <1>7, <1>8, <2>1 DEF Promise!HandOver, Given, Count, Told
  <2> QED
    BY <1>1, <2>2 DEF Promise!Next
<1>10. CASE link'[i].sent # Units
  <2>1. Given' = Given
    BY <1>4, <1>5, <1>10 DEF Given
  <2> QED
    BY <1>7, <1>8, <2>1 DEF Promise!fanVars, Given, Count, Told
<1> QED
  BY <1>9, <1>10

LEMMA ReceivePromise ==
    ASSUME IInv, NEW i \in Position, Receive(i) PROVE [Promise!Next]_(Promise!fanVars)
<1>1. PICK n \in 1 .. link[i].sent - link[i].got :
        link' = [link EXCEPT ![i].got = @ + n,
                             ![i].handled = IF n = Units THEN @ + 1 ELSE @]
  BY DEF Receive
<1>2. link[i] \in LinkRecord /\ link[i].sent \in 0 .. Units /\ link[i].got \in 0 .. Units
  BY DEF IInv, Typed, LinkRecord
<1>3. \A j \in Position : j # i => link'[j] = link[j]
  BY <1>1 DEF IInv, Typed
<1>4. /\ link'[i].sent = link[i].sent
      /\ link'[i].handled = IF n = Units THEN link[i].handled + 1 ELSE link[i].handled
  BY <1>1, <1>2 DEF IInv, Typed, LinkRecord
<1>5. answer' = answer
  BY DEF Receive
<1>6. CASE n = Units
  <2>1. link[i].got = 0 /\ link[i].sent = Units
    <3>1. n \in 1 .. link[i].sent - link[i].got
      BY <1>1
    <3> QED
      BY <1>2, <1>6, <3>1, SendingAssumption
  <2>2. link[i].handled = 0
    BY <2>1, SendingAssumption DEF IInv, Agreed
  <2>3. Given' = Given /\ i \in Given /\ Told' = Told
    BY <1>3, <1>4, <1>5, <2>1 DEF Given, Told
  <2>4. Count[i] = 0 /\ Count' = [Count EXCEPT ![i] = 1]
    <3>1. \A j \in Position : link'[j].handled = IF j = i THEN 1 ELSE link[j].handled
      BY <1>3, <1>4, <1>6, <2>2
    <3> QED
      BY <2>2, <3>1 DEF Count
  <2>5. Promise!Handle(i)
    BY <2>3, <2>4 DEF Promise!Handle, Given, Count, Told
  <2> QED
    BY <2>5 DEF Promise!Next
<1>7. CASE n # Units
  BY <1>3, <1>4, <1>5, <1>7, Unseen
<1> QED
  BY <1>6, <1>7

LEMMA FinishPromise ==
    ASSUME IInv, NEW w \in Thread, OnHost(w),
           NEW status \in {"ok", "error", "timeout"}, Finish(w, status),
           status = "ok" => link[worker[w].i].sent = Units,
           status # "ok" => link[worker[w].i].sent < Units,
           UNCHANGED link
    PROVE  Promise!Next
<1>0. worker[w].i \in Position /\ answer[worker[w].i] = "none"
  BY HeldPosition DEF IInv, Held
<1>1. PICK i \in Position : i = worker[w].i /\ answer[i] = "none"
  BY <1>0
<1>2. /\ answer' = [answer EXCEPT ![i] = status]
      /\ answer \in [Position -> {"none", "ok", "error", "timeout"}]
  BY <1>1 DEF Finish, IInv, Typed
<1>3. Given' = Given /\ Count' = Count
  BY DEF Given, Count
<1>4. link[i].sent \in 0 .. Units
  BY <1>1 DEF IInv, Typed, LinkRecord
<1>5. i \in Given <=> status = "ok"
  BY <1>1, <1>4, SendingAssumption DEF Given
<1>6. Told' = [Told EXCEPT ![i] = IF status = "ok" THEN "ok" ELSE "failed"]
  BY <1>1, <1>2 DEF Told
<1>7. Told[i] = "none"
  BY <1>1 DEF Told
<1>8. Promise!Answer(i)
  BY <1>3, <1>5, <1>6, <1>7 DEF Promise!Answer, Given, Count, Told
<1> QED
  BY <1>1, <1>8 DEF Promise!Next

LEMMA ConnectFailsPromise ==
    ASSUME IInv, NEW w \in Thread, NEW err, ConnectFails(w, err)
    PROVE  [Promise!Next]_(Promise!fanVars)
<1>1. OnHost(w) /\ link[worker[w].i].sent < Units
  BY NothingSent DEF ConnectFails, OnHost
<1>2. link' = link
  BY DEF ConnectFails
<1>3. CASE answer' = answer
  BY <1>2, <1>3, Unseen
<1>4. CASE answer' # answer
  <2> DEFINE status == IF err = "timeout" /\ w # 0 THEN "timeout" ELSE "error"
  <2>1. Finish(w, status) /\ status \in {"ok", "error", "timeout"} /\ status # "ok"
    BY <1>4 DEF ConnectFails
  <2> HIDE DEF status
  <2> QED
    BY <1>1, <1>2, <2>1, FinishPromise
<1> QED
  BY <1>3, <1>4

LEMMA WorkerPromise ==
    ASSUME IInv, NEW w \in Thread, WorkerStep(w) PROVE [Promise!Next]_(Promise!fanVars)
<1>1. CASE Take(w) \/ NoMore(w) \/ Resolve(w)
  BY <1>1, Unseen DEF Take, NoMore, Resolve
<1>2. CASE ResolveFails(w)
  <2>1. OnHost(w) /\ link[worker[w].i].sent < Units
    BY <1>2, NothingSent DEF ResolveFails, OnHost
  <2> QED
    BY <1>2, <2>1, FinishPromise DEF ResolveFails
<1>3. CASE \E err \in Transient \cup {"refused"} : ConnectFails(w, err)
  BY <1>3, ConnectFailsPromise
<1>4. CASE Connect(w)
  <2>1. worker[w].i \in Position
    BY <1>4, HeldPosition DEF Connect, OnHost
  <2>2. link' = [link EXCEPT ![worker[w].i].at = "open"] /\ answer' = answer
    BY <1>4 DEF Connect
  <2>3. link \in [Position -> LinkRecord]
    BY DEF IInv, Typed
  <2>4. \A i \in Position : link'[i].sent = link[i].sent /\ link'[i].handled = link[i].handled
    BY <2>1, <2>2, <2>3 DEF LinkRecord
  <2> QED
    BY <2>2, <2>4, Unseen
<1>5. CASE SendPart(w)
  BY <1>5, SendPartPromise
<1>6. CASE Sent(w)
  <2>1. OnHost(w) /\ link[worker[w].i].sent = Units
    BY <1>6 DEF Sent, AllSent, OnHost
  <2> QED
    BY <1>6, <2>1, FinishPromise DEF Sent
<1>7. CASE SendFails(w)
  <2>1. OnHost(w) /\ link[worker[w].i].sent < Units
    BY <1>7 DEF SendFails, Unfinished, OnHost
  <2> QED
    BY <1>7, <2>1, FinishPromise DEF SendFails
<1> QED
  BY <1>1, <1>2, <1>3, <1>4, <1>5, <1>6, <1>7 DEF WorkerStep

LEMMA PromiseNext == IInv /\ [Next]_vars => [Promise!Next]_(Promise!fanVars)
<1> SUFFICES ASSUME IInv, [Next]_vars PROVE [Promise!Next]_(Promise!fanVars)
  OBVIOUS
<1>1. CASE Request
  BY <1>1, Unseen DEF Request, Call, CallOne
<1>2. CASE CallerStep
  BY <1>2, Unseen DEF CallerStep, CompressFails, Launch, Join, JoinGarbage, ReturnOne
<1>3. CASE \E w \in Thread : WorkerStep(w)
  BY <1>3, WorkerPromise
<1>4. CASE \E i \in Position : Receive(i)
  BY <1>4, ReceivePromise
<1>5. CASE \E i \in Position : HangUp(i)
  <2>1. PICK i \in Position : link' = [link EXCEPT ![i].at = "over"] /\ answer' = answer
    BY <1>5 DEF HangUp
  <2>2. link \in [Position -> LinkRecord]
    BY DEF IInv, Typed
  <2>3. \A j \in Position : link'[j].sent = link[j].sent /\ link'[j].handled = link[j].handled
    BY <2>1, <2>2 DEF LinkRecord
  <2> QED
    BY <2>1, <2>3, Unseen
<1>6. CASE UNCHANGED vars
  BY <1>6, Unseen DEF vars
<1> QED
  BY <1>1, <1>2, <1>3, <1>4, <1>5, <1>6 DEF Next

\* Every behaviour of a call is one that FanOut allows: its workers,
\* connections and retries hand each host the message at most once and
\* answer truthfully about it.
THEOREM SendingImplementsFanOut == Spec => KeepsPromise
<1>1. Spec => [](IInv)
  BY SendingInvariant
<1> QED
  BY <1>1, PromiseInit, PromiseNext, PTL DEF Spec, KeepsPromise, Promise!Spec

-----------------------------------------------------------------------------
(* Every host is answered for                                              *)

\* Each host is still to be taken, in the hands of a worker, or answered;
\* and a worker ends only when none is left to be taken.
Served ==
    /\ \A i \in DOMAIN call.hosts :
         \/ i \in call.left
         \/ answer[i] # "none"
         \/ \E w \in Thread : OnHost(w) /\ worker[w].i = i
    /\ \A w \in Thread \ {0} : worker[w].at = "ended" => call.left = {}

\* The addresses a worker has attempted for its host: those before the one
\* it is at, and that one once it failed.
Attempts ==
    /\ call.at = "idle" => \A i \in Position : tried[i] = {}
    /\ \A i \in call.left : tried[i] = {}
    /\ \A w \in Thread \ {0} :
         LET i == worker[w].i
         IN  /\ worker[w].at = "resolve" => tried[i] = {}
             /\ worker[w].at = "connect" =>
                  /\ worker[w].addr \in 1 .. Addresses[call.hosts[i]]
                  /\ tried[i] \in {1 .. worker[w].addr - 1, 1 .. worker[w].addr}
             /\ worker[w].at = "send" => link[i].at # "none"

DInv == IInv /\ Served /\ Attempts /\ GivenUpAfterAll

LEMMA DInit == Init => DInv
<1> SUFFICES ASSUME Init PROVE DInv
  OBVIOUS
<1>1. DOMAIN call.hosts = {} /\ \A w \in Thread : worker[w].at = "none"
  BY DEF Init, Resting
<1>2. Served /\ Attempts /\ GivenUpAfterAll
  BY <1>1 DEF Init, Served, Attempts, GivenUpAfterAll
<1> QED
  BY <1>2, InvInit DEF DInv

\* A call starts with every host to be taken, or with one in hand.
LEMMA RequestDone == ASSUME DInv, Request PROVE (Served /\ Attempts /\ GivenUpAfterAll)'
<1>1. /\ \A w \in Thread : worker[w].at = "none"
      /\ \A i \in Position : Untouched(i) /\ tried[i] = {}
      /\ call.left = {}
  BY DEF Request, Call, CallOne, DInv, IInv, Staged, Attempts
<1>2. UNCHANGED <<answer, link, tried>>
  BY DEF Request, Call, CallOne
<1>3. CASE \E dest \in Destination : Call(dest)
  <2>1. PICK dest \in Destination : Call(dest)
    BY <1>3
  <2> DEFINE hosts == HostsOf(dest)
  <2>2. DOMAIN hosts \in SUBSET Position
    BY HostsOfType, HostListsDomain
  <2>3. /\ call'.hosts = hosts /\ call'.left = DOMAIN hosts
        /\ call'.at # "idle"
        /\ worker' = worker
    BY <2>1 DEF Call, DInv, IInv, Typed, CallRecord
  <2> HIDE DEF hosts
  <2>4. Served'
    BY <1>1, <2>3 DEF Served
  <2>5. Attempts'
    BY <1>1, <1>2, <2>2, <2>3 DEF Attempts
  <2>6. GivenUpAfterAll'
    BY <1>1, <1>2, <2>2, <2>3 DEF GivenUpAfterAll
  <2> QED
    BY <2>4, <2>5, <2>6
<1>4. CASE \E h \in Hosts : CallOne(h)
  <2>1. PICK h \in Hosts : CallOne(h)
    BY <1>4
  <2>2. 0 \in Thread
    BY SomeThread
  <2>3. /\ call'.hosts = <<h>> /\ call'.left = {} /\ call'.at = "single"
        /\ \A w \in Thread \ {0} : worker'[w] = worker[w]
        /\ worker'[0].at = "resolve" /\ worker'[0].i = 1
    BY <1>1, <2>1, <2>2 DEF CallOne, DInv, IInv, Typed, CallRecord, Resting
  <2>4. DOMAIN call'.hosts = {1}
    BY <2>3
  <2>5. Served'
    BY <1>1, <2>2, <2>3, <2>4 DEF Served, OnHost
  <2>6. Attempts'
    BY <1>1, <2>3 DEF Attempts
  <2>7. GivenUpAfterAll'
    BY <2>3 DEF GivenUpAfterAll
  <2> QED
    BY <2>5, <2>6, <2>7
<1> QED
  BY <1>3, <1>4 DEF Request

\* The other steps of the caller leave the hosts and those who hold them alone.
LEMMA CallerDone == ASSUME DInv, CallerStep PROVE (Served /\ Attempts /\ GivenUpAfterAll)'
<1>1. /\ call'.hosts = call.hosts /\ call'.left = call.left /\ call'.at # "idle"
      /\ UNCHANGED <<answer, link, tried>>
  BY DEF CallerStep, CompressFails, Launch, Join, JoinGarbage, ReturnOne, DInv, IInv, Typed, CallRecord
<1>2. \A w \in Thread :
        \/ worker'[w] = worker[w]
        \/ worker[w].at = "none" /\ worker'[w].at \in {"take", "failed"} /\ w # 0
  <2>1. CASE Launch
    <3>1. call.t \in Thread \ {0} /\ worker[call.t].at = "none"
      BY <2>1, SomeThread, SendingAssumption DEF Launch, DInv, IInv, Staged, Typed, CallRecord, Thread
    <3>2. PICK at \in {"take", "failed"} : worker' = [worker EXCEPT ![call.t].at = at]
      BY <2>1 DEF Launch
    <3>3. worker \in [Thread -> WorkerRecord]
      BY DEF DInv, IInv, Typed
    <3>4. worker'[call.t].at = at
      BY <3>1, <3>2, <3>3 DEF WorkerRecord
    <3>5. \A w \in Thread : w # call.t => worker'[w] = worker[w]
      BY <3>2, <3>3
    <3> QED
      BY <3>1, <3>4, <3>5
  <2>2. CASE ~Launch
    BY <2>2 DEF CallerStep, CompressFails, Join, JoinGarbage, ReturnOne
  <2> QED
    BY <2>1, <2>2
<1>3. Served'
  BY <1>1, <1>2 DEF DInv, Served, OnHost
<1>4. Attempts'
  BY <1>1, <1>2 DEF DInv, Attempts
<1>5. GivenUpAfterAll'
  BY <1>1, <1>2, SomeThread DEF DInv, GivenUpAfterAll
<1> QED
  BY <1>3, <1>4, <1>5

\* While a set of positions has a member, it has a least one.
LEMMA LeastPosition ==
    ASSUME NEW T \in SUBSET Position, T # {}
    PROVE  \E x \in T : \A y \in T : x <= y
<1>1. T \subseteq Nat
  BY SendingAssumption DEF Position
<1>2. \E x \in T : \A y \in T : ~ (<<y, x>> \in OpToRel(<, Nat))
  BY <1>1, NatLessThanWellFounded, WFMin
<1>3. PICK x \in T : \A y \in T : ~ (<<y, x>> \in OpToRel(<, Nat))
  BY <1>2
<1>4. \A y \in T : ~(y < x)
  BY <1>1, <1>3, Zenon DEF OpToRel
<1> QED
  BY <1>1, <1>4

LEMMA TakeDone ==
    ASSUME DInv, NEW w \in Thread, Take(w) PROVE (Served /\ Attempts /\ GivenUpAfterAll)'
<1>1. PICK i \in Position :
        /\ NextIndex(i)
        /\ call' = [call EXCEPT !.left = @ \ {i}]
        /\ worker' = [worker EXCEPT ![w].at = "resolve", ![w].i = i]
  BY DEF Take
<1>2. /\ call'.hosts = call.hosts /\ call'.left = call.left \ {i} /\ call'.at = call.at
      /\ UNCHANGED <<answer, link, tried>>
  BY <1>1 DEF Take, DInv, IInv, Typed, CallRecord
<1>3. /\ worker[w].at = "take" /\ worker'[w].at = "resolve" /\ worker'[w].i = i
      /\ \A v \in Thread : v # w => worker'[v] = worker[v]
  <2>1. worker \in [Thread -> WorkerRecord]
    BY DEF DInv, IInv, Typed
  <2> QED
    BY <1>1, <2>1 DEF Take, WorkerRecord
<1>4. i \in call.left
  BY <1>1 DEF NextIndex
<1>5. Served'
  <2>1. \A j \in DOMAIN call.hosts :
          j \in call.left \ {i} \/ answer[j] # "none"
            \/ \E v \in Thread : OnHost(v)' /\ worker'[v].i = j
    BY <1>3 DEF DInv, Served, OnHost
  <2>2. \A v \in Thread \ {0} : worker'[v].at = "ended" => FALSE
    BY <1>3, <1>4 DEF DInv, Served
  <2> QED
    BY <1>2, <2>1, <2>2 DEF Served
<1>6. Attempts'
  BY <1>2, <1>3, <1>4 DEF DInv, Attempts
<1>7. GivenUpAfterAll'
  BY <1>2, <1>3, SomeThread DEF DInv, GivenUpAfterAll
<1> QED
  BY <1>5, <1>6, <1>7

LEMMA NoMoreDone ==
    ASSUME DInv, NEW w \in Thread, NoMore(w) PROVE (Served /\ Attempts /\ GivenUpAfterAll)'
<1>1. /\ worker[w].at = "take" /\ worker' = [worker EXCEPT ![w].at = "ended"]
      /\ UNCHANGED <<call, answer, link, tried>>
  BY DEF NoMore
<1>2. /\ worker'[w].at = "ended"
      /\ \A v \in Thread : v # w => worker'[v] = worker[v]
  <2>1. worker \in [Thread -> WorkerRecord]
    BY DEF DInv, IInv, Typed
  <2> QED
    BY <1>1, <2>1 DEF WorkerRecord
<1>3. call.left = {}
  <2>1. call.left \in SUBSET Position
    BY DEF DInv, IInv, Typed, CallRecord
  <2>2. ~ \E x \in call.left : \A y \in call.left : x <= y
    BY <2>1 DEF NoMore, NextIndex
  <2> QED
    BY <2>1, <2>2, LeastPosition
<1>4. Served'
  BY <1>1, <1>2, <1>3 DEF DInv, Served, OnHost
<1>5. Attempts'
  BY <1>1, <1>2 DEF DInv, Attempts
<1>6. GivenUpAfterAll'
  BY <1>1, <1>2, SomeThread DEF DInv, GivenUpAfterAll
<1> QED
  BY <1>4, <1>5, <1>6

-----------------------------------------------------------------------------
(* A worker with a host in its hands                                       *)

\* It changes what belongs to its host only.
OnItsHost(w) ==
    LET i == worker[w].i
    IN  /\ call' = call
        /\ \A v \in Thread : v # w => worker'[v] = worker[v]
        /\ \A j \in Position : j # i => /\ answer'[j] = answer[j]
                                       /\ link'[j].at = link[j].at
                                       /\ tried'[j] = tried[j]

\* It still has its host, ...
Keeps(w) ==
    /\ OnHost(w)'
    /\ worker'[w].i = worker[w].i
    /\ answer'[worker[w].i] = answer[worker[w].i]

\* ... or has answered for it.
Lets(w) ==
    /\ answer'[worker[w].i] # "none"
    /\ worker'[w].at = IF w = 0 THEN "ended" ELSE "take"

LEMMA OnHostServed ==
    ASSUME DInv, NEW w \in Thread, OnHost(w), OnItsHost(w), Keeps(w) \/ Lets(w)
    PROVE  Served'
<1>1. worker[w].i \in Position /\ DOMAIN call.hosts \in SUBSET Position
  BY HeldPosition, HostListsDomain DEF DInv, IInv, Typed, CallRecord
<1>2. ASSUME NEW j \in DOMAIN call.hosts
      PROVE  \/ j \in call.left
             \/ answer'[j] # "none"
             \/ \E v \in Thread : OnHost(v)' /\ worker'[v].i = j
  <2>1. CASE j = worker[w].i
    BY <2>1 DEF Keeps, Lets
  <2>2. CASE j # worker[w].i
    BY <1>1, <2>2 DEF DInv, Served, OnItsHost, OnHost
  <2> QED
    BY <2>1, <2>2
<1>3. \A v \in Thread \ {0} : worker'[v].at = "ended" => worker[v].at = "ended"
  BY DEF OnItsHost, Keeps, Lets, OnHost
<1> QED
  BY <1>2, <1>3 DEF DInv, Served, OnItsHost

\* Other hosts, and the workers that hold them, keep their attempts.
LEMMA OnHostAttempts ==
    ASSUME DInv, NEW w \in Thread, OnHost(w), OnItsHost(w),
           worker'[w].at \in {"take", "ended"} \/ w = 0 \/
             LET i == worker[w].i
             IN  /\ worker'[w].i = i
                 /\ \/ /\ worker'[w].at = "connect"
                       /\ worker'[w].addr \in 1 .. Addresses[call.hosts[i]]
                       /\ tried'[i] \in {1 .. worker'[w].addr - 1, 1 .. worker'[w].addr}
                    \/ worker'[w].at = "send" /\ link'[i].at # "none"
    PROVE  Attempts'
<1>1. worker[w].i \in Position /\ worker[w].i \notin call.left /\ call.left \in SUBSET Position
  BY HeldPosition DEF DInv, IInv, Held, Typed, CallRecord
<1>2. call'.at # "idle"
  BY DEF OnItsHost, OnHost, DInv, IInv, Staged
<1>3. \A v \in Thread : OnHost(v) /\ v # w =>
        worker[v].i \in Position /\ worker[v].i # worker[w].i
  BY HeldPosition DEF DInv, IInv, Held
<1>4. ASSUME NEW v \in Thread \ {0}, v # w
      PROVE  LET i == worker'[v].i
             IN  /\ worker'[v].at = "resolve" => tried'[i] = {}
                 /\ worker'[v].at = "connect" =>
                      /\ worker'[v].addr \in 1 .. Addresses[call.hosts[i]]
                      /\ tried'[i] \in {1 .. worker'[v].addr - 1, 1 .. worker'[v].addr}
                 /\ worker'[v].at = "send" => link'[i].at # "none"
  <2>1. worker'[v] = worker[v]
    BY <1>4 DEF OnItsHost
  <2>2. CASE OnHost(v)
    <3>1. tried'[worker[v].i] = tried[worker[v].i] /\ link'[worker[v].i].at = link[worker[v].i].at
      BY <1>3, <1>4, <2>2 DEF OnItsHost
    <3> QED
      BY <2>1, <3>1 DEF DInv, Attempts
  <2>3. CASE ~OnHost(v)
    BY <2>1, <2>3 DEF OnHost
  <2> QED
    BY <2>2, <2>3
<1>5. \A i \in call.left : tried'[i] = {}
  BY <1>1 DEF DInv, Attempts, OnItsHost
<1> QED
  BY <1>2, <1>4, <1>5 DEF Attempts, OnItsHost

LEMMA OnHostGivenUp ==
    ASSUME DInv, NEW w \in Thread, OnHost(w), OnItsHost(w), worker'[w].at # "none",
           LET i == worker[w].i
           IN  w = 0 \/ answer'[i] = "none" \/ link'[i].at # "none" \/ tried'[i] = {}
                 \/ tried'[i] = 1 .. Addresses[call.hosts[i]]
    PROVE  GivenUpAfterAll'
<1>1. worker[w].i \in Position /\ DOMAIN call.hosts \in SUBSET Position
  BY HeldPosition, HostListsDomain DEF DInv, IInv, Typed, CallRecord
<1> SUFFICES ASSUME NEW j \in DOMAIN call'.hosts, answer'[j] # "none", link'[j].at = "none",
                    tried'[j] # {}, worker'[0].at = "none"
             PROVE  tried'[j] = 1 .. Addresses[call'.hosts[j]]
  BY DEF GivenUpAfterAll
<1>2. w # 0 /\ worker[0].at = "none"
  BY SomeThread DEF OnItsHost
<1>3. CASE j = worker[w].i
  BY <1>2, <1>3 DEF OnItsHost
<1>4. CASE j # worker[w].i
  BY <1>1, <1>2, <1>4 DEF DInv, GivenUpAfterAll, OnItsHost
<1> QED
  BY <1>3, <1>4

LEMMA ResolveDone ==
    ASSUME DInv, NEW w \in Thread, Resolve(w) PROVE (Served /\ Attempts /\ GivenUpAfterAll)'
<1> DEFINE i == worker[w].i
<1>1. OnHost(w) /\ worker[w].at = "resolve" /\ Addresses[HostOf(w)] > 0
      /\ i \in DOMAIN call.hosts /\ answer[i] = "none"
  BY DEF Resolve, OnHost, DInv, IInv, Held
<1>2. worker' = [worker EXCEPT ![w].at = "connect", ![w].addr = 1, ![w].try = 1]
      /\ UNCHANGED <<call, answer, link, tried>>
  BY DEF Resolve
<1>3. /\ worker'[w].at = "connect" /\ worker'[w].addr = 1 /\ worker'[w].i = i
      /\ \A v \in Thread : v # w => worker'[v] = worker[v]
  <2>1. worker \in [Thread -> WorkerRecord]
    BY DEF DInv, IInv, Typed
  <2> QED
    BY <1>2, <2>1 DEF WorkerRecord
<1>4. OnItsHost(w) /\ Keeps(w)
  BY <1>2, <1>3 DEF OnItsHost, Keeps, OnHost
<1>5. Addresses[call.hosts[i]] \in Nat /\ Addresses[call.hosts[i]] > 0
  <2>1. call.hosts[i] \in Hosts
    BY <1>1, HostListsDomain DEF DInv, IInv, Typed, CallRecord
  <2> QED
    BY <1>1, <2>1, SendingAssumption DEF HostOf
<1>6. w = 0 \/ tried'[i] = 1 .. worker'[w].addr - 1
  <2>1. 1 .. 1 - 1 = {}
    OBVIOUS
  <2> QED
    BY <1>1, <1>2, <1>3, <2>1 DEF DInv, Attempts
<1> HIDE DEF i
<1>7. 1 \in 1 .. Addresses[call.hosts[i]]
  BY <1>5
<1>8. Attempts'
  BY <1>1, <1>3, <1>4, <1>6, <1>7, OnHostAttempts DEF i
<1>9. Served' /\ GivenUpAfterAll'
  BY <1>1, <1>2, <1>3, <1>4, OnHostServed, OnHostGivenUp DEF i
<1> QED
  BY <1>8, <1>9

\* A worker that answers stores it for its host and lets go of it.
LEMMA FinishMoves ==
    ASSUME DInv, NEW w \in Thread, OnHost(w), NEW status \in {"ok", "error", "timeout"},
           Finish(w, status)
    PROVE  /\ Lets(w)
           /\ \A v \in Thread : v # w => worker'[v] = worker[v]
           /\ \A j \in Position : j # worker[w].i => answer'[j] = answer[j]
<1>1. worker[w].i \in Position
  BY HeldPosition DEF DInv
<1>2. worker \in [Thread -> WorkerRecord] /\ answer \in [Position -> {"none", "ok", "error", "timeout"}]
  BY DEF DInv, IInv, Typed
<1>3. Ready(w).at = IF w = 0 THEN "ended" ELSE "take"
  BY DEF Ready, Resting
<1> QED
  BY <1>1, <1>2, <1>3 DEF Finish, Lets

\* The answers that end an attempt before it began or after a connection.
LEMMA FinishDone ==
    ASSUME DInv, NEW w \in Thread, ResolveFails(w) \/ Sent(w) \/ SendFails(w)
    PROVE  (Served /\ Attempts /\ GivenUpAfterAll)'
<1>1. OnHost(w) /\ worker[w].at \in {"resolve", "send"} /\ UNCHANGED <<call, link, tried>>
  BY DEF ResolveFails, Sent, SendFails, OnHost
<1>2. PICK status \in {"ok", "error", "timeout"} : Finish(w, status)
  BY DEF ResolveFails, Sent, SendFails
<1>3. OnItsHost(w) /\ Lets(w)
  BY <1>1, <1>2, FinishMoves DEF OnItsHost
<1>4. w = 0 \/ link'[worker[w].i].at # "none" \/ tried'[worker[w].i] = {}
  BY <1>1 DEF DInv, Attempts
<1>5. worker'[w].at \in {"take", "ended"}
  BY <1>3 DEF Lets
<1> QED
  BY <1>1, <1>3, <1>4, <1>5, OnHostServed, OnHostAttempts, OnHostGivenUp

\* Trying an address adds it to those before it.
LEMMA Attempt ==
    ASSUME DInv, NEW w \in Thread \ {0}, worker[w].at = "connect", Attempted(w)
    PROVE  LET i == worker[w].i
               a == worker[w].addr
           IN  /\ a \in 1 .. Addresses[call.hosts[i]]
               /\ Addresses[call.hosts[i]] \in Nat
               /\ tried'[i] = 1 .. a
               /\ \A j \in Position : j # i => tried'[j] = tried[j]
<1> DEFINE i == worker[w].i
           a == worker[w].addr
<1>1. i \in DOMAIN call.hosts /\ i \in Position
  BY HeldPosition DEF OnHost, DInv, IInv, Held
<1>2. call.hosts[i] \in Hosts
  BY <1>1, HostListsDomain DEF DInv, IInv, Typed, CallRecord
<1>3. Addresses[call.hosts[i]] \in Nat
  BY <1>2, SendingAssumption
<1>4. a \in 1 .. Addresses[call.hosts[i]] /\ tried[i] \in {1 .. a - 1, 1 .. a}
  BY DEF DInv, Attempts
<1>5. tried' = [tried EXCEPT ![i] = @ \cup {a}] /\ tried \in [Position -> SUBSET Nat]
  BY DEF Attempted, DInv, IInv, Typed
<1> HIDE DEF i, a
<1>6. tried'[i] = tried[i] \cup {a}
  BY <1>1, <1>5
<1>7. a \in Nat /\ a >= 1
  BY <1>3, <1>4
<1>8. (1 .. a - 1) \cup {a} = 1 .. a /\ (1 .. a) \cup {a} = 1 .. a
  BY <1>7
<1>9. tried'[i] = 1 .. a
  BY <1>4, <1>6, <1>8
<1> QED
  BY <1>3, <1>4, <1>5, <1>9 DEF i, a

\* What the caller of a single send tries concerns its own host only.
LEMMA AttemptAlone ==
    ASSUME DInv, Attempted(0)
    PROVE  \A j \in Position : j # worker[0].i => tried'[j] = tried[j]
BY DEF Attempted, DInv, IInv, Typed

LEMMA ConnectFailsDone ==
    ASSUME DInv, NEW w \in Thread, NEW err, ConnectFails(w, err)
    PROVE  (Served /\ Attempts /\ GivenUpAfterAll)'
<1> DEFINE i == worker[w].i
           a == worker[w].addr
           all == Addresses[call.hosts[i]]
<1>1. /\ OnHost(w) /\ worker[w].at = "connect" /\ Attempted(w) /\ UNCHANGED <<call, link>>
      /\ answer[i] = "none"
  BY DEF ConnectFails, OnHost, DInv, IInv, Held
<1>2. \A j \in Position : j # i => tried'[j] = tried[j]
  BY <1>1, Attempt, AttemptAlone
<1>3. w # 0 => a \in 1 .. all /\ all \in Nat /\ tried'[i] = 1 .. a
  BY <1>1, Attempt
<1>4. worker[w] \in WorkerRecord /\ worker \in [Thread -> WorkerRecord]
  BY DEF DInv, IInv, Typed
<1>5. CASE AnotherTry(w, err) /\ worker' = [worker EXCEPT ![w].try = @ + 1] /\ UNCHANGED answer
  <2>1. /\ worker'[w].at = "connect" /\ worker'[w].addr = a /\ worker'[w].i = i
        /\ \A v \in Thread : v # w => worker'[v] = worker[v]
    BY <1>1, <1>4, <1>5 DEF WorkerRecord
  <2>2. OnItsHost(w) /\ Keeps(w)
    BY <1>1, <1>2, <1>5, <2>1 DEF OnItsHost, Keeps, OnHost
  <2> HIDE DEF i, a, all
  <2>3. Attempts'
    BY <1>1, <1>3, <2>1, <2>2, OnHostAttempts DEF i, all
  <2>4. Served' /\ GivenUpAfterAll'
    BY <1>1, <1>5, <2>1, <2>2, OnHostServed, OnHostGivenUp DEF i
  <2> QED
    BY <2>3, <2>4
<1>6. CASE /\ AnotherAddress(w, err)
           /\ worker' = [worker EXCEPT ![w].addr = @ + 1, ![w].try = 1]
           /\ UNCHANGED answer
  <2>1. /\ worker'[w].at = "connect" /\ worker'[w].addr = a + 1 /\ worker'[w].i = i
        /\ \A v \in Thread : v # w => worker'[v] = worker[v]
    BY <1>1, <1>4, <1>6 DEF WorkerRecord
  <2>2. OnItsHost(w) /\ Keeps(w)
    BY <1>1, <1>2, <1>6, <2>1 DEF OnItsHost, Keeps, OnHost
  <2>3. w # 0 /\ a < all
    BY <1>6 DEF AnotherAddress, HostOf
  <2> HIDE DEF i, a, all
  <2>4. a + 1 \in 1 .. all /\ a + 1 - 1 = a
    BY <1>3, <2>3
  <2>5. Attempts'
    BY <1>1, <1>3, <2>1, <2>2, <2>3, <2>4, OnHostAttempts DEF i, all
  <2>6. Served' /\ GivenUpAfterAll'
    BY <1>1, <1>6, <2>1, <2>2, OnHostServed, OnHostGivenUp DEF i
  <2> QED
    BY <2>5, <2>6
<1>7. CASE /\ ~AnotherAddress(w, err)
           /\ Finish(w, IF err = "timeout" /\ w # 0 THEN "timeout" ELSE "error")
  <2>1. PICK status \in {"ok", "error", "timeout"} : Finish(w, status)
    BY <1>7
  <2>2. OnItsHost(w) /\ Lets(w)
    BY <1>1, <1>2, <2>1, FinishMoves DEF OnItsHost
  <2>3. w # 0 => ~(a < all)
    BY <1>7 DEF AnotherAddress, HostOf
  <2>4. worker'[w].at \in {"take", "ended"}
    BY <2>2 DEF Lets
  <2> HIDE DEF i, a, all
  <2>5. w # 0 => a = all
    BY <1>3, <2>3
  <2>6. w = 0 \/ tried'[i] = 1 .. all
    BY <1>3, <2>5
  <2> QED
    BY <1>1, <2>2, <2>4, <2>6, OnHostServed, OnHostAttempts, OnHostGivenUp DEF i, all
<1> QED
  BY <1>5, <1>6, <1>7 DEF ConnectFails

LEMMA ConnectDone ==
    ASSUME DInv, NEW w \in Thread, Connect(w) PROVE (Served /\ Attempts /\ GivenUpAfterAll)'
<1> DEFINE i == worker[w].i
<1>1. OnHost(w) /\ worker[w].at = "connect" /\ Attempted(w) /\ UNCHANGED <<call, answer>>
      /\ answer[i] = "none"
  BY DEF Connect, OnHost, DInv, IInv, Held
<1>2. \A j \in Position : j # i => tried'[j] = tried[j]
  BY <1>1, Attempt, AttemptAlone
<1>3. i \in Position
  BY <1>1, HeldPosition DEF DInv
<1>4. link'[i].at = "open" /\ \A j \in Position : j # i => link'[j] = link[j]
  <2>1. link \in [Position -> LinkRecord]
    BY DEF DInv, IInv, Typed
  <2> QED
    BY <1>3, <2>1 DEF Connect, LinkRecord
<1>5. /\ worker'[w].at = "send" /\ worker'[w].i = i
      /\ \A v \in Thread : v # w => worker'[v] = worker[v]
  <2>1. worker \in [Thread -> WorkerRecord]
    BY DEF DInv, IInv, Typed
  <2> QED
    BY <2>1 DEF Connect, WorkerRecord
<1>6. OnItsHost(w) /\ Keeps(w)
  BY <1>1, <1>2, <1>4, <1>5 DEF OnItsHost, Keeps, OnHost
<1>7. Attempts'
  BY <1>1, <1>4, <1>5, <1>6, OnHostAttempts
<1>8. Served' /\ GivenUpAfterAll'
  BY <1>1, <1>5, <1>6, OnHostServed, OnHostGivenUp
<1> QED
  BY <1>7, <1>8

\* What is sent and received changes neither who holds a host nor whether
\* there is a connection.
LEMMA TrafficDone ==
    ASSUME DInv,
           \/ \E w \in Thread : SendPart(w)
           \/ \E i \in Position : Receive(i) \/ HangUp(i)
           \/ UNCHANGED vars
    PROVE  (Served /\ Attempts /\ GivenUpAfterAll)'
<1>1. UNCHANGED <<call, worker, answer, tried>>
  BY DEF SendPart, Receive, HangUp, vars
<1>2. \A j \in Position : (link'[j].at = "none") <=> (link[j].at = "none")
  <2>1. link \in [Position -> LinkRecord]
    BY DEF DInv, IInv, Typed
  <2>2. CASE \E w \in Thread : SendPart(w)
    BY <2>1, <2>2 DEF SendPart, LinkRecord
  <2>3. CASE \E i \in Position : Receive(i)
    BY <2>1, <2>3 DEF Receive, LinkRecord
  <2>4. CASE \E i \in Position : HangUp(i)
    BY <2>1, <2>4 DEF HangUp, LinkRecord
  <2>5. CASE UNCHANGED vars
    BY <2>5 DEF vars
  <2> QED
    BY <2>2, <2>3, <2>4, <2>5
<1>3. DOMAIN call.hosts \in SUBSET Position
  BY HostListsDomain DEF DInv, IInv, Typed, CallRecord
<1>4. \A w \in Thread : worker[w].at = "send" => worker[w].i \in Position
  BY HeldPosition DEF OnHost, DInv
<1>5. Served'
  BY <1>1 DEF DInv, Served, OnHost
<1>6. Attempts'
  BY <1>1, <1>2, <1>4 DEF DInv, Attempts
<1>7. GivenUpAfterAll'
  BY <1>1, <1>2, <1>3 DEF DInv, GivenUpAfterAll
<1> QED
  BY <1>5, <1>6, <1>7

LEMMA DNext == DInv /\ [Next]_vars => DInv'
<1> SUFFICES ASSUME DInv, [Next]_vars PROVE DInv'
  OBVIOUS
<1>1. IInv'
  BY NextInv DEF DInv
<1>2. CASE Request
  BY <1>1, <1>2, RequestDone DEF DInv
<1>3. CASE CallerStep
  BY <1>1, <1>3, CallerDone DEF DInv
<1>4. CASE \E w \in Thread : WorkerStep(w)
  <2>1. PICK w \in Thread : WorkerStep(w)
    BY <1>4
  <2>2. (Served /\ Attempts /\ GivenUpAfterAll)'
    BY <2>1, TakeDone, NoMoreDone, ResolveDone, FinishDone, ConnectFailsDone, ConnectDone,
       TrafficDone DEF WorkerStep
  <2> QED
    BY <1>1, <2>2 DEF DInv
<1>5. CASE (\E i \in Position : Receive(i) \/ HangUp(i)) \/ UNCHANGED vars
  BY <1>1, <1>5, TrafficDone DEF DInv
<1> QED
  BY <1>2, <1>3, <1>4, <1>5 DEF Next

\* When a fan-out returns each of its hosts has an answer, if a worker ran:
\* a worker ends only when all hosts are taken, who takes one answers for it,
\* and nobody is at work any more.
THEOREM EveryHostAnswered == Spec => []AnsweredAll
<1>1. DInv => AnsweredAll
  BY DEF DInv, IInv, Staged, Served, Active, OnHost, AnsweredAll
<1> QED
  BY <1>1, DInit, DNext, PTL DEF Spec

\* A host is given up without a connection only after every address its name
\* resolves to was tried.
THEOREM AllAddressesTried == Spec => []GivenUpAfterAll
<1>1. DInv => GivenUpAfterAll
  BY DEF DInv
<1> QED
  BY <1>1, DInit, DNext, PTL DEF Spec
=============================================================================
