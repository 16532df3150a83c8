----------------------- MODULE DelegateRecords_proofs -----------------------
(***************************************************************************)
(* Theorems about the shared collections of DelegateRecords, for any seeds,*)
(* keys, requests, workloads and number of faults: their types, that a     *)
(* delegate and its statistics come in pairs, that a height is counted     *)
(* once and for everybody and has one round, that a start that is neither  *)
(* cut off nor overtaken completes the database, and whose solo addresses  *)
(* are kept.                                                               *)
(***************************************************************************)
EXTENDS DelegateRecords, FiniteSetTheorems, WellFoundedInduction, TLAPS

\* The requests a seed handles, each on a thread of its own.
Jobs == Seed \X Request

-----------------------------------------------------------------------------
(* Types                                                                   *)

DocsTyped ==
    /\ \A d \in delegates : IsDocument(d)
    /\ banned \subseteq Keys

FlagsTyped == unique \in BOOLEAN /\ heightUnique \in BOOLEAN /\ spoiled \in BOOLEAN

StatsTyped ==
    /\ DOMAIN stats \subseteq Key
    /\ \A k \in DOMAIN stats : stats[k] \in [total : Nat, producer : Nat, mark : Int]
    /\ credited \in [Key -> SUBSET Nat]

RoundsTyped == rounds \subseteq [height : Nat, by : Seed]

SeedsTyped ==
    /\ boot \in [Seed -> {"down", "count", "insert", "stats", "seed indexes", "indexes", "load",
                          "up"}]
    /\ at \in [Seed -> DOMAIN Genesis]
    /\ known \in [Seed -> SUBSET Key]

\* What only a registration, and what only an update, comes to.
Registering == Fields \cup {"room", "insert", "stats", "registered"}
Updating == {"clear", "rows", "updated"}

JobsTyped ==
    /\ job \in [Jobs -> Job]
    /\ \A j \in Jobs : /\ job[j].pc \in Registering => Registration(j[2])
                       /\ job[j].pc \in Updating => ~Registration(j[2])

FileTyped ==
    /\ file \in [pc : {"new", "line", "stats"}, left : Lines]
    /\ file.pc = "stats" => file.left # <<>>

WriterTyped ==
    /\ chain \in Nat
    /\ writer \in [Seed -> [pc : {"idle", "status", "count", "round", "load"}, height : Nat,
                            next : Nat \ {0}, member : BOOLEAN]]
    /\ owed \in [Seed -> SUBSET Key]
    /\ \A s \in Seed : /\ boot[s] # "up" => writer[s].pc = "idle"
                       /\ writer[s].pc = "status" => writer[s].next = 1

TornTyped == torn \subseteq Key

\* Types, and which states of a seed, a job, the file and a writer exclude each
\* other.
Typed ==
    /\ DocsTyped /\ FlagsTyped /\ StatsTyped /\ RoundsTyped /\ SeedsTyped
    /\ JobsTyped /\ FileTyped /\ WriterTyped /\ TornTyped

LEMMA TypedIsTypeOK == Typed => TypeOK
<1> SUFFICES ASSUME Typed PROVE TypeOK
  OBVIOUS
<1>1. Keys \subseteq Key /\ banned \subseteq Keys /\ torn \subseteq Key
  BY DEF Typed, DocsTyped, TornTyped, Keys, IsDocument
<1>2. {unique, heightUnique, spoiled} \subseteq BOOLEAN
  BY Zenon DEF Typed, FlagsTyped
<1>3. rounds \subseteq [height : Nat, by : Seed]
  BY DEF Typed, RoundsTyped
<1>4. job \in [Seed \X Request -> Job] /\ file.pc \in {"new", "line", "stats"}
  BY DEF Typed, JobsTyped, Jobs, FileTyped
<1> QED
  BY <1>1, <1>2, <1>3, <1>4 DEF Typed, StatsTyped, SeedsTyped, WriterTyped, TypeOK

\* The seed delegates are a sequence of documents.
LEMMA GenesisDocuments ==
    /\ Len(Genesis) \in Nat \ {0}
    /\ DOMAIN Genesis = 1..Len(Genesis)
    /\ \A i \in DOMAIN Genesis : IsDocument(Genesis[i])
BY RecordsAssumption

\* What a request holds.
LEMMA Requested ==
    ASSUME NEW j \in Jobs
    PROVE  /\ j \in Seed \X Request /\ j[1] \in Seed /\ j[2] \in Request
           /\ Registration(j[2]) => IsDocument(j[2].doc)
           /\ ~Registration(j[2]) => j[2].address \in Address /\ j[2].lists \in Seq(Seq(Address))
<1>1. j[1] \in Seed /\ j[2] \in Request
  BY DEF Jobs
<1>2. IsRequest(j[2])
  BY <1>1, RecordsAssumption
<1> QED
  BY <1>1, <1>2 DEF IsRequest, Registration, Jobs

\* What is left of the maintenance file is lines.
LEMMA FirstLine ==
    ASSUME FileTyped, file.left # <<>>
    PROVE  /\ Head(file.left) \in [flag : {"BAN", "UNB", "DEL"}, key : Key]
           /\ Tail(file.left) \in Lines
           /\ DOMAIN file.left = 1..Len(file.left)
           /\ DOMAIN Tail(file.left) = 1..(Len(file.left) - 1)
           /\ Head(file.left) = file.left[1]
           /\ \A n \in DOMAIN Tail(file.left) : Tail(file.left)[n] = file.left[n + 1] /\ n + 1 \in DOMAIN file.left
<1>1. file.left \in Seq([flag : {"BAN", "UNB", "DEL"}, key : Key])
  BY DEF FileTyped, Lines
<1> HIDE DEF FileTyped
<1>2. Tail(file.left) \in Lines /\ Head(file.left) = file.left[1]
  BY <1>1 DEF Lines
<1>3. /\ Len(file.left) \in Nat /\ Len(Tail(file.left)) = Len(file.left) - 1
      /\ DOMAIN Tail(file.left) = 1..(Len(file.left) - 1)
      /\ DOMAIN file.left = 1..Len(file.left)
  BY <1>1
<1>4. \A n \in DOMAIN Tail(file.left) : Tail(file.left)[n] = file.left[n + 1] /\ n + 1 \in DOMAIN file.left
  BY <1>1, <1>3
<1>5. Head(file.left) \in [flag : {"BAN", "UNB", "DEL"}, key : Key]
  <2>1. \A S : \A q \in Seq(S) : q # <<>> => Head(q) \in S
    OBVIOUS
  <2> QED
    BY <1>1, <2>1, Zenon
<1> QED
  BY <1>2, <1>3, <1>4, <1>5

\* Nothing, the next refresh or the end of an update.
LEMMA NextListIs ==
    ASSUME NEW j \in Jobs, NEW n \in Nat
    PROVE  /\ NextList(j, n) \in Job
           /\ NextList(j, n).pc \in {"clear", "updated"} /\ NextList(j, n).row = 1
BY DEF NextList, Updated, Job

\* Types depend on few variables each.
LEMMA TypesFrame ==
    /\ DocsTyped /\ UNCHANGED <<delegates, banned>> => DocsTyped'
    /\ FlagsTyped /\ UNCHANGED <<unique, heightUnique, spoiled>> => FlagsTyped'
    /\ StatsTyped /\ UNCHANGED <<stats, credited>> => StatsTyped'
    /\ RoundsTyped /\ UNCHANGED <<rounds>> => RoundsTyped'
    /\ SeedsTyped /\ UNCHANGED <<boot, at, known>> => SeedsTyped'
    /\ JobsTyped /\ UNCHANGED <<job>> => JobsTyped'
    /\ FileTyped /\ UNCHANGED <<file>> => FileTyped'
    /\ WriterTyped /\ UNCHANGED <<chain, writer, owed, boot>> => WriterTyped'
    /\ TornTyped /\ UNCHANGED <<torn>> => TornTyped'
BY DEF DocsTyped, FlagsTyped, StatsTyped, RoundsTyped, SeedsTyped, JobsTyped,
       FileTyped, WriterTyped, TornTyped, Keys

LEMMA TypesInit == Init => Typed
<1> SUFFICES ASSUME Init PROVE Typed
  OBVIOUS
<1>1. PICK w \in Workload :
        /\ IF w.fresh THEN Empty ELSE AtWork
        /\ job = [j \in Seed \X Request |->
                    [pc |-> IF j \in w.messages THEN "new" ELSE "none", list |-> 1, row |-> 1]]
        /\ file = [pc |-> "new", left |-> w.lines]
        /\ until = w.heights
  BY DEF Init
<1>2. DocsTyped
  BY <1>1, GenesisDocuments DEF Init, Empty, AtWork, DocsTyped, ToSet
<1>3. FlagsTyped
  BY <1>1 DEF Init, Empty, AtWork, FlagsTyped
<1>4. StatsTyped
  BY <1>1, <1>2 DEF Init, Empty, AtWork, StatsTyped, NewStats, DocsTyped, IsDocument
<1>5. RoundsTyped /\ TornTyped
  BY DEF Init, RoundsTyped, TornTyped
<1>6. SeedsTyped
  <2>1. 1 \in DOMAIN Genesis
    BY GenesisDocuments
  <2>2. at \in [Seed -> DOMAIN Genesis]
    BY <2>1 DEF Init
  <2>3. known \in [Seed -> SUBSET Key]
    BY <1>1, <1>2 DEF Empty, AtWork, DocsTyped, IsDocument
  <2> QED
    BY <1>1, <2>2, <2>3 DEF Empty, AtWork, SeedsTyped
<1>7. JobsTyped
  BY <1>1 DEF JobsTyped, Job, Jobs, Registering, Updating, Fields
<1>8. FileTyped
  BY <1>1, RecordsAssumption DEF FileTyped
<1>9. WriterTyped
  BY DEF Init, WriterTyped
<1> QED
  BY <1>2, <1>3, <1>4, <1>5, <1>6, <1>7, <1>8, <1>9 DEF Typed

\* Every step keeps the types.
LEMMA TypesStep ==
    ASSUME Typed, [Next]_vars
    PROVE  Typed'
<1>1. ASSUME NEW s \in Seed, Start(s) PROVE Typed'
  <2>1. SeedsTyped'
    <3>1. 1 \in DOMAIN Genesis
      BY GenesisDocuments
    <3> QED
      BY <1>1, <3>1 DEF Start, Typed, SeedsTyped, roundVars
  <2>2. WriterTyped'
    BY <1>1
    DEF Start, Typed, WriterTyped, SeedsTyped, bootVars, jobVars, roundVars
  <2> QED
    BY <1>1, <2>1, <2>2, TypesFrame
    DEF Start, Typed, bootVars, jobVars, roundVars
<1>2. ASSUME NEW s \in Seed, CountDelegates(s) PROVE Typed'
  <2>1. SeedsTyped'
    BY <1>2
    DEF CountDelegates, Typed, SeedsTyped, bootVars, jobVars, roundVars
  <2>2. WriterTyped'
    BY <1>2
    DEF CountDelegates, Typed, WriterTyped, SeedsTyped, bootVars, jobVars, roundVars
  <2> QED
    BY <1>2, <2>1, <2>2, TypesFrame
    DEF CountDelegates, Typed, bootVars, jobVars, roundVars
<1>35. ASSUME NEW s \in Seed, MiscountDelegates(s) PROVE Typed'
  <2>1. SeedsTyped'
    BY <1>35
    DEF MiscountDelegates, Typed, SeedsTyped, bootVars, jobVars, roundVars
  <2>2. WriterTyped'
    BY <1>35
    DEF MiscountDelegates, Typed, WriterTyped, SeedsTyped, bootVars, jobVars, roundVars
  <2> QED
    BY <1>35, <2>1, <2>2, TypesFrame
    DEF MiscountDelegates, Typed, bootVars, jobVars, roundVars
<1>3. ASSUME NEW s \in Seed, InsertSeed(s) PROVE Typed'
  <2>1. DocsTyped'
    BY <1>3, GenesisDocuments
    DEF InsertSeed, Typed, DocsTyped, Keys, IsDocument, SeedsTyped, bootVars, jobVars, roundVars
  <2>2. SeedsTyped'
    BY <1>3
    DEF InsertSeed, Typed, SeedsTyped, bootVars, jobVars, roundVars
  <2>3. WriterTyped'
    BY <1>3
    DEF InsertSeed, Typed, WriterTyped, SeedsTyped, bootVars, jobVars, roundVars
  <2>4. TornTyped'
    <3>1. Genesis[at[s]].key \in Key
      BY GenesisDocuments DEF Typed, SeedsTyped, IsDocument
    <3> QED
      BY <1>3, <3>1 DEF InsertSeed, Typed, TornTyped, Enter
  <2> QED
    BY <1>3, <2>1, <2>2, <2>3, <2>4, TypesFrame
    DEF InsertSeed, Typed, bootVars, jobVars, roundVars
<1>4. ASSUME NEW s \in Seed, InsertSeedStats(s) PROVE Typed'
  <2>1. StatsTyped'
    <3>1. Genesis[at[s]].key \in Key
      BY GenesisDocuments DEF Typed, SeedsTyped, IsDocument
    <3>2. CASE UNCHANGED <<stats, credited>>
      BY <3>2, TypesFrame DEF Typed
    <3>3. CASE InsertStats(Genesis[at[s]].key)
      BY <3>1, <3>3 DEF Typed, StatsTyped, InsertStats, With, NewStats
    <3> QED
      BY <1>4, <3>2, <3>3 DEF InsertSeedStats
  <2>2. SeedsTyped'
    <3>1. at[s] = Len(Genesis) \/ at[s] + 1 \in DOMAIN Genesis
      <4>1. at[s] \in DOMAIN Genesis
        BY DEF Typed, SeedsTyped
      <4>2. Len(Genesis) \in Nat /\ DOMAIN Genesis = 1..Len(Genesis)
        BY GenesisDocuments
      <4> QED
        BY <4>1, <4>2
    <3>2. at' \in [Seed -> DOMAIN Genesis]
      BY <1>4, <3>1 DEF InsertSeedStats, NextSeed, LastSeed, Typed, SeedsTyped
    <3>3. /\ boot' = [boot EXCEPT ![s] = boot'[s]]
          /\ boot'[s] \in {"down", "seed indexes", "insert", "indexes"}
      BY <1>4 DEF InsertSeedStats, NextSeed, Typed, SeedsTyped
    <3> QED
      BY <1>4, <3>2, <3>3 DEF InsertSeedStats, Typed, SeedsTyped, roundVars
  <2>3. WriterTyped'
    <3>1. \A o \in Seed : boot'[o] # "up" => boot[o] # "up"
      BY <1>4 DEF InsertSeedStats, NextSeed, Typed, SeedsTyped
    <3> QED
      BY <1>4, <3>1 DEF InsertSeedStats, Typed, WriterTyped, roundVars
  <2> QED
    BY <1>4, <2>1, <2>2, <2>3, TypesFrame
    DEF InsertSeedStats, Typed, bootVars, jobVars, roundVars
<1>5. ASSUME NEW s \in Seed, AddSeedIndexes(s) PROVE Typed'
  <2>1. FlagsTyped'
    BY <1>5
    DEF AddSeedIndexes, Typed, FlagsTyped, bootVars, jobVars, roundVars
  <2>2. SeedsTyped'
    <3>1. at[s] = Len(Genesis) \/ at[s] + 1 \in DOMAIN Genesis
      <4>1. at[s] \in DOMAIN Genesis
        BY DEF Typed, SeedsTyped
      <4>2. Len(Genesis) \in Nat /\ DOMAIN Genesis = 1..Len(Genesis)
        BY GenesisDocuments
      <4> QED
        BY <4>1, <4>2
    <3>2. at' \in [Seed -> DOMAIN Genesis]
      BY <1>5, <3>1 DEF AddSeedIndexes, NextSeed, LastSeed, Typed, SeedsTyped
    <3>3. /\ boot' = [boot EXCEPT ![s] = boot'[s]]
          /\ boot'[s] \in {"down", "seed indexes", "insert", "indexes"}
      BY <1>5 DEF AddSeedIndexes, NextSeed, Typed, SeedsTyped
    <3> QED
      BY <1>5, <3>2, <3>3 DEF AddSeedIndexes, Typed, SeedsTyped, roundVars
  <2>3. WriterTyped'
    <3>1. \A o \in Seed : boot'[o] # "up" => boot[o] # "up"
      BY <1>5 DEF AddSeedIndexes, NextSeed, Typed, SeedsTyped
    <3> QED
      BY <1>5, <3>1 DEF AddSeedIndexes, Typed, WriterTyped, roundVars
  <2> QED
    BY <1>5, <2>1, <2>2, <2>3, TypesFrame
    DEF AddSeedIndexes, Typed, bootVars, jobVars, roundVars
<1>6. ASSUME NEW s \in Seed, AddIndexes(s) PROVE Typed'
  <2>1. FlagsTyped'
    BY <1>6
    DEF AddIndexes, Typed, FlagsTyped, bootVars, jobVars, roundVars
  <2>2. SeedsTyped'
    BY <1>6
    DEF AddIndexes, Typed, SeedsTyped, bootVars, jobVars, roundVars
  <2>3. WriterTyped'
    BY <1>6
    DEF AddIndexes, Typed, WriterTyped, SeedsTyped, bootVars, jobVars, roundVars
  <2> QED
    BY <1>6, <2>1, <2>2, <2>3, TypesFrame
    DEF AddIndexes, Typed, bootVars, jobVars, roundVars
<1>7. ASSUME NEW s \in Seed, Run(s) PROVE Typed'
  <2>1. SeedsTyped'
    BY <1>7
    DEF Run, Typed, SeedsTyped, Listed, Keys, DocsTyped, IsDocument, bootVars, jobVars,
        roundVars
  <2>2. WriterTyped'
    BY <1>7
    DEF Run, Typed, WriterTyped, SeedsTyped, bootVars, jobVars, roundVars
  <2> QED
    BY <1>7, <2>1, <2>2, TypesFrame
    DEF Run, Typed, bootVars, jobVars, roundVars
<1>8. ASSUME NEW j \in Jobs, CheckApproval(j) PROVE Typed'
  <2>1. JobsTyped'
    BY <1>8
    DEF CheckApproval, Typed, JobsTyped, Job, GoTo, Registering, Updating, JobAt, Fields,
        bootVars, jobVars, roundVars
  <2> QED
    BY <1>8, <2>1, TypesFrame
    DEF CheckApproval, Typed, bootVars, jobVars, roundVars
<1>9. ASSUME NEW j \in Jobs, NEW f \in Fields, CheckField(j, f) PROVE Typed'
  <2>1. JobsTyped'
    BY <1>9
    DEF CheckField, Typed, JobsTyped, Job, GoTo, Registering, Updating, JobAt, After, Fields,
        bootVars, jobVars, roundVars
  <2> QED
    BY <1>9, <2>1, TypesFrame
    DEF CheckField, Typed, bootVars, jobVars, roundVars
<1>10. ASSUME NEW j \in Jobs, NEW f \in Fields, MiscountField(j, f) PROVE Typed'
  <2>1. JobsTyped'
    BY <1>10
    DEF MiscountField, Typed, JobsTyped, Job, GoTo, Registering, Updating, JobAt, After, Fields,
        bootVars, jobVars, roundVars
  <2> QED
    BY <1>10, <2>1, TypesFrame
    DEF MiscountField, Typed, bootVars, jobVars, roundVars
<1>11. ASSUME NEW j \in Jobs, CheckRoom(j) PROVE Typed'
  <2>1. JobsTyped'
    BY <1>11
    DEF CheckRoom, Typed, JobsTyped, Job, GoTo, Registering, Updating, JobAt, bootVars, jobVars,
        roundVars
  <2> QED
    BY <1>11, <2>1, TypesFrame
    DEF CheckRoom, Typed, bootVars, jobVars, roundVars
<1>12. ASSUME NEW j \in Jobs, InsertDelegate(j) PROVE Typed'
  <2>1. DocsTyped'
    BY <1>12, Requested
    DEF InsertDelegate, Typed, DocsTyped, Keys, IsDocument, JobAt, JobsTyped, Registering,
        bootVars, jobVars, roundVars
  <2>2. FlagsTyped'
    BY <1>12
    DEF InsertDelegate, Typed, FlagsTyped, bootVars, jobVars, roundVars
  <2>3. JobsTyped'
    BY <1>12
    DEF InsertDelegate, Typed, JobsTyped, Job, GoTo, Registering, Updating, JobAt, bootVars,
        jobVars, roundVars
  <2>4. TornTyped'
    BY <1>12, Requested
    DEF InsertDelegate, Typed, TornTyped, Enter, JobAt, JobsTyped, Registering, IsDocument,
        bootVars, jobVars, roundVars
  <2> QED
    BY <1>12, <2>1, <2>2, <2>3, <2>4, TypesFrame
    DEF InsertDelegate, Typed, bootVars, jobVars, roundVars
<1>13. ASSUME NEW j \in Jobs, InsertDelegateStats(j) PROVE Typed'
  <2>1. StatsTyped'
    BY <1>13, Requested
    DEF InsertDelegateStats, Typed, StatsTyped, InsertStats, With, NewStats, JobAt, JobsTyped,
        Registering, IsDocument, bootVars, jobVars, roundVars
  <2>2. JobsTyped'
    BY <1>13
    DEF InsertDelegateStats, Typed, JobsTyped, Job, GoTo, Registering, Updating, JobAt,
        bootVars, jobVars, roundVars
  <2> QED
    BY <1>13, <2>1, <2>2, TypesFrame
    DEF InsertDelegateStats, Typed, bootVars, jobVars, roundVars
<1>14. ASSUME NEW j \in Jobs, UpdateFields(j) PROVE Typed'
  <2>1. DocsTyped'
    <3>1. CASE UNCHANGED delegates
      BY <1>14, <3>1, TypesFrame DEF UpdateFields, Typed
    <3>2. CASE delegates' = {d \in delegates : d.address # j[2].address} \cup
                            {[d EXCEPT !.ip = j[2].ip] : d \in {e \in delegates : e.address = j[2].address}}
      <4>1. \A d \in delegates : IsDocument([d EXCEPT !.ip = j[2].ip]) /\ [d EXCEPT !.ip = j[2].ip].key = d.key
        BY DEF Typed, DocsTyped, IsDocument, Fields
      <4>2. Keys' = Keys
        BY <3>2, <4>1 DEF Keys
      <4> QED
        BY <1>14, <3>2, <4>1, <4>2 DEF UpdateFields, Typed, DocsTyped
    <3> QED
      BY <1>14, <3>1, <3>2 DEF UpdateFields
  <2>2. FlagsTyped'
    BY <1>14
    DEF UpdateFields, Typed, FlagsTyped, bootVars, jobVars, roundVars
  <2>3. JobsTyped'
    <3>1. job[j] \in Job /\ ~Registration(j[2]) /\ j \in Seed \X Request
      BY <1>14 DEF UpdateFields, JobAt, Typed, JobsTyped, Updating, Jobs
    <3>2. PICK v : job' = [job EXCEPT ![j] = v] /\ v \in Job /\ v.pc \in {"clear", "rows", "updated", "refused"}
      <4>1. \A n \in Nat : NextList(j, n) \in Job /\ NextList(j, n).pc \in {"clear", "updated"}
        BY NextListIs
      <4>2. job[j].list \in Nat /\ 0 \in Nat /\ \A pc \in {"rows", "refused"} : [job[j] EXCEPT !.pc = pc] \in Job
                                       /\ [job[j] EXCEPT !.pc = pc].pc = pc
        BY <3>1 DEF Job
      <4>3. [job[j] EXCEPT !.row = @ + 1] \in Job /\ [job[j] EXCEPT !.row = @ + 1].pc = job[j].pc
        BY <3>1 DEF Job
      <4> QED
        BY <1>14, <3>1, <4>1, <4>2, <4>3 DEF UpdateFields, JobAt, GoTo
    <3> QED
      BY <3>1, <3>2 DEF Typed, JobsTyped, Registering, Updating, Fields
  <2> QED
    BY <1>14, <2>1, <2>2, <2>3, TypesFrame
    DEF UpdateFields, Typed, bootVars, jobVars, roundVars
<1>15. ASSUME NEW j \in Jobs, ClearSolo(j) PROVE Typed'
  <2>1. JobsTyped'
    <3>1. job[j] \in Job /\ ~Registration(j[2]) /\ j \in Seed \X Request
      BY <1>15 DEF ClearSolo, JobAt, Typed, JobsTyped, Updating, Jobs
    <3>2. PICK v : job' = [job EXCEPT ![j] = v] /\ v \in Job /\ v.pc \in {"clear", "rows", "updated", "refused"}
      <4>1. \A n \in Nat : NextList(j, n) \in Job /\ NextList(j, n).pc \in {"clear", "updated"}
        BY NextListIs
      <4>2. job[j].list \in Nat /\ 0 \in Nat /\ \A pc \in {"rows", "refused"} : [job[j] EXCEPT !.pc = pc] \in Job
                                       /\ [job[j] EXCEPT !.pc = pc].pc = pc
        BY <3>1 DEF Job
      <4>3. [job[j] EXCEPT !.row = @ + 1] \in Job /\ [job[j] EXCEPT !.row = @ + 1].pc = job[j].pc
        BY <3>1 DEF Job
      <4> QED
        BY <1>15, <3>1, <4>1, <4>2, <4>3 DEF ClearSolo, JobAt, GoTo
    <3> QED
      BY <3>1, <3>2 DEF Typed, JobsTyped, Registering, Updating, Fields
  <2> QED
    BY <1>15, <2>1, TypesFrame
    DEF ClearSolo, Typed, bootVars, jobVars, roundVars
<1>16. ASSUME NEW j \in Jobs, InsertSolo(j) PROVE Typed'
  <2>1. JobsTyped'
    <3>1. job[j] \in Job /\ ~Registration(j[2]) /\ j \in Seed \X Request
      BY <1>16 DEF InsertSolo, JobAt, Typed, JobsTyped, Updating, Jobs
    <3>2. PICK v : job' = [job EXCEPT ![j] = v] /\ v \in Job /\ v.pc \in {"clear", "rows", "updated", "refused"}
      <4>1. \A n \in Nat : NextList(j, n) \in Job /\ NextList(j, n).pc \in {"clear", "updated"}
        BY NextListIs
      <4>2. job[j].list \in Nat /\ 0 \in Nat /\ \A pc \in {"rows", "refused"} : [job[j] EXCEPT !.pc = pc] \in Job
                                       /\ [job[j] EXCEPT !.pc = pc].pc = pc
        BY <3>1 DEF Job
      <4>3. [job[j] EXCEPT !.row = @ + 1] \in Job /\ [job[j] EXCEPT !.row = @ + 1].pc = job[j].pc
        BY <3>1 DEF Job
      <4> DEFINE v == IF job[j].row < Len(j[2].lists[job[j].list])
                        THEN [job[j] EXCEPT !.row = @ + 1] ELSE NextList(j, job[j].list)
      <4>4. job' = [job EXCEPT ![j] = v]
        BY <1>16 DEF InsertSolo
      <4>5. job[j].pc = "rows"
        BY <1>16 DEF InsertSolo, JobAt
      <4>6. v \in Job /\ v.pc \in {"clear", "rows", "updated"}
        BY <4>1, <4>2, <4>3, <4>4, <4>5
      <4> QED
        BY <4>4, <4>6
    <3> QED
      BY <3>1, <3>2 DEF Typed, JobsTyped, Registering, Updating, Fields
  <2> QED
    BY <1>16, <2>1, TypesFrame
    DEF InsertSolo, Typed, bootVars, jobVars, roundVars
<1>17. ASSUME TakeFile PROVE Typed'
  <2>1. FileTyped'
    BY <1>17
    DEF TakeFile, Typed, FileTyped, Lines, bootVars, jobVars, roundVars
  <2> QED
    BY <1>17, <2>1, TypesFrame
    DEF TakeFile, Typed, bootVars, jobVars, roundVars
<1>18. ASSUME Ban PROVE Typed'
  <2>1. DocsTyped'
    BY <1>18, FirstLine
    DEF Ban, Typed, DocsTyped, Keys, IsDocument, Line, Found, bootVars, jobVars, roundVars
  <2>2. FileTyped'
    BY <1>18, FirstLine
    DEF Ban, Typed, FileTyped, Lines, Line, Rest, bootVars, jobVars, roundVars
  <2> QED
    BY <1>18, <2>1, <2>2, TypesFrame
    DEF Ban, Typed, bootVars, jobVars, roundVars
<1>19. ASSUME RemoveDelegate PROVE Typed'
  <2>1. DocsTyped'
    BY <1>19, FirstLine
    DEF RemoveDelegate, Typed, DocsTyped, Keys, IsDocument, bootVars, jobVars, roundVars
  <2>2. FileTyped'
    BY <1>19, FirstLine
    DEF RemoveDelegate, Typed, FileTyped, Lines, Line, bootVars, jobVars, roundVars
  <2>3. TornTyped'
    BY <1>19, FirstLine
    DEF RemoveDelegate, Typed, TornTyped, Enter, Line, bootVars, jobVars, roundVars
  <2> QED
    BY <1>19, <2>1, <2>2, <2>3, TypesFrame
    DEF RemoveDelegate, Typed, bootVars, jobVars, roundVars
<1>20. ASSUME RemoveStats PROVE Typed'
  <2>1. StatsTyped'
    BY <1>20, FirstLine
    DEF RemoveStats, Typed, StatsTyped, InsertStats, With, NewStats, StatsWithout, Without,
        bootVars, jobVars, roundVars
  <2>2. FileTyped'
    BY <1>20, FirstLine
    DEF RemoveStats, Typed, FileTyped, Lines, Rest, bootVars, jobVars, roundVars
  <2>3. WriterTyped'
    BY <1>20
    DEF RemoveStats, Typed, WriterTyped, bootVars, jobVars, roundVars
  <2> QED
    BY <1>20, <2>1, <2>2, <2>3, TypesFrame
    DEF RemoveStats, Typed, bootVars, jobVars, roundVars
<1>21. ASSUME NEW s \in Seed, EndRound(s) PROVE Typed'
  <2>1. WriterTyped'
    BY <1>21
    DEF EndRound, Typed, WriterTyped, W, bootVars, jobVars, roundVars
  <2> QED
    BY <1>21, <2>1, TypesFrame
    DEF EndRound, Typed, bootVars, jobVars, roundVars
<1>22. ASSUME NEW s \in Seed, BeginCount(s) PROVE Typed'
  <2>1. WriterTyped'
    <3>1. owed' \in [Seed -> SUBSET Key]
      <4>1. owed \in [Seed -> SUBSET Key] /\ known[s] \cap DOMAIN stats \in SUBSET Key
        BY DEF Typed, WriterTyped, SeedsTyped
      <4>2. owed' = owed \/ owed' = [owed EXCEPT ![s] = known[s] \cap DOMAIN stats]
        BY <1>22 DEF BeginCount
      <4> QED
        BY <4>1, <4>2
    <3>2. PICK pc \in {"count", "load"} : writer' = [writer EXCEPT ![s].pc = pc]
      BY <1>22 DEF BeginCount
    <3>3. boot' = boot /\ chain' = chain /\ boot[s] = "up"
      BY <1>22 DEF BeginCount, bootVars
    <3> QED
      BY <3>1, <3>2, <3>3 DEF Typed, WriterTyped, SeedsTyped
  <2> QED
    BY <1>22, <2>1, TypesFrame
    DEF BeginCount, Typed, bootVars, jobVars, roundVars
<1>23. ASSUME NEW s \in Seed, CountNext(s) PROVE Typed'
  <2>1. StatsTyped'
    <3>1. \A k \in DOMAIN stats : Counted(s, k) \in [total : Nat, producer : Nat, mark : Int]
      BY DEF Counted, W, Typed, StatsTyped, WriterTyped
    <3>2. W(s).height \in Nat
      BY DEF W, Typed, WriterTyped
    <3>3. CASE UNCHANGED <<stats, credited>>
      BY <3>3, TypesFrame DEF Typed
    <3>4. ASSUME NEW k \in DOMAIN stats,
                 stats' = [stats EXCEPT ![k] = Counted(s, k)],
                 credited' = [credited EXCEPT ![k] = @ \cup {W(s).height}] \/ credited' = credited
          PROVE  StatsTyped'
      BY <3>1, <3>2, <3>4 DEF Typed, StatsTyped
    <3> QED
      BY <1>23, <3>3, <3>4 DEF CountNext
  <2>2. WriterTyped'
    <3>1. writer' = [writer EXCEPT ![s].next = @ + 1]
      BY <1>23 DEF CountNext, Skip, NoMatch
    <3>2. /\ writer[s].pc = "count" /\ boot' = boot /\ chain' = chain /\ owed' = owed
      BY <1>23 DEF CountNext, W, bootVars
    <3> QED
      BY <3>1, <3>2 DEF Typed, WriterTyped
  <2> QED
    BY <1>23, <2>1, <2>2, TypesFrame
    DEF CountNext, Typed, bootVars, jobVars, roundVars
<1>24. ASSUME NEW s \in Seed, FindRound(s) PROVE Typed'
  <2>1. WriterTyped'
    BY <1>24
    DEF FindRound, Typed, WriterTyped, W, bootVars, jobVars, roundVars
  <2> QED
    BY <1>24, <2>1, TypesFrame
    DEF FindRound, Typed, bootVars, jobVars, roundVars
<1>25. ASSUME NEW s \in Seed, InsertRound(s) PROVE Typed'
  <2>1. FlagsTyped'
    BY <1>25
    DEF InsertRound, Typed, FlagsTyped, bootVars, jobVars, roundVars
  <2>2. RoundsTyped'
    BY <1>25
    DEF InsertRound, Typed, RoundsTyped, W, WriterTyped, RoundKnown, bootVars, jobVars,
        roundVars
  <2>3. WriterTyped'
    BY <1>25
    DEF InsertRound, Typed, WriterTyped, W, bootVars, jobVars, roundVars
  <2> QED
    BY <1>25, <2>1, <2>2, <2>3, TypesFrame
    DEF InsertRound, Typed, bootVars, jobVars, roundVars
<1>26. ASSUME NEW s \in Seed, Reload(s) PROVE Typed'
  <2>1. SeedsTyped'
    BY <1>26
    DEF Reload, Typed, SeedsTyped, Listed, Keys, DocsTyped, IsDocument, bootVars, jobVars,
        roundVars
  <2>2. WriterTyped'
    BY <1>26
    DEF Reload, Typed, WriterTyped, W, bootVars, jobVars, roundVars
  <2> QED
    BY <1>26, <2>1, <2>2, TypesFrame
    DEF Reload, Typed, bootVars, jobVars, roundVars
<1>27. ASSUME Advance PROVE Typed'
  <2>1. WriterTyped'
    BY <1>27
    DEF Advance, Typed, WriterTyped, bootVars, jobVars, roundVars
  <2> QED
    BY <1>27, <2>1, TypesFrame
    DEF Advance, Typed, bootVars, jobVars, roundVars
<1>28. ASSUME NEW j \in Jobs, MiscountApproval(j) PROVE Typed'
  <2>1. JobsTyped'
    BY <1>28
    DEF MiscountApproval, Typed, JobsTyped, Job, GoTo, Registering, Updating, JobAt, Fields,
        bootVars, jobVars, roundVars
  <2> QED
    BY <1>28, <2>1, TypesFrame
    DEF MiscountApproval, Typed, bootVars, jobVars, roundVars
<1>29. ASSUME NEW j \in Jobs, RefuseJob(j) PROVE Typed'
  <2>1. JobsTyped'
    BY <1>29
    DEF RefuseJob, Typed, JobsTyped, Job, GoTo, Registering, Updating, Fields, bootVars,
        jobVars, roundVars
  <2>2. TornTyped'
    BY <1>29, Requested
    DEF RefuseJob, Typed, TornTyped, Enter, JobsTyped, Registering, IsDocument, bootVars,
        jobVars, roundVars
  <2> QED
    BY <1>29, <2>1, <2>2, TypesFrame
    DEF RefuseJob, Typed, bootVars, jobVars, roundVars
<1>30. ASSUME NEW s \in Seed, RefuseBoot(s) PROVE Typed'
  <2>1. FlagsTyped'
    BY <1>30
    DEF RefuseBoot, Typed, FlagsTyped, bootVars, jobVars, roundVars
  <2>2. SeedsTyped'
    BY <1>30
    DEF RefuseBoot, Typed, SeedsTyped, bootVars, jobVars, roundVars
  <2>3. WriterTyped'
    BY <1>30
    DEF RefuseBoot, Typed, WriterTyped, SeedsTyped, Starting, bootVars, jobVars, roundVars
  <2>4. TornTyped'
    BY <1>30, GenesisDocuments
    DEF RefuseBoot, Typed, TornTyped, Enter, SeedsTyped, IsDocument, bootVars, jobVars,
        roundVars
  <2> QED
    BY <1>30, <2>1, <2>2, <2>3, <2>4, TypesFrame
    DEF RefuseBoot, Typed, bootVars, jobVars, roundVars
<1>31. ASSUME NEW s \in Seed, RefuseWrite(s) PROVE Typed'
  <2>1. WriterTyped'
    BY <1>31
    DEF RefuseWrite, Typed, WriterTyped, Skip, W, bootVars, jobVars, roundVars
  <2> QED
    BY <1>31, <2>1, TypesFrame
    DEF RefuseWrite, Typed, bootVars, jobVars, roundVars
<1>32. ASSUME NEW s \in Seed, Crash(s) PROVE Typed'
  <2>1. FlagsTyped'
    BY <1>32
    DEF Crash, Typed, FlagsTyped, bootVars, jobVars, roundVars
  <2>2. SeedsTyped'
    BY <1>32
    DEF Crash, Typed, SeedsTyped, bootVars, jobVars, roundVars
  <2>3. JobsTyped'
    <3>1. [pc |-> "refused", list |-> 1, row |-> 1] \in Job
      BY DEF Job
    <3>2. \A j \in Jobs : job'[j] = job[j] \/ job'[j] = [pc |-> "refused", list |-> 1, row |-> 1]
      BY <1>32 DEF Crash, Jobs
    <3>3. job' = [j \in Jobs |-> job'[j]]
      BY <1>32 DEF Crash, Jobs
    <3>4. \A j \in Jobs : job'[j] \in Job
      BY <3>1, <3>2 DEF Typed, JobsTyped
    <3> QED
      BY <3>2, <3>3, <3>4 DEF Typed, JobsTyped, Registering, Updating, Fields
  <2>4. FileTyped'
    BY <1>32
    DEF Crash, Typed, FileTyped, Lines, bootVars, jobVars, roundVars
  <2>5. WriterTyped'
    BY <1>32
    DEF Crash, Typed, WriterTyped, SeedsTyped, bootVars, jobVars, roundVars
  <2>6. TornTyped'
    BY <1>32
    DEF Crash, Typed, TornTyped, Enter, bootVars, jobVars, roundVars
  <2> QED
    BY <1>32, <2>1, <2>2, <2>3, <2>4, <2>5, <2>6, TypesFrame
    DEF Crash, Typed, bootVars, jobVars, roundVars
<1>33. ASSUME RefuseLine PROVE Typed'
  <2>1. FileTyped'
    BY <1>33, FirstLine
    DEF RefuseLine, Typed, FileTyped, Lines, Rest, bootVars, jobVars, roundVars
  <2>2. TornTyped'
    BY <1>33, FirstLine
    DEF RefuseLine, Typed, TornTyped, Enter, bootVars, jobVars, roundVars
  <2> QED
    BY <1>33, <2>1, <2>2, TypesFrame
    DEF RefuseLine, Typed, bootVars, jobVars, roundVars
<1>34. CASE UNCHANGED vars
  BY <1>34, TypesFrame DEF Typed, vars, bootVars, jobVars, roundVars
<1> QED
  BY <1>1, <1>2, <1>3, <1>4, <1>5, <1>6, <1>7, <1>8, <1>9, <1>10, <1>11, <1>12, <1>13,
     <1>14, <1>15, <1>16, <1>17, <1>18, <1>19, <1>20, <1>21, <1>22, <1>23, <1>24, <1>25,
     <1>26, <1>27, <1>28, <1>29, <1>30, <1>31, <1>32, <1>33, <1>34, <1>35
     DEF Next, Boot, Register, Update, Maintain, Write, Refuse, Jobs

-----------------------------------------------------------------------------
(* Who changes what                                                        *)

\* The actions that change a variable.
Changes ==
    /\ \/ delegates' = delegates
       \/ \E s \in Seed : InsertSeed(s)
       \/ \E j \in Jobs : InsertDelegate(j) \/ UpdateFields(j)
       \/ RemoveDelegate
    /\ \/ unique' = unique
       \/ \E s \in Seed : AddIndexes(s)
    /\ \/ stats' = stats
       \/ \E s \in Seed : InsertSeedStats(s) \/ CountNext(s)
       \/ \E j \in Jobs : InsertDelegateStats(j)
       \/ RemoveStats
    /\ \/ credited' = credited
       \/ \E s \in Seed : InsertSeedStats(s) \/ CountNext(s)
       \/ \E j \in Jobs : InsertDelegateStats(j)
       \/ RemoveStats
    /\ \/ rounds' = rounds
       \/ \E s \in Seed : InsertRound(s)
    /\ \/ heightUnique' = heightUnique
       \/ \E s \in Seed : AddSeedIndexes(s)
    /\ \/ spoiled' = spoiled
       \/ \E s \in Seed : InsertRound(s) \/ RefuseBoot(s) \/ Crash(s)
       \/ \E j \in Jobs : InsertDelegate(j) \/ UpdateFields(j)
    /\ \/ writer' = writer
       \/ \E s \in Seed : Write(s) \/ RefuseWrite(s) \/ Crash(s)
    /\ \/ known' = known
       \/ \E s \in Seed : Run(s) \/ Reload(s)
    /\ \/ boot' = boot
       \/ \E s \in Seed : Boot(s) \/ RefuseBoot(s) \/ Crash(s)
    /\ \/ at' = at
       \/ \E s \in Seed : Start(s) \/ InsertSeedStats(s) \/ AddSeedIndexes(s)
    /\ \/ owed' = owed
       \/ \E s \in Seed : BeginCount(s) \/ Reload(s) \/ RefuseWrite(s) \/ Crash(s)
       \/ RemoveStats
    /\ \/ job' = job
       \/ \E s \in Seed : Crash(s)
       \/ \E j \in Jobs : Register(j) \/ Update(j) \/ MiscountApproval(j) \/ RefuseJob(j)
    /\ \/ file' = file
       \/ \E s \in Seed : Crash(s)
       \/ Maintain \/ RefuseLine
    /\ \/ solo' = solo
       \/ \E j \in Jobs : ClearSolo(j) \/ InsertSolo(j)
    /\ \/ cleared' = cleared
       \/ \E j \in Jobs : ClearSolo(j)

\* No step changes a variable but those listed.
LEMMA WhoChanges ==
    ASSUME [Next]_vars
    PROVE  Changes
<1>1. ASSUME NEW s \in Seed, Start(s) PROVE Changes
  BY <1>1 DEF Start, Boot, Changes, bootVars, jobVars, roundVars
<1>2. ASSUME NEW s \in Seed, CountDelegates(s) PROVE Changes
  BY <1>2 DEF CountDelegates, Boot, Changes, bootVars, jobVars, roundVars
<1>35. ASSUME NEW s \in Seed, MiscountDelegates(s) PROVE Changes
  BY <1>35 DEF MiscountDelegates, Boot, Changes, bootVars, jobVars, roundVars
<1>3. ASSUME NEW s \in Seed, InsertSeed(s) PROVE Changes
  BY <1>3 DEF InsertSeed, Boot, Changes, bootVars, jobVars, roundVars
<1>4. ASSUME NEW s \in Seed, InsertSeedStats(s) PROVE Changes
  BY <1>4 DEF InsertSeedStats, Boot, Changes, bootVars, jobVars, roundVars
<1>5. ASSUME NEW s \in Seed, AddSeedIndexes(s) PROVE Changes
  BY <1>5 DEF AddSeedIndexes, Boot, Changes, bootVars, jobVars, roundVars
<1>6. ASSUME NEW s \in Seed, AddIndexes(s) PROVE Changes
  BY <1>6 DEF AddIndexes, Boot, Changes, bootVars, jobVars, roundVars
<1>7. ASSUME NEW s \in Seed, Run(s) PROVE Changes
  BY <1>7 DEF Run, Boot, Changes, bootVars, jobVars, roundVars
<1>8. ASSUME NEW j \in Jobs, CheckApproval(j) PROVE Changes
  BY <1>8 DEF CheckApproval, Register, Changes, bootVars, jobVars, roundVars
<1>9. ASSUME NEW j \in Jobs, NEW f \in Fields, CheckField(j, f) PROVE Changes
  BY <1>9 DEF CheckField, Register, Changes, bootVars, jobVars, roundVars
<1>10. ASSUME NEW j \in Jobs, NEW f \in Fields, MiscountField(j, f) PROVE Changes
  BY <1>10 DEF MiscountField, Register, Changes, bootVars, jobVars, roundVars
<1>11. ASSUME NEW j \in Jobs, CheckRoom(j) PROVE Changes
  BY <1>11 DEF CheckRoom, Register, Changes, bootVars, jobVars, roundVars
<1>12. ASSUME NEW j \in Jobs, InsertDelegate(j) PROVE Changes
  BY <1>12 DEF InsertDelegate, Register, Changes, bootVars, jobVars, roundVars
<1>13. ASSUME NEW j \in Jobs, InsertDelegateStats(j) PROVE Changes
  BY <1>13 DEF InsertDelegateStats, Register, Changes, bootVars, jobVars, roundVars
<1>14. ASSUME NEW j \in Jobs, UpdateFields(j) PROVE Changes
  BY <1>14 DEF UpdateFields, Update, Changes, bootVars, jobVars, roundVars
<1>15. ASSUME NEW j \in Jobs, ClearSolo(j) PROVE Changes
  BY <1>15 DEF ClearSolo, Update, Changes, bootVars, jobVars, roundVars
<1>16. ASSUME NEW j \in Jobs, InsertSolo(j) PROVE Changes
  BY <1>16 DEF InsertSolo, Update, Changes, bootVars, jobVars, roundVars
<1>17. ASSUME TakeFile PROVE Changes
  BY <1>17 DEF TakeFile, Maintain, Changes, bootVars, jobVars, roundVars
<1>18. ASSUME Ban PROVE Changes
  BY <1>18 DEF Ban, Maintain, Changes, bootVars, jobVars, roundVars
<1>19. ASSUME RemoveDelegate PROVE Changes
  BY <1>19 DEF RemoveDelegate, Maintain, Changes, bootVars, jobVars, roundVars
<1>20. ASSUME RemoveStats PROVE Changes
  BY <1>20 DEF RemoveStats, Maintain, Changes, bootVars, jobVars, roundVars
<1>21. ASSUME NEW s \in Seed, EndRound(s) PROVE Changes
  BY <1>21 DEF EndRound, Write, Changes, bootVars, jobVars, roundVars
<1>22. ASSUME NEW s \in Seed, BeginCount(s) PROVE Changes
  BY <1>22 DEF BeginCount, Write, Changes, bootVars, jobVars, roundVars
<1>23. ASSUME NEW s \in Seed, CountNext(s) PROVE Changes
  BY <1>23 DEF CountNext, Write, Changes, bootVars, jobVars, roundVars
<1>24. ASSUME NEW s \in Seed, FindRound(s) PROVE Changes
  BY <1>24 DEF FindRound, Write, Changes, bootVars, jobVars, roundVars
<1>25. ASSUME NEW s \in Seed, InsertRound(s) PROVE Changes
  BY <1>25 DEF InsertRound, Write, Changes, bootVars, jobVars, roundVars
<1>26. ASSUME NEW s \in Seed, Reload(s) PROVE Changes
  BY <1>26 DEF Reload, Write, Changes, bootVars, jobVars, roundVars
<1>27. ASSUME Advance PROVE Changes
  BY <1>27 DEF Advance, Changes, bootVars, jobVars, roundVars
<1>28. ASSUME NEW j \in Jobs, MiscountApproval(j) PROVE Changes
  BY <1>28 DEF MiscountApproval, Changes, bootVars, jobVars, roundVars
<1>29. ASSUME NEW j \in Jobs, RefuseJob(j) PROVE Changes
  BY <1>29 DEF RefuseJob, Changes, bootVars, jobVars, roundVars
<1>30. ASSUME NEW s \in Seed, RefuseBoot(s) PROVE Changes
  BY <1>30 DEF RefuseBoot, Changes, bootVars, jobVars, roundVars
<1>31. ASSUME NEW s \in Seed, RefuseWrite(s) PROVE Changes
  BY <1>31 DEF RefuseWrite, Changes, bootVars, jobVars, roundVars
<1>32. ASSUME NEW s \in Seed, Crash(s) PROVE Changes
  BY <1>32 DEF Crash, Changes, bootVars, jobVars, roundVars
<1>33. ASSUME RefuseLine PROVE Changes
  BY <1>33 DEF RefuseLine, Changes, bootVars, jobVars, roundVars
<1>34. CASE UNCHANGED vars
  BY <1>34 DEF Changes, vars, bootVars, jobVars, roundVars
<1> QED
  BY <1>1, <1>2, <1>3, <1>4, <1>5, <1>6, <1>7, <1>8, <1>9, <1>10, <1>11, <1>12, <1>13,
     <1>14, <1>15, <1>16, <1>17, <1>18, <1>19, <1>20, <1>21, <1>22, <1>23, <1>24, <1>25,
     <1>26, <1>27, <1>28, <1>29, <1>30, <1>31, <1>32, <1>33, <1>34, <1>35
     DEF Next, Boot, Register, Update, Maintain, Write, Refuse, Jobs

-----------------------------------------------------------------------------
(* One round for a height                                                  *)

\* The index admits one round of a height, and is made before any is recorded
\* where nothing went wrong.
RoundInv ==
    /\ heightUnique => \A r, q \in rounds : r.height = q.height => r = q
    /\ ~heightUnique /\ ~spoiled => rounds = {}

LEMMA RoundsInit == Init => RoundInv
BY DEF Init, RoundInv

LEMMA RoundsStep ==
    ASSUME Typed, RoundInv, [Next]_vars
    PROVE  RoundInv'
<1>1. ASSUME NEW s \in Seed, InsertRound(s) PROVE RoundInv'
  <2>1. heightUnique' = heightUnique /\ (~heightUnique => spoiled')
    BY <1>1, Zenon DEF InsertRound
  <2>2. ASSUME heightUnique PROVE \A r, q \in rounds' : r.height = q.height => r = q
    BY <1>1, <2>2 DEF InsertRound, RoundKnown, HasRound, RoundInv
  <2> QED
    BY <2>1, <2>2, Zenon DEF RoundInv
<1>2. ASSUME NEW s \in Seed, AddSeedIndexes(s) PROVE RoundInv'
  BY <1>2 DEF AddSeedIndexes, RoundInv, roundVars
<1>3. ASSUME UNCHANGED <<rounds, heightUnique>>, spoiled => spoiled' PROVE RoundInv'
  BY <1>3 DEF RoundInv
<1>4. ASSUME NEW j \in Jobs, InsertDelegate(j) PROVE RoundInv'
  BY <1>3, <1>4 DEF InsertDelegate, roundVars
<1>5. ASSUME NEW j \in Jobs, UpdateFields(j) PROVE RoundInv'
  BY <1>3, <1>5 DEF UpdateFields, roundVars
<1>6. ASSUME NEW s \in Seed, RefuseBoot(s) PROVE RoundInv'
  BY <1>3, <1>6 DEF RefuseBoot, roundVars
<1>7. ASSUME NEW s \in Seed, Crash(s) PROVE RoundInv'
  BY <1>3, <1>7 DEF Crash
<1>8. CASE UNCHANGED <<rounds, heightUnique, spoiled>>
  BY <1>3, <1>8
<1> QED
  BY <1>1, <1>2, <1>4, <1>5, <1>6, <1>7, <1>8, WhoChanges DEF Changes

\* A height has one round however many seeds write it at the same time, unless a
\* start was cut off before it made the index or a round was there before it
\* (add_seed_indexes, the upsert of start_block_production): for any number of seeds.
THEOREM RoundsOncePerHeight == Spec => []OneRoundPerHeight
<1>1. RoundInv => OneRoundPerHeight
  BY DEF RoundInv, OneRoundPerHeight
<1> QED
  BY <1>1, TypesInit, TypesStep, RoundsInit, RoundsStep, PTL DEF Spec

\* The documents of the collections and the states of the seeds, jobs, writers
\* and of the maintenance file have their types.
THEOREM RecordTypes == Spec => []TypeOK
BY TypesInit, TypesStep, TypedIsTypeOK, PTL DEF Spec

-----------------------------------------------------------------------------
(* A height counts once                                                    *)

\* The heights counted are those up to the mark, and the totals are theirs.
CreditOf(k) ==
    /\ IsFiniteSet(credited[k])
    /\ \A h \in credited[k] : h <= stats[k].mark
    /\ stats[k].total = Cardinality(credited[k])
    /\ stats[k].producer = Cardinality({h \in credited[k] : Winner[h] = k})

CreditInv == \A k \in DOMAIN stats : CreditOf(k)

LEMMA CreditsInit == Init => CreditInv
<1> SUFFICES ASSUME Init PROVE CreditInv
  OBVIOUS
<1> SUFFICES ASSUME NEW k \in DOMAIN stats PROVE CreditOf(k)
  BY DEF CreditInv
<1>1. k \in Key
  BY TypesInit DEF Typed, StatsTyped
<1>2. credited[k] = {} /\ stats[k] = NewStats
  BY <1>1 DEF Init, Empty, AtWork
<1>3. {h \in credited[k] : Winner[h] = k} = {}
  BY <1>2
<1> QED
  BY <1>2, <1>3, FS_EmptySet DEF CreditOf, NewStats

\* New statistics count nothing yet.
LEMMA CreditsInserted ==
    ASSUME Typed, CreditInv, NEW k \in Key, InsertStats(k)
    PROVE  CreditInv'
<1> SUFFICES ASSUME NEW i \in DOMAIN stats' PROVE CreditOf(i)'
  BY DEF CreditInv
<1>1. DOMAIN credited = Key
  BY DEF Typed, StatsTyped
<1>2. CASE i = k
  <2>1. credited'[i] = {} /\ stats'[i] = NewStats
    BY <1>1, <1>2 DEF InsertStats, With
  <2>2. {h \in credited'[i] : Winner[h] = i} = {}
    BY <2>1
  <2> QED
    BY <2>1, <2>2, FS_EmptySet DEF CreditOf, NewStats
<1>3. CASE i # k
  <2>1. i \in DOMAIN stats /\ credited'[i] = credited[i] /\ stats'[i] = stats[i]
    BY <1>1, <1>3 DEF InsertStats, With
  <2> QED
    BY <2>1 DEF CreditInv, CreditOf
<1> QED
  BY <1>2, <1>3

\* A height beyond the mark was not counted before.
LEMMA CreditsCounted ==
    ASSUME Typed, CreditInv, NEW s \in Seed, CountNext(s)
    PROVE  CreditInv'
<1> DEFINE k == List(s)[W(s).next]
           h == W(s).height
<1>1. CASE UNCHANGED <<stats, credited>>
  BY <1>1 DEF CreditInv, CreditOf
<1>2. CASE /\ k \in DOMAIN stats /\ NotCounted(k, h)
           /\ stats' = [stats EXCEPT ![k] = Counted(s, k)]
           /\ credited' = IF W(s).next <= VerifierAmount
                            THEN [credited EXCEPT ![k] = @ \cup {h}] ELSE credited
  <2> HIDE DEF k, h
  <2> SUFFICES ASSUME NEW i \in DOMAIN stats' PROVE CreditOf(i)'
    BY DEF CreditInv
  <2>1. i \in DOMAIN stats /\ i \in Key
    BY <1>2 DEF Typed, StatsTyped
  <2>2. CASE i # k
    <3>1. stats'[i] = stats[i] /\ credited'[i] = credited[i]
      BY <1>2, <2>1, <2>2 DEF Typed, StatsTyped
    <3> QED
      BY <2>1, <3>1 DEF CreditInv, CreditOf
  <2>3. CASE i = k
    <3> DEFINE Old == credited[i]
               Won(set) == {x \in set : Winner[x] = i}
    <3>1. h \in Nat /\ Old \in SUBSET Nat /\ stats[i] \in [total : Nat, producer : Nat, mark : Int]
      BY <2>1 DEF Typed, StatsTyped, WriterTyped, W, h
    <3>2. IsFiniteSet(Old) /\ stats[i].total = Cardinality(Old) /\ stats[i].producer = Cardinality(Won(Old))
      BY <2>1 DEF CreditInv, CreditOf
    <3>3. h \notin Old
      <4>1. stats[i].mark < h
        BY <1>2, <2>3 DEF NotCounted
      <4>2. \A x \in Old : x <= stats[i].mark
        BY <2>1 DEF CreditInv, CreditOf
      <4> HIDE DEF Old
      <4> QED
        BY <3>1, <4>1, <4>2
    <3>4. stats'[i] = Counted(s, i)
      BY <1>2, <2>1, <2>3
    <3>5. stats'[i].mark = h /\ \A x \in credited'[i] : x <= h
      <4>1. stats'[i].mark = h
        BY <3>4 DEF Counted, h
      <4>2. credited'[i] \subseteq Old \cup {h}
        BY <1>2, <2>1, <2>3 DEF Typed, StatsTyped
      <4>3. \A x \in Old : x <= stats[i].mark /\ stats[i].mark < h
        BY <1>2, <2>1, <2>3 DEF CreditInv, CreditOf, NotCounted
      <4>4. \A x \in Old : x <= h
        BY <3>1, <4>3
      <4> QED
        BY <3>1, <4>1, <4>2, <4>4
    <3>6. CASE W(s).next <= VerifierAmount
      <4>1. credited'[i] = Old \cup {h}
        BY <1>2, <2>1, <2>3, <3>6 DEF Typed, StatsTyped
      <4>2. IsFiniteSet(credited'[i]) /\ Cardinality(credited'[i]) = Cardinality(Old) + 1
        BY <3>2, <3>3, <4>1, FS_AddElement
      <4>3. stats'[i].total = stats[i].total + 1
        BY <3>4, <3>6 DEF Counted
      <4>4. IsFiniteSet(Won(Old)) /\ h \notin Won(Old)
        BY <3>2, <3>3, FS_Subset
      <4>5. CASE Winner[h] = i
        <5>1. Won(credited'[i]) = Won(Old) \cup {h}
          BY <4>1, <4>5
        <5>2. Cardinality(Won(credited'[i])) = Cardinality(Won(Old)) + 1
          BY <4>4, <5>1, FS_AddElement
        <5>3. stats'[i].producer = stats[i].producer + 1
          BY <3>4, <3>6, <4>5 DEF Counted, h
        <5> QED
          BY <3>2, <3>5, <4>2, <4>3, <5>2, <5>3 DEF CreditOf
      <4>6. CASE Winner[h] # i
        <5>1. Won(credited'[i]) = Won(Old)
          BY <4>1, <4>6
        <5>2. stats'[i].producer = stats[i].producer
          BY <3>1, <3>4, <4>6 DEF Counted, h
        <5> QED
          BY <3>2, <3>5, <4>2, <4>3, <5>1, <5>2 DEF CreditOf
      <4> QED
        BY <4>5, <4>6
    <3>7. CASE ~(W(s).next <= VerifierAmount)
      <4>1. credited'[i] = Old
        BY <1>2, <3>7
      <4>2. stats'[i].total = stats[i].total /\ stats'[i].producer = stats[i].producer
        BY <3>1, <3>4, <3>7 DEF Counted
      <4> QED
        BY <3>2, <3>5, <4>1, <4>2 DEF CreditOf
    <3> QED
      BY <3>6, <3>7
  <2> QED
    BY <2>2, <2>3
<1> QED
  BY <1>1, <1>2 DEF CountNext

LEMMA CreditsStep ==
    ASSUME Typed, CreditInv, [Next]_vars
    PROVE  CreditInv'
<1>1. ASSUME NEW s \in Seed, InsertSeedStats(s) PROVE CreditInv'
  <2>1. Genesis[at[s]].key \in Key
    BY GenesisDocuments DEF Typed, SeedsTyped, IsDocument
  <2>2. UNCHANGED <<stats, credited>> \/ InsertStats(Genesis[at[s]].key)
    BY <1>1 DEF InsertSeedStats
  <2> QED
    BY <2>1, <2>2, CreditsInserted DEF CreditInv, CreditOf
<1>2. ASSUME NEW j \in Jobs, InsertDelegateStats(j) PROVE CreditInv'
  <2>1. j[2].doc.key \in Key
    BY <1>2, Requested DEF InsertDelegateStats, JobAt, Typed, JobsTyped, Registering, IsDocument
  <2>2. UNCHANGED <<stats, credited>> \/ InsertStats(j[2].doc.key)
    BY <1>2 DEF InsertDelegateStats
  <2> QED
    BY <2>1, <2>2, CreditsInserted DEF CreditInv, CreditOf
<1>3. ASSUME RemoveStats PROVE CreditInv'
  <2> DEFINE k == Head(file.left).key
  <2>1. stats' = Without(stats, k) /\ credited' = [credited EXCEPT ![k] = {}]
    BY <1>3 DEF RemoveStats, StatsWithout
  <2> HIDE DEF k
  <2>2. ASSUME NEW i \in DOMAIN stats' PROVE i \in DOMAIN stats /\ stats'[i] = stats[i] /\ credited'[i] = credited[i]
    BY <2>1, <2>2 DEF Without, Typed, StatsTyped
  <2> QED
    BY <2>2 DEF CreditInv, CreditOf
<1>4. CASE UNCHANGED <<stats, credited>>
  BY <1>4 DEF CreditInv, CreditOf
<1> QED
  BY <1>1, <1>2, <1>3, <1>4, CreditsCounted, WhoChanges DEF Changes

\* However many seeds count a height, and however late, it adds one round to a
\* delegate and one block to its producer (the filter of the statistics update in
\* start_block_production).
THEOREM HeightsCountOnce == Spec => []CreditedOnce
<1>1. CreditInv => CreditedOnce
  BY DEF CreditInv, CreditOf, CreditedOnce
<1> QED
  BY <1>1, TypesInit, TypesStep, CreditsInit, CreditsStep, PTL DEF Spec

-----------------------------------------------------------------------------
(* The list a writer goes through                                          *)

\* Every set of naturals that is not empty has a least element.
LEMMA Least ==
    ASSUME NEW T, T \subseteq Nat, T # {}
    PROVE  \E x \in T : \A y \in T : x <= y
<1>1. PICK x \in T : \A y \in T : ~ (<<y, x>> \in OpToRel(<, Nat))
  BY NatLessThanWellFounded, WFMin
<1>2. \A y \in T : ~(y < x)
  BY <1>1, Zenon DEF OpToRel
<1> QED
  BY <1>2

\* Positions have a last one.
LEMMA LastOf ==
    ASSUME NEW n \in Nat, NEW set \in SUBSET (1..n), set # {}
    PROVE  Max(set) \in set /\ \A y \in set : Max(set) >= y
<1> DEFINE Back == {n - x : x \in set}
<1>1. Back \subseteq Nat /\ Back # {}
  <2>1. \A x \in set : x \in Int /\ x <= n
    OBVIOUS
  <2>2. \A x \in set : n - x \in Nat
    BY <2>1
  <2> QED
    BY <2>2
<1>2. PICK b \in Back : \A c \in Back : b <= c
  BY <1>1, Least
<1>3. PICK x \in set : b = n - x
  BY <1>2
<1>4. \A y \in set : x >= y
  <2> TAKE y \in set
  <2>1. b <= n - y
    BY <1>2
  <2> QED
    BY <1>3, <2>1
<1> QED
  BY <1>4 DEF Max

\* Filtered(P, f): f holds the keys of P at each set of positions of Order.
Filtered(P, f) ==
    f = [set \in SUBSET DOMAIN Order |->
           IF set = {} THEN <<>>
           ELSE IF Order[Max(set)] \in P THEN Append(f[set \ {Max(set)}], Order[Max(set)])
                ELSE f[set \ {Max(set)}]]

LEMMA ListIs ==
    ASSUME NEW s \in Seed
    PROVE  List(s) = (CHOOSE f : Filtered(known[s], f))[DOMAIN Order]
BY DEF List, FoldLeft, MapThenFoldSet, Filtered

\* A seed that loads nothing keeps its list.
LEMMA SameList ==
    ASSUME NEW s \in Seed, UNCHANGED known[s]
    PROVE  UNCHANGED List(s)
<1>1. List(s)' = (CHOOSE f : Filtered(known'[s], f))[DOMAIN Order]
  BY DEF List, FoldLeft, MapThenFoldSet, Filtered
<1> QED
  BY <1>1, ListIs

\* There is such a function: one on the sets of less than n positions extends to
\* those of n.
LEMMA FilterExists ==
    ASSUME NEW P
    PROVE  \E f : Filtered(P, f)
<1> DEFINE Places == DOMAIN Order
           Part(n) == {set \in SUBSET Places : Cardinality(set) <= n}
           Step(set, g) == IF set = {} THEN <<>>
                           ELSE IF Order[Max(set)] \in P
                                  THEN Append(g[set \ {Max(set)}], Order[Max(set)])
                                  ELSE g[set \ {Max(set)}]
           Solves(n, g) == g = [set \in Part(n) |-> Step(set, g)]
           Bad == {n \in Nat : ~ \E g : Solves(n, g)}
<1>1. Len(Order) \in Nat /\ Places = 1..Len(Order)
  BY RecordsAssumption
<1>2. \A set \in SUBSET Places : set # {} => Max(set) \in set
  BY <1>1, LastOf
<1>3. IsFiniteSet(Places) /\ \A set \in SUBSET Places : IsFiniteSet(set) /\ Cardinality(set) \in Nat
  <2>1. IsFiniteSet(Places)
    BY <1>1, FS_Interval
  <2> HIDE DEF Places
  <2> QED
    BY <2>1, FS_Subset, FS_CardinalityType
<1> HIDE DEF Places
<1>4. Bad = {}
  <2> SUFFICES ASSUME Bad # {} PROVE FALSE
    OBVIOUS
  <2>1. PICK n \in Bad : \A k \in Bad : n <= k
    BY Least
  <2>2. CASE n = 0
    <3> DEFINE g == [set \in Part(0) |-> <<>>]
    <3>1. \A set \in Part(0) : set = {}
      BY <1>3, FS_EmptySet
    <3>2. Solves(0, g)
      BY <3>1
    <3> QED
      BY <2>1, <2>2, <3>2
  <2>3. CASE n # 0
    <3>1. n \in Nat /\ n - 1 \in Nat
      BY <2>3
    <3>2. n - 1 \notin Bad
      <4> HIDE DEF Bad
      <4> QED
        BY <2>1, <3>1
    <3>3. PICK g : Solves(n - 1, g)
      BY <3>1, <3>2
    <3> DEFINE k == [set \in Part(n) |-> Step(set, g)]
    <3>4. \A t \in Part(n - 1) : t \in Part(n) /\ k[t] = g[t]
      <4> TAKE t \in Part(n - 1)
      <4>1. t \in Part(n)
        BY <1>3, <2>1
      <4>2. g[t] = Step(t, g)
        BY <3>3
      <4> QED
        BY <4>1, <4>2
    <3>5. \A set \in Part(n) : Step(set, k) = Step(set, g)
      <4> TAKE set \in Part(n)
      <4>1. CASE set = {}
        BY <4>1
      <4>2. CASE set # {}
        <5>1. Max(set) \in set
          BY <1>2, <4>2
        <5>2. Cardinality(set \ {Max(set)}) = Cardinality(set) - 1
          BY <1>3, <5>1, FS_RemoveElement
        <5>3. set \ {Max(set)} \in Part(n - 1)
          BY <1>3, <2>1, <5>2
        <5> QED
          BY <3>4, <5>3
      <4> QED
        BY <4>1, <4>2
    <3>6. Solves(n, k)
      BY <3>5
    <3> QED
      BY <2>1, <3>6
  <2> QED
    BY <2>2, <2>3
<1>5. Cardinality(Places) \in Nat
  BY <1>3, FS_CardinalityType
<1>6. PICK f : Solves(Cardinality(Places), f)
  BY <1>4, <1>5
<1>7. Part(Cardinality(Places)) = SUBSET Places
  BY <1>3, FS_Subset
<1> QED
  BY <1>6, <1>7 DEF Filtered, Places

\* The list has keys only, and all that are known.
LEMMA ListHolds ==
    ASSUME NEW s \in Seed, Typed
    PROVE  /\ List(s) \in Seq(Key)
           /\ \A k \in known[s] : \E i \in DOMAIN List(s) : List(s)[i] = k
<1> DEFINE P == known[s]
           f == CHOOSE g : Filtered(P, g)
           n == Len(Order)
           Up(m) == f[1..m]
           Holds(m) == /\ Up(m) \in Seq(Key)
                       /\ \A i \in 1..m : Order[i] \in P =>
                              \E j \in DOMAIN Up(m) : Up(m)[j] = Order[i]
           Bad == {m \in 0..n : ~Holds(m)}
<1>1. Filtered(P, f)
  BY FilterExists
<1>2. n \in Nat /\ DOMAIN Order = 1..n /\ \A i \in 1..n : Order[i] \in Key
  BY RecordsAssumption
<1> HIDE DEF f, n
<1>3. Holds(0)
  <2>1. 1..0 = {} /\ 1..0 \in SUBSET DOMAIN Order
    OBVIOUS
  <2>2. Up(0) = <<>>
    BY <1>1, <2>1 DEF Filtered
  <2> QED
    BY <2>1, <2>2
<1>4. ASSUME NEW m \in 1..n, Holds(m - 1) PROVE Holds(m)
  <2>1. m - 1 \in Nat /\ 1..m \in SUBSET (1..n) /\ 1..m # {} /\ m \in 1..m
    <3>1. m \in Int /\ 1 <= m /\ m <= n
      BY <1>2, <1>4
    <3>2. \A i \in 1..m : i \in 1..n
      BY <1>2, <3>1
    <3> QED
      BY <3>1, <3>2
  <2>2. Max(1..m) = m
    <3>1. Max(1..m) \in 1..m /\ Max(1..m) >= m
      BY <1>2, <2>1, LastOf
    <3> QED
      BY <3>1
  <2>3. (1..m) \ {m} = 1..(m - 1)
    OBVIOUS
  <2>4. Up(m) = IF Order[m] \in P THEN Append(Up(m - 1), Order[m]) ELSE Up(m - 1)
    BY <1>1, <1>2, <2>1, <2>2, <2>3 DEF Filtered
  <2>5. Order[m] \in Key /\ Up(m - 1) \in Seq(Key)
    BY <1>2, <1>4
  <2> HIDE DEF P, Up
  <2>6. CASE Order[m] \notin P
    <3>1. Up(m) = Up(m - 1)
      BY <2>4, <2>6
    <3>2. \A i \in 1..m : i = m \/ i \in 1..(m - 1)
      BY <2>1
    <3> QED
      BY <1>4, <2>6, <3>1, <3>2
  <2>7. CASE Order[m] \in P
    <3>1. Up(m) = Append(Up(m - 1), Order[m])
      BY <2>4, <2>7
    <3> DEFINE l == Len(Up(m - 1))
    <3>2. /\ Up(m) \in Seq(Key) /\ l \in Nat
          /\ DOMAIN Up(m) = 1..(l + 1) /\ DOMAIN Up(m - 1) = 1..l
          /\ Up(m)[l + 1] = Order[m]
          /\ \A j \in 1..l : Up(m)[j] = Up(m - 1)[j]
      BY <2>5, <3>1
    <3> HIDE DEF l
    <3>3. \A i \in 1..m : i = m \/ i \in 1..(m - 1)
      BY <2>1
    <3>4. \A i \in 1..m : Order[i] \in P => \E j \in DOMAIN Up(m) : Up(m)[j] = Order[i]
      <4> TAKE i \in 1..m
      <4>1. CASE i = m
        BY <3>2, <4>1
      <4>2. ASSUME i \in 1..(m - 1), Order[i] \in P PROVE \E j \in DOMAIN Up(m) : Up(m)[j] = Order[i]
        <5>1. PICK j \in 1..l : Up(m - 1)[j] = Order[i]
          BY <1>4, <3>2, <4>2
        <5> QED
          BY <3>2, <5>1
      <4> QED
        BY <3>3, <4>1, <4>2
    <3> QED
      BY <3>2, <3>4
  <2> QED
    BY <2>6, <2>7
<1>5. Bad = {}
  <2> SUFFICES ASSUME Bad # {} PROVE FALSE
    OBVIOUS
  <2> HIDE DEF Holds
  <2>1. PICK m \in Bad : \A k \in Bad : m <= k
    <3>1. Bad \subseteq Nat
      BY <1>2
    <3> HIDE DEF Bad
    <3> QED
      BY <3>1, Least
  <2>2. m \in 0..n /\ ~Holds(m)
    BY <2>1
  <2>3. m \in 1..n
    BY <1>2, <1>3, <2>2
  <2>4. m - 1 \in 0..n /\ ~(m <= m - 1)
    BY <1>2, <2>3
  <2>5. Holds(m - 1)
    BY <2>1, <2>4
  <2> QED
    BY <1>4, <2>2, <2>3, <2>5
<1>6. Holds(n)
  BY <1>2, <1>5
<1>7. List(s) = Up(n)
  BY <1>2, ListIs DEF f
<1>8. known[s] \subseteq Key /\ \A k \in Key : \E i \in 1..n : Order[i] = k
  BY <1>2, RecordsAssumption DEF Typed, SeedsTyped, ToSet
<1> HIDE DEF Up
<1> QED
  BY <1>6, <1>7, <1>8

-----------------------------------------------------------------------------
(* Nobody is left uncounted                                                *)

\* The writer has yet to come to k.
StillAhead(s, k) ==
    W(s).pc = "count" /\ \E i \in DOMAIN List(s) : i >= W(s).next /\ List(s)[i] = k

\* Each key a writer has to count is counted at its height or still ahead of it.
CountOf(s) ==
    W(s).pc \in {"count", "round"} =>
        \A k \in owed[s] : /\ k \in DOMAIN stats
                           /\ stats[k].mark >= W(s).height \/ StillAhead(s, k)

CountInv == \A s \in Seed : CountOf(s)

LEMMA CountsInit == Init => CountInv
BY DEF Init, CountInv, CountOf, W

\* A writer at rest keeps what it has as long as no mark goes back.
LEMMA CountsKept ==
    ASSUME Typed, Typed', CountInv, NEW o \in Seed,
           UNCHANGED <<writer[o], known[o]>>, owed'[o] \subseteq owed[o],
           \A k \in owed'[o] \cap DOMAIN stats : k \in DOMAIN stats' /\ stats'[k].mark >= stats[k].mark
    PROVE  CountOf(o)'
<1> SUFFICES ASSUME W(o).pc \in {"count", "round"}, NEW k \in owed'[o]
             PROVE  /\ k \in DOMAIN stats'
                    /\ stats'[k].mark >= W(o).height \/ StillAhead(o, k)'
  BY DEF CountOf, W
<1>1. /\ k \in DOMAIN stats
      /\ stats[k].mark >= W(o).height \/ StillAhead(o, k)
  BY DEF CountInv, CountOf
<1>2. k \in DOMAIN stats' /\ stats'[k].mark >= stats[k].mark
  BY <1>1
<1>3. stats[k].mark \in Int /\ stats'[k].mark \in Int /\ W(o).height \in Int
  BY <1>1, <1>2 DEF Typed, StatsTyped, WriterTyped, W
<1>4. List(o)' = List(o) /\ W(o)' = W(o)
  BY SameList DEF W
<1>5. StillAhead(o, k) => StillAhead(o, k)'
  BY <1>4 DEF StillAhead
<1> QED
  BY <1>1, <1>2, <1>3, <1>5

\* Statistics are made for those who have none.
LEMMA CountsInserted ==
    ASSUME Typed, Typed', CountInv, NEW k \in Key, k \notin DOMAIN stats, InsertStats(k),
           UNCHANGED <<writer, known, owed>>
    PROVE  CountInv'
<1>1. \A i \in DOMAIN stats : i \in DOMAIN stats' /\ stats'[i] = stats[i] /\ stats[i].mark >= stats[i].mark
  BY DEF InsertStats, With, Typed, StatsTyped
<1> QED
  BY <1>1, CountsKept DEF CountInv

LEMMA CountsBegun ==
    ASSUME Typed, Typed', CountInv, NEW s \in Seed, BeginCount(s)
    PROVE  CountOf(s)'
<1>1. W(s)'.pc = "load" \/ (W(s)'.pc = "count" /\ owed'[s] = known[s] \cap DOMAIN stats)
  BY DEF BeginCount, W, Typed, WriterTyped
<1>2. CASE W(s)'.pc = "load"
  BY <1>2 DEF CountOf, W
<1>3. CASE W(s)'.pc = "count" /\ owed'[s] = known[s] \cap DOMAIN stats
  <2>1. W(s)'.next = 1
    BY DEF BeginCount, W, Typed, WriterTyped
  <2>2. stats' = stats /\ List(s)' = List(s)
    BY SameList DEF BeginCount
  <2>3. ASSUME NEW k \in owed'[s] PROVE k \in DOMAIN stats' /\ StillAhead(s, k)'
    <3>1. k \in known[s] /\ k \in DOMAIN stats'
      BY <1>3, <2>2, <2>3
    <3>2. PICK i \in DOMAIN List(s) : List(s)[i] = k
      BY <3>1, ListHolds
    <3>3. i >= 1
      <4>1. List(s) \in Seq(Key)
        BY ListHolds
      <4> QED
        BY <4>1
    <3> QED
      BY <1>3, <2>1, <2>2, <3>1, <3>2, <3>3 DEF StillAhead
  <2> QED
    BY <2>3 DEF CountOf
<1> QED
  BY <1>1, <1>2, <1>3

\* The key a writer passes is counted, or was.
LEMMA CountsPassed ==
    ASSUME Typed, Typed', CountInv, NEW s \in Seed, CountNext(s)
    PROVE  CountInv'
<1> DEFINE k == List(s)[W(s).next]
           h == W(s).height
<1>1. /\ UNCHANGED <<known, owed>>
      /\ W(s).pc = "count" /\ writer' = [writer EXCEPT ![s].next = @ + 1]
      /\ \/ k \in DOMAIN stats /\ NotCounted(k, h) /\ stats' = [stats EXCEPT ![k] = Counted(s, k)]
         \/ ~(k \in DOMAIN stats /\ NotCounted(k, h)) /\ stats' = stats
  BY DEF CountNext, Skip, NoMatch
<1> HIDE DEF k
<1>2. h \in Nat /\ \A i \in DOMAIN stats : stats[i].mark \in Int
  BY DEF Typed, StatsTyped, WriterTyped, W
<1> HIDE DEF h
<1>3. ASSUME NEW i \in DOMAIN stats PROVE i \in DOMAIN stats' /\ stats'[i].mark >= stats[i].mark
  <2>1. CASE stats' = stats
    BY <1>2, <2>1
  <2>2. CASE k \in DOMAIN stats /\ NotCounted(k, h) /\ stats' = [stats EXCEPT ![k] = Counted(s, k)]
    <3>1. Counted(s, k).mark = h
      BY DEF Counted, h
    <3>2. stats[k].mark < h
      BY <2>2 DEF NotCounted
    <3>3. i \in DOMAIN stats' /\ (stats'[i] = stats[i] \/ (i = k /\ stats'[i].mark = h))
      BY <2>2, <3>1
    <3> QED
      BY <1>2, <3>2, <3>3
  <2> QED
    BY <1>1, <2>1, <2>2
<1>4. ASSUME NEW o \in Seed, o # s PROVE CountOf(o)'
  <2>1. UNCHANGED <<writer[o], known[o]>> /\ owed'[o] \subseteq owed[o]
    BY <1>1, <1>4 DEF Typed, WriterTyped
  <2> QED
    BY <1>3, <2>1, CountsKept
<1>5. CountOf(s)'
  <2>1. W(s)'.pc = "count" /\ W(s)'.next = W(s).next + 1 /\ W(s)'.height = h
    BY <1>1 DEF Typed, WriterTyped, W, h
  <2>2. List(s)' = List(s) /\ List(s) \in Seq(Key)
    BY <1>1, ListHolds, SameList
  <2>3. ASSUME NEW i \in owed'[s]
        PROVE  i \in DOMAIN stats' /\ (stats'[i].mark >= h \/ StillAhead(s, i)')
    <3>1. i \in DOMAIN stats /\ (stats[i].mark >= h \/ StillAhead(s, i))
      BY <1>1, <2>3 DEF CountInv, CountOf, h
    <3>2. i \in DOMAIN stats' /\ stats'[i].mark >= stats[i].mark
      BY <1>3, <3>1
    <3>3. stats'[i].mark \in Int
      BY <3>2 DEF Typed, StatsTyped
    <3>4. CASE stats[i].mark >= h
      BY <1>2, <3>1, <3>2, <3>3, <3>4
    <3>5. CASE StillAhead(s, i)
      <4>1. PICK n \in DOMAIN List(s) : n >= W(s).next /\ List(s)[n] = i
        BY <3>5 DEF StillAhead
      <4>2. n \in Nat /\ W(s).next \in Nat
        BY <2>2, <4>1 DEF Typed, WriterTyped, W
      <4>3. CASE n = W(s).next
        <5>1. i = k
          BY <4>1, <4>3 DEF k
        <5>2. CASE stats' = [stats EXCEPT ![k] = Counted(s, k)]
          <6>1. stats'[i].mark = h
            BY <3>1, <5>1, <5>2 DEF Counted, h
          <6> QED
            BY <1>2, <3>2, <6>1
        <5>3. CASE ~NotCounted(k, h) /\ stats' = stats
          BY <1>2, <3>1, <3>2, <5>1, <5>3 DEF NotCounted
        <5> QED
          BY <1>1, <3>1, <5>1, <5>2, <5>3
      <4>4. CASE n # W(s).next
        <5>1. n >= W(s).next + 1
          BY <4>1, <4>2, <4>4
        <5>2. StillAhead(s, i)'
          BY <2>1, <2>2, <4>1, <5>1 DEF StillAhead
        <5> QED
          BY <3>2, <5>2
      <4> QED
        BY <4>3, <4>4
    <3> QED
      BY <3>1, <3>4, <3>5
  <2> QED
    BY <2>1, <2>3 DEF CountOf
<1> QED
  BY <1>4, <1>5 DEF CountInv

\* A writer that is through its list has nobody ahead.
LEMMA NobodyAhead ==
    ASSUME Typed, NEW s \in Seed, W(s).next > Len(List(s)), NEW k
    PROVE  ~StillAhead(s, k)
<1>1. List(s) \in Seq(Key) /\ W(s).next \in Nat
  BY ListHolds DEF Typed, WriterTyped, W
<1>2. \A i \in DOMAIN List(s) : ~(i >= W(s).next)
  BY <1>1
<1> QED
  BY <1>2 DEF StillAhead

LEMMA CountsFound ==
    ASSUME Typed, Typed', CountInv, NEW s \in Seed, FindRound(s)
    PROVE  CountOf(s)'
<1>1. W(s).pc = "count" /\ W(s).next > Len(List(s)) /\ UNCHANGED <<stats, owed>>
  BY DEF FindRound
<1>2. W(s)'.pc \in {"round", "load"} /\ W(s)'.height = W(s).height
  BY DEF FindRound, W, Typed, WriterTyped
<1>3. \A k \in owed[s] : k \in DOMAIN stats /\ stats[k].mark >= W(s).height
  BY <1>1, NobodyAhead DEF CountInv, CountOf
<1> QED
  BY <1>1, <1>2, <1>3 DEF CountOf

\* A refused update takes the key off the account of its writer.
LEMMA CountsRefused ==
    ASSUME Typed, Typed', CountInv, NEW s \in Seed, RefuseWrite(s)
    PROVE  CountOf(s)'
<1>1. CASE writer' = [writer EXCEPT ![s].pc = "load"]
  <2>1. W(s)'.pc = "load"
    BY <1>1 DEF W, Typed, WriterTyped
  <2> QED
    BY <2>1 DEF CountOf
<1>2. CASE /\ W(s).pc = "count"
           /\ owed' = [owed EXCEPT ![s] = @ \ {List(s)[W(s).next]}]
           /\ Skip(s)
  <2>1. /\ W(s)'.pc = "count" /\ W(s)'.next = W(s).next + 1 /\ W(s)'.height = W(s).height
        /\ owed'[s] = owed[s] \ {List(s)[W(s).next]}
    BY <1>2 DEF Skip, W, Typed, WriterTyped
  <2>2. stats' = stats /\ List(s)' = List(s) /\ List(s) \in Seq(Key)
    BY ListHolds, SameList DEF RefuseWrite
  <2>3. ASSUME NEW k \in owed'[s], StillAhead(s, k) PROVE StillAhead(s, k)'
    <3>1. PICK n \in DOMAIN List(s) : n >= W(s).next /\ List(s)[n] = k
      BY <2>3 DEF StillAhead
    <3>2. n \in Nat /\ W(s).next \in Nat /\ n # W(s).next
      BY <2>1, <2>2, <2>3, <3>1 DEF Typed, WriterTyped, W
    <3>3. n >= W(s).next + 1
      BY <3>1, <3>2
    <3> QED
      BY <2>1, <2>2, <3>1, <3>3 DEF StillAhead
  <2>4. \A k \in owed[s] : k \in DOMAIN stats /\ (stats[k].mark >= W(s).height \/ StillAhead(s, k))
    BY <1>2 DEF CountInv, CountOf
  <2> QED
    BY <2>1, <2>2, <2>3, <2>4 DEF CountOf
<1> QED
  BY <1>1, <1>2 DEF RefuseWrite

LEMMA CountsStep ==
    ASSUME Typed, Typed', CountInv, [Next]_vars
    PROVE  CountInv'
\* Statistics that stay are marked as before.
<1> DEFINE Same == \A k \in DOMAIN stats : stats[k].mark >= stats[k].mark
<1>1. Same
  BY DEF Typed, StatsTyped
<1>2. ASSUME NEW s \in Seed, CountOf(s)', UNCHANGED stats,
             \A o \in Seed \ {s} : UNCHANGED <<writer[o], known[o], owed[o]>>
      PROVE  CountInv'
  BY <1>1, <1>2, CountsKept DEF CountInv
<1>3. ASSUME NEW s \in Seed, EndRound(s) \/ InsertRound(s) \/ Reload(s) \/ Crash(s) PROVE CountInv'
  <2>1. W(s)'.pc \in {"status", "load", "idle"}
    BY <1>3 DEF EndRound, InsertRound, Reload, Crash, W, Typed, WriterTyped
  <2>2. CountOf(s)'
    BY <2>1 DEF CountOf
  <2>3. /\ UNCHANGED stats
        /\ \A o \in Seed \ {s} : UNCHANGED <<writer[o], known[o], owed[o]>>
    BY <1>3 DEF EndRound, InsertRound, Reload, Crash, Typed, WriterTyped, SeedsTyped
  <2> QED
    BY <1>2, <2>2, <2>3
<1>4. ASSUME NEW s \in Seed, BeginCount(s) \/ FindRound(s) \/ RefuseWrite(s) PROVE CountInv'
  <2>1. CountOf(s)'
    BY <1>4, CountsBegun, CountsFound, CountsRefused
  <2>2. /\ UNCHANGED stats
        /\ \A o \in Seed \ {s} : UNCHANGED <<writer[o], known[o], owed[o]>>
    BY <1>4 DEF BeginCount, FindRound, RefuseWrite, Skip, Typed, WriterTyped, SeedsTyped
  <2> QED
    BY <1>2, <2>1, <2>2
<1>5. ASSUME NEW s \in Seed, Run(s) PROVE CountInv'
  <2>1. W(s)'.pc = "idle"
    BY <1>5 DEF Run, W, Typed, WriterTyped
  <2>2. CountOf(s)'
    BY <2>1 DEF CountOf
  <2>3. /\ UNCHANGED stats
        /\ \A o \in Seed \ {s} : UNCHANGED <<writer[o], known[o], owed[o]>>
    BY <1>5 DEF Run, Typed, SeedsTyped
  <2> QED
    BY <1>2, <2>2, <2>3
<1>6. ASSUME UNCHANGED <<writer, known, owed, stats>> PROVE CountInv'
  <2>1. \A o \in Seed : UNCHANGED <<writer[o], known[o], owed[o]>>
    BY <1>6
  <2>2. \A o \in Seed : CountOf(o)'
    BY <1>1, <1>6, <2>1, CountsKept
  <2> QED
    BY <2>2 DEF CountInv
<1>7. ASSUME NEW s \in Seed, InsertSeedStats(s) PROVE CountInv'
  <2>1. Genesis[at[s]].key \in Key
    BY GenesisDocuments DEF Typed, SeedsTyped, IsDocument
  <2>2. /\ UNCHANGED <<writer, known, owed>>
        /\ \/ UNCHANGED stats
           \/ Genesis[at[s]].key \notin DOMAIN stats /\ InsertStats(Genesis[at[s]].key)
    BY <1>7 DEF InsertSeedStats
  <2> QED
    BY <2>1, <2>2, <1>6, CountsInserted
<1>8. ASSUME NEW j \in Jobs, InsertDelegateStats(j) PROVE CountInv'
  <2>1. j[2].doc.key \in Key
    BY <1>8, Requested DEF InsertDelegateStats, JobAt, Typed, JobsTyped, Registering, IsDocument
  <2>2. /\ UNCHANGED <<writer, known, owed>>
        /\ \/ UNCHANGED stats
           \/ j[2].doc.key \notin DOMAIN stats /\ InsertStats(j[2].doc.key)
    BY <1>8 DEF InsertDelegateStats
  <2> QED
    BY <2>1, <2>2, <1>6, CountsInserted
<1>9. ASSUME RemoveStats PROVE CountInv'
  <2> DEFINE k == Head(file.left).key
  <2>1. /\ stats' = Without(stats, k) /\ owed' = [s \in Seed |-> owed[s] \ {k}]
        /\ UNCHANGED <<writer, known>>
    BY <1>9 DEF RemoveStats, StatsWithout
  <2> HIDE DEF k
  <2>2. \A o \in Seed : owed'[o] \subseteq owed[o] /\ k \notin owed'[o]
    BY <2>1
  <2>3. \A i \in DOMAIN stats : i # k => i \in DOMAIN stats' /\ stats'[i].mark >= stats[i].mark
    BY <1>1, <2>1 DEF Without
  <2>4. ASSUME NEW o \in Seed PROVE CountOf(o)'
    <3>1. \A i \in owed'[o] \cap DOMAIN stats : i \in DOMAIN stats' /\ stats'[i].mark >= stats[i].mark
      BY <2>2, <2>3
    <3> QED
      BY <2>1, <2>2, <3>1, CountsKept
  <2> QED
    BY <2>4 DEF CountInv
<1> QED
  BY <1>3, <1>4, <1>5, <1>7, <1>8, <1>9, <1>6, CountsPassed, WhoChanges DEF Changes, Write

\* A seed that has been through its list leaves no delegate uncounted, whoever
\* counted it, unless the database refused the update (the loop over
\* delegates_all in start_block_production).
THEOREM NobodyUncounted == Spec => []StatisticsComplete
<1>1. Typed /\ CountInv => StatisticsComplete
  <2> SUFFICES ASSUME Typed, CountInv, NEW s \in Seed,
                      W(s).pc = "round" \/ (W(s).pc = "count" /\ W(s).next > Len(List(s))),
                      NEW k \in owed[s]
               PROVE  k \in DOMAIN stats /\ stats[k].mark >= W(s).height
    BY DEF StatisticsComplete
  <2>1. k \in DOMAIN stats /\ (stats[k].mark >= W(s).height \/ StillAhead(s, k))
    BY DEF CountInv, CountOf
  <2>2. ~StillAhead(s, k)
    BY NobodyAhead DEF StillAhead
  <2> QED
    BY <2>1, <2>2
<1> QED
  BY <1>1, TypesInit, TypesStep, CountsInit, CountsStep, PTL DEF Spec

-----------------------------------------------------------------------------
(* A delegate and its statistics                                           *)

\* Who is between the two writes for k: a seed that starts, a job, the file.
BySeed(s, k) == boot[s] = "stats" /\ Genesis[at[s]].key = k
ByJob(j, k) == job[j].pc = "stats" /\ j[2].doc.key = k
ByFile(k) == file.pc = "stats" /\ Head(file.left).key = k

LEMMA BetweenIs ==
    ASSUME NEW k
    PROVE  Between(k) <=> (\E s \in Seed : BySeed(s, k)) \/ (\E j \in Jobs : ByJob(j, k)) \/ ByFile(k)
BY DEF Between, BySeed, ByJob, ByFile, Jobs

\* At most one of them is, one that inserts has written the delegate only, one
\* that deletes has deleted it, and without any the two documents are there or
\* not together.
PairOf(k) ==
    /\ \A s, t \in Seed : BySeed(s, k) /\ BySeed(t, k) => s = t
    /\ \A i, j \in Jobs : ByJob(i, k) /\ ByJob(j, k) => i = j
    /\ \A s \in Seed : BySeed(s, k) => /\ k \in Keys /\ k \notin DOMAIN stats
                                       /\ ~ByFile(k) /\ \A j \in Jobs : ~ByJob(j, k)
    /\ \A j \in Jobs : ByJob(j, k) => k \in Keys /\ k \notin DOMAIN stats /\ ~ByFile(k)
    /\ ByFile(k) => k \notin Keys
    /\ ~Between(k) => (k \in Keys <=> k \in DOMAIN stats)

PairInv == \A k \in Key \ torn : PairOf(k)

LEMMA PairsInit == Init => PairInv
<1> SUFFICES ASSUME Init PROVE PairInv
  OBVIOUS
<1>1. /\ \A s \in Seed : boot[s] \in {"down", "up"}
      /\ \A j \in Jobs : job[j].pc \in {"new", "none"}
      /\ file.pc = "new"
  BY DEF Init, Empty, AtWork, Jobs
<1>2. Keys = DOMAIN stats
  <2>1. CASE Empty
    <3>1. Keys = {} /\ stats = <<>>
      BY <2>1 DEF Empty, Keys
    <3> QED
      BY <3>1
  <2>2. CASE AtWork
    BY <2>2 DEF AtWork, Keys
  <2> QED
    BY <2>1, <2>2 DEF Init
<1>3. ASSUME NEW k PROVE PairOf(k)
  <2>1. (\A s \in Seed : ~BySeed(s, k)) /\ (\A j \in Jobs : ~ByJob(j, k)) /\ ~ByFile(k)
    BY <1>1 DEF BySeed, ByJob, ByFile
  <2> QED
    BY <1>2, <2>1 DEF PairOf
<1> QED
  BY <1>3 DEF PairInv

\* A step is nothing to k.
Same(k) ==
    /\ \A s \in Seed : BySeed(s, k)' <=> BySeed(s, k)
    /\ \A j \in Jobs : ByJob(j, k)' <=> ByJob(j, k)
    /\ ByFile(k)' <=> ByFile(k)
    /\ k \in Keys' <=> k \in Keys
    /\ k \in DOMAIN stats' <=> k \in DOMAIN stats

LEMMA PairKept ==
    ASSUME PairInv, torn \subseteq torn', NEW k \in Key \ torn', Same(k)
    PROVE  PairOf(k)'
<1>1. PairOf(k)
  BY DEF PairInv
<1>2. Between(k)' <=> (\E s \in Seed : BySeed(s, k)') \/ (\E j \in Jobs : ByJob(j, k)') \/ ByFile(k)'
  BY DEF Between, BySeed, ByJob, ByFile, Jobs
<1>3. Between(k)' <=> Between(k)
  BY <1>2, BetweenIs DEF Same
<1> QED
  BY <1>1, <1>3, Zenon DEF PairOf, Same

\* The same where a step concerns no key, and where it concerns one.
LEMMA PairsKept ==
    ASSUME PairInv, torn \subseteq torn', \A k \in Key \ torn' : Same(k)
    PROVE  PairInv'
BY PairKept DEF PairInv

LEMMA OthersKept ==
    ASSUME PairInv, torn \subseteq torn', NEW key, \A k \in Key \ torn' : k # key => Same(k),
           key \in Key \ torn' => PairOf(key)'
    PROVE  PairInv'
BY PairKept DEF PairInv

\* A job that neither is nor comes between two writes.
LEMMA PairsJob ==
    ASSUME Typed, Typed', PairInv, NEW j \in Jobs,
           \A i \in Jobs \ {j} : job'[i] = job[i],
           job[j].pc # "stats", job'[j].pc # "stats",
           UNCHANGED <<boot, at, file, torn, stats>>, Keys' = Keys
    PROVE  PairInv'
<1>1. \A k \in Key : Same(k)
  BY DEF Same, BySeed, ByJob, ByFile
<1> QED
  BY <1>1, PairsKept

\* A job enters or leaves between the two writes of the key of its document.
LEMMA PairsInserted ==
    ASSUME Typed, Typed', PairInv, NEW j \in Jobs, InsertDelegate(j)
    PROVE  PairInv'
<1> DEFINE key == j[2].doc.key
<1>1. CASE job'[j].pc = "refused" /\ UNCHANGED <<delegates, torn>>
  <2>1. /\ \A i \in Jobs \ {j} : job'[i] = job[i]
        /\ job[j].pc # "stats" /\ job'[j].pc # "stats"
        /\ UNCHANGED <<boot, at, file, torn, stats>> /\ Keys' = Keys
    BY <1>1 DEF InsertDelegate, JobAt, GoTo, Typed, JobsTyped, Keys
  <2> QED
    BY <2>1, PairsJob
<1>2. CASE ~Refuses(j[2].doc) /\ GoTo(j, "stats") /\ delegates' = delegates \cup {j[2].doc} /\ Enter(key)
  <2>1. /\ \A i \in Jobs \ {j} : job'[i] = job[i]
        /\ job[j].pc # "stats" /\ job'[j].pc = "stats"
        /\ UNCHANGED <<boot, at, file, stats>>
    BY <1>2 DEF InsertDelegate, JobAt, GoTo, Typed, JobsTyped
  <2>2. Keys' = Keys \cup {key} /\ key \notin Keys
    BY <1>2 DEF Keys, Refuses
  <2>3. torn \subseteq torn' /\ (key \notin torn' => ~Between(key))
    BY <1>2 DEF Enter
  <2> HIDE DEF key
  <2>4. ASSUME NEW k \in Key, k # key PROVE Same(k)
    BY <2>1, <2>2, <2>4 DEF Same, BySeed, ByJob, ByFile, key
  <2>5. ASSUME key \in Key \ torn' PROVE PairOf(key)'
    <3>1. PairOf(key) /\ ~Between(key)
      BY <2>3, <2>5 DEF PairInv
    <3>2. /\ \A s \in Seed : ~BySeed(s, key)' /\ ~ByFile(key)'
          /\ \A i \in Jobs : ByJob(i, key)' <=> i = j
      BY <2>1, <3>1, BetweenIs DEF BySeed, ByJob, ByFile, key
    <3>3. key \in Keys' /\ key \notin DOMAIN stats'
      BY <2>1, <2>2, <3>1 DEF PairOf
    <3>4. ByJob(j, key)' => Between(key)'
      BY DEF ByJob, Between, Jobs
    <3>5. Between(key)' /\ ~ByFile(key)'
      BY <2>1, <3>1, <3>2, <3>4, BetweenIs DEF ByFile
    <3> QED
      BY <3>2, <3>3, <3>5, Zenon DEF PairOf
  <2> QED
    BY <2>3, <2>4, <2>5, OthersKept
<1>3. GoTo(j, "refused") => job'[j].pc = "refused"
  BY DEF GoTo, Typed, JobsTyped
<1> QED
  BY <1>1, <1>2, <1>3 DEF InsertDelegate

LEMMA PairsCompleted ==
    ASSUME Typed, Typed', PairInv, NEW j \in Jobs, InsertDelegateStats(j)
    PROVE  PairInv'
<1> DEFINE key == j[2].doc.key
<1>1. /\ \A i \in Jobs \ {j} : job'[i] = job[i]
      /\ job[j].pc = "stats" /\ job'[j].pc # "stats"
      /\ UNCHANGED <<delegates, boot, at, file, torn>>
      /\ key \in DOMAIN stats => stats' = stats
      /\ key \notin DOMAIN stats => DOMAIN stats' = DOMAIN stats \cup {key}
  <2>1. \E pc \in {"refused", "registered"} : job' = [job EXCEPT ![j].pc = pc]
    BY DEF InsertDelegateStats, GoTo
  <2>2. /\ \A i \in Jobs \ {j} : job'[i] = job[i]
        /\ job'[j].pc # "stats"
    BY <2>1 DEF Typed, JobsTyped
  <2>3. /\ job[j].pc = "stats"
        /\ UNCHANGED <<delegates, boot, at, file, torn>>
        /\ key \in DOMAIN stats => stats' = stats
        /\ key \notin DOMAIN stats => stats' = With(stats, key, NewStats)
    BY DEF InsertDelegateStats, JobAt, InsertStats, bootVars
  <2> QED
    BY <2>2, <2>3 DEF With
<1>2. ByJob(j, key)
  BY <1>1 DEF ByJob
<1> HIDE DEF key
<1>3. ASSUME NEW k \in Key, k # key PROVE Same(k)
  BY <1>1, <1>3 DEF Same, BySeed, ByJob, ByFile, key, Keys
<1>4. ASSUME key \in Key \ torn' PROVE PairOf(key)'
  <2>1. PairOf(key)
    BY <1>1, <1>4 DEF PairInv
  <2>2. /\ \A s \in Seed : ~BySeed(s, key)
        /\ \A i \in Jobs : ByJob(i, key) => i = j
        /\ ~ByFile(key) /\ key \in Keys /\ key \notin DOMAIN stats
    BY <1>2, <2>1 DEF PairOf
  <2>3. /\ \A s \in Seed : ~BySeed(s, key)'
        /\ \A i \in Jobs : ~ByJob(i, key)'
        /\ ~ByFile(key)' /\ key \in Keys' /\ key \in DOMAIN stats'
    BY <1>1, <2>2 DEF BySeed, ByJob, ByFile, Keys
  <2> QED
    BY <2>3, Zenon DEF PairOf
<1> QED
  BY <1>1, <1>3, <1>4, OthersKept

\* A seed that neither is nor comes between two writes.
LEMMA PairsSeed ==
    ASSUME Typed, Typed', PairInv, NEW s \in Seed,
           \A t \in Seed \ {s} : boot'[t] = boot[t] /\ at'[t] = at[t],
           boot[s] # "stats", boot'[s] # "stats",
           UNCHANGED <<job, file, torn, stats>>, Keys' = Keys
    PROVE  PairInv'
<1>1. \A k \in Key : Same(k)
  BY DEF Same, BySeed, ByJob, ByFile
<1> QED
  BY <1>1, PairsKept

LEMMA PairsSeedInserted ==
    ASSUME Typed, Typed', PairInv, NEW s \in Seed, InsertSeed(s)
    PROVE  PairInv'
<1>0. PICK key : key = Genesis[at[s]].key
  OBVIOUS
<1>1. /\ \A t \in Seed \ {s} : boot'[t] = boot[t] /\ at'[t] = at[t]
      /\ at' = at /\ boot[s] = "insert"
      /\ UNCHANGED <<job, file, stats>>
  BY <1>0 DEF InsertSeed, jobVars, Typed, SeedsTyped
<1>2. CASE boot' = [boot EXCEPT ![s] = "down"] /\ UNCHANGED <<delegates, torn>>
  <2>1. boot'[s] # "stats" /\ Keys' = Keys
    BY <1>0, <1>2 DEF Typed, SeedsTyped, Keys
  <2> QED
    BY <1>1, <1>2, <2>1, PairsSeed
<1>3. CASE /\ boot' = [boot EXCEPT ![s] = "stats"]
           /\ ~Refuses(Genesis[at[s]]) /\ delegates' = delegates \cup {Genesis[at[s]]} /\ Enter(key)
  <2>1. boot'[s] = "stats"
    BY <1>3 DEF Typed, SeedsTyped
  <2>2. Keys' = Keys \cup {key} /\ key \notin Keys
    BY <1>0, <1>3 DEF Keys, Refuses
  <2>3. torn \subseteq torn' /\ (key \notin torn' => ~Between(key))
    BY <1>0, <1>3 DEF Enter
  <2>4. ASSUME NEW k \in Key, k # key PROVE Same(k)
    BY <1>0, <1>1, <2>1, <2>2, <2>4 DEF Same, BySeed, ByJob, ByFile
  <2>5. ASSUME key \in Key \ torn' PROVE PairOf(key)'
    <3>1. PairOf(key) /\ ~Between(key)
      BY <2>3, <2>5 DEF PairInv
    <3>2. /\ \A j \in Jobs : ~ByJob(j, key)'
          /\ ~ByFile(key)'
          /\ \A t \in Seed : BySeed(t, key)' <=> t = s
      BY <1>0, <1>1, <2>1, <3>1, BetweenIs DEF BySeed, ByJob, ByFile
    <3>3. key \in Keys' /\ key \notin DOMAIN stats'
      BY <1>1, <2>2, <3>1 DEF PairOf
    <3>4. Between(key)'
      BY <1>0, <3>2 DEF BySeed, Between
    <3> QED
      BY <3>2, <3>3, <3>4, Zenon DEF PairOf
  <2> QED
    BY <2>3, <2>4, <2>5, OthersKept
<1> QED
  BY <1>0, <1>2, <1>3 DEF InsertSeed

LEMMA PairsSeedCompleted ==
    ASSUME Typed, Typed', PairInv, NEW s \in Seed, InsertSeedStats(s)
    PROVE  PairInv'
<1>0. PICK key : key = Genesis[at[s]].key
  OBVIOUS
<1>1. /\ boot[s] = "stats" /\ boot'[s] # "stats"
      /\ \A t \in Seed \ {s} : boot'[t] = boot[t] /\ at'[t] = at[t]
      /\ UNCHANGED <<delegates, job, file, torn>>
      /\ key \in DOMAIN stats => stats' = stats
      /\ key \notin DOMAIN stats => DOMAIN stats' = DOMAIN stats \cup {key}
  <2>1. /\ boot[s] = "stats" /\ UNCHANGED <<delegates, job, file, torn>>
        /\ \E pc \in {"down", "seed indexes", "indexes", "insert"} : boot' = [boot EXCEPT ![s] = pc]
        /\ \A t \in Seed \ {s} : at'[t] = at[t]
    BY <1>0 DEF InsertSeedStats, NextSeed, jobVars, Typed, SeedsTyped
  <2>2. /\ key \in DOMAIN stats => stats' = stats
        /\ key \notin DOMAIN stats => stats' = With(stats, key, NewStats)
    BY <1>0 DEF InsertSeedStats, InsertStats
  <2> QED
    BY <2>1, <2>2 DEF With, Typed, SeedsTyped
<1>2. BySeed(s, key)
  BY <1>0, <1>1 DEF BySeed
<1>3. ASSUME NEW k \in Key, k # key PROVE Same(k)
  BY <1>0, <1>1, <1>3 DEF Same, BySeed, ByJob, ByFile, Keys
<1>4. ASSUME key \in Key \ torn' PROVE PairOf(key)'
  <2>1. PairOf(key)
    BY <1>1, <1>4 DEF PairInv
  <2>2. /\ \A t \in Seed : BySeed(t, key) => t = s
        /\ \A j \in Jobs : ~ByJob(j, key)
        /\ ~ByFile(key) /\ key \in Keys /\ key \notin DOMAIN stats
    BY <1>2, <2>1 DEF PairOf
  <2>3. /\ \A t \in Seed : ~BySeed(t, key)'
        /\ \A j \in Jobs : ~ByJob(j, key)'
        /\ ~ByFile(key)' /\ key \in Keys' /\ key \in DOMAIN stats'
    BY <1>0, <1>1, <2>2 DEF BySeed, ByJob, ByFile, Keys
  <2> QED
    BY <2>3, Zenon DEF PairOf
<1> QED
  BY <1>1, <1>3, <1>4, OthersKept

\* DEL comes between its two deletions.
LEMMA PairsRemoved ==
    ASSUME Typed, Typed', PairInv, RemoveDelegate
    PROVE  PairInv'
<1>0. PICK key : key = Head(file.left).key
  OBVIOUS
<1>1. /\ delegates' = {d \in delegates : d.key # key} /\ Enter(key)
      /\ file.pc = "line" /\ file'.pc = "stats" /\ file'.left = file.left
      /\ UNCHANGED <<boot, at, job, stats>>
  BY <1>0 DEF RemoveDelegate, Line, bootVars, jobVars, Typed, FileTyped
<1>2. Keys' = Keys \ {key}
  BY <1>0, <1>1 DEF Keys
<1>3. torn \subseteq torn' /\ (key \notin torn' => ~Between(key))
  BY <1>0, <1>1 DEF Enter
<1>4. ByFile(key)'
  BY <1>0, <1>1 DEF ByFile
<1>5. \A k : k # key => ~ByFile(k)' /\ ~ByFile(k)
  BY <1>0, <1>1 DEF ByFile
<1>6. ASSUME NEW k \in Key, k # key PROVE Same(k)
  BY <1>0, <1>1, <1>2, <1>5, <1>6 DEF Same, BySeed, ByJob
<1>7. ASSUME key \in Key \ torn' PROVE PairOf(key)'
  <2>1. (\A s \in Seed : ~BySeed(s, key)') /\ (\A j \in Jobs : ~ByJob(j, key)')
    BY <1>0, <1>1, <1>3, <1>7, BetweenIs DEF BySeed, ByJob
  <2>2. key \notin Keys'
    BY <1>2
  <2>3. Between(key)'
    BY <1>0, <1>4 DEF Between, ByFile
  <2> QED
    BY <2>1, <2>2, <2>3, Zenon DEF PairOf
<1> QED
  BY <1>3, <1>6, <1>7, OthersKept

LEMMA PairsStatsRemoved ==
    ASSUME Typed, Typed', PairInv, RemoveStats
    PROVE  PairInv'
<1>0. PICK key : key = Head(file.left).key
  OBVIOUS
<1>1. /\ stats' = Without(stats, key)
      /\ file.pc = "stats" /\ file'.pc = "line"
      /\ UNCHANGED <<delegates, boot, at, job, torn>>
  BY <1>0 DEF RemoveStats, StatsWithout, Rest, bootVars, jobVars
<1>2. ByFile(key) /\ \A k : ~ByFile(k)' /\ (k # key => ~ByFile(k))
  BY <1>0, <1>1 DEF ByFile
<1>3. DOMAIN stats' = DOMAIN stats \ {key} /\ Keys' = Keys
  BY <1>0, <1>1 DEF Without, Keys
<1>4. ASSUME NEW k \in Key, k # key PROVE Same(k)
  BY <1>0, <1>1, <1>2, <1>3, <1>4 DEF Same, BySeed, ByJob
<1>5. ASSUME key \in Key \ torn' PROVE PairOf(key)'
  <2>1. PairOf(key)
    BY <1>1, <1>5 DEF PairInv
  <2>2. (\A s \in Seed : ~BySeed(s, key)) /\ (\A j \in Jobs : ~ByJob(j, key)) /\ key \notin Keys
    BY <1>2, <2>1 DEF PairOf
  <2>3. /\ \A s \in Seed : ~BySeed(s, key)'
        /\ \A j \in Jobs : ~ByJob(j, key)'
        /\ key \notin Keys' /\ key \notin DOMAIN stats'
    BY <1>0, <1>1, <1>3, <2>2 DEF BySeed, ByJob
  <2> QED
    BY <1>2, <2>3, Zenon DEF PairOf
<1> QED
  BY <1>1, <1>4, <1>5, OthersKept

\* Whoever is cut off between the two writes tears them apart.
LEMMA PairsJobRefused ==
    ASSUME Typed, Typed', PairInv, NEW j \in Jobs, RefuseJob(j)
    PROVE  PairInv'
<1>1. /\ \A i \in Jobs \ {j} : job'[i] = job[i]
      /\ job'[j].pc = "refused"
      /\ UNCHANGED <<delegates, stats, boot, at, file>>
      /\ torn \subseteq torn'
      /\ job[j].pc = "stats" => j[2].doc.key \in torn'
  BY DEF RefuseJob, GoTo, bootVars, Typed, JobsTyped
<1>2. ASSUME NEW k \in Key \ torn' PROVE Same(k)
  BY <1>1 DEF Same, BySeed, ByJob, ByFile, Keys
<1> QED
  BY <1>1, <1>2, PairsKept

LEMMA PairsBootRefused ==
    ASSUME Typed, Typed', PairInv, NEW s \in Seed, RefuseBoot(s)
    PROVE  PairInv'
<1>1. /\ \A t \in Seed \ {s} : boot'[t] = boot[t]
      /\ boot'[s] = "down" /\ at' = at
      /\ UNCHANGED <<delegates, stats, job, file>>
      /\ torn \subseteq torn'
      /\ boot[s] = "stats" => Genesis[at[s]].key \in torn'
  BY DEF RefuseBoot, jobVars, Typed, SeedsTyped
<1>2. ASSUME NEW k \in Key \ torn' PROVE Same(k)
  BY <1>1 DEF Same, BySeed, ByJob, ByFile, Keys
<1> QED
  BY <1>1, <1>2, PairsKept

LEMMA PairsLineRefused ==
    ASSUME Typed, Typed', PairInv, RefuseLine
    PROVE  PairInv'
<1> DEFINE key == Head(file.left).key
<1>1. /\ UNCHANGED <<delegates, stats, job, boot, at>>
      /\ torn \subseteq torn'
      /\ file'.pc = "stats" => file'.left = file.left /\ key \in torn'
      /\ file.pc = "stats" => key \in torn'
  BY DEF RefuseLine, Rest, bootVars, jobVars, Typed, FileTyped
<1>2. ASSUME NEW k \in Key \ torn' PROVE ~ByFile(k) /\ ~ByFile(k)'
  BY <1>1 DEF ByFile
<1>3. ASSUME NEW k \in Key \ torn' PROVE Same(k)
  BY <1>1, <1>2 DEF Same, BySeed, ByJob, Keys
<1> QED
  BY <1>1, <1>3, PairsKept

LEMMA PairsCrash ==
    ASSUME Typed, Typed', PairInv, NEW s \in Seed, Crash(s)
    PROVE  PairInv'
<1>1. torn \subseteq torn' /\ UNCHANGED <<delegates, stats, at>>
  BY DEF Crash
<1>2. boot'[s] = "down" /\ \A t \in Seed \ {s} : boot'[t] = boot[t]
  BY DEF Crash, Typed, SeedsTyped
<1>3. \A j \in Jobs : \/ job'[j] = job[j] /\ (j[1] # s \/ job[j].pc # "stats")
                      \/ job'[j].pc = "refused" /\ j[1] = s
  BY DEF Crash, InFlight, Jobs
<1>4. \/ file' = file /\ (s # Maintainer \/ file.pc # "stats")
      \/ file'.pc = "line" /\ s = Maintainer
  BY DEF Crash
<1>5. ASSUME NEW k \in Key \ torn'
      PROVE  /\ ~BySeed(s, k)
             /\ \A j \in Jobs : j[1] = s => ~ByJob(j, k)
             /\ s = Maintainer => ~ByFile(k)
  <2>1. /\ ~(boot[s] = "stats" /\ Genesis[at[s]].key = k)
        /\ ~ \E j \in {s} \X Request : job[j].pc = "stats" /\ j[2].doc.key = k
        /\ ~(s = Maintainer /\ file.pc = "stats" /\ Head(file.left).key = k)
    BY Zenon DEF Crash
  <2>2. \A j \in Jobs : j[1] = s => j \in {s} \X Request
    BY DEF Jobs
  <2> QED
    BY <2>1, <2>2 DEF BySeed, ByJob, ByFile
<1>6. ASSUME NEW k \in Key \ torn' PROVE Same(k)
  <2>1. \A t \in Seed : BySeed(t, k)' <=> BySeed(t, k)
    BY <1>1, <1>2, <1>5 DEF BySeed
  <2>2. \A j \in Jobs : ByJob(j, k)' <=> ByJob(j, k)
    BY <1>3, <1>5 DEF ByJob
  <2>3. ByFile(k)' <=> ByFile(k)
    BY <1>4, <1>5 DEF ByFile
  <2> QED
    BY <1>1, <2>1, <2>2, <2>3 DEF Same, Keys
<1> QED
  BY <1>1, <1>6, PairsKept

\* An update leaves the delegates their keys.
LEMMA SameKeys ==
    ASSUME Typed, NEW j \in Jobs, UpdateFields(j)
    PROVE  Keys' = Keys
<1> DEFINE Changed(d) == [d EXCEPT !.ip = j[2].ip]
<1>1. \A d \in delegates : Changed(d).key = d.key
  BY DEF Typed, DocsTyped, IsDocument, Fields
<1>2. \/ delegates' = delegates
      \/ delegates' = {d \in delegates : d.address # j[2].address} \cup
                         {Changed(d) : d \in {e \in delegates : e.address = j[2].address}}
  <2>1. delegates \ {d \in delegates : d.address = j[2].address} = {d \in delegates : d.address # j[2].address}
    OBVIOUS
  <2> QED
    BY <2>1 DEF UpdateFields
<1> HIDE DEF Changed
<1>3. ASSUME NEW d \in delegates PROVE \E e \in delegates' : e.key = d.key
  BY <1>1, <1>2
<1>4. ASSUME NEW e \in delegates' PROVE \E d \in delegates : e.key = d.key
  BY <1>1, <1>2
<1> QED
  BY <1>3, <1>4 DEF Keys

LEMMA PairsUntouched ==
    ASSUME PairInv, UNCHANGED <<delegates, torn, boot, at, job, file, stats>>
    PROVE  PairInv'
<1>1. \A k : Same(k)
  BY DEF Same, BySeed, ByJob, ByFile, Keys
<1> QED
  BY <1>1, PairsKept

\* Every step keeps the pairs.
LEMMA PairsStep ==
    ASSUME Typed, Typed', PairInv, [Next]_vars
    PROVE  PairInv'
<1>1. ASSUME NEW s \in Seed, Start(s) PROVE PairInv'
  <2>1. /\ \A t \in Seed \ {s} : boot'[t] = boot[t] /\ at'[t] = at[t]
        /\ boot[s] # "stats" /\ boot'[s] # "stats"
        /\ UNCHANGED <<job, file, torn, stats>> /\ Keys' = Keys
    BY <1>1 DEF Start, Typed, SeedsTyped, Keys, jobVars
  <2> QED
    BY <2>1, PairsSeed
<1>2. ASSUME NEW s \in Seed, CountDelegates(s) PROVE PairInv'
  <2>1. /\ \A t \in Seed \ {s} : boot'[t] = boot[t] /\ at'[t] = at[t]
        /\ boot[s] # "stats" /\ boot'[s] # "stats"
        /\ UNCHANGED <<job, file, torn, stats>> /\ Keys' = Keys
    BY <1>2 DEF CountDelegates, Typed, SeedsTyped, Keys, jobVars
  <2> QED
    BY <2>1, PairsSeed
<1>35. ASSUME NEW s \in Seed, MiscountDelegates(s) PROVE PairInv'
  <2>1. /\ \A t \in Seed \ {s} : boot'[t] = boot[t] /\ at'[t] = at[t]
        /\ boot[s] # "stats" /\ boot'[s] # "stats"
        /\ UNCHANGED <<job, file, torn, stats>> /\ Keys' = Keys
    BY <1>35 DEF MiscountDelegates, Typed, SeedsTyped, Keys, jobVars
  <2> QED
    BY <2>1, PairsSeed
<1>3. ASSUME NEW s \in Seed, InsertSeed(s) PROVE PairInv'
  BY <1>3, PairsSeedInserted
<1>4. ASSUME NEW s \in Seed, InsertSeedStats(s) PROVE PairInv'
  BY <1>4, PairsSeedCompleted
<1>5. ASSUME NEW s \in Seed, AddSeedIndexes(s) PROVE PairInv'
  <2>1. /\ \A t \in Seed \ {s} : boot'[t] = boot[t] /\ at'[t] = at[t]
        /\ boot[s] # "stats" /\ boot'[s] # "stats"
        /\ UNCHANGED <<job, file, torn, stats>> /\ Keys' = Keys
    BY <1>5 DEF AddSeedIndexes, NextSeed, Typed, SeedsTyped, Keys, jobVars
  <2> QED
    BY <2>1, PairsSeed
<1>6. ASSUME NEW s \in Seed, AddIndexes(s) PROVE PairInv'
  <2>1. /\ \A t \in Seed \ {s} : boot'[t] = boot[t] /\ at'[t] = at[t]
        /\ boot[s] # "stats" /\ boot'[s] # "stats"
        /\ UNCHANGED <<job, file, torn, stats>> /\ Keys' = Keys
    BY <1>6 DEF AddIndexes, Typed, SeedsTyped, Keys, jobVars
  <2> QED
    BY <2>1, PairsSeed
<1>7. ASSUME NEW s \in Seed, Run(s) PROVE PairInv'
  <2>1. /\ \A t \in Seed \ {s} : boot'[t] = boot[t] /\ at'[t] = at[t]
        /\ boot[s] # "stats" /\ boot'[s] # "stats"
        /\ UNCHANGED <<job, file, torn, stats>> /\ Keys' = Keys
    BY <1>7 DEF Run, Typed, SeedsTyped, Keys, jobVars
  <2> QED
    BY <2>1, PairsSeed
<1>8. ASSUME NEW j \in Jobs, CheckApproval(j) PROVE PairInv'
  <2>1. /\ \A i \in Jobs \ {j} : job'[i] = job[i]
        /\ job[j].pc # "stats" /\ job'[j].pc # "stats"
        /\ UNCHANGED <<boot, at, file, torn, stats>> /\ Keys' = Keys
    BY <1>8 DEF CheckApproval, JobAt, GoTo, Typed, JobsTyped, Keys, bootVars
  <2> QED
    BY <2>1, PairsJob
<1>9. ASSUME NEW j \in Jobs, NEW f \in Fields, CheckField(j, f) PROVE PairInv'
  <2>1. /\ \A i \in Jobs \ {j} : job'[i] = job[i]
        /\ job[j].pc # "stats" /\ job'[j].pc # "stats"
        /\ UNCHANGED <<boot, at, file, torn, stats>> /\ Keys' = Keys
    BY <1>9 DEF CheckField, JobAt, GoTo, After, Fields, Typed, JobsTyped, Keys, bootVars
  <2> QED
    BY <2>1, PairsJob
<1>10. ASSUME NEW j \in Jobs, NEW f \in Fields, MiscountField(j, f) PROVE PairInv'
  <2>1. /\ \A i \in Jobs \ {j} : job'[i] = job[i]
        /\ job[j].pc # "stats" /\ job'[j].pc # "stats"
        /\ UNCHANGED <<boot, at, file, torn, stats>> /\ Keys' = Keys
    BY <1>10 DEF MiscountField, JobAt, GoTo, After, Fields, Typed, JobsTyped, Keys, bootVars
  <2> QED
    BY <2>1, PairsJob
<1>11. ASSUME NEW j \in Jobs, CheckRoom(j) PROVE PairInv'
  <2>1. /\ \A i \in Jobs \ {j} : job'[i] = job[i]
        /\ job[j].pc # "stats" /\ job'[j].pc # "stats"
        /\ UNCHANGED <<boot, at, file, torn, stats>> /\ Keys' = Keys
    BY <1>11 DEF CheckRoom, JobAt, GoTo, Typed, JobsTyped, Keys, bootVars
  <2> QED
    BY <2>1, PairsJob
<1>12. ASSUME NEW j \in Jobs, InsertDelegate(j) PROVE PairInv'
  BY <1>12, PairsInserted
<1>13. ASSUME NEW j \in Jobs, InsertDelegateStats(j) PROVE PairInv'
  BY <1>13, PairsCompleted
<1>14. ASSUME NEW j \in Jobs, UpdateFields(j) PROVE PairInv'
  <2>1. \A n \in Nat : NextList(j, n).pc \in {"clear", "updated"}
    BY NextListIs
  <2>2. /\ \A i \in Jobs \ {j} : job'[i] = job[i]
        /\ job[j].pc \in {"new", "clear", "rows"}
    BY <1>14 DEF UpdateFields, JobAt, GoTo, Typed, JobsTyped
  <2>3. job'[j].pc # "stats"
    <3>1. job[j].list \in Nat /\ 0 \in Nat
      BY DEF Typed, JobsTyped, Job
    <3>2. job' = [job EXCEPT ![j].pc = "refused"] \/ job' = [job EXCEPT ![j] = NextList(j, 0)]
      BY <1>14 DEF UpdateFields, GoTo
    <3>3. NextList(j, 0).pc # "stats"
      BY <2>1, <3>1
    <3>4. j \in DOMAIN job
      BY DEF Typed, JobsTyped
    <3>5. CASE job' = [job EXCEPT ![j].pc = "refused"]
      BY <3>4, <3>5 DEF Typed, JobsTyped, Job
    <3>6. CASE job' = [job EXCEPT ![j] = NextList(j, 0)]
      <4>1. job'[j] = NextList(j, 0)
        BY <3>4, <3>6, Zenon
      <4> QED
        BY <3>3, <4>1
    <3> QED
      BY <3>2, <3>5, <3>6
  <2>4. UNCHANGED <<boot, at, file, torn, stats>> /\ Keys' = Keys
    <3>1. UNCHANGED <<boot, at, file, torn, stats>>
      BY <1>14 DEF UpdateFields
    <3> QED
      BY <1>14, <3>1, SameKeys
  <2> QED
    BY <2>2, <2>3, <2>4, PairsJob
<1>15. ASSUME NEW j \in Jobs, ClearSolo(j) PROVE PairInv'
  <2>1. \A n \in Nat : NextList(j, n).pc \in {"clear", "updated"}
    BY NextListIs
  <2>2. /\ \A i \in Jobs \ {j} : job'[i] = job[i]
        /\ job[j].pc \in {"new", "clear", "rows"}
    BY <1>15 DEF ClearSolo, JobAt, Typed, JobsTyped
  <2>3. job'[j].pc # "stats"
    <3>1. job[j].list \in Nat /\ 0 \in Nat
      BY DEF Typed, JobsTyped, Job
    <3> QED
      BY <1>15, <2>1, <3>1 DEF ClearSolo, JobAt, Typed, JobsTyped
  <2>4. UNCHANGED <<boot, at, file, torn, stats>> /\ Keys' = Keys
    BY <1>15 DEF ClearSolo, bootVars, Keys
  <2> QED
    BY <2>2, <2>3, <2>4, PairsJob
<1>16. ASSUME NEW j \in Jobs, InsertSolo(j) PROVE PairInv'
  <2>1. \A n \in Nat : NextList(j, n).pc \in {"clear", "updated"}
    BY NextListIs
  <2>2. /\ \A i \in Jobs \ {j} : job'[i] = job[i]
        /\ job[j].pc \in {"new", "clear", "rows"}
    BY <1>16 DEF InsertSolo, JobAt, Typed, JobsTyped
  <2>3. job'[j].pc # "stats"
    <3>1. job[j].list \in Nat /\ 0 \in Nat
      BY DEF Typed, JobsTyped, Job
    <3> QED
      BY <1>16, <2>1, <3>1 DEF InsertSolo, JobAt, Typed, JobsTyped
  <2>4. UNCHANGED <<boot, at, file, torn, stats>> /\ Keys' = Keys
    BY <1>16 DEF InsertSolo, bootVars, Keys
  <2> QED
    BY <2>2, <2>3, <2>4, PairsJob
<1>17. ASSUME TakeFile PROVE PairInv'
  <2>1. /\ file.pc # "stats" /\ file'.pc # "stats"
        /\ UNCHANGED <<delegates, stats, torn, boot, at, job>>
    BY <1>17 DEF TakeFile, Typed, FileTyped, bootVars, jobVars
  <2>2. \A k : Same(k)
    BY <2>1 DEF Same, BySeed, ByJob, ByFile, Keys
  <2> QED
    BY <2>1, <2>2, PairsKept
<1>18. ASSUME Ban PROVE PairInv'
  <2>1. /\ file.pc # "stats" /\ file'.pc # "stats"
        /\ UNCHANGED <<delegates, stats, torn, boot, at, job>>
    BY <1>18 DEF Ban, Typed, FileTyped, Line, Rest, bootVars, jobVars
  <2>2. \A k : Same(k)
    BY <2>1 DEF Same, BySeed, ByJob, ByFile, Keys
  <2> QED
    BY <2>1, <2>2, PairsKept
<1>19. ASSUME RemoveDelegate PROVE PairInv'
  BY <1>19, PairsRemoved
<1>20. ASSUME RemoveStats PROVE PairInv'
  BY <1>20, PairsStatsRemoved
<1>21. ASSUME NEW s \in Seed, EndRound(s) PROVE PairInv'
  <2>1. UNCHANGED <<delegates, torn, boot, at, job, file, stats>>
    BY <1>21 DEF EndRound, bootVars, jobVars
  <2> QED
    BY <2>1, PairsUntouched
<1>22. ASSUME NEW s \in Seed, BeginCount(s) PROVE PairInv'
  <2>1. UNCHANGED <<delegates, torn, boot, at, job, file, stats>>
    BY <1>22 DEF BeginCount, bootVars, jobVars
  <2> QED
    BY <2>1, PairsUntouched
<1>23. ASSUME NEW s \in Seed, CountNext(s) PROVE PairInv'
  <2>1. UNCHANGED <<delegates, torn, boot, at, job, file>> /\ DOMAIN stats' = DOMAIN stats
    BY <1>23 DEF CountNext, bootVars, jobVars
  <2>2. \A k : Same(k)
    BY <2>1 DEF Same, BySeed, ByJob, ByFile, Keys
  <2> QED
    BY <2>1, <2>2, PairsKept
<1>24. ASSUME NEW s \in Seed, FindRound(s) PROVE PairInv'
  <2>1. UNCHANGED <<delegates, torn, boot, at, job, file, stats>>
    BY <1>24 DEF FindRound, bootVars, jobVars
  <2> QED
    BY <2>1, PairsUntouched
<1>25. ASSUME NEW s \in Seed, InsertRound(s) PROVE PairInv'
  <2>1. UNCHANGED <<delegates, torn, boot, at, job, file, stats>>
    BY <1>25 DEF InsertRound, bootVars, jobVars
  <2> QED
    BY <2>1, PairsUntouched
<1>26. ASSUME NEW s \in Seed, Reload(s) PROVE PairInv'
  <2>1. UNCHANGED <<delegates, torn, boot, at, job, file, stats>>
    BY <1>26 DEF Reload, bootVars, jobVars
  <2> QED
    BY <2>1, PairsUntouched
<1>27. ASSUME Advance PROVE PairInv'
  <2>1. UNCHANGED <<delegates, torn, boot, at, job, file, stats>>
    BY <1>27 DEF Advance, bootVars, jobVars
  <2> QED
    BY <2>1, PairsUntouched
<1>28. ASSUME NEW j \in Jobs, MiscountApproval(j) PROVE PairInv'
  <2>1. /\ \A i \in Jobs \ {j} : job'[i] = job[i]
        /\ job[j].pc # "stats" /\ job'[j].pc # "stats"
        /\ UNCHANGED <<boot, at, file, torn, stats>> /\ Keys' = Keys
    BY <1>28 DEF MiscountApproval, JobAt, GoTo, Typed, JobsTyped, Keys, bootVars
  <2> QED
    BY <2>1, PairsJob
<1>29. ASSUME NEW j \in Jobs, RefuseJob(j) PROVE PairInv'
  BY <1>29, PairsJobRefused
<1>30. ASSUME NEW s \in Seed, RefuseBoot(s) PROVE PairInv'
  BY <1>30, PairsBootRefused
<1>31. ASSUME NEW s \in Seed, RefuseWrite(s) PROVE PairInv'
  <2>1. UNCHANGED <<delegates, torn, boot, at, job, file, stats>>
    BY <1>31 DEF RefuseWrite, bootVars, jobVars
  <2> QED
    BY <2>1, PairsUntouched
<1>32. ASSUME NEW s \in Seed, Crash(s) PROVE PairInv'
  BY <1>32, PairsCrash
<1>33. ASSUME RefuseLine PROVE PairInv'
  BY <1>33, PairsLineRefused
<1>34. CASE UNCHANGED vars
  <2>1. \A k : Same(k)
    BY <1>34 DEF Same, BySeed, ByJob, ByFile, Keys, vars, bootVars, jobVars
  <2> QED
    BY <1>34, <2>1, PairsKept DEF vars
<1> QED
  BY <1>1, <1>2, <1>3, <1>4, <1>5, <1>6, <1>7, <1>8, <1>9, <1>10, <1>11, <1>12, <1>13,
     <1>14, <1>15, <1>16, <1>17, <1>18, <1>19, <1>20, <1>21, <1>22, <1>23, <1>24, <1>25,
     <1>26, <1>27, <1>28, <1>29, <1>30, <1>31, <1>32, <1>33, <1>34, <1>35
     DEF Next, Boot, Register, Update, Maintain, Write, Refuse, Jobs

\* A delegate has statistics, and statistics have a delegate, except while they
\* are written or removed, and where that was cut off or done twice at once
\* (init_processing, server_receive_data_socket_nodes_to_block_verifiers_register_delegates,
\* process_maintenance_file).
THEOREM DelegatesHaveStatistics == Spec => []StatisticsPaired
<1>1. PairInv => StatisticsPaired
  BY DEF PairInv, PairOf, StatisticsPaired
<1> QED
  BY <1>1, TypesInit, TypesStep, PairsInit, PairsStep, PTL DEF Spec

-----------------------------------------------------------------------------
(* The start completes the database                                        *)

GenesisKeys == {Genesis[i].key : i \in DOMAIN Genesis}

\* The operator removes no seed delegate.
SeedsStay ==
    \A w \in Workload : \A n \in DOMAIN w.lines :
        w.lines[n].flag = "DEL" => w.lines[n].key \notin GenesisKeys

\* A line that is left, or half done, removes no seed delegate.
LinesStay ==
    /\ \A n \in DOMAIN file.left : file.left[n].flag = "DEL" => file.left[n].key \notin GenesisKeys
    /\ file.pc = "stats" => Head(file.left).flag = "DEL"

LEMMA LinesInit == ASSUME SeedsStay PROVE Init => LinesStay
BY DEF SeedsStay, Init, LinesStay

LEMMA LinesStep ==
    ASSUME Typed, LinesStay, [Next]_vars
    PROVE  LinesStay'
<1>1. ASSUME file'.left = file.left,
             file'.pc = "stats" => file.pc = "stats" \/ Head(file.left).flag = "DEL"
      PROVE  LinesStay'
  BY <1>1 DEF LinesStay
<1>2. ASSUME file' = Rest, file.left # <<>> PROVE LinesStay'
  <2>1. \A n \in DOMAIN Tail(file.left) : Tail(file.left)[n] = file.left[n + 1] /\ n + 1 \in DOMAIN file.left
    BY <1>2, FirstLine DEF Typed
  <2>2. file'.pc = "line" /\ file'.left = Tail(file.left)
    BY <1>2 DEF Rest
  <2> QED
    BY <2>1, <2>2 DEF LinesStay
<1>3. ASSUME TakeFile PROVE LinesStay'
  <2>1. file'.left = file.left /\ file'.pc = "line"
    BY <1>3 DEF TakeFile, Typed, FileTyped
  <2> QED
    BY <1>1, <2>1
<1>4. ASSUME Ban PROVE LinesStay'
  BY <1>2, <1>4 DEF Ban, Line
<1>5. ASSUME RemoveDelegate PROVE LinesStay'
  <2>1. file'.left = file.left /\ Head(file.left).flag = "DEL"
    BY <1>5 DEF RemoveDelegate, Line, Typed, FileTyped
  <2> QED
    BY <1>1, <2>1
<1>6. ASSUME RemoveStats PROVE LinesStay'
  BY <1>2, <1>6 DEF RemoveStats, Typed, FileTyped
<1>7. ASSUME RefuseLine PROVE LinesStay'
  <2>1. file' = Rest \/ (file'.left = file.left /\ Head(file.left).flag = "DEL")
    BY <1>7 DEF RefuseLine, Typed, FileTyped
  <2> QED
    BY <1>1, <1>2, <1>7, <2>1 DEF RefuseLine
<1>8. ASSUME NEW s \in Seed, Crash(s) PROVE LinesStay'
  <2>1. file' = file \/ (file'.left = <<>> /\ file'.pc = "line")
    BY <1>8 DEF Crash
  <2>2. CASE file'.left = <<>> /\ file'.pc = "line"
    <3>1. DOMAIN file'.left = {}
      BY <2>2
    <3> QED
      BY <2>2, <3>1 DEF LinesStay
  <2> QED
    BY <1>1, <2>1, <2>2
<1>9. CASE file' = file
  BY <1>1, <1>9
<1> QED
  BY <1>3, <1>4, <1>5, <1>6, <1>7, <1>8, <1>9, WhoChanges DEF Changes, Maintain

\* The first n seed delegates.
FirstDocs(n) == {Genesis[i] : i \in 1..n}
FirstKeys(n) == {Genesis[i].key : i \in 1..n}

LEMMA FirstOnes ==
    ASSUME NEW n \in DOMAIN Genesis
    PROVE  /\ n \in Nat /\ n >= 1 /\ n <= Len(Genesis)
           /\ FirstDocs(n) = FirstDocs(n - 1) \cup {Genesis[n]}
           /\ FirstKeys(n) = FirstKeys(n - 1) \cup {Genesis[n].key}
           /\ Genesis[n].key \notin FirstKeys(n - 1)
           /\ \A d \in FirstDocs(n - 1) : d.key # Genesis[n].key
           /\ \A d \in FirstDocs(n) : d.key \in GenesisKeys
           /\ Genesis[1] \in FirstDocs(n)
<1>1. Len(Genesis) \in Nat /\ DOMAIN Genesis = 1..Len(Genesis)
  BY GenesisDocuments
<1>2. n \in Nat /\ n >= 1 /\ n <= Len(Genesis)
  BY <1>1
<1>3. \A i \in 1..n : i \in DOMAIN Genesis /\ (i = n \/ i \in 1..(n - 1))
  BY <1>1, <1>2
<1>4. n \in 1..n /\ 1 \in 1..n /\ \A i \in 1..(n - 1) : i \in 1..n /\ i # n
  BY <1>2
<1>5. \A i, j \in DOMAIN Genesis : i # j => Genesis[i].key # Genesis[j].key
  BY RecordsAssumption DEF Fields
<1> QED
  BY <1>2, <1>3, <1>4, <1>5 DEF FirstDocs, FirstKeys, GenesisKeys

\* No two seed delegates have a field in common.
LEMMA GenesisDiffers ==
    ASSUME NEW d \in FirstDocs(Len(Genesis)), NEW e \in FirstDocs(Len(Genesis)), d # e
    PROVE  ~Alike(d, e)
<1>1. PICK i \in DOMAIN Genesis, j \in DOMAIN Genesis : d = Genesis[i] /\ e = Genesis[j]
  BY GenesisDocuments DEF FirstDocs
<1>2. i # j
  BY <1>1
<1>3. \A f \in Fields : Genesis[i][f] # Genesis[j][f]
  BY <1>2, RecordsAssumption
<1> QED
  BY <1>1, <1>3 DEF Alike, UniqueFields

\* A seed that has not written, and one that will not.
Waiting(s) == boot[s] = "down" \/ (boot[s] \in {"count", "insert"} /\ at[s] = 1)
Behind(s) == Waiting(s) \/ boot[s] \in {"load", "up"}

\* How many documents s has written.
DocsDone(s) == IF boot[s] = "insert" THEN at[s] - 1 ELSE at[s]
StatsDone(s) == IF boot[s] \in {"insert", "stats"} THEN at[s] - 1 ELSE at[s]

Nothing == delegates = {} /\ DOMAIN stats = {} /\ ~unique /\ \A s \in Seed : Waiting(s)

\* s was the first to write, and is alone at it.
Filling(s) ==
    /\ ~unique
    /\ boot[s] \in {"insert", "stats", "seed indexes", "indexes"}
    /\ boot[s] = "insert" => at[s] > 1
    /\ boot[s] = "seed indexes" => at[s] = 1
    /\ boot[s] = "indexes" => at[s] = Len(Genesis)
    /\ delegates = FirstDocs(DocsDone(s))
    /\ DOMAIN stats = FirstKeys(StatsDone(s))
    /\ at[s] > 1 \/ boot[s] = "indexes" => heightUnique
    /\ \A o \in Seed \ {s} : Behind(o)

Complete ==
    /\ unique /\ heightUnique
    /\ GenesisKeys \subseteq Keys /\ GenesisKeys \subseteq DOMAIN stats
    /\ \A s \in Seed : Behind(s)

Phase == Nothing \/ (\E s \in Seed : Filling(s)) \/ Complete

\* A registration that found no index spoils the start.
NoneBetween == ~unique => \A j \in Jobs : job[j].pc # "stats"

StartInv == ~spoiled => NoneBetween /\ Phase

LEMMA StartsInit == Init => StartInv
<1> SUFFICES ASSUME Init PROVE NoneBetween /\ Phase
  BY DEF StartInv
<1>1. NoneBetween
  BY DEF Init, NoneBetween, Jobs
<1>2. CASE Empty
  <2>1. DOMAIN stats = {}
    BY <1>2 DEF Empty
  <2> QED
    BY <1>1, <1>2, <2>1 DEF Empty, Phase, Nothing, Waiting
<1>3. CASE AtWork
  <2>1. GenesisKeys \subseteq Keys /\ Keys = DOMAIN stats
    BY <1>3 DEF AtWork, Keys, GenesisKeys, ToSet
  <2> QED
    BY <1>1, <1>3, <2>1 DEF AtWork, Phase, Complete, Behind
<1> QED
  BY <1>2, <1>3 DEF Init

\* Only the insertion of a delegate comes between two writes.
LEMMA OnlyInserted ==
    ASSUME Typed, [Next]_vars, NEW j \in Jobs, job'[j].pc = "stats", job[j].pc # "stats"
    PROVE  InsertDelegate(j)
<1>1. ASSUME NEW i \in Jobs, NEW pc, GoTo(i, pc), pc # "stats" PROVE FALSE
  BY <1>1 DEF GoTo, Typed, JobsTyped, Job
<1>2. ASSUME NEW i \in Jobs, NEW v, job' = [job EXCEPT ![i] = v], v.pc # "stats" PROVE FALSE
  BY <1>2 DEF Typed, JobsTyped
<1>3. \A i \in Jobs : \A n \in Nat : NextList(i, n).pc # "stats"
  BY NextListIs
<1>4. \A i \in Jobs : job[i] \in Job /\ job[i].list \in Nat /\ i \in DOMAIN job
  BY DEF Typed, JobsTyped, Job
<1>5. ASSUME NEW i \in Jobs, InsertDelegate(i) PROVE i = j
  BY <1>5 DEF InsertDelegate, GoTo, Typed, JobsTyped
<1>6. ASSUME NEW i \in Jobs, CheckApproval(i) \/ CheckRoom(i) PROVE FALSE
  BY <1>1, <1>6 DEF CheckApproval, CheckRoom
<1>7. ASSUME NEW i \in Jobs, NEW f \in Fields, CheckField(i, f) \/ MiscountField(i, f) PROVE FALSE
  BY <1>1, <1>7 DEF CheckField, MiscountField, After, Fields
<1>8. ASSUME NEW i \in Jobs, InsertDelegateStats(i) \/ MiscountApproval(i) \/ RefuseJob(i) PROVE FALSE
  BY <1>1, <1>8 DEF InsertDelegateStats, MiscountApproval, RefuseJob
<1>9. ASSUME NEW i \in Jobs, UpdateFields(i) PROVE FALSE
  <2>1. NextList(i, 0).pc # "stats"
    BY <1>3
  <2> QED
    BY <1>1, <1>2, <1>9, <2>1 DEF UpdateFields
<1>10. ASSUME NEW i \in Jobs, ClearSolo(i) \/ InsertSolo(i) PROVE FALSE
  <2>1. NextList(i, job[i].list).pc # "stats"
    BY <1>3, <1>4
  <2>2. job[i].pc \in {"clear", "rows"}
    BY <1>10 DEF ClearSolo, InsertSolo, JobAt
  <2>3. \A n : [job[i] EXCEPT !.pc = "rows"].pc = "rows" /\ [job[i] EXCEPT !.row = n].pc = job[i].pc
    BY <1>4 DEF Job
  <2>4. PICK v : job' = [job EXCEPT ![i] = v] /\ v.pc # "stats"
    <3>1. CASE ClearSolo(i)
      BY <2>1, <2>3, <3>1 DEF ClearSolo
    <3>2. CASE InsertSolo(i)
      BY <2>1, <2>2, <2>3, <3>2 DEF InsertSolo
    <3> QED
      BY <1>10, <3>1, <3>2
  <2> QED
    BY <1>2, <2>4
<1>11. ASSUME NEW s \in Seed, Crash(s) PROVE FALSE
  BY <1>11 DEF Crash, Jobs
<1> QED
  BY <1>5, <1>6, <1>7, <1>8, <1>9, <1>10, <1>11, WhoChanges DEF Changes, Register, Update

LEMMA SpoiledStays == ASSUME [Next]_vars, spoiled PROVE spoiled'
<1>1. ASSUME NEW j \in Jobs, InsertDelegate(j) PROVE spoiled'
  BY <1>1, Zenon DEF InsertDelegate
<1>2. ASSUME NEW j \in Jobs, UpdateFields(j) PROVE spoiled'
  BY <1>2, Zenon DEF UpdateFields
<1>3. ASSUME NEW s \in Seed, InsertRound(s) PROVE spoiled'
  BY <1>3, Zenon DEF InsertRound
<1>4. ASSUME NEW s \in Seed, RefuseBoot(s) \/ Crash(s) PROVE spoiled'
  BY <1>4, Zenon DEF RefuseBoot, Crash
<1> QED
  BY <1>1, <1>2, <1>3, <1>4, WhoChanges DEF Changes

LEMMA BetweenStep ==
    ASSUME Typed, NoneBetween, [Next]_vars, ~spoiled'
    PROVE  NoneBetween'
<1> SUFFICES ASSUME ~unique', NEW j \in Jobs, job'[j].pc = "stats" PROVE FALSE
  BY DEF NoneBetween
<1>1. ~unique
  <2>1. ASSUME NEW s \in Seed, AddIndexes(s) PROVE ~unique
    BY <2>1 DEF AddIndexes
  <2> QED
    BY <2>1, WhoChanges DEF Changes
<1>2. job[j].pc # "stats"
  BY <1>1 DEF NoneBetween
<1>3. InsertDelegate(j)
  BY <1>2, OnlyInserted
<1>4. job'[j].pc = "refused"
  <2>1. GoTo(j, "refused")
    BY <1>1, <1>3, Zenon DEF InsertDelegate
  <2> QED
    BY <2>1 DEF GoTo, Typed, JobsTyped
<1> QED
  BY <1>4

\* What a step may be to a start that is not spoiled: nothing, a registration
\* or an update beside the indexes, a deletion, a step of a seed that starts, or
\* the stop of one that does not write.
Quiet == UNCHANGED <<delegates, unique, heightUnique, boot, at>> /\ DOMAIN stats' = DOMAIN stats

Grown ==
    /\ unique /\ UNCHANGED <<unique, heightUnique, boot, at>>
    /\ Keys \subseteq Keys' /\ DOMAIN stats \subseteq DOMAIN stats'

Shrunk ==
    /\ UNCHANGED <<unique, heightUnique, boot, at>>
    /\ \E k : /\ k \notin GenesisKeys
              /\ delegates' \in {delegates, {d \in delegates : d.key # k}}
              /\ DOMAIN stats' \in {DOMAIN stats, DOMAIN stats \ {k}}

Stops(s) ==
    /\ ~Starting(s) /\ boot' = [boot EXCEPT ![s] = "down"]
    /\ UNCHANGED <<delegates, stats, unique, heightUnique, at>>

LEMMA StartMoves ==
    ASSUME Typed, LinesStay, NoneBetween, [Next]_vars, ~spoiled'
    PROVE  Quiet \/ Grown \/ Shrunk \/ \E s \in Seed : Boot(s) \/ Stops(s)
<1>1. ASSUME NEW j \in Jobs, InsertDelegate(j) PROVE Quiet \/ Grown
  <2>1. UNCHANGED <<unique, heightUnique, boot, at, stats>>
    BY <1>1 DEF InsertDelegate
  <2>2. CASE UNCHANGED delegates
    BY <2>1, <2>2 DEF Quiet
  <2>3. CASE delegates' = delegates \cup {j[2].doc} /\ spoiled' = (spoiled \/ ~unique)
    <3>1. unique
      BY <2>3, Zenon
    <3>2. Keys \subseteq Keys'
      BY <2>3 DEF Keys
    <3> QED
      BY <2>1, <3>1, <3>2 DEF Grown
  <2> QED
    BY <1>1, <2>2, <2>3 DEF InsertDelegate
<1>2. ASSUME NEW j \in Jobs, UpdateFields(j) PROVE Quiet \/ Grown
  <2>1. UNCHANGED <<unique, heightUnique, boot, at, stats>> /\ Keys' = Keys
    BY <1>2, SameKeys DEF UpdateFields
  <2>2. UNCHANGED delegates \/ spoiled' = (spoiled \/ ~unique)
    BY <1>2 DEF UpdateFields
  <2>3. CASE UNCHANGED delegates
    BY <2>1, <2>3 DEF Quiet
  <2>4. CASE spoiled' = (spoiled \/ ~unique)
    <3>1. unique
      BY <2>4, Zenon
    <3> QED
      BY <2>1, <3>1 DEF Grown
  <2> QED
    BY <2>2, <2>3, <2>4
<1>3. ASSUME NEW j \in Jobs, InsertDelegateStats(j) PROVE Grown
  <2>1. UNCHANGED <<delegates, unique, heightUnique, boot, at>> /\ job[j].pc = "stats"
    BY <1>3 DEF InsertDelegateStats, JobAt, bootVars
  <2>2. unique
    BY <2>1 DEF NoneBetween
  <2>3. DOMAIN stats \subseteq DOMAIN stats'
    BY <1>3 DEF InsertDelegateStats, InsertStats, With
  <2> QED
    BY <2>1, <2>2, <2>3 DEF Grown, Keys
<1>4. ASSUME RemoveDelegate PROVE Shrunk
  <2>1. /\ UNCHANGED <<unique, heightUnique, boot, at, stats>>
        /\ file.left # <<>> /\ Head(file.left).flag = "DEL"
        /\ delegates' = {d \in delegates : d.key # Head(file.left).key}
    BY <1>4 DEF RemoveDelegate, Line, bootVars
  <2>2. Head(file.left).key \notin GenesisKeys
    <3>1. Head(file.left) = file.left[1] /\ DOMAIN file.left = 1..Len(file.left) /\ 1 \in DOMAIN file.left
      <4>1. file.left \in Seq([flag : {"BAN", "UNB", "DEL"}, key : Key])
        BY DEF Typed, FileTyped, Lines
      <4> QED
        BY <2>1, <4>1
    <3> QED
      BY <2>1, <3>1 DEF LinesStay
  <2> QED
    BY <2>1, <2>2 DEF Shrunk
<1>5. ASSUME RemoveStats PROVE Shrunk
  <2>1. /\ UNCHANGED <<delegates, unique, heightUnique, boot, at>>
        /\ file.left # <<>> /\ Head(file.left).flag = "DEL"
        /\ stats' = Without(stats, Head(file.left).key)
    BY <1>5 DEF RemoveStats, StatsWithout, bootVars, Typed, FileTyped, LinesStay
  <2>2. Head(file.left).key \notin GenesisKeys
    <3>1. Head(file.left) = file.left[1] /\ DOMAIN file.left = 1..Len(file.left) /\ 1 \in DOMAIN file.left
      <4>1. file.left \in Seq([flag : {"BAN", "UNB", "DEL"}, key : Key])
        BY DEF Typed, FileTyped, Lines
      <4> QED
        BY <2>1, <4>1
    <3> QED
      BY <2>1, <3>1 DEF LinesStay
  <2>3. DOMAIN stats' = DOMAIN stats \ {Head(file.left).key}
    BY <2>1 DEF Without
  <2> QED
    BY <2>1, <2>2, <2>3 DEF Shrunk
<1>6. ASSUME NEW s \in Seed, CountNext(s) PROVE Quiet
  BY <1>6 DEF CountNext, Quiet, bootVars
<1>7. ASSUME NEW s \in Seed, RefuseBoot(s) PROVE FALSE
  BY <1>7 DEF RefuseBoot
<1>8. ASSUME NEW s \in Seed, Crash(s) PROVE Stops(s)
  <2>1. ~Starting(s)
    BY <1>8, Zenon DEF Crash
  <2> QED
    BY <1>8, <2>1 DEF Crash, Stops
<1>9. CASE UNCHANGED <<delegates, unique, heightUnique, boot, at, stats>>
  BY <1>9 DEF Quiet
<1> QED
  BY <1>1, <1>2, <1>3, <1>4, <1>5, <1>6, <1>7, <1>8, <1>9, WhoChanges DEF Changes, Boot

\* A seed that is behind a filled database writes nothing.
LEMMA BehindBoots ==
    ASSUME Typed, NEW s \in Seed, Behind(s), Boot(s), Genesis[1].key \in Keys
    PROVE  /\ UNCHANGED <<delegates, stats, unique, heightUnique>>
           /\ \A o \in Seed \ {s} : boot'[o] = boot[o] /\ at'[o] = at[o]
           /\ Behind(s)'
<1>1. delegates # {} /\ Refuses(Genesis[1])
  BY DEF Keys, Refuses
<1>2. boot \in [Seed -> {"down", "count", "insert", "stats", "seed indexes", "indexes", "load", "up"}]
      /\ at \in [Seed -> DOMAIN Genesis]
  BY DEF Typed, SeedsTyped
<1>3. CASE Start(s)
  BY <1>2, <1>3 DEF Start, Behind, Waiting
<1>4. CASE CountDelegates(s) \/ MiscountDelegates(s)
  BY <1>1, <1>2, <1>4 DEF CountDelegates, MiscountDelegates, Behind, Waiting
<1>5. CASE InsertSeed(s)
  <2>1. at[s] = 1
    BY <1>5 DEF InsertSeed, Behind, Waiting
  <2> QED
    BY <1>1, <1>2, <1>5, <2>1 DEF InsertSeed, Behind, Waiting
<1>6. CASE Run(s)
  BY <1>2, <1>6 DEF Run, Behind, Waiting
<1>7. ~InsertSeedStats(s) /\ ~AddSeedIndexes(s) /\ ~AddIndexes(s)
  BY DEF InsertSeedStats, AddSeedIndexes, AddIndexes, Behind, Waiting
<1> QED
  BY <1>3, <1>4, <1>5, <1>6, <1>7 DEF Boot

\* Until somebody writes.
LEMMA NothingBoots ==
    ASSUME Typed, Nothing, NEW s \in Seed, Boot(s)
    PROVE  Nothing' \/ Filling(s)'
<1>1. boot \in [Seed -> {"down", "count", "insert", "stats", "seed indexes", "indexes", "load", "up"}]
      /\ at \in [Seed -> DOMAIN Genesis]
  BY DEF Typed, SeedsTyped
<1>2. Waiting(s)
  BY DEF Nothing
<1>3. CASE Start(s) \/ CountDelegates(s) \/ MiscountDelegates(s)
  <2>1. UNCHANGED <<delegates, stats, unique>> /\ \A o \in Seed \ {s} : boot'[o] = boot[o] /\ at'[o] = at[o]
    BY <1>1, <1>3 DEF Start, CountDelegates, MiscountDelegates
  <2>2. Waiting(s)'
    BY <1>1, <1>2, <1>3 DEF Start, CountDelegates, MiscountDelegates, Waiting, Nothing
  <2> QED
    BY <2>1, <2>2 DEF Nothing, Waiting
<1>4. CASE InsertSeed(s)
  <2>1. at[s] = 1 /\ at' = at /\ UNCHANGED <<stats, unique>> /\ \A o \in Seed \ {s} : boot'[o] = boot[o]
    BY <1>1, <1>2, <1>4 DEF InsertSeed, Waiting
  <2>2. ~Refuses(Genesis[1])
    BY DEF Nothing, Refuses
  <2>3. boot'[s] = "stats" /\ delegates' = delegates \cup {Genesis[1]}
    BY <1>1, <1>4, <2>1, <2>2 DEF InsertSeed
  <2>4. 1 \in DOMAIN Genesis /\ FirstDocs(0) = {} /\ FirstKeys(0) = {}
    BY GenesisDocuments DEF FirstDocs, FirstKeys
  <2>5. FirstDocs(1) = {Genesis[1]}
    BY <2>4, FirstOnes
  <2>6. DocsDone(s)' = 1 /\ StatsDone(s)' = 0
    BY <2>1, <2>3 DEF DocsDone, StatsDone
  <2>7. \A o \in Seed \ {s} : Behind(o)'
    BY <2>1 DEF Nothing, Behind, Waiting
  <2> QED
    BY <2>1, <2>3, <2>4, <2>5, <2>6, <2>7 DEF Nothing, Filling
<1>5. ~InsertSeedStats(s) /\ ~AddSeedIndexes(s) /\ ~AddIndexes(s) /\ ~Run(s)
  BY <1>2 DEF InsertSeedStats, AddSeedIndexes, AddIndexes, Run, Waiting
<1> QED
  BY <1>3, <1>4, <1>5 DEF Boot

\* The stage a seed is in after it is done with a seed delegate.
LEMMA StageAfter ==
    ASSUME NEW n \in Nat, n >= 1, NEW last \in Nat, NEW stage, NEW i,
           \/ n = last /\ stage = "indexes" /\ i = n
           \/ n # last /\ stage = "insert" /\ i = n + 1
    PROVE  /\ stage \in {"insert", "stats", "seed indexes", "indexes"} /\ stage # "seed indexes"
           /\ stage = "insert" => i > 1
           /\ stage = "indexes" => i = last
<1>1. CASE n = last /\ stage = "indexes" /\ i = n
  BY <1>1
<1>2. CASE stage = "insert" /\ i = n + 1
  <2>1. n + 1 > 1
    OBVIOUS
  <2>2. stage # "indexes" /\ stage # "seed indexes" /\ stage \in {"insert", "stats", "seed indexes", "indexes"}
    BY <1>2
  <2>3. i > 1
    BY <1>2, <2>1
  <2> QED
    BY <2>2, <2>3
<1> QED
  BY <1>1, <1>2

\* The one that writes goes on from one seed delegate to the next, and to the
\* indexes.
LEMMA FillingBoots ==
    ASSUME Typed, Typed', RoundInv, ~spoiled, NEW s \in Seed, Filling(s), Boot(s)
    PROVE  Filling(s)' \/ Complete'
<1>1. boot \in [Seed -> {"down", "count", "insert", "stats", "seed indexes", "indexes", "load", "up"}]
      /\ at \in [Seed -> DOMAIN Genesis]
  BY DEF Typed, SeedsTyped
<1>2. at[s] \in DOMAIN Genesis
  BY <1>1
<1> DEFINE n == at[s]
<1>3. /\ n \in Nat /\ n >= 1 /\ n <= Len(Genesis) /\ Len(Genesis) \in Nat
      /\ FirstDocs(n) = FirstDocs(n - 1) \cup {Genesis[n]}
      /\ FirstKeys(n) = FirstKeys(n - 1) \cup {Genesis[n].key}
      /\ Genesis[n].key \notin FirstKeys(n - 1)
      /\ \A d \in FirstDocs(n - 1) : d.key # Genesis[n].key
  BY <1>2, FirstOnes, GenesisDocuments
<1>4. \A o \in Seed \ {s} : boot'[o] = boot[o] /\ at'[o] = at[o]
  BY <1>1 DEF Boot, Start, CountDelegates, MiscountDelegates, InsertSeed, InsertSeedStats, AddSeedIndexes,
              AddIndexes, Run, NextSeed
<1>5. \A o \in Seed \ {s} : Behind(o)'
  BY <1>4 DEF Filling, Behind, Waiting
<1>6. ~Start(s) /\ ~CountDelegates(s) /\ ~MiscountDelegates(s) /\ ~Run(s)
  BY DEF Filling, Start, CountDelegates, MiscountDelegates, Run
<1>7. CASE InsertSeed(s)
  <2>1. boot[s] = "insert" /\ n > 1 /\ delegates = FirstDocs(n - 1) /\ DOMAIN stats = FirstKeys(n - 1)
    BY <1>7 DEF InsertSeed, Filling, DocsDone, StatsDone
  <2>2. ~Refuses(Genesis[n])
    BY <1>3, <2>1 DEF Refuses, Filling
  <2>3. boot'[s] = "stats" /\ delegates' = FirstDocs(n) /\ UNCHANGED <<stats, unique, heightUnique, at>>
    BY <1>1, <1>3, <1>7, <2>1, <2>2 DEF InsertSeed
  <2> QED
    BY <1>5, <2>1, <2>3 DEF Filling, DocsDone, StatsDone
<1>8. CASE InsertSeedStats(s)
  <2>1. boot[s] = "stats" /\ delegates = FirstDocs(n) /\ DOMAIN stats = FirstKeys(n - 1)
    BY <1>8 DEF InsertSeedStats, Filling, DocsDone, StatsDone
  <2>2. /\ UNCHANGED <<delegates, unique, heightUnique>>
        /\ stats' = With(stats, Genesis[n].key, NewStats)
        /\ \/ n = 1 /\ boot' = [boot EXCEPT ![s] = "seed indexes"] /\ at' = at
           \/ n # 1 /\ NextSeed(s)
    BY <1>3, <1>8, <2>1 DEF InsertSeedStats, InsertStats
  <2>3. DOMAIN stats' = FirstKeys(n)
    BY <1>3, <2>1, <2>2 DEF With
  <2>4. CASE n = 1 /\ boot' = [boot EXCEPT ![s] = "seed indexes"] /\ at' = at
    <3>1. boot'[s] = "seed indexes"
      BY <1>1, <2>4
    <3> QED
      BY <1>5, <2>1, <2>2, <2>3, <2>4, <3>1 DEF Filling, DocsDone, StatsDone
  <2>5. CASE n # 1 /\ NextSeed(s)
    <3>1. heightUnique
      <4>1. at[s] > 1
        BY <1>3, <2>5
      <4> QED
        BY <4>1, Zenon DEF Filling
    <3>2. \/ n = Len(Genesis) /\ boot'[s] = "indexes" /\ at'[s] = n
          \/ n # Len(Genesis) /\ boot'[s] = "insert" /\ at'[s] = n + 1
      BY <1>1, <2>5 DEF NextSeed, LastSeed
    <3>3. DocsDone(s)' = n /\ StatsDone(s)' = n
      BY <1>3, <3>2 DEF DocsDone, StatsDone
    <3>4. delegates' = FirstDocs(n) /\ ~unique'
      BY <2>1, <2>2 DEF Filling
    <3>5. /\ boot'[s] \in {"insert", "stats", "seed indexes", "indexes"} /\ boot'[s] # "seed indexes"
          /\ boot'[s] = "insert" => at'[s] > 1
          /\ boot'[s] = "indexes" => at'[s] = Len(Genesis)
      BY <1>3, <3>2, StageAfter
    <3>6. delegates' = FirstDocs(DocsDone(s)') /\ DOMAIN stats' = FirstKeys(StatsDone(s)')
      BY <2>3, <3>3, <3>4
    <3>7. heightUnique'
      BY <2>2, <3>1
    <3> QED
      BY <1>5, <3>4, <3>5, <3>6, <3>7, Zenon DEF Filling
  <2> QED
    BY <2>2, <2>4, <2>5
<1>9. CASE AddSeedIndexes(s)
  <2>1. boot[s] = "seed indexes" /\ n = 1 /\ delegates = FirstDocs(n) /\ DOMAIN stats = FirstKeys(n)
    BY <1>9 DEF AddSeedIndexes, Filling, DocsDone, StatsDone
  <2>2. ~ \E r, q \in rounds : r # q /\ r.height = q.height
    BY DEF RoundInv
  <2>3. heightUnique' = TRUE /\ NextSeed(s) /\ UNCHANGED <<delegates, stats, unique>>
    BY <1>9, <2>2 DEF AddSeedIndexes
  <2>4. \/ n = Len(Genesis) /\ boot'[s] = "indexes" /\ at'[s] = n
        \/ n # Len(Genesis) /\ boot'[s] = "insert" /\ at'[s] = n + 1
    BY <1>1, <2>3 DEF NextSeed, LastSeed
  <2>5. DocsDone(s)' = n /\ StatsDone(s)' = n
    BY <1>3, <2>4 DEF DocsDone, StatsDone
  <2>6. heightUnique' /\ ~unique'
    BY <2>3, Zenon DEF Filling
  <2>7. /\ boot'[s] \in {"insert", "stats", "seed indexes", "indexes"} /\ boot'[s] # "seed indexes"
        /\ boot'[s] = "insert" => at'[s] > 1
        /\ boot'[s] = "indexes" => at'[s] = Len(Genesis)
    BY <1>3, <2>4, StageAfter
  <2>8. delegates' = FirstDocs(DocsDone(s)') /\ DOMAIN stats' = FirstKeys(StatsDone(s)')
    BY <2>1, <2>3, <2>5
  <2> QED
    BY <1>5, <2>6, <2>7, <2>8, Zenon DEF Filling
<1>10. CASE AddIndexes(s)
  <2>1. boot[s] = "indexes" /\ delegates = FirstDocs(Len(Genesis)) /\ DOMAIN stats = FirstKeys(Len(Genesis))
        /\ heightUnique
    BY <1>10 DEF AddIndexes, Filling, DocsDone, StatsDone
  <2>2. ~ \E d, e \in delegates : d # e /\ Alike(d, e)
    BY <2>1, GenesisDiffers
  <2>3. /\ boot' = [boot EXCEPT ![s] = "load"] /\ unique' = TRUE
        /\ UNCHANGED <<delegates, stats, heightUnique>>
    BY <1>10, <2>2 DEF AddIndexes
  <2>4. GenesisKeys = FirstKeys(Len(Genesis)) /\ GenesisKeys = {d.key : d \in FirstDocs(Len(Genesis))}
    BY GenesisDocuments DEF GenesisKeys, FirstKeys, FirstDocs
  <2>5. Behind(s)'
    BY <1>1, <2>3 DEF Behind
  <2>6. unique' /\ heightUnique'
    BY <2>1, <2>3
  <2> QED
    BY <1>5, <2>1, <2>3, <2>4, <2>5, <2>6 DEF Complete, Keys
<1> QED
  BY <1>6, <1>7, <1>8, <1>9, <1>10 DEF Boot

\* The first seed delegate is there from the first write on.
LEMMA FirstIsThere ==
    ASSUME Typed, (\E s \in Seed : Filling(s)) \/ Complete
    PROVE  Genesis[1].key \in Keys
<1>1. ASSUME NEW s \in Seed, Filling(s) PROVE Genesis[1].key \in Keys
  <2>1. at[s] \in DOMAIN Genesis /\ DOMAIN Genesis = 1..Len(Genesis) /\ Len(Genesis) \in Nat
    BY GenesisDocuments DEF Typed, SeedsTyped
  <2>2. DocsDone(s) \in DOMAIN Genesis
    <3>1. CASE boot[s] = "insert"
      <4>1. at[s] > 1 /\ DocsDone(s) = at[s] - 1
        BY <1>1, <3>1 DEF DocsDone, Filling
      <4> QED
        BY <2>1, <4>1
    <3>2. CASE boot[s] # "insert"
      BY <2>1, <3>2 DEF DocsDone
    <3> QED
      BY <3>1, <3>2
  <2>3. Genesis[1] \in delegates
    BY <1>1, <2>2, FirstOnes DEF Filling
  <2> QED
    BY <2>3 DEF Keys
<1>2. 1 \in DOMAIN Genesis
  BY GenesisDocuments
<1> QED
  BY <1>1, <1>2 DEF Complete, GenesisKeys

\* A step leads from each phase to itself or to the next.
LEMMA PhaseStep ==
    ASSUME Typed, Typed', LinesStay, RoundInv, NoneBetween, Phase, [Next]_vars, ~spoiled, ~spoiled'
    PROVE  Phase'
<1>1. boot \in [Seed -> {"down", "count", "insert", "stats", "seed indexes", "indexes", "load", "up"}]
  BY DEF Typed, SeedsTyped
<1>2. ASSUME NEW s \in Seed, Stops(s), Behind(s)
      PROVE  \A o \in Seed : Behind(o) => Behind(o)'
  BY <1>1, <1>2 DEF Stops, Behind, Waiting
<1>3. CASE Nothing
  <2>1. CASE Quiet
    BY <1>3, <2>1 DEF Quiet, Nothing, Waiting, Phase
  <2>2. CASE Grown
    BY <1>3, <2>2, Zenon DEF Grown, Nothing
  <2>3. CASE Shrunk
    <3>1. delegates' = {} /\ DOMAIN stats' = {} /\ UNCHANGED <<unique, boot, at>>
      BY <1>3, <2>3 DEF Shrunk, Nothing
    <3> QED
      BY <1>3, <3>1 DEF Nothing, Waiting, Phase
  <2>4. ASSUME NEW s \in Seed, Boot(s) PROVE Phase'
    BY <1>3, <2>4, NothingBoots DEF Phase
  <2>5. ASSUME NEW s \in Seed, Stops(s) PROVE Phase'
    <3>1. UNCHANGED <<delegates, stats, unique>>
      BY <2>5 DEF Stops
    <3>2. \A o \in Seed : Waiting(o)'
      BY <1>1, <1>3, <2>5 DEF Stops, Nothing, Waiting
    <3> QED
      BY <1>3, <3>1, <3>2 DEF Nothing, Phase
  <2> QED
    BY <2>1, <2>2, <2>3, <2>4, <2>5, StartMoves
<1>4. ASSUME NEW s \in Seed, Filling(s) PROVE Phase'
  <2>1. ASSUME UNCHANGED <<delegates, unique, heightUnique>>, DOMAIN stats' = DOMAIN stats,
               boot'[s] = boot[s], at'[s] = at[s], \A o \in Seed \ {s} : Behind(o)'
        PROVE  Phase'
    <3>1. DocsDone(s)' = DocsDone(s) /\ StatsDone(s)' = StatsDone(s)
      BY <2>1 DEF DocsDone, StatsDone
    <3>2. Filling(s)'
      BY <1>4, <2>1, <3>1 DEF Filling
    <3> QED
      BY <3>2 DEF Phase
  <2>2. CASE Quiet
    BY <1>4, <2>1, <2>2 DEF Quiet, Filling, Behind, Waiting
  <2>3. CASE Grown
    BY <1>4, <2>3, Zenon DEF Grown, Filling
  <2>4. CASE Shrunk
    <3>1. PICK k : /\ k \notin GenesisKeys
                   /\ delegates' \in {delegates, {d \in delegates : d.key # k}}
                   /\ DOMAIN stats' \in {DOMAIN stats, DOMAIN stats \ {k}}
      BY <2>4 DEF Shrunk
    <3>2. Len(Genesis) \in Nat /\ DOMAIN Genesis = 1..Len(Genesis) /\ at[s] \in 1..Len(Genesis)
      BY GenesisDocuments DEF Typed, SeedsTyped
    <3>3. DocsDone(s) \in 0..Len(Genesis) /\ StatsDone(s) \in 0..Len(Genesis)
      BY <3>2 DEF DocsDone, StatsDone
    <3>4. \A n \in 0..Len(Genesis) : \A i \in 1..n : i \in DOMAIN Genesis
      BY <3>2
    <3>5. (\A d \in delegates : d.key # k) /\ k \notin DOMAIN stats
      BY <1>4, <3>1, <3>3, <3>4 DEF Filling, FirstDocs, FirstKeys, GenesisKeys
    <3>6. delegates' = delegates /\ DOMAIN stats' = DOMAIN stats
      BY <3>1, <3>5
    <3>7. UNCHANGED <<unique, heightUnique, boot, at>>
      BY <2>4 DEF Shrunk
    <3> QED
      BY <1>4, <2>1, <3>6, <3>7 DEF Filling, Behind, Waiting
  <2>5. ASSUME NEW o \in Seed, Boot(o) PROVE Phase'
    <3>1. CASE o = s
      BY <1>4, <2>5, <3>1, FillingBoots DEF Phase
    <3>2. CASE o # s
      <4>1. Behind(o)
        BY <1>4, <3>2 DEF Filling
      <4>2. /\ UNCHANGED <<delegates, stats, unique, heightUnique>>
            /\ \A t \in Seed \ {o} : boot'[t] = boot[t] /\ at'[t] = at[t]
            /\ Behind(o)'
        BY <1>4, <2>5, <4>1, BehindBoots, FirstIsThere
      <4>3. \A t \in Seed \ {s} : Behind(t)'
        BY <1>4, <4>2 DEF Filling, Behind, Waiting
      <4> QED
        BY <2>1, <3>2, <4>2, <4>3
    <3> QED
      BY <3>1, <3>2
  <2>6. ASSUME NEW o \in Seed, Stops(o) PROVE Phase'
    <3>1. o # s
      BY <1>4, <2>6 DEF Stops, Starting, Filling
    <3>2. Behind(o)
      BY <1>4, <3>1 DEF Filling
    <3>3. \A t \in Seed \ {s} : Behind(t)'
      BY <1>2, <1>4, <2>6, <3>2 DEF Filling
    <3>4. UNCHANGED <<delegates, stats, unique, heightUnique, at>> /\ boot'[s] = boot[s]
      BY <1>1, <2>6, <3>1 DEF Stops
    <3> QED
      BY <2>1, <3>3, <3>4
  <2> QED
    BY <2>2, <2>3, <2>4, <2>5, <2>6, StartMoves
<1>5. CASE Complete
  <2>1. ASSUME unique' = unique, heightUnique' = heightUnique, GenesisKeys \subseteq Keys',
               GenesisKeys \subseteq DOMAIN stats', \A o \in Seed : Behind(o)'
        PROVE  Phase'
    BY <1>5, <2>1 DEF Complete, Phase
  <2>2. CASE Quiet
    BY <1>5, <2>1, <2>2 DEF Quiet, Complete, Behind, Waiting, Keys
  <2>3. CASE Grown
    BY <1>5, <2>1, <2>3 DEF Grown, Complete, Behind, Waiting
  <2>4. CASE Shrunk
    <3>1. PICK k : /\ k \notin GenesisKeys
                   /\ delegates' \in {delegates, {d \in delegates : d.key # k}}
                   /\ DOMAIN stats' \in {DOMAIN stats, DOMAIN stats \ {k}}
      BY <2>4 DEF Shrunk
    <3>2. Keys \ {k} \subseteq Keys'
      BY <3>1 DEF Keys
    <3>3. UNCHANGED <<unique, heightUnique, boot, at>>
      BY <2>4 DEF Shrunk
    <3> QED
      BY <1>5, <2>1, <3>1, <3>2, <3>3 DEF Complete, Behind, Waiting
  <2>5. ASSUME NEW s \in Seed, Boot(s) PROVE Phase'
    <3>1. /\ UNCHANGED <<delegates, stats, unique, heightUnique>>
          /\ \A o \in Seed \ {s} : boot'[o] = boot[o] /\ at'[o] = at[o]
          /\ Behind(s)'
      BY <1>5, <2>5, BehindBoots, FirstIsThere DEF Complete
    <3>2. \A o \in Seed : Behind(o)'
      BY <1>5, <3>1 DEF Complete, Behind, Waiting
    <3> QED
      BY <1>5, <2>1, <3>1, <3>2 DEF Complete, Keys
  <2>6. ASSUME NEW s \in Seed, Stops(s) PROVE Phase'
    <3>1. \A o \in Seed : Behind(o)'
      BY <1>2, <1>5, <2>6 DEF Complete
    <3> QED
      BY <1>5, <2>1, <2>6, <3>1 DEF Stops, Complete, Keys
  <2> QED
    BY <2>2, <2>3, <2>4, <2>5, <2>6, StartMoves
<1> QED
  BY <1>3, <1>4, <1>5 DEF Phase

LEMMA StartsStep ==
    ASSUME Typed, Typed', LinesStay, RoundInv, StartInv, [Next]_vars
    PROVE  StartInv'
<1> SUFFICES ASSUME ~spoiled' PROVE NoneBetween' /\ Phase'
  BY Zenon DEF StartInv
<1>1. ~spoiled
  BY SpoiledStays
<1>2. NoneBetween /\ Phase
  BY <1>1, Zenon DEF StartInv
<1> QED
  BY <1>1, <1>2, BetweenStep, PhaseStep

\* When no start was cut off or overtaken and the operator removes no seed
\* delegate, the database is complete as soon as nobody is starting, however many
\* seeds start side by side (init_processing).
THEOREM StartsComplete == ASSUME SeedsStay PROVE Spec => []GenesisComplete
<1>1. Typed /\ StartInv => GenesisComplete
  <2> SUFFICES ASSUME Typed, StartInv, ~spoiled,
                      NEW u \in Seed, boot[u] \in {"load", "up"}, \A s \in Seed : ~Starting(s)
               PROVE  unique /\ heightUnique /\ \A i \in DOMAIN Genesis : Genesis[i].key \in Keys \cap DOMAIN stats
    BY Zenon DEF GenesisComplete
  <2>1. Phase
    BY Zenon DEF StartInv
  <2>2. ~Nothing
    BY DEF Nothing, Waiting
  <2>3. \A s \in Seed : ~Filling(s)
    BY DEF Filling, Starting
  <2> QED
    BY <2>1, <2>2, <2>3 DEF Phase, Complete, GenesisKeys
<1>2. Init => LinesStay
  BY LinesInit
<1> QED
  BY <1>1, <1>2, TypesInit, TypesStep, RoundsInit, RoundsStep, LinesStep, StartsInit, StartsStep, PTL
     DEF Spec

-----------------------------------------------------------------------------
(* Whose solo addresses are kept                                           *)

\* The list a refresh is writing, and the addresses of all lists of an update.
ListOf(j) == j[2].lists[job[j].list]
Lists(j) == UNION {ToSet(j[2].lists[i]) : i \in DOMAIN j[2].lists}

\* A refresh is at a list of its request, and at a row of that list.
InLists ==
    \A j \in Jobs :
        /\ job[j].pc \in {"clear", "rows"} => job[j].list \in DOMAIN j[2].lists
        /\ job[j].pc = "clear" => job[j].row = 1
        /\ job[j].pc = "rows" => job[j].row \in DOMAIN ListOf(j)

\* Who emptied the addresses of a has put back what it came to since; and all
\* who write beside it were writing when it did.
Kept(a, c) ==
    /\ c.by \in Jobs /\ c.with \subseteq Jobs
    /\ c.by[2].address = a
    /\ job[c.by].pc \in {"clear", "rows", "updated", "refused"}
    /\ job[c.by].pc = "rows" =>
        /\ c.list = ToSet(ListOf(c.by))
        /\ \A n \in DOMAIN ListOf(c.by) : n < job[c.by].row => ListOf(c.by)[n] \in solo[a]
    /\ job[c.by].pc \in {"clear", "updated"} => c.list \subseteq solo[a]
    /\ \A j \in Jobs : job[j].pc = "rows" /\ j[2].address = a => j \in c.with \cup {c.by}
    /\ solo[a] \subseteq c.list \cup UNION {Lists(j) : j \in c.with}

SoloInv ==
    /\ DOMAIN solo = Address /\ DOMAIN cleared = Address
    /\ InLists
    /\ \A a \in Address : \A c \in cleared[a] : Kept(a, c)

LEMMA SoloInit == Init => SoloInv
<1> SUFFICES ASSUME Init PROVE SoloInv
  OBVIOUS
<1>1. \A j \in Jobs : job[j].pc \in {"new", "none"}
  BY DEF Init, Jobs
<1>2. solo = [a \in Address |-> {}] /\ cleared = [a \in Address |-> {}]
  BY DEF Init
<1> QED
  BY <1>1, <1>2 DEF SoloInv, InLists

\* The lists of an update are sequences of addresses.
LEMMA ListsOf ==
    ASSUME NEW j \in Jobs, ~Registration(j[2])
    PROVE  /\ j[2].address \in Address
           /\ Len(j[2].lists) \in Nat /\ DOMAIN j[2].lists = 1..Len(j[2].lists)
           /\ \A i \in DOMAIN j[2].lists :
                /\ Len(j[2].lists[i]) \in Nat /\ DOMAIN j[2].lists[i] = 1..Len(j[2].lists[i])
                /\ j[2].lists[i] # <<>> => 1 \in DOMAIN j[2].lists[i]
                /\ j[2].lists[i] = <<>> => ToSet(j[2].lists[i]) = {}
<1>1. j[2].address \in Address /\ j[2].lists \in Seq(Seq(Address))
  BY Requested
<1>2. ASSUME NEW i \in DOMAIN j[2].lists PROVE j[2].lists[i] \in Seq(Address)
  BY <1>1, <1>2
<1>3. \A q \in Seq(Address) : /\ Len(q) \in Nat /\ DOMAIN q = 1..Len(q)
                              /\ q # <<>> => 1 \in DOMAIN q
  OBVIOUS
<1>4. \A q : q = <<>> => ToSet(q) = {}
  BY DEF ToSet
<1> QED
  BY <1>1, <1>2, <1>3, <1>4

\* The refresh that follows has a list of its own.
LEMMA NextListIn ==
    ASSUME NEW j \in Jobs, ~Registration(j[2]), NEW n \in Nat, NextList(j, n).pc = "clear"
    PROVE  NextList(j, n).list \in DOMAIN j[2].lists
<1>1. n < Len(j[2].lists) /\ NextList(j, n).list = n + 1
  BY DEF NextList, Updated
<1> QED
  BY <1>1, ListsOf

\* What any other step does to a job: nothing, a refusal, a step of a
\* registration, or the beginning of the refreshes of an update.
Beside(j) ==
    \/ job'[j] = job[j]
    \/ job'[j].pc = "refused"
    \/ job[j].pc \notin {"clear", "rows", "updated", "refused"} /\ job'[j].pc \in Registering
    \/ job[j].pc = "new" /\ ~Registration(j[2]) /\ job'[j] = NextList(j, 0)

LEMMA OthersBeside ==
    ASSUME Typed, [Next]_vars, \A j \in Jobs : ~ClearSolo(j) /\ ~InsertSolo(j)
    PROVE  UNCHANGED <<solo, cleared>> /\ \A j \in Jobs : Beside(j)
<1>1. DOMAIN job = Jobs /\ \A j \in Jobs : job[j] \in Job
  BY DEF Typed, JobsTyped
<1>2. ASSUME NEW i \in Jobs, NEW pc, GoTo(i, pc), pc = "refused" \/ pc \in Registering,
             pc = "refused" \/ job[i].pc \notin {"clear", "rows", "updated", "refused"}
      PROVE  \A j \in Jobs : Beside(j)
  <2>1. job'[i].pc = pc
    BY <1>1, <1>2 DEF GoTo, Job
  <2>2. \A j \in Jobs \ {i} : job'[j] = job[j]
    BY <1>1, <1>2 DEF GoTo
  <2> QED
    BY <1>2, <2>1, <2>2 DEF Beside
<1>3. ASSUME NEW i \in Jobs, CheckApproval(i) \/ MiscountApproval(i) \/ CheckRoom(i)
      PROVE  \A j \in Jobs : Beside(j)
  <2>1. job[i].pc \in {"new", "room"}
    BY <1>3 DEF CheckApproval, MiscountApproval, CheckRoom, JobAt
  <2>2. PICK pc \in {"address", "insert", "refused"} : GoTo(i, pc)
    BY <1>3 DEF CheckApproval, MiscountApproval, CheckRoom
  <2> QED
    BY <1>2, <2>1, <2>2 DEF Registering, Fields
<1>4. ASSUME NEW i \in Jobs, NEW f \in Fields, CheckField(i, f) \/ MiscountField(i, f)
      PROVE  \A j \in Jobs : Beside(j)
  <2>1. job[i].pc \in Fields
    BY <1>4 DEF CheckField, MiscountField, JobAt
  <2>2. PICK pc \in {"ip", "key", "name", "room", "registered", "refused"} : GoTo(i, pc)
    BY <1>4 DEF CheckField, MiscountField, After, Fields
  <2> QED
    BY <1>2, <2>1, <2>2 DEF Registering, Fields
<1>5. ASSUME NEW i \in Jobs, InsertDelegate(i) \/ InsertDelegateStats(i)
      PROVE  \A j \in Jobs : Beside(j)
  <2>1. job[i].pc \in {"insert", "stats"}
    BY <1>5 DEF InsertDelegate, InsertDelegateStats, JobAt
  <2>2. PICK pc \in {"stats", "registered", "refused"} : GoTo(i, pc)
    BY <1>5 DEF InsertDelegate, InsertDelegateStats
  <2> QED
    BY <1>2, <2>1, <2>2 DEF Registering, Fields
<1>6. ASSUME NEW i \in Jobs, RefuseJob(i) PROVE \A j \in Jobs : Beside(j)
  BY <1>2, <1>6 DEF RefuseJob
<1>7. ASSUME NEW i \in Jobs, UpdateFields(i) PROVE \A j \in Jobs : Beside(j)
  <2>1. job[i].pc = "new" /\ ~Registration(i[2])
    BY <1>7 DEF UpdateFields, JobAt
  <2>2. GoTo(i, "refused") \/ job' = [job EXCEPT ![i] = NextList(i, 0)]
    BY <1>7 DEF UpdateFields
  <2>3. CASE job' = [job EXCEPT ![i] = NextList(i, 0)]
    BY <1>1, <2>1, <2>3 DEF Beside
  <2> QED
    BY <1>2, <2>2, <2>3
<1>8. ASSUME NEW s \in Seed, Crash(s) PROVE \A j \in Jobs : Beside(j)
  BY <1>8 DEF Crash, Beside, Jobs
<1>9. UNCHANGED <<solo, cleared>>
  BY WhoChanges DEF Changes
<1>10. CASE UNCHANGED job
  BY <1>9, <1>10 DEF Beside
<1> QED
  BY <1>3, <1>4, <1>5, <1>6, <1>7, <1>8, <1>9, <1>10, WhoChanges DEF Changes, Register, Update

LEMMA SoloBeside ==
    ASSUME Typed, Typed', SoloInv, UNCHANGED <<solo, cleared>>, \A j \in Jobs : Beside(j)
    PROVE  SoloInv'
<1>1. InLists'
  <2> SUFFICES ASSUME NEW j \in Jobs
               PROVE  /\ job'[j].pc \in {"clear", "rows"} => job'[j].list \in DOMAIN j[2].lists
                      /\ job'[j].pc = "clear" => job'[j].row = 1
                      /\ job'[j].pc = "rows" => job'[j].row \in DOMAIN ListOf(j)'
    BY DEF InLists
  <2>1. CASE job'[j] = job[j]
    BY <2>1 DEF SoloInv, InLists, ListOf
  <2>2. CASE job'[j].pc = "refused" \/ job'[j].pc \in Registering
    BY <2>2 DEF Registering, Fields
  <2>3. CASE job[j].pc = "new" /\ ~Registration(j[2]) /\ job'[j] = NextList(j, 0)
    BY <2>3, NextListIs, NextListIn
  <2> QED
    BY <2>1, <2>2, <2>3 DEF Beside
<1>2. ASSUME NEW a \in Address, NEW c \in cleared[a] PROVE Kept(a, c)'
  <2>1. Kept(a, c)
    BY DEF SoloInv
  <2>2. c.by \in Jobs
    BY <2>1 DEF Kept
  <2>3. \/ job'[c.by] = job[c.by]
        \/ job'[c.by].pc = "refused"
    BY <2>1, <2>2 DEF Beside, Kept
  <2>4. \A j \in Jobs : job'[j].pc = "rows" => job[j].pc = "rows"
    <3> SUFFICES ASSUME NEW j \in Jobs, job'[j].pc = "rows" PROVE job[j].pc = "rows"
      OBVIOUS
    <3>1. NextList(j, 0).pc # "rows"
      BY NextListIs
    <3> QED
      BY <3>1 DEF Beside, Registering, Fields
  <2>5. CASE job'[c.by] = job[c.by]
    BY <2>1, <2>4, <2>5 DEF Kept, ListOf
  <2>6. CASE job'[c.by].pc = "refused"
    BY <2>1, <2>4, <2>6 DEF Kept
  <2> QED
    BY <2>3, <2>5, <2>6
<1> QED
  BY <1>1, <1>2 DEF SoloInv

\* A refresh that empties the addresses begins a new account of them.
LEMMA SoloCleared ==
    ASSUME Typed, Typed', SoloInv, NEW j \in Jobs, ClearSolo(j)
    PROVE  SoloInv'
<1> DEFINE a == j[2].address
           list == j[2].lists[job[j].list]
           with == {i \in Jobs : i # j /\ job[i].pc = "rows" /\ i[2].address = a}
           new == [by |-> j, list |-> ToSet(list), with |-> with]
<1>1. /\ job[j].pc = "clear" /\ ~Registration(j[2])
      /\ DOMAIN job = Jobs /\ job[j] \in Job
      /\ job[j].list \in DOMAIN j[2].lists /\ job[j].list \in Nat /\ job[j].row = 1
  BY DEF ClearSolo, JobAt, Typed, JobsTyped, Updating, SoloInv, InLists, Job
<1>2. /\ a \in Address
      /\ list # <<>> => 1 \in DOMAIN list
      /\ list = <<>> => ToSet(list) = {}
  BY <1>1, ListsOf
<1>3. /\ solo' = [solo EXCEPT ![a] = @ \ Stale(a)]
      /\ cleared' = [cleared EXCEPT ![a] = {new}]
      /\ job' = [job EXCEPT ![j] = IF list = <<>> THEN NextList(j, @.list)
                                   ELSE [@ EXCEPT !.pc = "rows"]]
  BY DEF ClearSolo, Jobs
<1>4. DOMAIN solo' = Address /\ DOMAIN cleared' = Address
  BY <1>3 DEF SoloInv
<1>5. solo'[a] = {} /\ cleared'[a] = {new}
  BY <1>2, <1>3 DEF SoloInv, Stale
<1>6. \A b \in Address \ {a} : solo'[b] = solo[b] /\ cleared'[b] = cleared[b]
  BY <1>3 DEF SoloInv
<1>7. \A i \in Jobs \ {j} : job'[i] = job[i]
  BY <1>1, <1>3
<1>8. \/ list = <<>> /\ job'[j] = NextList(j, job[j].list)
      \/ /\ list # <<>>
         /\ job'[j].pc = "rows" /\ job'[j].list = job[j].list /\ job'[j].row = 1
  BY <1>1, <1>3 DEF Job
<1>9. job'[j].pc \in {"clear", "updated"} => list = <<>>
  BY <1>8
<1>10. job'[j].pc \in {"clear", "rows", "updated"}
  BY <1>1, <1>8, NextListIs
<1>11. job'[j].pc = "rows" => job'[j].list = job[j].list /\ job'[j].row = 1 /\ list # <<>>
  BY <1>1, <1>8, NextListIs
<1>12. job'[j].pc = "clear" => job'[j].row = 1 /\ job'[j].list \in DOMAIN j[2].lists
  BY <1>1, <1>8, NextListIs, NextListIn
<1> HIDE DEF a, list, with
<1>13. InLists'
  <2> SUFFICES ASSUME NEW i \in Jobs
               PROVE  /\ job'[i].pc \in {"clear", "rows"} => job'[i].list \in DOMAIN i[2].lists
                      /\ job'[i].pc = "clear" => job'[i].row = 1
                      /\ job'[i].pc = "rows" => job'[i].row \in DOMAIN ListOf(i)'
    BY DEF InLists
  <2>1. CASE i # j
    BY <1>7, <2>1 DEF SoloInv, InLists, ListOf
  <2>2. CASE i = j
    <3>1. CASE job'[j].pc = "rows"
      <4>1. ListOf(j)' = list
        BY <1>11, <3>1 DEF ListOf, list
      <4> QED
        BY <1>1, <1>2, <1>11, <2>2, <3>1, <4>1
    <3>2. CASE job'[j].pc # "rows"
      BY <1>12, <2>2, <3>2
    <3> QED
      BY <3>1, <3>2
  <2> QED
    BY <2>1, <2>2
<1>14. ASSUME NEW b \in Address \ {a}, NEW c \in cleared'[b] PROVE Kept(b, c)'
  <2>1. Kept(b, c) /\ solo'[b] = solo[b]
    BY <1>6 DEF SoloInv
  <2>2. c.by \in Jobs /\ c.by # j
    BY <2>1 DEF Kept, a
  <2>3. job'[c.by] = job[c.by]
    BY <1>7, <2>2
  <2>4. \A i \in Jobs : job'[i].pc = "rows" /\ i[2].address = b => job[i].pc = "rows"
    BY <1>7 DEF a
  <2> QED
    BY <2>1, <2>3, <2>4 DEF Kept, ListOf
<1>15. ASSUME NEW b, b = a, NEW c, c = new PROVE Kept(b, c)'
  <2>1. c.by = j /\ c.list = ToSet(list) /\ c.with = with
    BY <1>15
  <2>2. \A i \in Jobs : job'[i].pc = "rows" /\ i[2].address = a => i \in with \cup {j}
    BY <1>7 DEF with
  <2>3. job'[j].pc = "rows" =>
          /\ ToSet(list) = ToSet(ListOf(j)')
          /\ \A n \in DOMAIN ListOf(j)' : ~(n < job'[j].row)
    <3> SUFFICES ASSUME job'[j].pc = "rows"
                 PROVE  /\ ToSet(list) = ToSet(ListOf(j)')
                        /\ \A n \in DOMAIN ListOf(j)' : ~(n < job'[j].row)
      OBVIOUS
    <3>1. ListOf(j)' = list
      BY <1>11 DEF ListOf, list
    <3>2. DOMAIN list = 1..Len(list) /\ Len(list) \in Nat
      BY <1>1, ListsOf DEF list
    <3>3. job'[j].row = 1
      BY <1>11
    <3> QED
      BY <3>1, <3>2, <3>3
  <2>4. job'[j].pc \in {"clear", "updated"} => ToSet(list) \subseteq solo'[a]
    BY <1>2, <1>9
  <2>5. with \subseteq Jobs /\ j[2].address = a
    BY DEF with, a
  <2> QED
    BY <1>5, <1>10, <1>15, <2>1, <2>2, <2>3, <2>4, <2>5 DEF Kept
<1> HIDE DEF new
<1> QED
  <2>1. ASSUME NEW b \in Address, NEW c \in cleared'[b] PROVE Kept(b, c)'
    BY <1>5, <1>14, <1>15
  <2> QED
    BY <1>4, <1>13, <2>1 DEF SoloInv

\* A row that is written is one of the list that is being written, or of one
\* that was when the addresses were emptied.
LEMMA SoloInserted ==
    ASSUME Typed, Typed', SoloInv, NEW j \in Jobs, InsertSolo(j)
    PROVE  SoloInv'
<1> DEFINE a == j[2].address
           list == j[2].lists[job[j].list]
           row == job[j].row
<1>1. /\ job[j].pc = "rows" /\ ~Registration(j[2])
      /\ DOMAIN job = Jobs /\ job[j] \in Job
      /\ job[j].list \in DOMAIN j[2].lists /\ job[j].list \in Nat
      /\ row \in DOMAIN list
  BY DEF InsertSolo, JobAt, Typed, JobsTyped, Updating, SoloInv, InLists, Job, ListOf
<1>2. a \in Address /\ DOMAIN list = 1..Len(list) /\ Len(list) \in Nat
  BY <1>1, ListsOf
<1>3. /\ solo' = [solo EXCEPT ![a] = @ \cup {list[row]}]
      /\ cleared' = cleared
      /\ job' = [job EXCEPT ![j] = IF row < Len(list) THEN [@ EXCEPT !.row = row + 1]
                                   ELSE NextList(j, @.list)]
  BY DEF InsertSolo
<1>4. DOMAIN solo' = Address /\ DOMAIN cleared' = Address
  BY <1>3 DEF SoloInv
<1>5. solo'[a] = solo[a] \cup {list[row]} /\ \A b \in Address \ {a} : solo'[b] = solo[b]
  BY <1>2, <1>3 DEF SoloInv
<1>6. \A i \in Jobs \ {j} : job'[i] = job[i]
  BY <1>1, <1>3
<1>7. \/ /\ row < Len(list)
         /\ job'[j].pc = "rows" /\ job'[j].list = job[j].list /\ job'[j].row = row + 1
      \/ ~(row < Len(list)) /\ job'[j] = NextList(j, job[j].list)
  BY <1>1, <1>3 DEF Job
<1>8. job'[j].pc = "rows" => /\ row < Len(list)
                             /\ job'[j].list = job[j].list /\ job'[j].row = row + 1
  BY <1>1, <1>7, NextListIs
<1>9. job'[j].pc = "clear" => job'[j].row = 1 /\ job'[j].list \in DOMAIN j[2].lists
  BY <1>1, <1>7, NextListIs, NextListIn
<1>10. job'[j].pc \in {"clear", "updated"} => ~(row < Len(list))
  BY <1>1, <1>7
<1>11. job'[j].pc \in {"clear", "rows", "updated"}
  BY <1>1, <1>7, NextListIs
<1>12. list = ListOf(j) /\ (job'[j].pc = "rows" => ListOf(j)' = list)
  BY <1>8 DEF ListOf
<1>13. list[row] \in ToSet(list) /\ ToSet(list) \subseteq Lists(j)
  BY <1>1 DEF ToSet, Lists
<1>14. row \in Nat /\ row + 1 \in Nat
  BY <1>1, <1>2
<1> HIDE DEF a, list, row
<1>15. InLists'
  <2> SUFFICES ASSUME NEW i \in Jobs
               PROVE  /\ job'[i].pc \in {"clear", "rows"} => job'[i].list \in DOMAIN i[2].lists
                      /\ job'[i].pc = "clear" => job'[i].row = 1
                      /\ job'[i].pc = "rows" => job'[i].row \in DOMAIN ListOf(i)'
    BY DEF InLists
  <2>1. CASE i # j
    BY <1>6, <2>1 DEF SoloInv, InLists, ListOf
  <2>2. CASE i = j
    <3>1. CASE job'[j].pc = "rows"
      <4>1. row + 1 \in DOMAIN list
        BY <1>1, <1>2, <1>8, <3>1
      <4> QED
        BY <1>1, <1>8, <1>12, <2>2, <3>1, <4>1
    <3>2. CASE job'[j].pc # "rows"
      BY <1>9, <2>2, <3>2
    <3> QED
      BY <3>1, <3>2
  <2> QED
    BY <2>1, <2>2
<1>16. ASSUME NEW b \in Address, NEW c \in cleared[b] PROVE Kept(b, c)'
  <2>1. Kept(b, c) /\ c.by \in Jobs
    BY DEF SoloInv, Kept
  <2>2. solo[b] \subseteq solo'[b]
    BY <1>2, <1>5
  <2>3. \A i \in Jobs : job'[i].pc = "rows" /\ i[2].address = b => i \in c.with \cup {c.by}
    BY <1>1, <1>6, <2>1 DEF Kept
  <2>4. solo'[b] \subseteq c.list \cup UNION {Lists(i) : i \in c.with}
    <3>1. CASE b # a
      BY <1>5, <2>1, <3>1 DEF Kept
    <3>2. CASE b = a
      <4>1. j \in c.with \cup {c.by}
        BY <1>1, <2>1, <3>2 DEF Kept, a
      <4>2. list[row] \in c.list \cup UNION {Lists(i) : i \in c.with}
        <5>1. CASE j = c.by
          BY <1>1, <1>12, <1>13, <2>1, <5>1 DEF Kept
        <5>2. CASE j \in c.with
          BY <1>13, <5>2
        <5> QED
          BY <4>1, <5>1, <5>2
      <4> QED
        BY <1>5, <2>1, <3>2, <4>2 DEF Kept
    <3> QED
      BY <3>1, <3>2
  <2>5. CASE c.by # j
    <3>1. job'[c.by] = job[c.by] /\ ListOf(c.by)' = ListOf(c.by)
      BY <1>6, <2>1, <2>5 DEF ListOf
    <3> QED
      BY <2>1, <2>2, <2>3, <2>4, <3>1 DEF Kept
  <2>6. CASE c.by = j
    <3>1. b = a /\ c.list = ToSet(list)
          /\ \A n \in DOMAIN list : n < row => list[n] \in solo[a]
      BY <1>1, <1>12, <2>1, <2>6 DEF Kept, a, row
    <3>2. \A n \in DOMAIN list : n < row + 1 => list[n] \in solo'[a]
      <4> SUFFICES ASSUME NEW n \in DOMAIN list, n < row + 1 PROVE list[n] \in solo'[a]
        OBVIOUS
      <4>1. n \in Nat
        BY <1>2
      <4>2. n < row \/ n = row
        BY <1>14, <4>1
      <4> QED
        BY <1>5, <3>1, <4>2
    <3>3. job'[j].pc \in {"clear", "updated"} => c.list \subseteq solo'[a]
      <4> SUFFICES ASSUME ~(row < Len(list)) PROVE \A n \in DOMAIN list : list[n] \in solo'[a]
        BY <1>10, <3>1 DEF ToSet
      <4>1. \A n \in DOMAIN list : n < row + 1
        BY <1>1, <1>2
      <4> QED
        BY <3>2, <4>1
    <3>4. job'[j].pc = "rows" =>
            /\ c.list = ToSet(ListOf(j)')
            /\ \A n \in DOMAIN ListOf(j)' : n < job'[j].row => ListOf(j)'[n] \in solo'[a]
      BY <1>8, <1>12, <3>1, <3>2
    <3> QED
      BY <1>11, <2>1, <2>3, <2>4, <2>6, <3>1, <3>3, <3>4 DEF Kept
  <2> QED
    BY <2>5, <2>6
<1> QED
  BY <1>3, <1>4, <1>15, <1>16 DEF SoloInv

LEMMA SoloStep == ASSUME Typed, Typed', SoloInv, [Next]_vars PROVE SoloInv'
<1>1. CASE \A j \in Jobs : ~ClearSolo(j) /\ ~InsertSolo(j)
  BY <1>1, OthersBeside, SoloBeside
<1> QED
  BY <1>1, SoloCleared, SoloInserted

\* The solo addresses of a delegate are those of the update that emptied them
\* last, all of them once it is done, and otherwise only of updates that were
\* writing theirs just then (refresh_allowed_solo_addresses).
THEOREM LastUpdateKept == Spec => []SoloOfLastUpdate
<1>1. SoloInv => SoloOfLastUpdate
  <2> SUFFICES ASSUME SoloInv, NEW a \in Address, NEW c \in cleared[a]
               PROVE  /\ job[c.by].pc = "updated" => c.list \subseteq solo[a]
                      /\ solo[a] \subseteq c.list \cup
                            UNION {UNION {ToSet(j[2].lists[i]) : i \in DOMAIN j[2].lists} :
                                    j \in c.with}
    BY DEF SoloOfLastUpdate
  <2>1. Kept(a, c)
    BY DEF SoloInv
  <2> QED
    BY <2>1 DEF Kept, Lists
<1> QED
  BY <1>1, TypesInit, TypesStep, SoloInit, SoloStep, PTL DEF Spec

=============================================================================
