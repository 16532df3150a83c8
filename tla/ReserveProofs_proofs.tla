----------------------- MODULE ReserveProofs_proofs -----------------------
(***************************************************************************)
(* Theorems about ReserveProofs, for any delegates, votes, threads, sizes  *)
(* of a batch and failures: its types, that the scan counts every vote     *)
(* that stands throughout, and that after an undisturbed job totals and    *)
(* payouts are those of the stored votes.                                  *)
(***************************************************************************)
EXTENDS ReserveProofs, TLAPS, FiniteSetTheorems, WellFoundedInduction

-----------------------------------------------------------------------------
(* Least and greatest numbers                                              *)

\* Every set of naturals that is not empty has a least element.
LEMMA Least ==
    ASSUME NEW T, T \subseteq Nat, T # {}
    PROVE  \E x \in T : \A y \in T : x <= y
<1>1. \E x \in T : \A y \in T : ~ (<<y, x>> \in OpToRel(<, Nat))
  BY NatLessThanWellFounded, WFMin
<1>2. PICK x \in T : \A y \in T : ~ (<<y, x>> \in OpToRel(<, Nat))
  BY <1>1
<1>3. \A y \in T : ~(y < x)
  BY <1>2, Zenon DEF OpToRel
<1> QED
  BY <1>3

\* Max picks the greatest element of a bounded set.
LEMMA Greatest ==
    ASSUME NEW n \in Nat, NEW T, T \subseteq 0 .. n, T # {}
    PROVE  Max(T) \in T /\ \A y \in T : y <= Max(T)
<1> DEFINE U == {n - x : x \in T}
<1>1. U \subseteq Nat /\ U # {}
  <2>1. \A x \in T : x \in Nat /\ x <= n /\ n - x \in Nat
    OBVIOUS
  <2> QED
    BY <2>1
<1>2. PICK u \in U : \A v \in U : u <= v
  BY <1>1, Least
<1>3. PICK x \in T : u = n - x
  BY <1>2
<1>4. \A y \in T : x >= y
  <2> TAKE y \in T
  <2>1. u <= n - y
    BY <1>2
  <2> QED
    BY <1>3, <2>1
<1>5. \E z \in T : \A y \in T : z >= y
  BY <1>4
<1>6. Max(T) \in T /\ \A y \in T : Max(T) >= y
  BY <1>5, Zenon DEF Max
<1> QED
  BY <1>6

-----------------------------------------------------------------------------
(* The sum of votes                                                        *)

Picked(s) == CHOOSE p \in s : TRUE

\* The function whose value at docs Sum(docs) is.
SumFcn(docs, f) ==
    f = [s \in SUBSET docs |-> IF s = {} THEN 0
                               ELSE Picked(s).total_vote + f[s \ {Picked(s)}]]

LEMMA SumIs == ASSUME NEW docs PROVE Sum(docs) = (CHOOSE f : SumFcn(docs, f))[docs]
BY DEF Sum, MapThenSumSet, MapThenFoldSet, SumFcn, Picked

\* There is such a function: one on the subsets of up to n elements extends
\* to those of one more.
LEMMA SumFcnExists ==
    ASSUME NEW docs, IsFiniteSet(docs)
    PROVE  \E f : SumFcn(docs, f)
<1> DEFINE Part(n) == {s \in SUBSET docs : Cardinality(s) <= n}
           Step(s, g) == IF s = {} THEN 0 ELSE Picked(s).total_vote + g[s \ {Picked(s)}]
           Solves(n, g) == g = [s \in Part(n) |-> Step(s, g)]
           Bad == {n \in Nat : ~ \E g : Solves(n, g)}
<1>1. \A s \in SUBSET docs : IsFiniteSet(s) /\ Cardinality(s) \in Nat
  BY FS_Subset, FS_CardinalityType
<1>2. Bad = {}
  <2> SUFFICES ASSUME Bad # {} PROVE FALSE
    OBVIOUS
  <2>1. PICK n \in Bad : \A k \in Bad : n <= k
    BY Least
  <2>2. CASE n = 0
    <3> DEFINE g == [s \in Part(0) |-> 0]
    <3>1. \A s \in Part(0) : s = {}
      BY <1>1, FS_EmptySet
    <3>2. Solves(0, g)
      BY <3>1
    <3> QED
      BY <2>1, <2>2, <3>2
  <2>3. CASE n # 0
    <3>1. n \in Nat /\ n - 1 \in Nat
      BY <2>3
    <3>2. n - 1 \notin Bad
      <4> HIDE DEF Bad
      <4> QED
        BY <2>1, <3>1
    <3>3. PICK g : Solves(n - 1, g)
      BY <3>1, <3>2
    <3> DEFINE h == [s \in Part(n) |-> Step(s, g)]
    <3>4. \A t \in Part(n - 1) : t \in Part(n) /\ h[t] = g[t]
      <4> TAKE t \in Part(n - 1)
      <4>1. t \in Part(n)
        BY <1>1, <2>1
      <4>2. g[t] = Step(t, g)
        BY <3>3
      <4> QED
        BY <4>1, <4>2
    <3>5. \A s \in Part(n) : Step(s, h) = Step(s, g)
      <4> TAKE s \in Part(n)
      <4>1. CASE s = {}
        BY <4>1
      <4>2. CASE s # {}
        <5>1. Picked(s) \in s
          BY <4>2 DEF Picked
        <5>2. Cardinality(s \ {Picked(s)}) = Cardinality(s) - 1
          BY <1>1, <5>1, FS_RemoveElement
        <5>3. s \ {Picked(s)} \in Part(n - 1)
          BY <1>1, <2>1, <5>2
        <5> QED
          BY <3>4, <5>3
      <4> QED
        BY <4>1, <4>2
    <3>6. Solves(n, h)
      BY <3>5
    <3> QED
      BY <2>1, <3>6
  <2> QED
    BY <2>2, <2>3
<1>3. Cardinality(docs) \in Nat
  BY FS_CardinalityType
<1>4. PICK f : Solves(Cardinality(docs), f)
  BY <1>2, <1>3
<1>5. Part(Cardinality(docs)) = SUBSET docs
  BY <1>1, FS_Subset
<1> QED
  BY <1>4, <1>5 DEF SumFcn

\* The votes of no document sum up to nothing.
LEMMA SumEmpty == Sum({}) = 0
<1>1. PICK f : SumFcn({}, f)
  BY SumFcnExists, FS_EmptySet
<1>2. SumFcn({}, CHOOSE g : SumFcn({}, g))
  BY <1>1
<1> QED
  BY <1>2, SumIs DEF SumFcn

\* A sum of votes is a natural number.
LEMMA SumType ==
    ASSUME NEW docs, IsFiniteSet(docs), \A p \in docs : p.total_vote \in Nat
    PROVE  Sum(docs) \in Nat
<1> DEFINE f == CHOOSE g : SumFcn(docs, g)
<1>1. SumFcn(docs, f)
  BY SumFcnExists
<1> HIDE DEF f
<1> DEFINE Bad == {n \in Nat : \E s \in SUBSET docs : Cardinality(s) = n /\ f[s] \notin Nat}
<1>2. \A s \in SUBSET docs : IsFiniteSet(s) /\ Cardinality(s) \in Nat
  BY FS_Subset, FS_CardinalityType
<1>3. Bad = {}
  <2> SUFFICES ASSUME Bad # {} PROVE FALSE
    OBVIOUS
  <2>1. PICK n \in Bad : \A k \in Bad : n <= k
    BY Least
  <2>2. PICK s \in SUBSET docs : Cardinality(s) = n /\ f[s] \notin Nat
    BY <2>1
  <2>3. f[s] = IF s = {} THEN 0 ELSE Picked(s).total_vote + f[s \ {Picked(s)}]
    BY <1>1 DEF SumFcn
  <2>4. s # {}
    BY <2>2, <2>3
  <2>5. Picked(s) \in s
    BY <2>4 DEF Picked
  <2>6. Cardinality(s \ {Picked(s)}) = n - 1
    BY <1>2, <2>2, <2>5, FS_RemoveElement
  <2>7. n - 1 \in Nat
    BY <1>2, <2>6
  <2>8. n - 1 \notin Bad
    BY <2>1, <2>7
  <2>9. f[s \ {Picked(s)}] \in Nat
    BY <2>6, <2>7, <2>8
  <2>10. Picked(s).total_vote \in Nat
    BY <2>5
  <2> QED
    BY <2>2, <2>3, <2>4, <2>9, <2>10
<1>4. f[docs] \in Nat
  BY <1>2, <1>3
<1> QED
  BY <1>4, SumIs DEF f

-----------------------------------------------------------------------------
(* The inductive invariant                                                 *)

Typed ==
    /\ TypeOK
    /\ IsFiniteSet(proofs) /\ IsFiniteSet(batch) /\ IsFiniteSet(counted)
    /\ \A t \in Thread : step[t] # "idle" => request[t] \in Vote

\* During the scan a vote that stands is counted, fetched or still to come.
Reached ==
    job = "scan" => \A p \in standing : p \in counted \/ p \in batch \/ p.seq > last

\* What an undisturbed job has done so far: the scan has counted or still holds
\* every document and no other, the passes have treated all but "todo".
Undisturbed ==
    quiet =>
        /\ job = "scan" =>
             /\ counted \cup batch \subseteq proofs
             /\ \A p \in proofs : p \in counted \/ p \in batch \/ p.seq > last
        /\ Scanned => counted = proofs
        /\ job = "totals" =>
             \A d \in Delegate : StoredFor(d) # {} /\ d \notin todo => total[d] = Sum(StoredFor(d))
        /\ job = "zeros" =>
             \A d \in Delegate : StoredFor(d) # {} \/ (d \in online /\ d \notin todo)
                                    => total[d] = Sum(StoredFor(d))
        /\ TotalsMatchVotes
        /\ PayoutsMatchVotes

IInv == Typed /\ Reached /\ ScanCountsStanding /\ Undisturbed

LEMMA DocumentType ==
    ASSUME NEW p \in Documents
    PROVE  /\ p.seq \in 1 .. MaxInserts
           /\ p.total_vote \in Nat
           /\ p.public_address_voted_for \in Delegate
           /\ p.reserve_proof \in {v.proof : v \in Vote}
BY ReserveAssumption DEF Documents, Document

\* The first document of a batch is one of it.
LEMMA FirstType ==
    ASSUME NEW docs \in SUBSET Documents, docs # {}
    PROVE  First(docs) \in docs /\ \A q \in docs : First(docs).seq <= q.seq
<1> DEFINE N == {p.seq : p \in docs}
<1>1. N \subseteq Nat /\ N # {}
  BY DocumentType, ReserveAssumption
<1>2. PICK n \in N : \A k \in N : n <= k
  BY <1>1, Least
<1>3. \E p \in docs : \A q \in docs : p.seq <= q.seq
  BY <1>2
<1> QED
  BY <1>3, Zenon DEF First

\* What the next fetch brings.
Fetched == {p \in Ahead : Cardinality({q \in Ahead : q.seq < p.seq}) < BatchSize}

LEMMA FetchedType ==
    ASSUME Typed, Ahead # {}
    PROVE  /\ Fetched \subseteq Ahead
           /\ Fetched # {}
           /\ Max({p.seq : p \in Fetched}) \in 1 .. MaxInserts
           /\ \A p \in Ahead : p \in Fetched \/ p.seq > Max({q.seq : q \in Fetched})
<1>1. Ahead \in SUBSET Documents /\ IsFiniteSet(Ahead)
  BY FS_Subset DEF Typed, TypeOK, Ahead
<1>2. \A p \in Ahead : p.seq \in 1 .. MaxInserts
  BY <1>1, DocumentType
<1> DEFINE Before(p) == {q \in Ahead : q.seq < p.seq}
           N == {p.seq : p \in Fetched}
<1>3. \A p \in Ahead : IsFiniteSet(Before(p)) /\ Cardinality(Before(p)) \in Nat
  BY <1>1, FS_Subset, FS_CardinalityType
<1>4. Fetched # {}
  <2>1. First(Ahead) \in Ahead /\ \A q \in Ahead : First(Ahead).seq <= q.seq
    BY <1>1, FirstType
  <2>2. Before(First(Ahead)) = {}
    BY <1>2, <2>1
  <2>3. Cardinality(Before(First(Ahead))) = 0
    BY <2>2, FS_EmptySet
  <2> QED
    BY <2>1, <2>3, ReserveAssumption DEF Fetched
<1>5. N \subseteq 0 .. MaxInserts /\ N # {}
  <2>1. MaxInserts \in Nat
    BY ReserveAssumption
  <2>2. \A p \in Fetched : p.seq \in 0 .. MaxInserts
    BY <1>2, <2>1 DEF Fetched
  <2> QED
    BY <1>4, <2>2
<1>6. Max(N) \in N /\ \A k \in N : k <= Max(N)
  BY <1>5, Greatest, ReserveAssumption
<1>7. ASSUME NEW p \in Ahead, ~(p.seq > Max(N)) PROVE p \in Fetched
  <2>1. PICK m \in Fetched : m.seq = Max(N)
    BY <1>6
  <2>2. m \in Ahead
    BY DEF Fetched
  <2>3. p.seq <= m.seq
    BY <1>2, <1>7, <2>1, <2>2
  <2>4. Before(p) \subseteq Before(m)
    BY <1>2, <2>2, <2>3
  <2>5. Cardinality(Before(p)) <= Cardinality(Before(m))
    BY <1>3, <2>2, <2>4, FS_Subset
  <2>6. Cardinality(Before(m)) < BatchSize
    BY <2>1 DEF Fetched
  <2>7. Cardinality(Before(p)) < BatchSize
    <3>1. Cardinality(Before(p)) \in Nat /\ Cardinality(Before(m)) \in Nat
      BY <1>3, <2>2
    <3>2. BatchSize \in Nat
      BY ReserveAssumption
    <3> HIDE DEF Before
    <3> QED
      BY <2>5, <2>6, <3>1, <3>2
  <2> QED
    BY <2>7 DEF Fetched
<1>8. Max(N) \in 1 .. MaxInserts
  BY <1>2, <1>6 DEF Fetched
<1> QED
  BY <1>4, <1>7, <1>8 DEF Fetched

-----------------------------------------------------------------------------
LEMMA ReserveInit == Init => IInv
<1> SUFFICES ASSUME Init PROVE IInv
  OBVIOUS
<1>1. TypeOK
  <2>1. 0 \in 0 .. MaxInserts
    BY ReserveAssumption
  <2>2. total \in [Delegate -> Nat] /\ payouts \in [Delegate -> SUBSET Documents]
    BY DEF Init, NoTotal
  <2> QED
    BY <2>1, <2>2 DEF Init, TypeOK
<1>2. Typed
  BY <1>1, FS_EmptySet DEF Init, Typed
<1>3. Reached /\ ScanCountsStanding /\ Undisturbed
  BY DEF Init, Reached, ScanCountsStanding, Scanned, Undisturbed, TotalsMatchVotes,
         PayoutsMatchVotes
<1> QED
  BY <1>2, <1>3 DEF IInv

\* Outside the job nothing is counted or settled.
LEMMA Elsewhere ==
    ASSUME IInv, UNCHANGED <<job, cursor, pass, ledger>>,
           standing' \subseteq standing,
           quiet' => quiet /\ proofs' = proofs
    PROVE  Reached' /\ ScanCountsStanding' /\ Undisturbed'
<1>1. Reached'
  BY DEF IInv, Reached, cursor
<1>2. ScanCountsStanding'
  BY DEF IInv, ScanCountsStanding, Scanned, cursor
<1>3. Undisturbed'
  <2>1. CASE ~quiet'
    BY <2>1 DEF Undisturbed, TotalsMatchVotes, PayoutsMatchVotes
  <2>2. CASE quiet'
    BY <2>2 DEF IInv, Undisturbed, Scanned, TotalsMatchVotes, PayoutsMatchVotes, StoredFor,
                cursor, pass, ledger
  <2> QED
    BY <2>1, <2>2
<1> QED
  BY <1>1, <1>2, <1>3

LEMMA SpendInv == ASSUME IInv, NEW v \in Vote, Spend(v.proof) PROVE IInv'
<1>1. Typed'
  BY DEF IInv, Typed, TypeOK, Spend, handlers, cursor, pass, ledger
<1>2. Reached' /\ ScanCountsStanding' /\ Undisturbed'
  BY Elsewhere DEF Spend
<1> QED
  BY <1>1, <1>2 DEF IInv

LEMMA ProveInv == ASSUME IInv, NEW t \in Thread, NEW v \in Vote, Prove(t, v) PROVE IInv'
<1>1. Typed'
  BY DEF IInv, Typed, TypeOK, Prove, cursor, pass, ledger
<1>2. Reached' /\ ScanCountsStanding' /\ Undisturbed'
  BY Elsewhere DEF Prove
<1> QED
  BY <1>1, <1>2 DEF IInv

LEMMA ReplaceInv == ASSUME IInv, NEW t \in Thread, Replace(t) PROVE IInv'
<1>1. proofs' \subseteq proofs /\ IsFiniteSet(proofs')
  BY FS_Subset DEF IInv, Typed, Replace, StoredBy
<1>2. TypeOK'
  BY <1>1 DEF IInv, Typed, TypeOK, Replace, cursor, pass, ledger
<1>3. Typed'
  BY <1>1, <1>2 DEF IInv, Typed, TypeOK, Replace, cursor
<1>4. Reached' /\ ScanCountsStanding' /\ Undisturbed'
  BY Elsewhere DEF IInv, Typed, TypeOK, Replace
<1> QED
  BY <1>3, <1>4 DEF IInv

LEMMA InsertInv == ASSUME IInv, NEW t \in Thread, Insert(t) PROVE IInv'
<1>1. request[t] \in Vote
  BY DEF IInv, Typed, Insert
<1>2. CASE UNCHANGED <<proofs, inserts, quiet>>
  <2>1. Typed'
    BY <1>2 DEF IInv, Typed, TypeOK, Insert, cursor, pass, ledger
  <2>2. Reached' /\ ScanCountsStanding' /\ Undisturbed'
    BY <1>2, Elsewhere DEF Insert
  <2> QED
    BY <2>1, <2>2 DEF IInv
<1>3. CASE /\ inserts < MaxInserts
           /\ inserts' = inserts + 1
           /\ proofs' = proofs \cup {Document(request[t], inserts + 1)}
           /\ quiet' = FALSE
  <2>1. inserts + 1 \in 1 .. MaxInserts
    BY <1>3, ReserveAssumption DEF IInv, Typed, TypeOK
  <2>2. Document(request[t], inserts + 1) \in Documents
    BY <1>1, <2>1 DEF Documents
  <2>3. IsFiniteSet(proofs')
    BY <1>3, FS_AddElement DEF IInv, Typed
  <2>4. TypeOK'
    <3>1. proofs' \subseteq Documents /\ standing' \subseteq proofs'
      BY <1>3, <2>2 DEF IInv, Typed, TypeOK, Insert
    <3>2. inserts' \in 0 .. MaxInserts
      BY <1>3, <2>1
    <3> QED
      BY <1>3, <3>1, <3>2 DEF IInv, Typed, TypeOK, Insert, cursor, pass, ledger
  <2>5. Typed'
    BY <2>3, <2>4 DEF IInv, Typed, TypeOK, Insert, cursor
  <2>6. Reached' /\ ScanCountsStanding' /\ Undisturbed'
    BY <1>3, Elsewhere DEF Insert
  <2> QED
    BY <2>5, <2>6 DEF IInv
<1> QED
  BY <1>2, <1>3 DEF Insert

-----------------------------------------------------------------------------
(* The scan                                                                *)

LEMMA StartScanInv == ASSUME IInv, StartScan PROVE IInv'
<1>1. TypeOK'
  BY ReserveAssumption DEF IInv, Typed, TypeOK, StartScan, handlers, pass, ledger
<1>2. Typed'
  BY <1>1, FS_EmptySet DEF IInv, Typed, StartScan, handlers
<1>3. \A p \in proofs : p.seq > 0
  BY DocumentType DEF IInv, Typed, TypeOK
<1>4. Reached' /\ ScanCountsStanding'
  BY <1>3 DEF StartScan, Reached, ScanCountsStanding, Scanned
<1>5. Undisturbed'
  BY <1>3 DEF StartScan, Undisturbed, Scanned, TotalsMatchVotes, PayoutsMatchVotes
<1> QED
  BY <1>2, <1>4, <1>5 DEF IInv

LEMMA FetchInv == ASSUME IInv, Fetch PROVE IInv'
<1>1. Typed /\ Ahead # {} /\ job = "scan" /\ batch = {}
  BY DEF IInv, Fetch
<1>2. batch' = Fetched /\ last' = Max({p.seq : p \in Fetched})
  BY DEF Fetch, Fetched
<1>3. /\ Fetched \subseteq Ahead
      /\ last' \in 1 .. MaxInserts
      /\ \A p \in Ahead : p \in Fetched \/ p.seq > last'
  BY <1>1, <1>2, FetchedType
<1>4. Ahead \subseteq proofs
  BY DEF Ahead
<1>5. IsFiniteSet(batch')
  BY <1>1, <1>2, <1>3, <1>4, FS_Subset DEF Typed
<1>6. TypeOK'
  BY <1>1, <1>2, <1>3, <1>4, ReserveAssumption
     DEF Typed, TypeOK, Fetch, handlers, pass, ledger
<1>7. Typed'
  BY <1>1, <1>5, <1>6 DEF Typed, Fetch, handlers
<1>8. \A p \in proofs : p \in counted \/ p.seq > last
                            => p \in counted' \/ p \in batch' \/ p.seq > last'
  BY <1>2, <1>3 DEF Fetch, Ahead
<1>9. standing \subseteq proofs
  BY <1>1 DEF Typed, TypeOK
<1>10. Reached'
  BY <1>1, <1>8, <1>9 DEF IInv, Reached, Fetch
<1>11. ScanCountsStanding'
  BY <1>1 DEF Fetch, ScanCountsStanding, Scanned
<1>12. Undisturbed'
  BY <1>1, <1>2, <1>3, <1>4, <1>8
     DEF IInv, Undisturbed, Fetch, Scanned, TotalsMatchVotes, PayoutsMatchVotes
<1> QED
  BY <1>7, <1>10, <1>11, <1>12 DEF IInv

LEMMA CheckInv == ASSUME IInv, Check PROVE IInv'
<1> DEFINE p == First(batch)
<1>1. Typed /\ batch # {} /\ job = "scan" /\ batch' = batch \ {p}
  BY DEF IInv, Check
<1>2. p \in batch
  BY <1>1, FirstType DEF Typed, TypeOK
<1>3. IsFiniteSet(batch')
  BY <1>1, FS_RemoveElement DEF Typed
<1> HIDE DEF p
<1>4. CASE CountDocument(p)
  <2>1. IsFiniteSet(counted')
    BY <1>1, <1>4, FS_AddElement DEF Typed, CountDocument
  <2>2. TypeOK'
    BY <1>1, <1>2, <1>4 DEF Typed, TypeOK, CountDocument, Check, handlers, pass, ledger
  <2>3. Typed'
    BY <1>1, <1>3, <1>4, <2>1, <2>2 DEF Typed, CountDocument, Check, handlers
  <2>4. Reached' /\ ScanCountsStanding'
    BY <1>1, <1>4 DEF IInv, Reached, ScanCountsStanding, Scanned, CountDocument, Check
  <2>5. Undisturbed'
    BY <1>1, <1>2, <1>4 DEF IInv, Undisturbed, Scanned, TotalsMatchVotes, PayoutsMatchVotes,
       CountDocument, Check
  <2> QED
    BY <2>3, <2>4, <2>5 DEF IInv
<1>5. CASE Prune(p)
  <2>1. proofs' \subseteq proofs /\ IsFiniteSet(proofs')
    BY <1>1, <1>5, FS_Subset DEF Typed, Prune, StoredBy
  <2>2. TypeOK'
    BY <1>1, <1>5, <2>1 DEF Typed, TypeOK, Prune, Check, handlers, pass, ledger
  <2>3. Typed'
    BY <1>1, <1>3, <1>5, <2>1, <2>2 DEF Typed, Prune, Check, handlers
  <2>4. Reached' /\ ScanCountsStanding'
    BY <1>1, <1>5 DEF IInv, Reached, ScanCountsStanding, Scanned, Prune, Check
  <2>5. Undisturbed'
    BY <1>5 DEF Undisturbed, TotalsMatchVotes, PayoutsMatchVotes, Prune
  <2> QED
    BY <2>3, <2>4, <2>5 DEF IInv
<1> QED
  BY <1>4, <1>5 DEF Check, p

LEMMA EndScanInv == ASSUME IInv, EndScan PROVE IInv'
<1>1. TypeOK'
  BY DEF IInv, Typed, TypeOK, EndScan, Snapshot, handlers, cursor, ledger
<1>2. Typed'
  BY <1>1 DEF IInv, Typed, EndScan, handlers, cursor
<1>3. \A p \in proofs : ~(p.seq > last)
  BY DEF EndScan, Ahead
<1>4. ScanCountsStanding' /\ Reached'
  BY <1>3 DEF IInv, Typed, TypeOK, Reached, ScanCountsStanding, EndScan, Snapshot, cursor
<1>5. ASSUME quiet PROVE counted = proofs
  BY <1>3, <1>5 DEF IInv, Undisturbed, EndScan
<1>6. Undisturbed'
  <2>1. CASE ~quiet
    BY <2>1 DEF EndScan, Undisturbed, TotalsMatchVotes, PayoutsMatchVotes
  <2>2. CASE quiet
    BY <1>5, <2>2 DEF EndScan, Snapshot, Undisturbed, TotalsMatchVotes, PayoutsMatchVotes,
       StoredFor, CountedFor, cursor
  <2> QED
    BY <2>1, <2>2
<1> QED
  BY <1>2, <1>4, <1>6 DEF IInv

LEMMA ScanFailsInv == ASSUME IInv, ScanFails PROVE IInv'
<1>1. TypeOK'
  BY DEF IInv, Typed, TypeOK, ScanFails, Snapshot, handlers, cursor, ledger
<1>2. Typed'
  BY <1>1 DEF IInv, Typed, ScanFails, handlers, cursor
<1>3. Reached' /\ ScanCountsStanding' /\ Undisturbed'
  BY DEF ScanFails, Snapshot, Reached, ScanCountsStanding, Undisturbed, TotalsMatchVotes,
         PayoutsMatchVotes
<1> QED
  BY <1>2, <1>3 DEF IInv

-----------------------------------------------------------------------------
(* Totals and payouts                                                      *)

\* What the passes leave alone.
LEMMA PassInv ==
    ASSUME IInv, TypeOK', job \in {"totals", "zeros", "payouts"}, job' # "scan",
           UNCHANGED <<proofs, request, step, cursor, standing>>
    PROVE  Typed' /\ Reached' /\ ScanCountsStanding'
<1>1. Typed'
  BY DEF IInv, Typed, cursor
<1>2. Reached' /\ ScanCountsStanding'
  BY DEF IInv, Reached, ScanCountsStanding, Scanned, cursor
<1> QED
  BY <1>1, <1>2

\* An undisturbed job has counted what is stored.
LEMMA CountedStored ==
    ASSUME IInv, quiet, Scanned
    PROVE  counted = proofs /\ \A d \in Delegate : CountedFor(d) = StoredFor(d)
BY DEF IInv, Undisturbed, CountedFor, StoredFor

LEMMA SumsTyped ==
    ASSUME IInv, NEW d \in Delegate
    PROVE  Sum(CountedFor(d)) \in Nat
<1>1. IsFiniteSet(CountedFor(d))
  BY FS_Subset DEF IInv, Typed, CountedFor
<1>2. \A p \in CountedFor(d) : p.total_vote \in Nat
  BY DocumentType DEF IInv, Typed, TypeOK, CountedFor
<1> QED
  BY <1>1, <1>2, SumType

LEMMA WriteTotalInv == ASSUME IInv, NEW d \in Delegate, WriteTotal(d) PROVE IInv'
<1> DEFINE amount == Sum(CountedFor(d))
<1>1. amount \in Nat
  BY SumsTyped
<1> HIDE DEF amount
<1>2. /\ job = "totals" /\ job' = job
      /\ todo' = todo \ {d}
      /\ UNCHANGED <<spent, proofs, inserts, handlers, cursor, online, payouts, standing>>
      /\ \/ total' = [total EXCEPT ![d] = amount] /\ UNCHANGED quiet
         \/ quiet' = FALSE /\ UNCHANGED total
         \/ total[d] = amount /\ UNCHANGED <<total, quiet>>
  BY DEF WriteTotal, WriteFails, amount
<1>3. TypeOK'
  <2>1. total' \in [Delegate -> Nat]
    BY <1>1, <1>2 DEF IInv, Typed, TypeOK
  <2>2. quiet' \in BOOLEAN
    BY <1>2 DEF IInv, Typed, TypeOK
  <2> QED
    BY <1>2, <2>1, <2>2 DEF IInv, Typed, TypeOK, handlers, cursor
<1>4. Typed' /\ Reached' /\ ScanCountsStanding'
  BY <1>2, <1>3, PassInv DEF handlers
<1>5. Undisturbed'
  <2>1. CASE ~quiet'
    BY <2>1 DEF Undisturbed, TotalsMatchVotes, PayoutsMatchVotes
  <2>2. CASE quiet'
    <3>1. quiet /\ total' = [total EXCEPT ![d] = amount]
      BY <1>2, <2>2 DEF IInv, Typed, TypeOK
    <3>2. counted = proofs /\ amount = Sum(StoredFor(d))
      BY <1>2, <3>1, CountedStored DEF Scanned, amount
    <3>3. total'[d] = Sum(StoredFor(d)) /\ \A e \in Delegate \ {d} : total'[e] = total[e]
      BY <3>1, <3>2 DEF IInv, Typed, TypeOK
    <3>4. \A e \in Delegate : StoredFor(e)' = StoredFor(e)
      BY <1>2 DEF StoredFor
    <3>5. \A e \in Delegate : StoredFor(e) # {} /\ e \notin todo' => total'[e] = Sum(StoredFor(e))
      BY <1>2, <3>1, <3>3 DEF IInv, Undisturbed
    <3> QED
      BY <1>2, <3>2, <3>4, <3>5
         DEF Undisturbed, Scanned, TotalsMatchVotes, PayoutsMatchVotes, cursor
  <2> QED
    BY <2>1, <2>2
<1> QED
  BY <1>4, <1>5 DEF IInv

LEMMA EndTotalsInv == ASSUME IInv, EndTotals PROVE IInv'
<1>1. TypeOK'
  BY DEF IInv, Typed, TypeOK, EndTotals, handlers, cursor, ledger
<1>2. Typed' /\ Reached' /\ ScanCountsStanding'
  BY <1>1, PassInv DEF EndTotals, handlers
<1>3. Undisturbed'
  BY DEF IInv, EndTotals, Undisturbed, Scanned, TotalsMatchVotes, PayoutsMatchVotes, StoredFor,
         cursor, ledger
<1> QED
  BY <1>2, <1>3 DEF IInv

LEMMA ZeroTotalInv == ASSUME IInv, NEW d \in Delegate, ZeroTotal(d) PROVE IInv'
<1>1. TypeOK'
  <2>1. total' \in [Delegate -> Nat]
    BY DEF IInv, Typed, TypeOK, ZeroTotal, WriteFails
  <2>2. quiet' \in BOOLEAN
    BY DEF IInv, Typed, TypeOK, ZeroTotal, WriteFails
  <2> QED
    BY <2>1, <2>2 DEF IInv, Typed, TypeOK, ZeroTotal, handlers, cursor
<1>2. Typed' /\ Reached' /\ ScanCountsStanding'
  BY <1>1, PassInv DEF ZeroTotal, handlers
<1>3. Undisturbed'
  <2>1. CASE ~quiet'
    BY <2>1 DEF Undisturbed, TotalsMatchVotes, PayoutsMatchVotes
  <2>2. CASE quiet'
    <3>1. \/ StoredFor(d) = {} /\ total' = [total EXCEPT ![d] = 0]
          \/ StoredFor(d) # {} /\ total' = total
      BY <2>2 DEF ZeroTotal, WriteFails
    <3>2. quiet
      BY <2>2 DEF ZeroTotal, WriteFails
    <3>3. \A e \in Delegate : StoredFor(e)' = StoredFor(e)
      BY DEF ZeroTotal, StoredFor
    <3>4. job = "zeros"
      BY DEF ZeroTotal
    <3>5. \A e \in Delegate : StoredFor(e) # {} \/ (e \in online /\ e \notin todo)
                                 => total[e] = Sum(StoredFor(e))
      BY <3>2, <3>4 DEF IInv, Undisturbed
    <3>6. total'[d] = Sum(StoredFor(d)) /\ \A e \in Delegate \ {d} : total'[e] = total[e]
      BY <3>1, <3>5, SumEmpty DEF IInv, Typed, TypeOK
    <3>7. \A e \in Delegate : StoredFor(e) # {} \/ (e \in online /\ e \notin todo \ {d})
                                 => total'[e] = Sum(StoredFor(e))
      BY <3>5, <3>6
    <3>8. counted = proofs
      BY <3>2, <3>4, CountedStored DEF Scanned
    <3> QED
      BY <3>3, <3>7, <3>8
         DEF ZeroTotal, Undisturbed, Scanned, TotalsMatchVotes, PayoutsMatchVotes, cursor
  <2> QED
    BY <2>1, <2>2
<1> QED
  BY <1>2, <1>3 DEF IInv

LEMMA EndZerosInv == ASSUME IInv, EndZeros PROVE IInv'
<1>1. TypeOK'
  BY DEF IInv, Typed, TypeOK, EndZeros, handlers, cursor, ledger
<1>2. Typed' /\ Reached' /\ ScanCountsStanding'
  BY <1>1, PassInv DEF EndZeros, handlers
<1>3. Undisturbed'
  BY DEF IInv, EndZeros, Undisturbed, Scanned, TotalsMatchVotes, PayoutsMatchVotes, StoredFor,
         cursor, ledger
<1> QED
  BY <1>2, <1>3 DEF IInv

LEMMA PayInv == ASSUME IInv, NEW d \in Delegate, Pay(d) PROVE IInv'
<1>1. CountedFor(d) \in SUBSET Documents
  BY DEF IInv, Typed, TypeOK, CountedFor
<1>2. TypeOK'
  BY <1>1 DEF IInv, Typed, TypeOK, Pay, handlers, cursor
<1>3. Typed' /\ Reached' /\ ScanCountsStanding'
  BY <1>2, PassInv DEF Pay, handlers
<1>4. Undisturbed'
  <2>1. CASE ~quiet'
    BY <2>1 DEF Undisturbed, TotalsMatchVotes, PayoutsMatchVotes
  <2>2. CASE quiet'
    <3>1. quiet /\ job = "payouts"
      BY <2>2 DEF Pay
    <3>2. counted = proofs /\ CountedFor(d) = StoredFor(d)
      BY <3>1, CountedStored DEF Scanned
    <3>3. \A e \in Delegate : StoredFor(e)' = StoredFor(e)
      BY DEF Pay, StoredFor
    <3>4. TotalsMatchVotes'
      BY <3>1, <3>3 DEF IInv, Undisturbed, TotalsMatchVotes, Pay
    <3>5. \A e \in online \ todo : payouts[e] = StoredFor(e)
      BY <3>1 DEF IInv, Undisturbed, PayoutsMatchVotes
    <3>6. \/ d \notin online /\ payouts' = payouts
          \/ d \in online /\ payouts' = [payouts EXCEPT ![d] = CountedFor(d)]
      BY <2>2 DEF Pay
    <3>7. \A e \in online \ (todo \ {d}) : payouts'[e] = StoredFor(e)
      BY <3>2, <3>5, <3>6 DEF IInv, Typed, TypeOK
    <3>8. PayoutsMatchVotes'
      <4>1. \A e \in online \ (todo \ {d}) : e \in Delegate
        BY DEF IInv, Typed, TypeOK
      <4> QED
        BY <3>3, <3>7, <4>1 DEF PayoutsMatchVotes, Pay
    <3> QED
      BY <3>1, <3>2, <3>4, <3>8 DEF Undisturbed, Scanned, Pay, cursor
  <2> QED
    BY <2>1, <2>2
<1> QED
  BY <1>3, <1>4 DEF IInv

LEMMA EndJobInv == ASSUME IInv, EndJob PROVE IInv'
<1>1. TypeOK'
  <2>1. 0 \in 0 .. MaxInserts
    BY ReserveAssumption
  <2> QED
    BY <2>1 DEF IInv, Typed, TypeOK, EndJob, handlers, ledger
<1>2. Typed'
  BY <1>1, FS_EmptySet DEF IInv, Typed, EndJob, handlers
<1>3. Reached' /\ ScanCountsStanding' /\ Undisturbed'
  BY DEF EndJob, Reached, ScanCountsStanding, Scanned, Undisturbed, TotalsMatchVotes,
         PayoutsMatchVotes
<1> QED
  BY <1>2, <1>3 DEF IInv

LEMMA StutterInv == IInv /\ UNCHANGED vars => IInv'
<1> SUFFICES ASSUME IInv, UNCHANGED vars PROVE IInv'
  OBVIOUS
<1>1. Typed'
  BY DEF IInv, Typed, TypeOK, vars, handlers, cursor, pass, ledger
<1>2. Reached' /\ ScanCountsStanding' /\ Undisturbed'
  BY Elsewhere DEF vars
<1> QED
  BY <1>1, <1>2 DEF IInv

LEMMA ReserveNext == IInv /\ [Next]_vars => IInv'
<1> SUFFICES ASSUME IInv, [Next]_vars PROVE IInv'
  OBVIOUS
<1>1. ASSUME NEW v \in Vote, Spend(v.proof) PROVE IInv'
  BY <1>1, SpendInv
<1>2. ASSUME Handle PROVE IInv'
  BY <1>2, ProveInv, ReplaceInv, InsertInv DEF Handle
<1>3. ASSUME Scan PROVE IInv'
  BY <1>3, StartScanInv, FetchInv, CheckInv, EndScanInv, ScanFailsInv DEF Scan
<1>4. ASSUME Settle PROVE IInv'
  BY <1>4, EndTotalsInv, EndZerosInv, EndJobInv, WriteTotalInv, ZeroTotalInv, PayInv DEF Settle
<1> QED
  BY <1>1, <1>2, <1>3, <1>4, StutterInv DEF Next

-----------------------------------------------------------------------------
\* The invariant holds in every reachable state.
THEOREM ReserveInvariant == Spec => []IInv
<1>1. IInv /\ [Next]_vars => IInv'
  BY ReserveNext
<1> QED
  BY <1>1, ReserveInit, PTL DEF Spec

\* The variables of the intake and of the job keep their types, sums of any
\* number of votes included (agg_total never leaves the naturals).
THEOREM ReserveTypes == Spec => []TypeOK
<1>1. IInv => TypeOK
  BY DEF IInv, Typed
<1> QED
  BY <1>1, ReserveInvariant, PTL

\* However the batches of the cursor fall, and whatever is stored, replaced,
\* spent or removed meanwhile: the scan counts each vote that stands
\* throughout it (the loop of run_proof_check).
THEOREM StandingVotesCounted == Spec => []ScanCountsStanding
<1>1. IInv => ScanCountsStanding
  BY DEF IInv
<1> QED
  BY <1>1, ReserveInvariant, PTL

\* After an undisturbed job the totals of the delegates that have votes or are
\* online are the sums of their votes, whatever earlier jobs left there.
THEOREM TotalsAreSums == Spec => []TotalsMatchVotes
<1>1. IInv => TotalsMatchVotes
  <2>1. quiet => (IInv => TotalsMatchVotes)
    BY DEF IInv, Undisturbed
  <2>2. ~quiet => TotalsMatchVotes
    BY DEF TotalsMatchVotes
  <2> QED
    BY <2>1, <2>2
<1> QED
  BY <1>1, ReserveInvariant, PTL

\* An undisturbed job instructs every online delegate to pay the votes it has.
THEOREM PayoutsAreVotes == Spec => []PayoutsMatchVotes
<1>1. IInv => PayoutsMatchVotes
  <2>1. quiet => (IInv => PayoutsMatchVotes)
    BY DEF IInv, Undisturbed
  <2>2. ~quiet => PayoutsMatchVotes
    BY DEF PayoutsMatchVotes
  <2> QED
    BY <2>1, <2>2
<1> QED
  BY <1>1, ReserveInvariant, PTL
=============================================================================
