-------------------------- MODULE DpopsNode_proofs --------------------------
(***************************************************************************)
(* Theorems about the daemon of DpopsNode, for any threads, connections,   *)
(* traffic, size of the pool and number of client slots: its types, that   *)
(* slots and clients of the pool are all accounted for, that main and the  *)
(* scheduler always find the pool, and what a starved pool looks like.     *)
(***************************************************************************)
EXTENDS DpopsNode, FiniteSetTheorems, WellFoundedInduction, TLAPS

-----------------------------------------------------------------------------
(* Sums of clients                                                         *)

\* Every set of naturals that is not empty has a least element.
LEMMA Least ==
    ASSUME NEW T, T \subseteq Nat, T # {}
    PROVE  \E x \in T : \A y \in T : x <= y
<1>1. \E x \in T : \A y \in T : ~ (<<y, x>> \in OpToRel(<, Nat))
  BY NatLessThanWellFounded, WFMin
<1>2. PICK x \in T : \A y \in T : ~ (<<y, x>> \in OpToRel(<, Nat))
  BY <1>1
<1>3. \A y \in T : ~(y < x)
  BY <1>2, Zenon DEF OpToRel
<1> QED
  BY <1>3

\* Among sets of threads there is one no thread can be left out of.
LEMMA SmallestSet ==
    ASSUME NEW Sets, Sets \subseteq SUBSET Thread, Sets # {}
    PROVE  \E s \in Sets : \A t \in s : s \ {t} \notin Sets
<1>1. \A s \in Sets : IsFiniteSet(s) /\ Cardinality(s) \in Nat
  BY PoolAssumption, FS_Subset, FS_CardinalityType
<1> DEFINE Sizes == {Cardinality(s) : s \in Sets}
<1>2. Sizes \subseteq Nat /\ Sizes # {}
  BY <1>1
<1>3. PICK n \in Sizes : \A k \in Sizes : n <= k
  BY <1>2, Least
<1>4. PICK s \in Sets : n = Cardinality(s)
  BY <1>3
<1>5. ASSUME NEW t \in s, s \ {t} \in Sets PROVE FALSE
  <2>1. Cardinality(s \ {t}) = Cardinality(s) - 1
    BY <1>1, FS_RemoveElement
  <2>2. n <= Cardinality(s \ {t})
    BY <1>3, <1>5
  <2> QED
    BY <1>1, <1>4, <2>1, <2>2
<1> QED
  BY <1>5

Picked(s) == CHOOSE t \in s : TRUE

\* f[s] is what the threads of s hold together, when each t holds h[t].
HoldTogether(h, f) ==
    f = [s \in SUBSET Thread |-> IF s = {} THEN 0 ELSE h[Picked(s)] + f[s \ {Picked(s)}]]

LEMMA OutIs == Out = (CHOOSE f : HoldTogether(held, f))[Thread]
BY DEF Out, MapThenSumSet, MapThenFoldSet, HoldTogether, Picked

\* There is such a function: one on the sets of up to n threads extends to
\* those of one more.
LEMMA SumExists ==
    ASSUME NEW h PROVE \E f : HoldTogether(h, f)
<1> DEFINE Part(n) == {s \in SUBSET Thread : Cardinality(s) <= n}
           Step(s, g) == IF s = {} THEN 0 ELSE h[Picked(s)] + g[s \ {Picked(s)}]
           Solves(n, g) == g = [s \in Part(n) |-> Step(s, g)]
           Bad == {n \in Nat : ~ \E g : Solves(n, g)}
<1>1. \A s \in SUBSET Thread : IsFiniteSet(s) /\ Cardinality(s) \in Nat
  BY PoolAssumption, FS_Subset, FS_CardinalityType
<1>2. Bad = {}
  <2> SUFFICES ASSUME Bad # {} PROVE FALSE
    OBVIOUS
  <2>1. PICK n \in Bad : \A k \in Bad : n <= k
    BY Least
  <2>2. CASE n = 0
    <3> DEFINE g == [s \in Part(0) |-> 0]
    <3>1. \A s \in Part(0) : s = {}
      BY <1>1, FS_EmptySet
    <3>2. Solves(0, g)
      BY <3>1
    <3> QED
      BY <2>1, <2>2, <3>2
  <2>3. CASE n # 0
    <3>1. n \in Nat /\ n - 1 \in Nat
      BY <2>3
    <3>2. n - 1 \notin Bad
      <4> HIDE DEF Bad
      <4> QED
        BY <2>1, <3>1
    <3>3. PICK g : Solves(n - 1, g)
      BY <3>1, <3>2
    <3> DEFINE k == [s \in Part(n) |-> Step(s, g)]
    <3>4. \A t \in Part(n - 1) : t \in Part(n) /\ k[t] = g[t]
      <4> TAKE t \in Part(n - 1)
      <4>1. t \in Part(n)
        BY <1>1, <2>1
      <4>2. g[t] = Step(t, g)
        BY <3>3
      <4> QED
        BY <4>1, <4>2
    <3>5. \A s \in Part(n) : Step(s, k) = Step(s, g)
      <4> TAKE s \in Part(n)
      <4>1. CASE s = {}
        BY <4>1
      <4>2. CASE s # {}
        <5>1. Picked(s) \in s
          BY <4>2 DEF Picked
        <5>2. Cardinality(s \ {Picked(s)}) = Cardinality(s) - 1
          BY <1>1, <5>1, FS_RemoveElement
        <5>3. s \ {Picked(s)} \in Part(n - 1)
          BY <1>1, <2>1, <5>2
        <5> QED
          BY <3>4, <5>3
      <4> QED
        BY <4>1, <4>2
    <3>6. Solves(n, k)
      BY <3>5
    <3> QED
      BY <2>1, <3>6
  <2> QED
    BY <2>2, <2>3
<1>3. Cardinality(Thread) \in Nat
  BY PoolAssumption, FS_CardinalityType
<1>4. PICK f : Solves(Cardinality(Thread), f)
  BY <1>2, <1>3
<1>5. Part(Cardinality(Thread)) = SUBSET Thread
  BY <1>1, PoolAssumption, FS_Subset
<1> QED
  BY <1>4, <1>5 DEF HoldTogether

\* No thread holds more than all do together, and threads that hold at most
\* one client each hold as many as there are of them that hold one.
LEMMA HeldTogether ==
    ASSUME held \in [Thread -> Nat]
    PROVE  /\ Out \in Nat
           /\ \A t \in Thread : held[t] <= Out
           /\ (\A t \in Thread : held[t] \in {0, 1}) =>
                  Out = Cardinality({t \in Thread : held[t] = 1})
<1> DEFINE f == CHOOSE g : HoldTogether(held, g)
<1>1. HoldTogether(held, f)
  BY SumExists
<1>2. Out = f[Thread]
  BY OutIs
<1> HIDE DEF f
<1>3. \A s \in SUBSET Thread :
          f[s] = IF s = {} THEN 0 ELSE held[Picked(s)] + f[s \ {Picked(s)}]
  BY <1>1 DEF HoldTogether
<1>4. \A s \in SUBSET Thread : s # {} => Picked(s) \in s
  BY DEF Picked
<1> DEFINE Sane(s) == f[s] \in Nat /\ \A t \in s : held[t] <= f[s]
           Ones(s) == {t \in s : held[t] = 1}
           Bad == {s \in SUBSET Thread : ~Sane(s)}
           Wrong == {s \in SUBSET Thread : f[s] # Cardinality(Ones(s))}
<1>5. ASSUME Bad # {} PROVE FALSE
  <2>1. PICK s \in Bad : \A t \in s : s \ {t} \notin Bad
    BY <1>5, SmallestSet
  <2>2. s # {}
    BY <1>3, <2>1
  <2> DEFINE p == Picked(s)
  <2>3. p \in s
    BY <1>4, <2>2
  <2>4. f[s] = held[p] + f[s \ {p}]
    BY <1>3, <2>2
  <2> HIDE DEF p
  <2>5. Sane(s \ {p})
    BY <2>1, <2>3
  <2>6. held[p] \in Nat
    BY <2>3
  <2>7. f[s] \in Nat /\ held[p] <= f[s] /\ f[s \ {p}] <= f[s]
    BY <2>4, <2>5, <2>6
  <2>8. ASSUME NEW t \in s PROVE held[t] <= f[s]
    <3>1. CASE t = p
      BY <2>7, <3>1
    <3>2. CASE t # p
      <4>1. held[t] <= f[s \ {p}] /\ held[t] \in Nat /\ f[s \ {p}] \in Nat
        BY <2>5, <3>2
      <4> QED
        BY <2>7, <4>1
    <3> QED
      BY <3>1, <3>2
  <2> QED
    BY <2>1, <2>7, <2>8
<1>6. ASSUME \A t \in Thread : held[t] \in {0, 1}, Wrong # {} PROVE FALSE
  <2>1. PICK s \in Wrong : \A t \in s : s \ {t} \notin Wrong
    BY <1>6, SmallestSet
  <2>2. s # {}
    <3>1. f[{}] = 0
      BY <1>3
    <3>2. Ones({}) = {}
      OBVIOUS
    <3> QED
      BY <2>1, <3>1, <3>2, FS_EmptySet
  <2> DEFINE p == Picked(s)
  <2>3. p \in s
    BY <1>4, <2>2
  <2>4. f[s] = held[p] + f[s \ {p}]
    BY <1>3, <2>2
  <2> HIDE DEF p
  <2>5. f[s \ {p}] = Cardinality(Ones(s \ {p}))
    BY <2>1, <2>3
  <2>6. IsFiniteSet(Ones(s))
    BY PoolAssumption, FS_Subset
  <2>7. Ones(s \ {p}) = Ones(s) \ {p}
    OBVIOUS
  <2>8. CASE held[p] = 1
    <3>1. p \in Ones(s)
      BY <2>3, <2>8
    <3>2. Cardinality(Ones(s) \ {p}) = Cardinality(Ones(s)) - 1
      BY <2>6, <3>1, FS_RemoveElement
    <3>3. Cardinality(Ones(s)) \in Nat
      BY <2>6, FS_CardinalityType
    <3>4. f[s \ {p}] = Cardinality(Ones(s)) - 1
      BY <2>5, <2>7, <3>2
    <3>5. f[s] = Cardinality(Ones(s))
      <4> HIDE DEF Ones
      <4> QED
        BY <2>4, <2>8, <3>3, <3>4
    <3> QED
      BY <2>1, <3>5
  <2>9. CASE held[p] = 0
    <3>1. Ones(s) \ {p} = Ones(s)
      BY <2>9
    <3>2. Cardinality(Ones(s)) \in Nat
      BY <2>6, FS_CardinalityType
    <3>3. f[s] = Cardinality(Ones(s))
      <4> HIDE DEF Ones
      <4> QED
        BY <2>4, <2>5, <2>7, <2>9, <3>1, <3>2
    <3> QED
      BY <2>1, <3>3
  <2> QED
    BY <1>6, <2>3, <2>8, <2>9
<1> QED
  BY <1>2, <1>5, <1>6

-----------------------------------------------------------------------------
(* Calls                                                                   *)

Call == [call : {"pop", "push", "limit"}, skip : 0..Rest]

LEMMA SkipType == ASSUME NEW c \in Call PROVE c.skip \in Nat /\ c.skip <= Rest
BY DEF Call, Rest

\* d[i] is the number of clients held before the call i: never more than two,
\* none at the end, one at most where another is asked for.  Who skips calls
\* for want of a pool holds as much where it goes on, or nothing at the end.
Follows(calls, d) ==
    /\ d \in [1..(Len(calls) + 1) -> 0..2]
    /\ d[Len(calls) + 1] = 0
    /\ \A i \in 1..Len(calls) :
          /\ calls[i].call = "pop" => d[i] <= 1 /\ d[i + 1] = d[i] + 1
          /\ calls[i].call = "push" => d[i + 1] = d[i] - 1
          /\ calls[i].call = "limit" => d[i + 1] = d[i]
          /\ calls[i].skip > 0 =>
                \/ calls[i].skip = Rest /\ d[i] = 0
                \/ i + calls[i].skip <= Len(calls) + 1 /\ d[i + calls[i].skip] = d[i]

\* Who holds h clients holds none after the calls.
Balanced(calls, h) ==
    /\ calls \in Seq(Call)
    /\ Len(calls) <= Rest
    /\ \E d : Follows(calls, d) /\ d[1] = h

\* An operation, or several in a row, of n calls.
Operation(calls, n) ==
    /\ calls \in Seq(Call)
    /\ Len(calls) = n
    /\ \E d : Follows(calls, d) /\ d[1] = 0

LEMMA OperationBalanced ==
    ASSUME NEW calls, NEW n \in 0..Rest, Operation(calls, n)
    PROVE  Balanced(calls, 0)
BY DEF Operation, Balanced, Rest

LEMMA NothingBalanced ==
    /\ Balanced(<<>>, 0)
    /\ \A h : Balanced(<<>>, h) => h = 0
<1>1. Follows(<<>>, [i \in 1..1 |-> 0])
  BY DEF Follows
<1>2. Balanced(<<>>, 0)
  BY <1>1 DEF Balanced, Rest
<1>3. \A h : Balanced(<<>>, h) => h = 0
  BY DEF Balanced, Follows
<1> QED
  BY <1>2, <1>3

\* One operation after another is an operation.
LEMMA OperationsInARow ==
    ASSUME NEW a, NEW b, NEW m \in Nat, NEW n \in Nat, Operation(a, m), Operation(b, n)
    PROVE  Operation(a \o b, m + n)
<1>1. PICK x : Follows(a, x) /\ x[1] = 0
  BY DEF Operation
<1>2. PICK y : Follows(b, y) /\ y[1] = 0
  BY DEF Operation
<1> DEFINE c == a \o b
           z == [i \in 1..(m + n + 1) |-> IF i <= m THEN x[i] ELSE y[i - m]]
<1>3. /\ a \in Seq(Call) /\ b \in Seq(Call) /\ Len(a) = m /\ Len(b) = n
      /\ c \in Seq(Call) /\ Len(c) = m + n
      /\ \A i \in 1..m : c[i] = a[i]
      /\ \A i \in 1..n : c[m + i] = b[i]
  BY DEF Operation
<1>4. /\ x \in [1..(m + 1) -> 0..2] /\ x[m + 1] = 0
      /\ y \in [1..(n + 1) -> 0..2] /\ y[n + 1] = 0
  BY <1>1, <1>2, <1>3 DEF Follows
<1>5. z \in [1..(m + n + 1) -> 0..2]
  <2>1. ASSUME NEW i \in 1..(m + n + 1)
        PROVE  (IF i <= m THEN x[i] ELSE y[i - m]) \in 0..2
    <3>1. CASE i <= m
      <4>1. i \in 1..(m + 1)
        BY <3>1
      <4> QED
        BY <1>4, <3>1, <4>1
    <3>2. CASE ~(i <= m)
      <4>1. i - m \in 1..(n + 1)
        BY <3>2
      <4> QED
        BY <1>4, <3>2, <4>1
    <3> QED
      BY <3>1, <3>2
  <2> QED
    BY <2>1
<1>6. /\ \A i \in 1..(m + 1) : z[i] = x[i]
      /\ \A i \in 1..(n + 1) : z[m + i] = y[i]
  <2>1. ASSUME NEW i \in 1..(m + 1) PROVE z[i] = x[i]
    <3>1. CASE i = m + 1
      BY <1>2, <1>4, <3>1
    <3>2. CASE i <= m
      BY <3>2
    <3> QED
      BY <3>1, <3>2
  <2>2. ASSUME NEW i \in 1..(n + 1) PROVE z[m + i] = y[i]
    <3>1. m + i \in 1..(m + n + 1) /\ ~(m + i <= m) /\ (m + i) - m = i
      OBVIOUS
    <3> QED
      BY <3>1
  <2> QED
    BY <2>1, <2>2
<1> HIDE DEF c, z
<1>7. ASSUME NEW i \in 1..(m + n)
      PROVE  /\ c[i].call = "pop" => z[i] <= 1 /\ z[i + 1] = z[i] + 1
             /\ c[i].call = "push" => z[i + 1] = z[i] - 1
             /\ c[i].call = "limit" => z[i + 1] = z[i]
             /\ c[i].skip > 0 =>
                   \/ c[i].skip = Rest /\ z[i] = 0
                   \/ i + c[i].skip <= m + n + 1 /\ z[i + c[i].skip] = z[i]
  <2>1. CASE i \in 1..m
    <3>1. c[i] = a[i] /\ z[i] = x[i] /\ z[i + 1] = x[i + 1] /\ a[i] \in Call
      BY <1>3, <1>6, <2>1
    <3>2. /\ a[i].call = "pop" => x[i] <= 1 /\ x[i + 1] = x[i] + 1
          /\ a[i].call = "push" => x[i + 1] = x[i] - 1
          /\ a[i].call = "limit" => x[i + 1] = x[i]
      BY <1>1, <1>3, <2>1 DEF Follows
    <3>3. ASSUME a[i].skip > 0
          PROVE  \/ a[i].skip = Rest /\ x[i] = 0
                 \/ i + a[i].skip <= m + n + 1 /\ z[i + a[i].skip] = x[i]
      <4>1. CASE a[i].skip = Rest /\ x[i] = 0
        BY <4>1
      <4>2. CASE i + a[i].skip <= m + 1 /\ x[i + a[i].skip] = x[i]
        <5>1. a[i].skip \in Nat
          BY <3>1, SkipType
        <5>2. i + a[i].skip \in 1..(m + 1)
          BY <2>1, <4>2, <5>1
        <5> QED
          BY <1>6, <4>2, <5>2
      <4> QED
        BY <1>1, <1>3, <2>1, <3>3, <4>1, <4>2 DEF Follows
    <3> QED
      BY <3>1, <3>2, <3>3
  <2>2. CASE i \notin 1..m
    <3> DEFINE j == i - m
    <3>1. j \in 1..n /\ i = m + j /\ j \in 1..(n + 1) /\ j + 1 \in 1..(n + 1) /\ i + 1 = m + (j + 1)
      BY <2>2
    <3> HIDE DEF j
    <3>2. c[i] = b[j] /\ z[i] = y[j] /\ z[i + 1] = y[j + 1] /\ b[j] \in Call
      BY <1>3, <1>6, <3>1
    <3>3. /\ b[j].call = "pop" => y[j] <= 1 /\ y[j + 1] = y[j] + 1
          /\ b[j].call = "push" => y[j + 1] = y[j] - 1
          /\ b[j].call = "limit" => y[j + 1] = y[j]
      BY <1>2, <1>3, <3>1 DEF Follows
    <3>4. ASSUME b[j].skip > 0
          PROVE  \/ b[j].skip = Rest /\ y[j] = 0
                 \/ i + b[j].skip <= m + n + 1 /\ z[i + b[j].skip] = y[j]
      <4>1. CASE b[j].skip = Rest /\ y[j] = 0
        BY <4>1
      <4>2. CASE j + b[j].skip <= n + 1 /\ y[j + b[j].skip] = y[j]
        <5>1. b[j].skip \in Nat
          BY <3>2, SkipType
        <5>2. j + b[j].skip \in 1..(n + 1) /\ i + b[j].skip = m + (j + b[j].skip)
          BY <3>1, <4>2, <5>1
        <5> QED
          BY <1>6, <4>2, <5>2
      <4> QED
        BY <1>2, <1>3, <3>1, <3>4, <4>1, <4>2 DEF Follows
    <3> QED
      BY <3>2, <3>3, <3>4
  <2> QED
    BY <2>1, <2>2
<1>8. z[m + n + 1] = 0 /\ z[1] = 0
  <2>1. n + 1 \in 1..(n + 1) /\ m + (n + 1) = m + n + 1 /\ 1 \in 1..(m + 1)
    OBVIOUS
  <2> QED
    BY <1>1, <1>4, <1>6, <2>1
<1>9. Follows(c, z)
  BY <1>3, <1>5, <1>7, <1>8 DEF Follows
<1> QED
  BY <1>3, <1>8, <1>9 DEF Operation, c

\* What is left after s calls follows from where they led.
LEMMA LeftAfter ==
    ASSUME NEW calls \in Seq(Call), Len(calls) <= Rest, NEW d, Follows(calls, d),
           NEW s \in 0..Len(calls)
    PROVE  Balanced(SubSeq(calls, s + 1, Len(calls)), d[s + 1])
<1> DEFINE n == Len(calls)
           left == SubSeq(calls, s + 1, n)
           e == [i \in 1..(n - s + 1) |-> d[s + i]]
<1>1. /\ n \in Nat /\ s \in Nat /\ s <= n
      /\ left \in Seq(Call) /\ Len(left) = n - s
      /\ \A i \in 1..(n - s) : left[i] = calls[s + i]
  OBVIOUS
<1>2. d \in [1..(n + 1) -> 0..2] /\ d[n + 1] = 0
  BY DEF Follows
<1>3. e \in [1..(n - s + 1) -> 0..2]
  <2>1. ASSUME NEW i \in 1..(n - s + 1) PROVE d[s + i] \in 0..2
    <3>1. s + i \in 1..(n + 1)
      BY <1>1
    <3> QED
      BY <1>2, <3>1
  <2> QED
    BY <2>1
<1>4. \A i \in 1..(n - s + 1) : e[i] = d[s + i]
  OBVIOUS
<1>5. e[n - s + 1] = 0 /\ e[1] = d[s + 1]
  <2>1. n - s + 1 \in 1..(n - s + 1) /\ s + (n - s + 1) = n + 1 /\ 1 \in 1..(n - s + 1)
    BY <1>1
  <2> QED
    BY <1>2, <1>4, <2>1
<1> HIDE DEF left, e
<1>6. ASSUME NEW i \in 1..(n - s)
      PROVE  /\ left[i].call = "pop" => e[i] <= 1 /\ e[i + 1] = e[i] + 1
             /\ left[i].call = "push" => e[i + 1] = e[i] - 1
             /\ left[i].call = "limit" => e[i + 1] = e[i]
             /\ left[i].skip > 0 =>
                   \/ left[i].skip = Rest /\ e[i] = 0
                   \/ i + left[i].skip <= n - s + 1 /\ e[i + left[i].skip] = e[i]
  <2> DEFINE j == s + i
  <2>1. /\ j \in 1..n /\ i \in 1..(n - s + 1) /\ i + 1 \in 1..(n - s + 1)
        /\ s + (i + 1) = j + 1
    BY <1>1
  <2>2. left[i] = calls[j] /\ e[i] = d[j] /\ e[i + 1] = d[j + 1] /\ calls[j] \in Call
    BY <1>1, <1>4, <2>1
  <2> HIDE DEF j
  <2>3. /\ calls[j].call = "pop" => d[j] <= 1 /\ d[j + 1] = d[j] + 1
        /\ calls[j].call = "push" => d[j + 1] = d[j] - 1
        /\ calls[j].call = "limit" => d[j + 1] = d[j]
        /\ calls[j].skip > 0 =>
              \/ calls[j].skip = Rest /\ d[j] = 0
              \/ j + calls[j].skip <= n + 1 /\ d[j + calls[j].skip] = d[j]
    BY <2>1 DEF Follows
  <2>4. ASSUME calls[j].skip > 0, j + calls[j].skip <= n + 1, d[j + calls[j].skip] = d[j]
        PROVE  i + calls[j].skip <= n - s + 1 /\ e[i + calls[j].skip] = d[j]
    <3>1. calls[j].skip \in Nat
      BY <2>2, SkipType
    <3>2. i + calls[j].skip \in 1..(n - s + 1) /\ s + (i + calls[j].skip) = j + calls[j].skip
      BY <1>1, <2>1, <2>4, <3>1 DEF j
    <3> QED
      BY <1>4, <2>4, <3>2
  <2> QED
    BY <2>2, <2>3, <2>4
<1>7. Follows(left, e)
  BY <1>1, <1>3, <1>5, <1>6 DEF Follows
<1>8. Balanced(left, d[s + 1])
  BY <1>1, <1>5, <1>7 DEF Balanced, Rest
<1> QED
  BY <1>8 DEF left

\* A thread asks for a client while it holds one at most, gives back what it
\* holds, and stays balanced whichever way the call goes.
LEMMA AfterCall ==
    ASSUME NEW calls, NEW h \in Nat, Balanced(calls, h), calls # <<>>
    PROVE  LET first == Head(calls)
               Left(n) == SubSeq(calls, n + 1, Len(calls))
           IN  /\ first \in Call
               /\ first.call = "pop" => h <= 1 /\ Balanced(Left(1), h + 1)
               /\ first.call = "push" => h >= 1 /\ Balanced(Left(1), h - 1)
               /\ first.call = "limit" => Balanced(Left(1), h)
               /\ first.skip > 0 => Balanced(Left(first.skip), h)
<1>1. calls \in Seq(Call) /\ Len(calls) \in Nat /\ Len(calls) <= Rest /\ Rest \in Nat
  BY DEF Balanced, Rest
<1>2. PICK d : Follows(calls, d) /\ d[1] = h
  BY DEF Balanced
<1> DEFINE first == Head(calls)
           Left(n) == SubSeq(calls, n + 1, Len(calls))
<1>3. 1 \in 1..Len(calls) /\ 1 \in 0..Len(calls) /\ first = calls[1] /\ first \in Call
  BY <1>1
<1>4. /\ first.call = "pop" => d[1] <= 1 /\ d[1 + 1] = d[1] + 1
      /\ first.call = "push" => d[1 + 1] = d[1] - 1
      /\ first.call = "limit" => d[1 + 1] = d[1]
      /\ first.skip > 0 =>
            \/ first.skip = Rest /\ d[1] = 0
            \/ 1 + first.skip <= Len(calls) + 1 /\ d[1 + first.skip] = d[1]
  BY <1>2, <1>3 DEF Follows
<1>5. Balanced(Left(1), d[1 + 1])
  BY <1>1, <1>2, <1>3, LeftAfter
<1>6. d[1 + 1] >= 0
  <2>1. 1 + 1 \in 1..(Len(calls) + 1)
    BY <1>3
  <2>2. d[1 + 1] \in 0..2
    BY <1>2, <2>1 DEF Follows
  <2> QED
    BY <2>2
<1>7. ASSUME first.skip > 0 PROVE Balanced(Left(first.skip), h)
  <2>1. first.skip \in Nat
    BY <1>3, SkipType
  <2>2. CASE first.skip = Rest /\ d[1] = 0
    <3>1. CASE Len(calls) = Rest
      <4>1. Len(calls) \in 0..Len(calls)
        BY <1>1
      <4>2. Balanced(Left(Len(calls)), d[Len(calls) + 1])
        BY <1>1, <1>2, <4>1, LeftAfter
      <4> QED
        BY <1>2, <2>2, <3>1, <4>2 DEF Follows
    <3>2. CASE Len(calls) < Rest
      <4>1. Left(first.skip) = <<>>
        BY <1>1, <2>2, <3>2 DEF Rest
      <4> QED
        BY <1>2, <2>2, <4>1, NothingBalanced
    <3> QED
      BY <1>1, <3>1, <3>2
  <2>3. CASE 1 + first.skip <= Len(calls) + 1 /\ d[1 + first.skip] = d[1]
    <3>1. first.skip \in 0..Len(calls) /\ 1 + first.skip = first.skip + 1
      BY <1>1, <2>1, <2>3
    <3>2. Balanced(Left(first.skip), d[first.skip + 1])
      BY <1>1, <1>2, <3>1, LeftAfter
    <3> QED
      BY <1>2, <2>3, <3>1, <3>2
  <2> QED
    BY <1>4, <1>7, <2>2, <2>3
<1>8. /\ first.call = "pop" => h <= 1 /\ Balanced(Left(1), h + 1)
      /\ first.call = "push" => h >= 1 /\ Balanced(Left(1), h - 1)
      /\ first.call = "limit" => Balanced(Left(1), h)
  <2> HIDE DEF Left, first
  <2> QED
    BY <1>2, <1>4, <1>5, <1>6
<1> QED
  BY <1>3, <1>7, <1>8

-----------------------------------------------------------------------------
(* Every operation gives back what it takes                                *)

LEMMA OneCall == Operation(<<Limit>>, 1)
<1> DEFINE d == [i \in 1..2 |-> 0]
<1>1. Follows(<<Limit>>, d)
  BY DEF Follows, Limit
<1> QED
  BY <1>1 DEF Operation, Limit, Call, Rest

LEMMA TwoCalls == Operation(Bare, 2) /\ Operation(Single, 2)
<1> DEFINE d == [i \in 1..3 |-> IF i = 2 THEN 1 ELSE 0]
<1>1. Follows(Bare, d)
  BY DEF Follows, Bare, Unchecked, Push
<1>2. Follows(Single, d)
  BY DEF Follows, Single, Checked, Push
<1>3. Bare \in Seq(Call) /\ Single \in Seq(Call) /\ Len(Bare) = 2 /\ Len(Single) = 2
  BY DEF Bare, Single, Unchecked, Checked, Push, Call, Rest
<1> QED
  BY <1>1, <1>2, <1>3 DEF Operation

LEMMA CallFirst ==
    ASSUME NEW x \in Call, NEW b \in Seq(Call)
    PROVE  /\ <<x>> \o b \in Seq(Call)
           /\ Len(<<x>> \o b) = Len(b) + 1
           /\ (<<x>> \o b)[1] = x
           /\ \A i \in 1..Len(b) : (<<x>> \o b)[i + 1] = b[i]
OBVIOUS

LEMMA CallLast ==
    ASSUME NEW x \in Call, NEW b \in Seq(Call)
    PROVE  /\ b \o <<x>> \in Seq(Call)
           /\ Len(b \o <<x>>) = Len(b) + 1
           /\ (b \o <<x>>)[Len(b) + 1] = x
           /\ \A i \in 1..Len(b) : (b \o <<x>>)[i] = b[i]
OBVIOUS

LEMMA CallsLeft ==
    ASSUME NEW b \in Seq(Call), b # <<>>
    PROVE  /\ Tail(b) \in Seq(Call)
           /\ Len(Tail(b)) = Len(b) - 1
           /\ \A i \in 1..(Len(b) - 1) : Tail(b)[i] = b[i + 1]
OBVIOUS

LEMMA CallsTyped ==
    /\ Checked(2) \in Call /\ Checked(4) \in Call /\ Checked(Rest) \in Call
    /\ Unchecked \in Call /\ Push \in Call /\ Limit \in Call
BY DEF Call, Checked, Unchecked, Push, Limit, Rest

LEMMA LookedUpCalls ==
    /\ LookedUp \in Seq(Call) /\ Len(LookedUp) = 4
    /\ LookedUp[1] = Checked(4) /\ LookedUp[2] = Checked(2)
    /\ LookedUp[3] = Push /\ LookedUp[4] = Push
<1> DEFINE b == <<Checked(2), Push>>
           e == <<Checked(4)>> \o b
<1>1. b \in Seq(Call) /\ Len(b) = 2 /\ b[1] = Checked(2) /\ b[2] = Push
  BY CallsTyped
<1>2. LookedUp = e \o <<Push>>
  BY DEF LookedUp, CheckCollection, Single
<1> HIDE DEF b
<1>3. /\ e \in Seq(Call) /\ Len(e) = Len(b) + 1 /\ e[1] = Checked(4)
      /\ \A i \in 1..Len(b) : e[i + 1] = b[i]
  BY <1>1, CallsTyped, CallFirst
<1> HIDE DEF e
<1>4. e[1 + 1] = Checked(2) /\ e[2 + 1] = Push
  BY <1>1, <1>3
<1>5. e \in Seq(Call) /\ Len(e) = 3 /\ e[1] = Checked(4) /\ e[2] = Checked(2) /\ e[3] = Push
  BY <1>1, <1>3, <1>4
<1>6. /\ LookedUp \in Seq(Call) /\ Len(LookedUp) = Len(e) + 1 /\ LookedUp[Len(e) + 1] = Push
      /\ \A i \in 1..Len(e) : LookedUp[i] = e[i]
  BY <1>2, <1>5, CallsTyped, CallLast
<1> QED
  BY <1>5, <1>6

LEMMA VerifyIpCalls ==
    /\ VerifyIp \in Seq(Call) /\ Len(VerifyIp) = 4
    /\ VerifyIp[1] = Checked(Rest) /\ VerifyIp[2] = Checked(2)
    /\ VerifyIp[3] = Push /\ VerifyIp[4] = Push
<1> DEFINE b == Tail(LookedUp)
<1>1. b \in Seq(Call) /\ Len(b) = 3 /\ \A i \in 1..3 : b[i] = LookedUp[i + 1]
  <2>1. LookedUp \in Seq(Call) /\ LookedUp # <<>> /\ Len(LookedUp) = 4
    <3>1. LookedUp \in Seq(Call) /\ Len(LookedUp) = 4
      BY LookedUpCalls
    <3> QED
      BY <3>1
  <2>2. /\ b \in Seq(Call) /\ Len(b) = Len(LookedUp) - 1
        /\ \A i \in 1..(Len(LookedUp) - 1) : b[i] = LookedUp[i + 1]
    BY <2>1, CallsLeft
  <2> HIDE DEF b
  <2> QED
    BY <2>1, <2>2
<1>2. VerifyIp = <<Checked(Rest)>> \o b
  BY DEF VerifyIp, ReadField
<1> HIDE DEF b
<1>3. /\ VerifyIp \in Seq(Call) /\ Len(VerifyIp) = Len(b) + 1 /\ VerifyIp[1] = Checked(Rest)
      /\ \A i \in 1..Len(b) : VerifyIp[i + 1] = b[i]
  BY <1>1, <1>2, CallsTyped, CallFirst
<1>4. b[1] = Checked(2) /\ b[2] = Push /\ b[3] = Push
  BY <1>1, LookedUpCalls
<1>5. VerifyIp[1 + 1] = b[1] /\ VerifyIp[2 + 1] = b[2] /\ VerifyIp[3 + 1] = b[3]
  BY <1>1, <1>3
<1> QED
  BY <1>1, <1>3, <1>4, <1>5

\* The client kept during a look-up is given back on every path.
LEMMA FourCalls == Operation(LookedUp, 4) /\ Operation(VerifyIp, 4)
<1> DEFINE d == [i \in 1..5 |-> IF i = 3 THEN 2 ELSE IF i \in {2, 4} THEN 1 ELSE 0]
<1>1. Follows(LookedUp, d)
  BY LookedUpCalls DEF Follows, Checked, Push
<1>2. Follows(VerifyIp, d)
  BY VerifyIpCalls DEF Follows, Checked, Push
<1> QED
  BY <1>1, <1>2, LookedUpCalls, VerifyIpCalls DEF Operation

LEMMA OneLookUp ==
    /\ Operation(CountDocuments, 4) /\ Operation(ReadField, 4) /\ Operation(ReadInt64, 4)
    /\ Operation(UpdateDocument, 4) /\ Operation(DeleteDocument, 4)
BY FourCalls DEF CountDocuments, ReadField, ReadInt64, UpdateDocument, DeleteDocument

LEMMA NoLookUp ==
    /\ Operation(InsertDocument, 2) /\ Operation(HashDelegates, 2)
    /\ Operation(ReplicaSetReady, 2) /\ Operation(SeedIndexes, 2)
    /\ Operation(DelegateIndexes, 2) /\ Operation(FoundIndexes, 2)
    /\ Operation(FindDocs, 2) /\ Operation(UpsertDocs, 2) /\ Operation(DropCollection, 2)
    /\ Operation(CountDocs, 2) /\ Operation(VoteTotal, 2) /\ Operation(ProofFields, 2)
    /\ Operation(DelegateFee, 2) /\ Operation(RefreshSolo, 2)
BY TwoCalls DEF InsertDocument, HashDelegates, ReplicaSetReady, SeedIndexes,
     DelegateIndexes,
   FoundIndexes, FindDocs, UpsertDocs, DropCollection, CountDocs, VoteTotal, ProofFields,
   DelegateFee, RefreshSolo

LEMMA RegisterCalls == Operation(<<Limit>> \o Register, 29)
<1> DEFINE two == CountDocuments \o CountDocuments
           three == two \o CountDocuments
           four == three \o CountDocuments
           five == four \o CountDocuments
           six == five \o CountDocuments
           seven == six \o InsertDocument
<1>1. Operation(two, 4 + 4)
  BY OneLookUp, OperationsInARow
<1>2. Operation(three, 8 + 4)
  BY <1>1, OneLookUp, OperationsInARow
<1>3. Operation(four, 12 + 4)
  BY <1>2, OneLookUp, OperationsInARow
<1>4. Operation(five, 16 + 4)
  BY <1>3, OneLookUp, OperationsInARow
<1>5. Operation(six, 20 + 4)
  BY <1>4, OneLookUp, OperationsInARow
<1>6. Operation(seven, 24 + 2)
  BY <1>5, NoLookUp, OperationsInARow
<1>7. Operation(Register, 26 + 2)
  BY <1>6, NoLookUp, OperationsInARow DEF Register
<1> QED
  BY <1>7, OneCall, OperationsInARow

LEMMA VoteCalls == Operation(<<Limit>> \o Vote, 29)
<1> DEFINE two == ReadField \o CountDocuments
           three == two \o CountDocuments
           four == three \o ReadField
           five == four \o ProofFields
           six == five \o DeleteDocument
           seven == six \o CountDocuments
<1>1. Operation(two, 4 + 4)
  BY OneLookUp, OperationsInARow
<1>2. Operation(three, 8 + 4)
  BY <1>1, OneLookUp, OperationsInARow
<1>3. Operation(four, 12 + 4)
  BY <1>2, OneLookUp, OperationsInARow
<1>4. Operation(five, 16 + 2)
  BY <1>3, NoLookUp, OperationsInARow
<1>5. Operation(six, 18 + 4)
  BY <1>4, OneLookUp, OperationsInARow
<1>6. Operation(seven, 22 + 4)
  BY <1>5, OneLookUp, OperationsInARow
<1>7. Operation(Vote, 26 + 2)
  BY <1>6, NoLookUp, OperationsInARow DEF Vote
<1> QED
  BY <1>7, OneCall, OperationsInARow

\* The messages of delegates: VerifyIp comes first.
LEMMA VerifiedCalls ==
    /\ Operation(VerifyIp \o <<Limit>> \o Update, 13)
    /\ Operation(VerifyIp \o <<Limit>> \o SyncData, 11)
    /\ Operation(VerifyIp \o <<Limit>>, 5)
    /\ Operation(VerifyIp \o VerifyData \o <<Limit>>, 9)
    /\ Operation(VerifyIp \o VerifyData \o <<Limit>> \o SyncRequest, 11)
    /\ Operation(VerifyIp \o VerifyData \o <<Limit>> \o Ban, 13)
    /\ Operation(VerifyIp \o VerifyData \o <<Limit>> \o Del, 13)
<1>1. Operation(VerifyIp \o <<Limit>>, 4 + 1)
  BY OneCall, FourCalls, OperationsInARow
<1>2. Operation(VerifyIp \o VerifyData, 4 + 4)
  BY OneLookUp, FourCalls, OperationsInARow DEF VerifyData
<1>3. Operation(VerifyIp \o VerifyData \o <<Limit>>, 8 + 1)
  BY <1>2, OneCall, OperationsInARow
<1>4. Operation(Update, 8)
  <2>1. Operation(UpdateDocument \o RefreshSolo, 4 + 2)
    BY OneLookUp, NoLookUp, OperationsInARow
  <2>2. Operation(Update, 6 + 2)
    BY <2>1, NoLookUp, OperationsInARow DEF Update
  <2> QED
    BY <2>2
<1>5. Operation(SyncData, 6)
  <2>1. Operation(DropCollection \o UpsertDocs, 2 + 2)
    BY NoLookUp, OperationsInARow
  <2>2. Operation(SyncData, 4 + 2)
    BY <2>1, NoLookUp, OperationsInARow DEF SyncData
  <2> QED
    BY <2>2
<1>6. Operation(VerifyIp \o <<Limit>> \o Update, 5 + 8)
  BY <1>1, <1>4, OperationsInARow
<1>7. Operation(VerifyIp \o <<Limit>> \o SyncData, 5 + 6)
  BY <1>1, <1>5, OperationsInARow
<1>8. Operation(VerifyIp \o VerifyData \o <<Limit>> \o SyncRequest, 9 + 2)
  BY <1>3, NoLookUp, OperationsInARow DEF SyncRequest
<1>9. Operation(VerifyIp \o VerifyData \o <<Limit>> \o Ban, 9 + 4)
  BY <1>3, OneLookUp, OperationsInARow DEF Ban
<1>10. Operation(VerifyIp \o VerifyData \o <<Limit>> \o Del, 9 + 4)
  BY <1>3, OneLookUp, OperationsInARow DEF Del
<1> QED
  BY <1>1, <1>3, <1>6, <1>7, <1>8, <1>9, <1>10

\* Whatever the message, its handling gives back what it takes.
LEMMA HandlingBalanced ==
    ASSUME NEW c \in Conn, NEW kind \in Traffic[c]
    PROVE  Balanced(Handling(kind), 0)
<1>1. kind \in {"register", "list", "vote", "checkVote", "update", "syncReq",
                "syncData", "ban", "del", "round", "block", "unknown"}
  BY ServerAssumption
<1>2. Operation(<<Limit>> \o CheckVote, 1 + 2)
  BY OneCall, NoLookUp, OperationsInARow DEF CheckVote
<1>3. ASSUME NEW n \in 0..100, Operation(Handling(kind), n)
      PROVE  Balanced(Handling(kind), 0)
  BY <1>3, OperationBalanced DEF Rest
<1>4. CASE kind \in {"register", "list", "vote", "checkVote"}
  <2>1. CASE kind = "register"
    <3>1. Handling(kind) = <<Limit>> \o Register
      BY <2>1 DEF Handling
    <3>2. Operation(Handling(kind), 29)
      BY <3>1, RegisterCalls, Zenon
    <3> QED
      BY <1>3, <3>2
  <2>2. CASE kind = "list"
    <3>1. Handling(kind) = <<Limit>>
      BY <2>2 DEF Handling
    <3>2. Operation(Handling(kind), 1)
      BY <3>1, OneCall, Zenon
    <3> QED
      BY <1>3, <3>2
  <2>3. CASE kind = "vote"
    <3>1. Handling(kind) = <<Limit>> \o Vote
      BY <2>3 DEF Handling
    <3>2. Operation(Handling(kind), 29)
      BY <3>1, VoteCalls, Zenon
    <3> QED
      BY <1>3, <3>2
  <2>4. CASE kind = "checkVote"
    <3>1. Handling(kind) = <<Limit>> \o CheckVote
      BY <2>4 DEF Handling
    <3>2. Operation(Handling(kind), 1 + 2)
      BY <3>1, <1>2, Zenon
    <3> QED
      BY <1>3, <3>2
  <2> QED
    BY <1>4, <2>1, <2>2, <2>3, <2>4
<1>5. CASE kind \in {"update", "syncData", "block", "unknown"}
  <2>1. CASE kind = "update"
    <3>1. Handling(kind) = VerifyIp \o <<Limit>> \o Update
      BY <2>1 DEF Handling
    <3>2. Operation(Handling(kind), 13)
      BY <3>1, VerifiedCalls, Zenon
    <3> QED
      BY <1>3, <3>2
  <2>2. CASE kind = "syncData"
    <3>1. Handling(kind) = VerifyIp \o <<Limit>> \o SyncData
      BY <2>2 DEF Handling
    <3>2. Operation(Handling(kind), 11)
      BY <3>1, VerifiedCalls, Zenon
    <3> QED
      BY <1>3, <3>2
  <2>3. CASE kind = "block"
    <3>1. Handling(kind) = VerifyIp \o <<Limit>>
      BY <2>3 DEF Handling
    <3>2. Operation(Handling(kind), 5)
      BY <3>1, VerifiedCalls, Zenon
    <3> QED
      BY <1>3, <3>2
  <2>4. CASE kind = "unknown"
    <3>1. Handling(kind) = VerifyIp
      BY <2>4 DEF Handling
    <3>2. Operation(Handling(kind), 4)
      BY <3>1, FourCalls, Zenon
    <3> QED
      BY <1>3, <3>2
  <2> QED
    BY <1>5, <2>1, <2>2, <2>3, <2>4
<1>6. CASE kind \in {"syncReq", "ban", "del", "round"}
  <2>1. CASE kind = "syncReq"
    <3>1. Handling(kind) = VerifyIp \o VerifyData \o <<Limit>> \o SyncRequest
      BY <2>1 DEF Handling
    <3>2. Operation(Handling(kind), 11)
      BY <3>1, VerifiedCalls, Zenon
    <3> QED
      BY <1>3, <3>2
  <2>2. CASE kind = "ban"
    <3>1. Handling(kind) = VerifyIp \o VerifyData \o <<Limit>> \o Ban
      BY <2>2 DEF Handling
    <3>2. Operation(Handling(kind), 13)
      BY <3>1, VerifiedCalls, Zenon
    <3> QED
      BY <1>3, <3>2
  <2>3. CASE kind = "del"
    <3>1. Handling(kind) = VerifyIp \o VerifyData \o <<Limit>> \o Del
      BY <2>3 DEF Handling
    <3>2. Operation(Handling(kind), 13)
      BY <3>1, VerifiedCalls, Zenon
    <3> QED
      BY <1>3, <3>2
  <2>4. CASE kind = "round"
    <3>1. Handling(kind) = VerifyIp \o VerifyData \o <<Limit>>
      BY <2>4 DEF Handling
    <3>2. Operation(Handling(kind), 9)
      BY <3>1, VerifiedCalls, Zenon
    <3> QED
      BY <1>3, <3>2
  <2> QED
    BY <1>6, <2>1, <2>2, <2>3, <2>4
<1> QED
  BY <1>1, <1>4, <1>5, <1>6

\* So do the steps of main and of the scheduler.
LEMMA StepsBalanced ==
    /\ Balanced(FillDatabase, 0)
    /\ \A calls \in NodeData \cup Round : Balanced(calls, 0)
    /\ \A flag : Balanced(LineCalls(flag), 0)
    /\ Balanced(RunProofCheck, 0)
    /\ \A calls \in {ReplicaSetReady, CountDocs, ReadField, FindDocs, DelegateFee} :
          Balanced(calls, 0)
<1>1. \A n \in 0..100 : \A calls : Operation(calls, n) => Balanced(calls, 0)
  BY OperationBalanced DEF Rest
<1>2. Balanced(FillDatabase, 0)
  <2>1. CASE SeedNode
    <3> DEFINE two == InsertDocument \o InsertDocument
               three == two \o SeedIndexes
    <3>1. Operation(two, 2 + 2)
      BY NoLookUp, OperationsInARow
    <3>2. Operation(three, 4 + 2)
      BY <3>1, NoLookUp, OperationsInARow
    <3>3. Operation(FillDatabase, 6 + 2)
      BY <2>1, <3>2, NoLookUp, OperationsInARow DEF FillDatabase
    <3> QED
      BY <1>1, <3>3
  <2>2. CASE ~SeedNode
    <3>1. Operation(InsertDocument \o DelegateIndexes, 2 + 2)
      BY NoLookUp, OperationsInARow
    <3>2. Operation(FillDatabase, 4 + 2)
      BY <2>2, <3>1, NoLookUp, OperationsInARow DEF FillDatabase
    <3> QED
      BY <1>1, <3>2
  <2> QED
    BY <2>1, <2>2
<1>3. ASSUME NEW calls \in NodeData PROVE Balanced(calls, 0)
  <2>1. Operation(ReadField \o ReadInt64, 4 + 4) /\ Operation(ReadField \o ReadField, 4 + 4)
    BY OneLookUp, OperationsInARow
  <2>2. Operation(ReadField \o ReadField \o ReadInt64, 8 + 4)
    BY <2>1, OneLookUp, OperationsInARow
  <2>3. Balanced(ReadField \o ReadInt64, 0) /\ Balanced(ReadField \o ReadField, 0)
    BY <1>1, <2>1
  <2>4. Balanced(ReadField \o ReadField \o ReadInt64, 0)
    BY <1>1, <2>2
  <2> QED
    BY <2>3, <2>4, Zenon DEF NodeData
<1>4. ASSUME NEW calls \in Round PROVE Balanced(calls, 0)
  <2>1. Operation(RoundWrite, 2)
    BY NoLookUp, TwoCalls DEF RoundWrite
  <2>2. /\ Operation(HashDelegates \o UpdateDocument, 2 + 4)
        /\ Operation(HashDelegates \o RoundWrite, 2 + 2)
    BY <2>1, OneLookUp, NoLookUp, OperationsInARow
  <2>3. Operation(HashDelegates \o UpdateDocument \o RoundWrite, 6 + 2)
    BY <2>1, <2>2, OperationsInARow
  <2>4. /\ Balanced(<<>>, 0) /\ Balanced(HashDelegates, 0)
        /\ Balanced(HashDelegates \o UpdateDocument, 0)
        /\ Balanced(HashDelegates \o RoundWrite, 0)
    BY <1>1, <2>2, NoLookUp, NothingBalanced
  <2>5. Balanced(HashDelegates \o UpdateDocument \o RoundWrite, 0)
    BY <1>1, <2>3
  <2> QED
    BY <2>4, <2>5, Zenon DEF Round
<1>5. ASSUME NEW flag PROVE Balanced(LineCalls(flag), 0)
  <2>1. Operation(DeleteDocument \o DeleteDocument, 4 + 4)
    BY OneLookUp, OperationsInARow
  <2> QED
    BY <1>1, <2>1, OneLookUp DEF LineCalls
<1>6. Balanced(RunProofCheck, 0)
  <2>1. RunProofCheck = Bare
    BY DEF RunProofCheck, Bare
  <2> QED
    BY <1>1, <2>1, TwoCalls
<1>7. \A calls \in {ReplicaSetReady, CountDocs, ReadField, FindDocs, DelegateFee} :
          Balanced(calls, 0)
  BY <1>1, NoLookUp, OneLookUp
<1> QED
  BY <1>2, <1>3, <1>4, <1>5, <1>6, <1>7


-----------------------------------------------------------------------------
(* The inductive invariant                                                 *)

\* What a thread has yet to do gives back what it holds; who is inside the
\* pool is about to get a client.
PoolInv ==
    /\ pool \in {"none", "open", "destroyed"}
    /\ held \in [Thread -> 0..PoolSize]
    /\ todo \in [Thread -> Seq(Call)]
    /\ inside \subseteq Thread
    /\ aborted \subseteq Thread
    /\ \A t \in Thread : Balanced(todo[t], held[t])
    /\ \A t \in inside : About(t, "pop")

\* Where a thread has nothing to ask of the pool.
NothingToDo ==
    /\ main \in {"server", "database", "fatalStop", "join", "stop", "joinLoop", "fatalJoin",
                 "cleanup", "return"} => todo[Main] = <<>>
    /\ timer \in {"none", "start", "ended"} => todo[Timer] = <<>>
    /\ \A c \in Conn : conn[c] # "serving" => todo[c] = <<>>

NodeTypeOK ==
    /\ main \in {"server", "database", "replica", "count", "fill", "node", "starter", "address",
                 "key", "synced", "load", "rounds", "round", "reload", "ending", "join", "stop",
                 "fatalStop", "joinLoop", "fatalJoin", "cleanup", "return", "exited"}
    /\ timer \in {"none", "start", "lines", "slots", "ended"}
    /\ role \in Roles
    /\ shutdown \in BOOLEAN
    /\ signals \in 0..2
    /\ missed \in 0..MaxMissed

\* Main asks the pool between its making and its end, the scheduler while main
\* has yet to wait for it.
PoolUp ==
    /\ main \in {"replica", "count", "fill", "node", "starter", "address", "key", "synced",
                 "load", "rounds", "round", "reload", "ending", "join"} => pool = "open"
    /\ timer \in {"start", "lines", "slots"} => pool = "open"

NotStarted ==
    main = "server" =>
        loop = "none" /\ listener = "none" /\ semaphore = "none" /\ \A c \in Conn : conn[c] = "away"

\* The scheduler is started once.
Unscheduled ==
    main \in {"server", "database", "replica", "count", "fill", "node"} => timer = "none"

StageInv == NodeTypeOK /\ PoolUp /\ Unscheduled /\ OnlyClientsMissPool

ServerInv == ServerTypeOK /\ SlotsAccounted /\ SemaphoreOutlivesLoop /\ NotStarted

IInv == PoolInv /\ NothingToDo /\ StageInv /\ ServerInv

LEMMA Threads == Conn \subseteq Thread /\ Main \in Thread /\ Timer \in Thread
                 /\ Main \notin Conn /\ Timer \notin Conn /\ Main # Timer
BY NodeAssumption

LEMMA NodeInit == Init => IInv
<1> SUFFICES ASSUME Init PROVE IInv
  OBVIOUS
<1> USE DEF Init, InitPool, InitServer
<1>1. PoolInv
  BY PoolAssumption, NothingBalanced DEF PoolInv
<1>2. NothingToDo
  BY Threads DEF NothingToDo
<1>3. StageInv
  <2>1. 0 \in 0..MaxMissed /\ 0 \in 0..2
    BY NodeAssumption
  <2>2. NodeTypeOK
    BY <2>1 DEF NodeTypeOK
  <2> QED
    BY <2>2 DEF StageInv, PoolUp, Unscheduled, OnlyClientsMissPool
<1>4. ServerInv
  BY ServerAssumption
  DEF ServerInv, ServerTypeOK, SlotsAccounted, SemaphoreOutlivesLoop, NotStarted
<1> QED
  BY <1>1, <1>2, <1>3, <1>4 DEF IInv

-----------------------------------------------------------------------------
(* The pool                                                                *)

\* A step of the thread t on the pool.
OnPool(t) == CallPop(t) \/ TakeClient(t) \/ PopWithoutPool(t) \/ WakeInNoPool(t) \/ GiveBack(t)

\* What is due for the other threads stays; t is balanced again.
LEMMA OneThread ==
    ASSUME PoolInv, NEW t \in Thread, NEW h \in 0..PoolSize, NEW calls,
           Balanced(calls, h), held' = [held EXCEPT ![t] = h],
           todo' = [todo EXCEPT ![t] = calls],
           pool' \in {"none", "open", "destroyed"}, aborted' \subseteq Thread,
           inside' \subseteq inside, t \notin inside'
    PROVE  PoolInv'
<1>1. calls \in Seq(Call)
  BY DEF Balanced
<1>2. /\ held' \in [Thread -> 0..PoolSize] /\ todo' \in [Thread -> Seq(Call)]
      /\ held'[t] = h /\ todo'[t] = calls
      /\ \A u \in Thread \ {t} : held'[u] = held[u] /\ todo'[u] = todo[u]
  BY <1>1 DEF PoolInv
<1>3. \A u \in Thread : Balanced(todo'[u], held'[u])
  <2> TAKE u \in Thread
  <2>1. CASE u = t
    BY <1>2, <2>1
  <2>2. CASE u # t
    BY <1>2, <2>2 DEF PoolInv
  <2> QED
    BY <2>1, <2>2
<1>4. \A u \in inside' : About(u, "pop")'
  BY <1>2 DEF PoolInv, About
<1> QED
  BY <1>2, <1>3, <1>4 DEF PoolInv

LEMMA OnPoolInv ==
    ASSUME PoolInv, NEW t \in Thread, OnPool(t)
    PROVE  PoolInv' /\ UNCHANGED pool
<1> DEFINE first == Head(todo[t])
           Left(n) == SubSeq(todo[t], n + 1, Len(todo[t]))
<1>1. /\ held[t] \in 0..PoolSize /\ held[t] \in Nat /\ Balanced(todo[t], held[t])
      /\ held = [held EXCEPT ![t] = held[t]] /\ todo = [todo EXCEPT ![t] = todo[t]]
  BY PoolAssumption DEF PoolInv
<1>2. ASSUME todo[t] # <<>>
      PROVE  /\ first \in Call
             /\ first.call = "pop" => held[t] <= 1 /\ Balanced(Left(1), held[t] + 1)
             /\ first.call = "push" => held[t] >= 1 /\ Balanced(Left(1), held[t] - 1)
             /\ first.skip > 0 => Balanced(Left(first.skip), held[t])
  BY <1>1, <1>2, AfterCall
<1>3. CASE CallPop(t)
  BY <1>3 DEF CallPop, PoolInv, About
<1>4. CASE TakeClient(t)
  <2>1. todo[t] # <<>> /\ first.call = "pop"
    BY <1>4 DEF TakeClient, PoolInv, About
  <2>2. held[t] + 1 \in 0..PoolSize
    <3>1. held \in [Thread -> Nat]
      BY DEF PoolInv
    <3>2. held[t] <= Out /\ Out \in Nat
      BY <3>1, HeldTogether
    <3>3. Out < PoolSize
      BY <1>4 DEF TakeClient
    <3> QED
      BY <1>1, <3>2, <3>3, PoolAssumption
  <2>3. Balanced(Left(1), held[t] + 1)
    BY <1>2, <2>1
  <2> HIDE DEF Left
  <2>4. /\ held' = [held EXCEPT ![t] = held[t] + 1] /\ todo' = [todo EXCEPT ![t] = Left(1)]
        /\ inside' = inside \ {t} /\ UNCHANGED <<pool, aborted>>
    BY <1>4 DEF TakeClient, Done, Left
  <2> QED
    BY <2>2, <2>3, <2>4, OneThread DEF PoolInv
<1>5. CASE PopWithoutPool(t)
  <2>1. CASE Abort(t) /\ UNCHANGED todo
    BY <1>5, <2>1 DEF PopWithoutPool, Abort, PoolInv, About
  <2>2. CASE first.skip > 0 /\ Done(t, first.skip) /\ UNCHANGED aborted
    <3>1. Balanced(Left(first.skip), held[t])
      BY <1>2, <1>5, <2>2 DEF PopWithoutPool, About
    <3> HIDE DEF Left
    <3>2. /\ todo' = [todo EXCEPT ![t] = Left(first.skip)] /\ t \notin inside
          /\ UNCHANGED <<pool, held, inside, aborted>>
      BY <1>5, <2>2 DEF PopWithoutPool, Done, Left
    <3> QED
      BY <1>1, <3>1, <3>2, OneThread DEF PoolInv
  <2> QED
    BY <1>5, <2>1, <2>2 DEF PopWithoutPool
<1>6. CASE WakeInNoPool(t)
  BY <1>6 DEF WakeInNoPool, Abort, PoolInv, About
<1>7. CASE GiveBack(t)
  <2>1. todo[t] # <<>> /\ first.call = "push"
    BY <1>7 DEF GiveBack, About
  <2>2. CASE held' = [held EXCEPT ![t] = @ - 1] /\ Done(t, 1) /\ UNCHANGED aborted
    <3>1. held[t] - 1 \in 0..PoolSize /\ Balanced(Left(1), held[t] - 1)
      BY <1>1, <1>2, <2>1, PoolAssumption
    <3>2. t \notin inside
      BY <2>1 DEF PoolInv, About
    <3> HIDE DEF Left
    <3>3. /\ held' = [held EXCEPT ![t] = held[t] - 1] /\ todo' = [todo EXCEPT ![t] = Left(1)]
          /\ UNCHANGED <<pool, inside, aborted>>
      BY <1>7, <2>2 DEF GiveBack, Done, Left
    <3> QED
      BY <3>1, <3>2, <3>3, OneThread DEF PoolInv
  <2>3. CASE Abort(t) /\ UNCHANGED <<held, todo>>
    BY <1>7, <2>3 DEF GiveBack, Abort, PoolInv, About
  <2> QED
    BY <1>7, <2>2, <2>3 DEF GiveBack
<1> QED
  BY <1>3, <1>4, <1>5, <1>6, <1>7 DEF OnPool, CallPop, TakeClient, PopWithoutPool,
     WakeInNoPool, GiveBack

\* A thread that has nothing to do turns to something that is balanced.
LEMMA TurnToInv ==
    ASSUME PoolInv, NEW t \in Thread, todo[t] = <<>>, NEW calls, Balanced(calls, 0),
           todo' = [todo EXCEPT ![t] = calls], UNCHANGED <<held, inside, aborted>>,
           pool' \in {"none", "open", "destroyed"}
    PROVE  PoolInv'
<1>1. held[t] = 0 /\ t \notin inside
  BY NothingBalanced DEF PoolInv, About
<1>2. held' = [held EXCEPT ![t] = 0] /\ 0 \in 0..PoolSize
  BY <1>1, PoolAssumption DEF PoolInv
<1> QED
  BY <1>1, <1>2, OneThread DEF PoolInv

LEMMA PoolFrame ==
    ASSUME PoolInv, UNCHANGED <<held, todo, inside, aborted>>,
           pool' \in {"none", "open", "destroyed"}
    PROVE  PoolInv'
BY DEF PoolInv, About

LEMMA GiveUpInv ==
    ASSUME PoolInv, NEW t \in Thread, GiveUp(t) PROVE PoolInv'
<1>1. held' = [held EXCEPT ![t] = 0] /\ 0 \in 0..PoolSize /\ t \notin inside
  BY PoolAssumption DEF PoolInv, GiveUp
<1> QED
  BY <1>1, OneThread, NothingBalanced DEF PoolInv, GiveUp

LEMMA PassLimiterInv ==
    ASSUME PoolInv, NEW c \in Conn, PassLimiter(c) PROVE PoolInv'
<1>1. c \in Thread /\ todo[c] # <<>> /\ Head(todo[c]).call = "limit" /\ c \notin inside
  BY Threads DEF PassLimiter, PoolInv, About
<1>2. CASE Done(c, 1) /\ UNCHANGED aborted
  <2> DEFINE left == SubSeq(todo[c], 1 + 1, Len(todo[c]))
  <2>1. held[c] \in 0..PoolSize /\ held[c] \in Nat /\ Balanced(todo[c], held[c])
    BY <1>1, PoolAssumption DEF PoolInv
  <2>2. Balanced(left, held[c])
    BY <1>1, <2>1, AfterCall
  <2> HIDE DEF left
  <2>3. /\ held' = [held EXCEPT ![c] = held[c]] /\ todo' = [todo EXCEPT ![c] = left]
        /\ UNCHANGED <<pool, inside, aborted>>
    BY <1>2 DEF PassLimiter, Done, left, PoolInv
  <2> QED
    BY <1>1, <2>1, <2>2, <2>3, OneThread DEF PoolInv
<1>3. CASE Abort(c) /\ UNCHANGED todo
  BY <1>1, <1>3 DEF PassLimiter, Abort, PoolInv, About
<1> QED
  BY <1>2, <1>3 DEF PassLimiter

-----------------------------------------------------------------------------
(* The node                                                                *)

\* A step of main but those on the pool.
MainSteps == Starting \/ Producing \/ Ending

\* Main has nothing left to do and turns to these calls.
Turns(calls) ==
    /\ todo[Main] = <<>>
    /\ Balanced(calls, 0)
    /\ todo' = [todo EXCEPT ![Main] = calls]

\* What the steps of main do to its calls.
LEMMA MainTurns ==
    ASSUME IInv, Alive, MainSteps
    PROVE  /\ UNCHANGED <<held, inside, aborted, role>>
           /\ UNCHANGED todo \/ \E calls : Turns(calls)
           /\ pool' \in {"none", "open", "destroyed"}
<1> USE DEF IInv, PoolInv
<1>1. \A calls : Balanced(calls,
     0) /\ todo[Main] = <<>> /\ todo' = [todo EXCEPT ![Main] = calls]
          => Turns(calls)
  BY DEF Turns
<1>2. Balanced(<<>>, 0)
  BY NothingBalanced
<1>3. CASE Launch
  BY <1>3 DEF Launch, StartServer, poolVars
<1>4. CASE InitializeDatabase
  BY <1>1, <1>2, StepsBalanced, <1>4 DEF InitializeDatabase, Enter, poolVars, NothingToDo
<1>5. CASE ReplicaReady
  BY <1>1, <1>2, StepsBalanced, <1>5 DEF ReplicaReady, At, Enter, poolVars
<1>6. CASE ReplicaNotReady
  BY <1>1, <1>2, StepsBalanced, <1>6 DEF ReplicaNotReady, At, Enter, poolVars
<1>7. CASE Prepare
  BY <1>1, <1>2, StepsBalanced, <1>7 DEF Prepare, At, Enter, poolVars
<1>8. CASE PrepareFails
  BY <1>8 DEF PrepareFails, poolVars
<1>9. CASE StartScheduler
  BY <1>9 DEF StartScheduler, At, poolVars
<1>10. CASE ReadFee
  BY <1>1, <1>2, StepsBalanced, <1>10 DEF ReadFee, At, Enter, poolVars
<1>11. CASE PrintStarterState
  BY <1>1, <1>2, StepsBalanced, <1>11 DEF PrintStarterState, At, Enter, poolVars
<1>12. CASE ReadKey
  BY <1>1, <1>2, StepsBalanced, <1>12 DEF ReadKey, At, Enter, poolVars
<1>13. CASE BlockchainSynced
  BY <1>1, <1>2, StepsBalanced, <1>13 DEF BlockchainSynced, At, Enter, poolVars
<1>14. CASE FirstLoad
  BY <1>14 DEF FirstLoad, At, poolVars
<1>15. CASE BeginRound
  BY <1>1, <1>2, StepsBalanced, <1>15 DEF BeginRound, At, Enter, poolVars
<1>16. CASE Reload
  BY <1>1, <1>2, StepsBalanced, <1>16 DEF Reload, At, Enter, poolVars
<1>17. CASE Reloaded
  BY <1>17 DEF Reloaded, At, poolVars
<1>18. CASE StopScheduler
  BY <1>18 DEF StopScheduler, At, poolVars
<1>19. CASE ShutdownDb
  BY <1>19 DEF ShutdownDb, SchedulerJoined, poolVars
<1>20. CASE StopServer
  BY <1>20 DEF StopServer, StopListening, poolVars
<1>21. CASE ServerStopped
  BY <1>21 DEF ServerStopped, DestroySlots, poolVars
<1>22. CASE Cleanup
  BY <1>22 DEF Cleanup, poolVars
<1>23. CASE Return
  BY <1>23 DEF Return, poolVars
<1> QED
  BY <1>3, <1>4, <1>5, <1>6, <1>7, <1>8, <1>9, <1>10, <1>11, <1>12, <1>13, <1>14, <1>15,
     <1>16, <1>17, <1>18, <1>19, <1>20, <1>21, <1>22, <1>23
     DEF MainSteps, Starting, Producing, Ending

\* Clients and the scheduler touch what main is about in their pool steps only.
LEMMA PoolNext == IInv /\ [Next]_vars => PoolInv'
<1> SUFFICES ASSUME IInv, [Next]_vars PROVE PoolInv'
  OBVIOUS
<1> USE Threads DEF IInv
<1>1. CASE UNCHANGED vars
  BY <1>1, PoolFrame DEF vars, poolVars, PoolInv
<1>2. ASSUME NEW t \in Thread, PoolStep(t) PROVE PoolInv'
  BY <1>2, OnPoolInv DEF PoolStep, OnPool
<1>3. CASE Alive /\ MainSteps
  <2>1. /\ UNCHANGED <<held, inside, aborted>>
        /\ pool' \in {"none", "open", "destroyed"}
    BY <1>3, MainTurns
  <2>2. CASE UNCHANGED todo
    BY <2>1, <2>2, PoolFrame
  <2>3. CASE \E calls : Turns(calls)
    BY <2>1, <2>3, TurnToInv DEF Turns
  <2> QED
    BY <1>3, <2>2, <2>3, MainTurns
<1>4. CASE TimerStart \/ TimerEnd \/ Signal
  BY <1>4, PoolFrame DEF TimerStart, TimerEnd, Signal, poolVars, PoolInv
<1>5. CASE Maintain
  <2>1. CASE Work(Timer, LineCalls(Head(job)))
    BY <1>5, <2>1, TurnToInv, StepsBalanced DEF Maintain, Work, PoolInv
  <2>2. CASE UNCHANGED todo
    BY <1>5, <2>2, PoolFrame DEF Maintain, PoolInv
  <2> QED
    BY <1>5, <2>1, <2>2 DEF Maintain
<1>6. CASE Slot
  BY <1>6, TurnToInv, StepsBalanced DEF Slot, Work, PoolInv
<1>7. CASE LoopStep
  BY <1>7, PoolFrame
  DEF LoopStep, CheckRunning, AcceptFails, TakeSlot, Accept, Spawn, poolVars, PoolInv
<1>8. ASSUME NEW c \in Conn, Connect(c) \/ HangUp(c) \/ PostSlot(c) PROVE PoolInv'
  BY <1>8, PoolFrame DEF Connect, HangUp, PostSlot, poolVars, PoolInv
<1>9. ASSUME NEW c \in Conn, Receive(c) PROVE PoolInv'
  <2>1. PICK kind \in Traffic[c] : Work(c, Handling(kind))
    BY <1>9 DEF Receive
  <2>2. Balanced(Handling(kind), 0)
    BY HandlingBalanced
  <2> QED
    BY <1>9, <2>1, <2>2, TurnToInv DEF Receive, Work, PoolInv
<1>10. ASSUME NEW c \in Conn, PassLimiter(c) \/ GiveUp(c) PROVE PoolInv'
  BY <1>10, PassLimiterInv, GiveUpInv
<1> QED
  BY <1>1, <1>2, <1>3, <1>4, <1>5, <1>6, <1>7, <1>8, <1>9, <1>10
  DEF Next, MainStep, MainSteps, TimerStep, ClientStep

\* A step on the pool leaves the calls of the others alone.
LEMMA PoolStepOthers ==
    ASSUME PoolInv, NEW t \in Thread, OnPool(t)
    PROVE  \A u \in Thread \ {t} : todo'[u] = todo[u]
BY DEF PoolInv, OnPool, CallPop, TakeClient, PopWithoutPool, WakeInNoPool, GiveBack, Done

\* A step on the pool is of a thread that has something to do.
LEMMA PoolStepBusy ==
    ASSUME PoolInv, NEW t \in Thread, OnPool(t)
    PROVE  todo[t] # <<>>
BY DEF PoolInv, OnPool, CallPop, TakeClient, PopWithoutPool, WakeInNoPool, GiveBack, About

LEMMA NothingToDoNext == IInv /\ [Next]_vars => NothingToDo'
<1> SUFFICES ASSUME IInv, [Next]_vars PROVE NothingToDo'
  OBVIOUS
<1> USE Threads
<1>1. todo \in [Thread -> Seq(Call)]
  BY DEF IInv, PoolInv
<1>2. NothingToDo
  BY DEF IInv
<1>3. CASE UNCHANGED vars
  BY <1>2, <1>3 DEF NothingToDo, vars, poolVars, serverVars, nodeVars
<1>4. ASSUME NEW t \in Thread, PoolStep(t), Alive PROVE NothingToDo'
  <2>1. OnPool(t) /\ UNCHANGED <<main, timer, conn>>
    BY <1>4 DEF PoolStep, OnPool, serverVars, nodeVars
  <2>2. todo[t] # <<>> /\ \A u \in Thread \ {t} : todo'[u] = todo[u]
    BY <2>1, PoolStepBusy, PoolStepOthers DEF IInv
  <2> QED
    BY <1>2, <2>1, <2>2 DEF NothingToDo
<1>5. ASSUME NEW c \in Conn, UNCHANGED <<main, timer>>,
             \A u \in Thread \ {c} : todo'[u] = todo[u],
             conn'[c] # "serving" => todo'[c] = <<>>,
             \A u \in Conn \ {c} : conn'[u] = conn[u]
      PROVE  NothingToDo'
  BY <1>2, <1>5 DEF NothingToDo
<1>6. conn \in [Conn -> {"away", "waiting", "accepted", "serving", "closing", "gone"}]
  BY DEF IInv, ServerInv, ServerTypeOK
<1>7. CASE Launch /\ Alive
  BY <1>1, <1>2, <1>7 DEF NothingToDo, Launch, StartServer, poolVars, serverVars
<1>8. CASE InitializeDatabase /\ Alive
  BY <1>1, <1>2, <1>8 DEF NothingToDo, InitializeDatabase, Enter, poolVars, serverVars
<1>9. CASE ReplicaReady /\ Alive
  BY <1>1, <1>2, <1>9 DEF NothingToDo, ReplicaReady, At, Enter, poolVars, serverVars
<1>10. CASE ReplicaNotReady /\ Alive
  BY <1>1, <1>2, <1>10 DEF NothingToDo, ReplicaNotReady, At, Enter, poolVars, serverVars
<1>11. CASE Prepare /\ Alive
  BY <1>1, <1>2, <1>11 DEF NothingToDo, Prepare, At, Enter, poolVars, serverVars
<1>12. CASE PrepareFails /\ Alive
  BY <1>1, <1>2, <1>12 DEF NothingToDo, PrepareFails, poolVars, serverVars
<1>13. CASE StartScheduler /\ Alive
  BY <1>1, <1>2, <1>13 DEF NothingToDo, StartScheduler, At, poolVars, serverVars, IInv,
     StageInv, Unscheduled
<1>14. CASE ReadFee /\ Alive
  BY <1>1, <1>2, <1>14 DEF NothingToDo, ReadFee, At, Enter, poolVars, serverVars
<1>15. CASE PrintStarterState /\ Alive
  BY <1>1, <1>2, <1>15 DEF NothingToDo, PrintStarterState, At, Enter, poolVars, serverVars
<1>16. CASE ReadKey /\ Alive
  BY <1>1, <1>2, <1>16 DEF NothingToDo, ReadKey, At, Enter, poolVars, serverVars
<1>17. CASE BlockchainSynced /\ Alive
  BY <1>1, <1>2, <1>17 DEF NothingToDo, BlockchainSynced, At, Enter, poolVars, serverVars
<1>18. CASE FirstLoad /\ Alive
  BY <1>1, <1>2, <1>18 DEF NothingToDo, FirstLoad, At, poolVars, serverVars
<1>19. CASE BeginRound /\ Alive
  BY <1>1, <1>2, <1>19 DEF NothingToDo, BeginRound, At, Enter, poolVars, serverVars
<1>20. CASE Reload /\ Alive
  BY <1>1, <1>2, <1>20 DEF NothingToDo, Reload, At, Enter, poolVars, serverVars
<1>21. CASE Reloaded /\ Alive
  BY <1>1, <1>2, <1>21 DEF NothingToDo, Reloaded, At, poolVars, serverVars
<1>22. CASE StopScheduler /\ Alive
  BY <1>1, <1>2, <1>22 DEF NothingToDo, StopScheduler, At, poolVars, serverVars
<1>23. CASE ShutdownDb /\ Alive
  BY <1>1, <1>2, <1>23 DEF NothingToDo, ShutdownDb, SchedulerJoined, poolVars, serverVars
<1>24. CASE StopServer /\ Alive
  BY <1>1, <1>2, <1>24 DEF NothingToDo, StopServer, StopListening, poolVars, serverVars
<1>25. CASE ServerStopped /\ Alive
  BY <1>1, <1>2, <1>25 DEF NothingToDo, ServerStopped, DestroySlots, poolVars, serverVars
<1>26. CASE Cleanup /\ Alive
  BY <1>1, <1>2, <1>26 DEF NothingToDo, Cleanup, poolVars, serverVars
<1>27. CASE Return /\ Alive
  BY <1>1, <1>2, <1>27 DEF NothingToDo, Return, poolVars, serverVars
<1>28. CASE TimerStart /\ Alive
  BY <1>1, <1>2, <1>28 DEF NothingToDo, TimerStart, Alive, poolVars, serverVars
<1>29. CASE Maintain /\ Alive
  BY <1>1, <1>2, <1>29 DEF NothingToDo, Maintain, Work, Alive, poolVars, serverVars
<1>30. CASE Slot /\ Alive
  BY <1>1, <1>2, <1>30 DEF NothingToDo, Slot, Work, Alive, poolVars, serverVars
<1>31. CASE TimerEnd /\ Alive
  BY <1>1, <1>2, <1>31 DEF NothingToDo, TimerEnd, Alive, poolVars, serverVars
<1>32. CASE Signal /\ Alive
  BY <1>1, <1>2, <1>32 DEF NothingToDo, Signal, Alive, poolVars, serverVars
<1>33. CASE LoopStep
  <2>1. CASE CheckRunning \/ AcceptFails \/ TakeSlot
    BY <1>2, <1>33, <2>1
    DEF LoopStep, NothingToDo, CheckRunning, AcceptFails, TakeSlot, poolVars, nodeVars
  <2>2. ASSUME NEW c \in Conn, Accept(c) \/ Spawn(c) PROVE NothingToDo'
    BY <1>2, <1>5, <1>6, <1>33, <2>2
    DEF LoopStep, NothingToDo, Accept, Spawn, SpawnFails, poolVars, nodeVars
  <2> QED
    BY <1>33, <2>1, <2>2 DEF LoopStep
<1>34. ASSUME NEW c \in Conn, ClientStep(c) \/ (Connect(c) /\ UNCHANGED nodeVars), Alive
      PROVE  NothingToDo'
  <2>1. CASE PoolStep(c)
    BY <1>4, <1>34, <2>1
  <2>2. CASE Receive(c) /\ UNCHANGED nodeVars
    BY <1>1, <1>5, <2>2 DEF Receive, Work, nodeVars
  <2>3. CASE PassLimiter(c) /\ UNCHANGED nodeVars
    <3>1. todo[c] # <<>>
      BY <2>3 DEF PassLimiter, About
    <3> QED
      BY <1>1, <1>2, <1>5, <2>3, <3>1 DEF PassLimiter, Done, nodeVars, serverVars,
     NothingToDo
  <2>4. CASE (HangUp(c) \/ PostSlot(c) \/ Connect(c)) /\ UNCHANGED nodeVars
    BY <1>2, <1>5, <1>6, <2>4 DEF HangUp, PostSlot, Connect, poolVars, nodeVars, NothingToDo
  <2>5. CASE GiveUp(c) /\ UNCHANGED <<serverVars, nodeVars>>
    BY <1>1, <1>5, <2>5 DEF GiveUp, serverVars, nodeVars
  <2> QED
    BY <1>34, <2>1, <2>2, <2>3, <2>4, <2>5 DEF ClientStep
<1> QED
  BY <1>3, <1>4, <1>7, <1>8, <1>9, <1>10, <1>11, <1>12, <1>13, <1>14, <1>15, <1>16,
     <1>17, <1>18, <1>19, <1>20, <1>21, <1>22, <1>23, <1>24, <1>25, <1>26, <1>27, <1>28,
     <1>29, <1>30, <1>31, <1>32, <1>33, <1>34
  DEF Next, MainStep, Starting, Producing, Ending, TimerStep

-----------------------------------------------------------------------------
(* Main, the scheduler and the pool                                        *)

\* Who asks the pool while it is open does not end the process.
LEMMA OpenPoolKept ==
    ASSUME NEW t, OnPool(t), pool = "open"
    PROVE  aborted' = aborted
BY DEF OnPool, CallPop, TakeClient, PopWithoutPool, WakeInNoPool, GiveBack, Abort

LEMMA OnPoolAborts ==
    ASSUME NEW t, OnPool(t)
    PROVE  aborted' \subseteq aborted \cup {t}
BY DEF OnPool, CallPop, TakeClient, PopWithoutPool, WakeInNoPool, GiveBack, Abort

LEMMA StageNext == IInv /\ [Next]_vars => StageInv'
<1> SUFFICES ASSUME IInv, [Next]_vars PROVE StageInv'
  OBVIOUS
<1> USE Threads
<1>1. NodeTypeOK /\ PoolUp /\ Unscheduled /\ OnlyClientsMissPool /\ NothingToDo /\ PoolInv
  BY DEF IInv, StageInv
<1>2. ASSUME UNCHANGED <<main, timer, role, shutdown, signals, missed, pool>>,
             aborted' \subseteq Conn
      PROVE  StageInv'
  BY <1>1, <1>2 DEF StageInv, NodeTypeOK, PoolUp, Unscheduled, OnlyClientsMissPool
<1>3. CASE UNCHANGED vars
  BY <1>1, <1>2, <1>3 DEF vars, poolVars, nodeVars, OnlyClientsMissPool
<1>4. ASSUME NEW c \in Conn, PoolStep(c) PROVE StageInv'
  <2>1. OnPool(c) /\ UNCHANGED nodeVars
    BY <1>4 DEF PoolStep, OnPool
  <2>2. aborted' \subseteq Conn /\ UNCHANGED pool
    BY <1>1, <2>1, OnPoolAborts, OnPoolInv DEF OnlyClientsMissPool
  <2> QED
    BY <1>2, <2>1, <2>2 DEF nodeVars
<1>5. ASSUME NEW t \in {Main, Timer}, PoolStep(t), Alive PROVE StageInv'
  <2>1. OnPool(t) /\ UNCHANGED nodeVars
    BY <1>5 DEF PoolStep, OnPool
  <2>2. todo[t] # <<>> /\ UNCHANGED pool
    BY <1>1, <2>1, PoolStepBusy, OnPoolInv
  <2>3. pool = "open"
    BY <1>1, <1>5, <2>2 DEF Alive, NothingToDo, PoolUp, NodeTypeOK
  <2>4. aborted' = aborted
    BY <2>1, <2>3, OpenPoolKept
  <2> QED
    BY <1>1, <1>2, <2>1, <2>2, <2>4 DEF nodeVars, OnlyClientsMissPool
<1>6. ASSUME UNCHANGED <<role, aborted>>, NodeTypeOK', PoolUp', Unscheduled'
      PROVE  StageInv'
  BY <1>1, <1>6 DEF StageInv, OnlyClientsMissPool
<1>7. CASE Launch
  BY <1>1, <1>6, <1>7, NodeAssumption
  DEF NodeTypeOK, PoolUp, Unscheduled, Launch, StartServer, poolVars, serverVars
<1>8. CASE InitializeDatabase
  BY <1>1, <1>6, <1>8, NodeAssumption
  DEF NodeTypeOK, PoolUp, Unscheduled, InitializeDatabase, Enter, poolVars, serverVars
<1>9. CASE ReplicaReady
  BY <1>1, <1>6, <1>9, NodeAssumption
  DEF NodeTypeOK, PoolUp, Unscheduled, ReplicaReady, At, Enter, poolVars, serverVars
<1>10. CASE ReplicaNotReady
  BY <1>1, <1>6, <1>10, NodeAssumption
  DEF NodeTypeOK, PoolUp, Unscheduled, ReplicaNotReady, At, Enter, poolVars, serverVars
<1>11. CASE Prepare
  BY <1>1, <1>6, <1>11, NodeAssumption
  DEF NodeTypeOK, PoolUp, Unscheduled, Prepare, At, Enter, poolVars, serverVars
<1>12. CASE PrepareFails
  BY <1>1, <1>6, <1>12, NodeAssumption
  DEF NodeTypeOK, PoolUp, Unscheduled, PrepareFails, poolVars, serverVars
<1>13. CASE StartScheduler
  BY <1>1, <1>6, <1>13, NodeAssumption
  DEF NodeTypeOK, PoolUp, Unscheduled, StartScheduler, At, poolVars, serverVars
<1>14. CASE ReadFee
  BY <1>1, <1>6, <1>14, NodeAssumption
  DEF NodeTypeOK, PoolUp, Unscheduled, ReadFee, At, Enter, poolVars, serverVars
<1>15. CASE PrintStarterState
  BY <1>1, <1>6, <1>15, NodeAssumption
  DEF NodeTypeOK, PoolUp, Unscheduled, PrintStarterState, At, Enter, poolVars, serverVars
<1>16. CASE ReadKey
  BY <1>1, <1>6, <1>16, NodeAssumption
  DEF NodeTypeOK, PoolUp, Unscheduled, ReadKey, At, Enter, poolVars, serverVars
<1>17. CASE BlockchainSynced
  BY <1>1, <1>6, <1>17, NodeAssumption
  DEF NodeTypeOK, PoolUp, Unscheduled, BlockchainSynced, At, Enter, poolVars, serverVars
<1>18. CASE FirstLoad
  BY <1>1, <1>6, <1>18, NodeAssumption
  DEF NodeTypeOK, PoolUp, Unscheduled, FirstLoad, At, poolVars, serverVars
<1>19. CASE BeginRound
  BY <1>1, <1>6, <1>19, NodeAssumption
  DEF NodeTypeOK, PoolUp, Unscheduled, BeginRound, At, Enter, poolVars, serverVars
<1>20. CASE Reload
  BY <1>1, <1>6, <1>20, NodeAssumption
  DEF NodeTypeOK, PoolUp, Unscheduled, Reload, At, Enter, poolVars, serverVars
<1>21. CASE Reloaded
  <2>1. missed' \in 0..MaxMissed
    BY <1>1, <1>21, NodeAssumption DEF NodeTypeOK, Reloaded
  <2>2. shutdown' \in BOOLEAN
    BY <1>1, <1>21 DEF NodeTypeOK, Reloaded
  <2> QED
    BY <1>1, <1>6, <1>21, <2>1, <2>2
    DEF NodeTypeOK, PoolUp, Unscheduled, Reloaded, At, poolVars, serverVars
<1>22. CASE StopScheduler
  BY <1>1, <1>6, <1>22, NodeAssumption
  DEF NodeTypeOK, PoolUp, Unscheduled, StopScheduler, At, poolVars, serverVars
<1>23. CASE ShutdownDb
  BY <1>1, <1>6, <1>23, NodeAssumption
  DEF NodeTypeOK, PoolUp, Unscheduled, ShutdownDb, SchedulerJoined, poolVars, serverVars
<1>24. CASE StopServer
  BY <1>1, <1>6, <1>24, NodeAssumption
  DEF NodeTypeOK, PoolUp, Unscheduled, StopServer, StopListening, poolVars, serverVars
<1>25. CASE ServerStopped
  BY <1>1, <1>6, <1>25, NodeAssumption
  DEF NodeTypeOK, PoolUp, Unscheduled, ServerStopped, DestroySlots, poolVars, serverVars
<1>26. CASE Cleanup
  BY <1>1, <1>6, <1>26, NodeAssumption
  DEF NodeTypeOK, PoolUp, Unscheduled, Cleanup, poolVars, serverVars
<1>27. CASE Return
  BY <1>1, <1>6, <1>27, NodeAssumption
  DEF NodeTypeOK, PoolUp, Unscheduled, Return, poolVars, serverVars
<1>28. CASE TimerStart
  BY <1>1, <1>6, <1>28, NodeAssumption
  DEF NodeTypeOK, PoolUp, Unscheduled, TimerStart, poolVars, serverVars
<1>29. CASE Maintain
  BY <1>1, <1>6, <1>29, NodeAssumption
  DEF NodeTypeOK, PoolUp, Unscheduled, Maintain, Work, poolVars, serverVars
<1>30. CASE Slot
  BY <1>1, <1>6, <1>30, NodeAssumption
  DEF NodeTypeOK, PoolUp, Unscheduled, Slot, Work, poolVars, serverVars
<1>31. CASE TimerEnd
  BY <1>1, <1>6, <1>31, NodeAssumption
  DEF NodeTypeOK, PoolUp, Unscheduled, TimerEnd, poolVars, serverVars
<1>32. CASE Signal
  BY <1>1, <1>6, <1>32, NodeAssumption
  DEF NodeTypeOK, PoolUp, Unscheduled, Signal, poolVars, serverVars
<1>33. CASE LoopStep
  BY <1>1, <1>2, <1>33
  DEF LoopStep, CheckRunning, AcceptFails, TakeSlot, Accept, Spawn, poolVars, nodeVars,
      OnlyClientsMissPool
<1>34. ASSUME NEW c \in Conn, ClientStep(c) \/ (Connect(c) /\ UNCHANGED nodeVars)
      PROVE  StageInv'
  <2>1. CASE PoolStep(c)
    BY <1>4, <2>1
  <2>2. CASE (Receive(c) \/ HangUp(c) \/ PostSlot(c) \/ Connect(c)) /\ UNCHANGED nodeVars
    BY <1>1, <1>2, <2>2
    DEF Receive, HangUp, PostSlot, Connect, poolVars, nodeVars, OnlyClientsMissPool
  <2>3. CASE PassLimiter(c) /\ UNCHANGED nodeVars
    BY <1>1, <1>2, <2>3 DEF PassLimiter, Abort, nodeVars, OnlyClientsMissPool
  <2>4. CASE GiveUp(c) /\ UNCHANGED <<serverVars, nodeVars>>
    BY <1>1, <1>2, <2>4 DEF GiveUp, nodeVars, OnlyClientsMissPool
  <2> QED
    BY <1>34, <2>1, <2>2, <2>3, <2>4 DEF ClientStep
<1> QED
  BY <1>3, <1>5, <1>7, <1>8, <1>9, <1>10, <1>11, <1>12, <1>13, <1>14, <1>15, <1>16,
     <1>17, <1>18, <1>19, <1>20, <1>21, <1>22, <1>23, <1>24, <1>25, <1>26, <1>27, <1>28,
     <1>29, <1>30, <1>31, <1>32, <1>33, <1>34
  DEF Next, MainStep, Starting, Producing, Ending, TimerStep

-----------------------------------------------------------------------------
(* The slots                                                               *)

\* The slots that are taken, when the connection c changes.
LEMMA BusyChanges ==
    ASSUME ServerTypeOK, NEW c \in Conn, NEW v, conn' = [conn EXCEPT ![c] = v]
    PROVE  /\ IsFiniteSet(Busy) /\ Cardinality(Busy) \in Nat
           /\ conn[c] \notin {"serving", "closing"} /\ v \notin {"serving", "closing"} =>
                  Busy' = Busy
           /\ conn[c] \in {"serving", "closing"} /\ v \in {"serving", "closing"} =>
                  Busy' = Busy
           /\ conn[c] \notin {"serving", "closing"} /\ v \in {"serving", "closing"} =>
                  Cardinality(Busy') = Cardinality(Busy) + 1
           /\ conn[c] \in {"serving", "closing"} /\ v \notin {"serving", "closing"} =>
                  Cardinality(Busy') = Cardinality(Busy) - 1
<1>1. IsFiniteSet(Conn)
  BY PoolAssumption, Threads, FS_Subset
<1>2. IsFiniteSet(Busy) /\ Cardinality(Busy) \in Nat
  BY <1>1, FS_Subset, FS_CardinalityType DEF Busy
<1>3. conn' \in [Conn -> {v} \cup {conn[d] : d \in Conn}]
      /\ conn'[c] = v /\ \A d \in Conn \ {c} : conn'[d] = conn[d]
  BY DEF ServerTypeOK
<1>4. ASSUME conn[c] \notin {"serving", "closing"}, v \notin {"serving", "closing"}
      PROVE  Busy' = Busy
  BY <1>3, <1>4 DEF Busy
<1>5. ASSUME conn[c] \in {"serving", "closing"}, v \in {"serving", "closing"}
      PROVE  Busy' = Busy
  BY <1>3, <1>5 DEF Busy
<1>6. ASSUME conn[c] \notin {"serving", "closing"}, v \in {"serving", "closing"}
      PROVE  Cardinality(Busy') = Cardinality(Busy) + 1
  <2>1. Busy' = Busy \cup {c} /\ c \notin Busy
    BY <1>3, <1>6 DEF Busy
  <2> QED
    BY <1>2, <2>1, FS_AddElement
<1>7. ASSUME conn[c] \in {"serving", "closing"}, v \notin {"serving", "closing"}
      PROVE  Cardinality(Busy') = Cardinality(Busy) - 1
  <2>1. Busy' = Busy \ {c} /\ c \in Busy
    BY <1>3, <1>7 DEF Busy
  <2> QED
    BY <1>2, <2>1, FS_RemoveElement
<1> QED
  BY <1>2, <1>4, <1>5, <1>6, <1>7

LEMMA ServerNext == IInv /\ [Next]_vars => ServerInv'
<1> SUFFICES ASSUME IInv, [Next]_vars PROVE ServerInv'
  OBVIOUS
<1>1. ServerTypeOK /\ SlotsAccounted /\ SemaphoreOutlivesLoop /\ NotStarted
  BY DEF IInv, ServerInv
<1>2. IsFiniteSet(Busy) /\ Cardinality(Busy) \in Nat /\ MaxActive \in Nat \ {0}
  <2>1. IsFiniteSet(Conn)
    BY PoolAssumption, Threads, FS_Subset
  <2> QED
    BY <2>1, FS_Subset, FS_CardinalityType, ServerAssumption DEF Busy
<1>3. ASSUME UNCHANGED serverVars, main' = "server" => main = "server"
      PROVE  ServerInv'
  BY <1>1, <1>3
  DEF ServerInv, ServerTypeOK, SlotsAccounted, SemaphoreOutlivesLoop, NotStarted, serverVars, Busy
<1>4. ASSUME ServerTypeOK', SlotsAccounted', SemaphoreOutlivesLoop',
             main # "server" \/ main' # "server", main' = "server" => main = "server"
      PROVE  ServerInv'
  BY <1>4 DEF ServerInv, NotStarted
<1>5. CASE UNCHANGED vars
  BY <1>3, <1>5 DEF vars, nodeVars
<1>6. ASSUME NEW t \in Thread, PoolStep(t) PROVE ServerInv'
  BY <1>3, <1>6 DEF PoolStep, nodeVars
<1>7. CASE Launch
  <2>1. CASE StartServer /\ main' = "database"
    <3>1. Busy = {} /\ conn' = conn
      BY <1>1, <1>7, <2>1 DEF NotStarted, Launch, StartServer, Busy
    <3>2. Cardinality(Busy') = 0
      BY <3>1, FS_EmptySet DEF Busy
    <3>3. ServerTypeOK' /\ SemaphoreOutlivesLoop'
      BY <1>1, <1>2, <2>1 DEF ServerTypeOK, SemaphoreOutlivesLoop, StartServer
    <3>4. slots' + Cardinality(Busy') + 0 = MaxActive /\ loop' = "check"
      BY <1>2, <2>1, <3>2 DEF StartServer
    <3> QED
      BY <1>4, <2>1, <3>3, <3>4 DEF SlotsAccounted
  <2>2. CASE UNCHANGED serverVars /\ main' = "exited"
    BY <1>3, <2>2
  <2> QED
    BY <1>7, <2>1, <2>2 DEF Launch
<1>8. CASE Starting /\ ~Launch
  BY <1>3, <1>8
  DEF Starting, InitializeDatabase, ReplicaReady, ReplicaNotReady, Prepare, PrepareFails,
      StartScheduler, ReadFee, PrintStarterState, Enter
<1>9. CASE Producing
  BY <1>3, <1>9
  DEF Producing, ReadKey, BlockchainSynced, FirstLoad, BeginRound, Reload, Reloaded, Enter
<1>10. CASE StopScheduler \/ ShutdownDb \/ Return
  BY <1>3, <1>10 DEF StopScheduler, ShutdownDb, Return
<1>11. CASE StopServer
  <2>1. main # "server" /\ main' # "server"
    BY <1>11 DEF StopServer
  <2>2. ServerTypeOK' /\ SlotsAccounted' /\ SemaphoreOutlivesLoop'
    BY <1>1, <1>11
    DEF StopServer, StopListening, ServerTypeOK, SlotsAccounted, SemaphoreOutlivesLoop, Busy
  <2> QED
    BY <1>4, <2>1, <2>2
<1>12. CASE ServerStopped
  <2>1. main # "server" /\ main' # "server"
    BY <1>12 DEF ServerStopped
  <2>2. ServerTypeOK' /\ SlotsAccounted' /\ SemaphoreOutlivesLoop'
    BY <1>1, <1>12
    DEF ServerStopped, DestroySlots, LoopJoined, ServerTypeOK, SlotsAccounted,
        SemaphoreOutlivesLoop
  <2> QED
    BY <1>4, <2>1, <2>2
<1>13. CASE Cleanup
  <2>1. main # "server" /\ main' # "server"
    BY <1>13 DEF Cleanup
  <2>2. ServerTypeOK' /\ SlotsAccounted' /\ SemaphoreOutlivesLoop'
    BY <1>1, <1>13 DEF Cleanup, ServerTypeOK, SlotsAccounted, SemaphoreOutlivesLoop, Busy
  <2> QED
    BY <1>4, <2>1, <2>2
<1>14. CASE TimerStart \/ Maintain \/ Slot \/ TimerEnd
  BY <1>3, <1>14 DEF TimerStart, Maintain, Slot, TimerEnd
<1>15. CASE Signal
  BY <1>3, <1>15 DEF Signal
<1>16. CASE LoopStep
  <2>1. main' = main /\ main # "server"
    BY <1>1, <1>16
    DEF LoopStep, NotStarted, CheckRunning, AcceptFails, TakeSlot, Accept, Spawn, nodeVars
  <2>2. CASE CheckRunning \/ AcceptFails
    BY <1>1, <1>4, <2>1, <2>2
    DEF CheckRunning, AcceptFails, ServerTypeOK, SlotsAccounted, SemaphoreOutlivesLoop, Busy
  <2>3. CASE TakeSlot
    <3>1. Busy' = Busy
      BY <2>3 DEF TakeSlot, Busy
    <3>2. slots' = slots - 1 /\ slots \in 1..MaxActive /\ slots \in Nat
      BY <1>1, <1>2, <2>3 DEF TakeSlot, ServerTypeOK
    <3>3. SlotsAccounted'
      <4>1. semaphore = "ready" => slots + Cardinality(Busy) + 0 = MaxActive
        BY <1>1, <2>3 DEF SlotsAccounted, TakeSlot
      <4>2. semaphore = "ready" => slots' + Cardinality(Busy) + 1 = MaxActive
        BY <1>2, <3>2, <4>1
      <4> QED
        BY <2>3, <3>1, <4>2 DEF SlotsAccounted, TakeSlot
    <3>4. ServerTypeOK' /\ SemaphoreOutlivesLoop'
      BY <1>1, <1>2, <2>3, <3>2 DEF TakeSlot, ServerTypeOK, SemaphoreOutlivesLoop
    <3> QED
      BY <1>4, <2>1, <3>3, <3>4
  <2>4. ASSUME NEW c \in Conn, Accept(c) PROVE ServerInv'
    <3>1. Busy' = Busy
      <4>1. conn' = [conn EXCEPT ![c] = "accepted"] /\ conn[c] = "waiting"
        BY <2>4 DEF Accept
      <4>2. "accepted" \notin {"serving", "closing"} /\ conn[c] \notin {"serving", "closing"}
        BY <4>1
      <4> QED
        BY <1>1, <4>1, <4>2, BusyChanges
    <3>2. ServerTypeOK' /\ SemaphoreOutlivesLoop'
      BY <1>1, <2>4 DEF Accept, ServerTypeOK, SemaphoreOutlivesLoop
    <3>3. SlotsAccounted'
      BY <1>1, <2>4, <3>1 DEF SlotsAccounted, Accept
    <3> QED
      BY <1>4, <2>1, <3>2, <3>3
  <2>5. ASSUME NEW c \in Conn, Spawn(c) PROVE ServerInv'
    <3>1. slots \in Nat /\ slots + Cardinality(Busy) + 1 = MaxActive /\ semaphore = "ready"
      BY <1>1, <1>2, <2>5 DEF Spawn, SlotsAccounted, SemaphoreOutlivesLoop, ServerTypeOK
    <3>2. CASE conn' = [conn EXCEPT ![c] = "serving"] /\ UNCHANGED slots
      <4>1. Cardinality(Busy') = Cardinality(Busy) + 1
        BY <1>1, <2>5, <3>2, BusyChanges DEF Spawn
      <4>2. slots' + Cardinality(Busy') + 0 = MaxActive
        BY <1>2, <3>1, <3>2, <4>1
      <4>3. ServerTypeOK' /\ SemaphoreOutlivesLoop'
        BY <1>1, <2>5, <3>2 DEF Spawn, ServerTypeOK, SemaphoreOutlivesLoop
      <4>4. SlotsAccounted'
        BY <2>5, <4>2 DEF SlotsAccounted, Spawn
      <4> QED
        BY <1>4, <2>1, <4>3, <4>4
    <3>3. CASE SpawnFails(c)
      <4>1. Busy' = Busy
        BY <1>1, <2>5, <3>3, BusyChanges DEF Spawn, SpawnFails
      <4>2. slots' = slots + 1 /\ slots' \in 0..MaxActive
        BY <1>2, <3>1, <3>3 DEF SpawnFails
      <4>3. slots' + Cardinality(Busy) + 0 = MaxActive
        BY <1>2, <3>1, <4>2
      <4>4. ServerTypeOK' /\ SemaphoreOutlivesLoop'
        BY <1>1, <2>5, <3>3, <4>2 DEF Spawn, SpawnFails, ServerTypeOK, SemaphoreOutlivesLoop
      <4>5. SlotsAccounted'
        BY <2>5, <4>1, <4>3 DEF SlotsAccounted, Spawn
      <4> QED
        BY <1>4, <2>1, <4>4, <4>5
    <3> QED
      BY <2>5, <3>2, <3>3 DEF Spawn
  <2> QED
    BY <1>16, <2>2, <2>3, <2>4, <2>5 DEF LoopStep
<1>17. ASSUME NEW c \in Conn, ClientStep(c) \/ (Connect(c) /\ UNCHANGED nodeVars)
       PROVE  ServerInv'
  <2>1. CASE PoolStep(c)
    BY <1>6, <2>1, Threads
  <2>2. CASE PassLimiter(c) /\ UNCHANGED nodeVars
    BY <1>3, <2>2 DEF PassLimiter, nodeVars
  <2>3. CASE GiveUp(c) /\ UNCHANGED <<serverVars, nodeVars>>
    BY <1>3, <2>3 DEF nodeVars
  <2>4. CASE Receive(c) /\ UNCHANGED nodeVars
    <3>1. sent[c] + 1 \in 0..MaxMessages
      BY <1>1, <2>4, ServerAssumption DEF Receive, ServerTypeOK
    <3>2. ServerTypeOK' /\ SlotsAccounted' /\ SemaphoreOutlivesLoop'
      BY <1>1, <2>4, <3>1
      DEF Receive, ServerTypeOK, SlotsAccounted, SemaphoreOutlivesLoop, Busy
    <3>3. main' = main /\ main # "server"
      BY <1>1, <2>4 DEF Receive, nodeVars, NotStarted
    <3> QED
      BY <1>4, <3>2, <3>3
  <2>5. CASE HangUp(c) /\ UNCHANGED nodeVars
    <3>1. Busy' = Busy
      BY <1>1, <2>5, BusyChanges DEF HangUp
    <3>2. 0 \in 0..MaxMessages
      BY ServerAssumption
    <3>3. ServerTypeOK' /\ SemaphoreOutlivesLoop'
      BY <1>1, <2>5, <3>2 DEF HangUp, ServerTypeOK, SemaphoreOutlivesLoop
    <3>4. SlotsAccounted'
      BY <1>1, <2>5, <3>1 DEF HangUp, SlotsAccounted
    <3>5. main' = main /\ main # "server"
      BY <1>1, <2>5 DEF HangUp, nodeVars, NotStarted
    <3> QED
      BY <1>4, <3>3, <3>4, <3>5
  <2>6. CASE PostSlot(c) /\ UNCHANGED nodeVars
    <3>1. Cardinality(Busy') = Cardinality(Busy) - 1
      <4>1. conn' = [conn EXCEPT ![c] = "gone"] /\ conn[c] = "closing"
        BY <2>6 DEF PostSlot
      <4>2. "gone" \notin {"serving", "closing"} /\ conn[c] \in {"serving", "closing"}
        BY <4>1
      <4> QED
        BY <1>1, <4>1, <4>2, BusyChanges
    <3>2. main' = main /\ main # "server"
      BY <1>1, <2>6 DEF PostSlot, nodeVars, NotStarted
    <3>3. c \in Busy /\ Cardinality(Busy) > 0
      <4>1. c \in Busy
        BY <2>6 DEF PostSlot, Busy
      <4>2. Cardinality(Busy) # 0
        BY <1>2, <4>1, FS_EmptySet
      <4> QED
        BY <1>2, <4>1, <4>2
    <3>4. CASE semaphore = "ready"
      <4> DEFINE about == IF loop = "spawn" THEN 1 ELSE 0
      <4>1. slots + Cardinality(Busy) + about = MaxActive /\ slots \in Nat /\ about \in {0, 1}
        BY <1>1, <1>2, <3>4 DEF SlotsAccounted, ServerTypeOK
      <4>2. slots' = slots + 1 /\ loop' = loop
        BY <2>6, <3>4 DEF PostSlot
      <4> HIDE DEF about
      <4>3. slots' + Cardinality(Busy') + about = MaxActive /\ slots' \in 0..MaxActive
        BY <1>2, <3>1, <3>3, <4>1, <4>2
      <4>4. SlotsAccounted'
        BY <4>2, <4>3 DEF SlotsAccounted, about
      <4>5. ServerTypeOK' /\ SemaphoreOutlivesLoop'
        BY <1>1, <2>6, <4>3 DEF PostSlot, ServerTypeOK, SemaphoreOutlivesLoop
      <4> QED
        BY <1>4, <3>2, <4>4, <4>5
    <3>5. CASE semaphore # "ready"
      <4>1. ServerTypeOK' /\ SemaphoreOutlivesLoop' /\ SlotsAccounted'
        BY <1>1, <2>6, <3>5 DEF PostSlot, ServerTypeOK, SemaphoreOutlivesLoop,
     SlotsAccounted
      <4> QED
        BY <1>4, <3>2, <4>1
    <3> QED
      BY <3>4, <3>5
  <2>7. CASE Connect(c) /\ UNCHANGED nodeVars
    <3>1. Busy' = Busy
      <4>1. conn' = [conn EXCEPT ![c] = "waiting"] /\ conn[c] = "away"
        BY <2>7 DEF Connect
      <4>2. "waiting" \notin {"serving", "closing"} /\ conn[c] \notin {"serving", "closing"}
        BY <4>1
      <4> QED
        BY <1>1, <4>1, <4>2, BusyChanges
    <3>2. ServerTypeOK' /\ SemaphoreOutlivesLoop' /\ SlotsAccounted'
      BY <1>1, <2>7, <3>1 DEF Connect, ServerTypeOK, SemaphoreOutlivesLoop, SlotsAccounted
    <3>3. main' = main /\ main # "server"
      BY <1>1, <2>7 DEF Connect, nodeVars, NotStarted
    <3> QED
      BY <1>4, <3>2, <3>3
  <2> QED
    BY <1>17, <2>1, <2>2, <2>3, <2>4, <2>5, <2>6, <2>7 DEF ClientStep
<1> QED
  BY <1>5, <1>6, <1>7, <1>8, <1>9, <1>10, <1>11, <1>12, <1>13, <1>14, <1>15, <1>16,
     <1>17, Threads
  DEF Next, MainStep, Ending, TimerStep

-----------------------------------------------------------------------------
(* The theorems                                                            *)

LEMMA NodeNext == IInv /\ [Next]_vars => IInv'
BY PoolNext, NothingToDoNext, StageNext, ServerNext DEF IInv

\* The balance of the pool, the stages of main and the scheduler and the states of
\* the server go together in every state of the daemon (main, timer_thread,
\* server_thread_loop, handle_client).
THEOREM NodeInvariant == Spec => []IInv
<1>1. Init => IInv
  BY NodeInit
<1>2. IInv /\ [Next]_vars => IInv'
  BY NodeNext
<1> QED
  BY <1>1, <1>2, PTL DEF Spec

LEMMA CallsTypedWhenBalanced == PoolInv => PoolTypeOK
<1> SUFFICES ASSUME PoolInv PROVE PoolTypeOK
  OBVIOUS
<1>1. ASSUME NEW t \in Thread, NEW i \in DOMAIN todo[t]
      PROVE  /\ todo[t][i].call \in {"pop", "push", "limit"}
             /\ todo[t][i].skip \in 0..Rest
  <2>1. todo[t] \in Seq(Call)
    BY DEF PoolInv
  <2>2. todo[t][i] \in Call
    BY <2>1
  <2> QED
    BY <2>2 DEF Call
<1> QED
  BY <1>1 DEF PoolInv, PoolTypeOK

\* The types of the daemon: no thread holds more clients than the pool has,
\* no more slots are free than there are, the loads missed stay in bounds
\* (TypeOK).
THEOREM NodeTypes == Spec => []TypeOK
<1>1. IInv => TypeOK
  BY CallsTypedWhenBalanced DEF IInv, TypeOK, ServerInv, StageInv, NodeTypeOK
<1> QED
  BY <1>1, NodeInvariant, PTL

\* A client slot is free, about to be used or held by one client thread,
\* however threads fail to start and clients hang up (server_thread_loop,
\* handle_client).
THEOREM SlotsNeverLost == Spec => []SlotsAccounted
<1>1. IInv => SlotsAccounted
  BY DEF IInv, ServerInv
<1> QED
  BY <1>1, NodeInvariant, PTL

\* The accept loop never waits on the destroyed semaphore of the slots
\* (stop_tcp_server).
THEOREM LoopOutlived == Spec => []SemaphoreOutlivesLoop
<1>1. IInv => SemaphoreOutlivesLoop
  BY DEF IInv, ServerInv
<1> QED
  BY <1>1, NodeInvariant, PTL

\* A client thread between two messages, or at its end, has given all clients
\* of the pool back, on every path through every handler.
THEOREM EveryClientReturned == Spec => []ClientsReturned
<1>1. IInv => ClientsReturned
  <2> SUFFICES ASSUME IInv, NEW c \in Conn, conn[c] # "serving" \/ todo[c] = <<>>
               PROVE  held[c] = 0 /\ c \notin inside
    BY DEF ClientsReturned
  <2>1. todo[c] = <<>> /\ c \in Thread
    BY Threads DEF IInv, NothingToDo
  <2>2. held[c] = 0
    BY <2>1, NothingBalanced DEF IInv, PoolInv
  <2>3. c \notin inside
    BY <2>1 DEF IInv, PoolInv, About
  <2> QED
    BY <2>2, <2>3
<1> QED
  BY <1>1, NodeInvariant, PTL

\* Main and the scheduler never ask a pool that is not there: main makes it
\* before it asks, and waits for the scheduler before it destroys it
\* (main, shutdown_db).
THEOREM PoolThereForMain == Spec => []OnlyClientsMissPool
<1>1. IInv => OnlyClientsMissPool
  BY DEF IInv, StageInv
<1> QED
  BY <1>1, NodeInvariant, PTL

\* The pool starves only on look-ups (check_if_database_collection_exist
\* called with a client in hand): as many threads as it has clients, each
\* with one of them.
THEOREM LookUpsStarve == Spec => []StarvedByLookups
<1>1. IInv => StarvedByLookups
  <2> SUFFICES ASSUME IInv, Starved
               PROVE  Cardinality({t \in Thread : held[t] = 1}) = PoolSize
    BY DEF StarvedByLookups
  <2>1. PoolInv
    BY DEF IInv
  <2>2. ASSUME NEW t \in Thread PROVE held[t] \in {0, 1}
    <3>1. held[t] \in Nat /\ Balanced(todo[t], held[t])
      BY <2>1 DEF PoolInv
    <3>2. CASE held[t] > 0
      <4>1. todo[t] # <<>> /\ Head(todo[t]).call = "pop"
        BY <2>1, <3>2 DEF Starved, PoolInv, About
      <4>2. held[t] <= 1
        BY <3>1, <4>1, AfterCall
      <4> QED
        BY <3>1, <4>2
    <3> QED
      BY <3>1, <3>2
  <2>3. held \in [Thread -> Nat]
    BY <2>1 DEF PoolInv
  <2>4. Out = PoolSize
    BY DEF Starved
  <2> QED
    BY <2>2, <2>3, <2>4, HeldTogether
<1> QED
  BY <1>1, NodeInvariant, PTL

=============================================================================
