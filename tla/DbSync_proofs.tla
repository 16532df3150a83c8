---------------------------- MODULE DbSync_proofs ----------------------------
(***************************************************************************)
(* Theorems about DbSync, for any number of delegates, databases, copies,  *)
(* lost messages and broken fills.                                         *)
(***************************************************************************)
EXTENDS DbSync, TLAPS, FiniteSetTheorems

-----------------------------------------------------------------------------
(* Type correctness                                                        *)

\* A delegate sends one hash in a minute, and none before its round begins.
OneHello ==
    /\ \A m1, m2 \in hellos : m1.from = m2.from => m1 = m2
    /\ \A m \in hellos : pc[m.from] # "idle"

\* Nothing is counted before :20.
CountFromZero == \A n \in Node : pc[n] = "sent" => mismatch[n] = 0

TypeInv == TypeOK /\ OneHello /\ CountFromZero

\* Messages of different senders are no more than the senders.
LEMMA Senders ==
    ASSUME NEW M, NEW T, IsFiniteSet(T),
           \A m \in M : m.from \in T,
           \A m1, m2 \in M : m1.from = m2.from => m1 = m2
    PROVE  IsFiniteSet(M) /\ Cardinality(M) \in Nat /\ Cardinality(M) <= Cardinality(T)
<1> DEFINE f == [m \in M |-> m.from]
<1>1. f \in Injection(M, T)
  BY DEF Injection, IsInjective
<1>2. IsFiniteSet(M) /\ Cardinality(M) <= Cardinality(T)
  BY <1>1, FS_Injection
<1> QED
  BY <1>2, FS_CardinalityType

LEMMA DelegatesType ==
    ASSUME NEW copy \in Copy PROVE Delegates(copy) \in SUBSET Node
<1>1. \A i \in DOMAIN copy : copy[i] \in Doc
  BY DEF Copy
<1> QED
  BY <1>1 DEF Delegates, Docs, Doc

LEMMA DocsType ==
    ASSUME NEW copy \in Copy PROVE Docs(copy) \in SUBSET Doc
BY DEF Copy, Docs

LEMMA OwnType == ASSUME TypeOK, NEW n \in Node PROVE Own(n) \in Copy
BY SyncAssumption DEF TypeOK, Own

LEMMA TypeInit == Init => TypeInv
<1> SUFFICES ASSUME Init PROVE TypeInv
  OBVIOUS
<1>1. coll \in [Store -> Copy] /\ Start \in [Store -> Copy]
  BY SyncAssumption DEF Init, Copy
<1>2. known \in [Node -> SUBSET Node]
  BY <1>1, SyncAssumption, DelegatesType DEF Init
<1>3. Cardinality(Node) \in Nat
  BY SyncAssumption, FS_CardinalityType
<1>4. filling \in [Node -> Copy]
  BY DEF Init, Copy
<1>5. TypeOK
  BY <1>1, <1>2, <1>3, <1>4, SyncAssumption DEF Init, TypeOK
<1>6. OneHello /\ CountFromZero
  BY DEF Init, OneHello, CountFromZero
<1> QED
  BY <1>5, <1>6 DEF TypeInv

LEMMA TickTyped == TypeInv /\ Tick => TypeInv'
BY DEF Tick, TypeInv, TypeOK, OneHello, CountFromZero, roundVars, syncVars

LEMMA NextMinuteTyped == TypeInv /\ NextMinute => TypeInv'
<1> SUFFICES ASSUME TypeInv, NextMinute PROVE TypeInv'
  OBVIOUS
<1>1. TypeOK'
  <2>1. minute' \in 1..MaxMinute /\ window' \in 0..3 /\ chain' \in Nat \ {0}
    BY SyncAssumption DEF NextMinute, TypeInv, TypeOK
  <2>2. pc' \in [Node -> {"idle", "sent", "failed", "succeeded", "done", "loaded"}]
    BY DEF NextMinute
  <2> QED
    BY <2>1, <2>2 DEF NextMinute, TypeInv, TypeOK, syncVars
<1>2. OneHello' /\ CountFromZero'
  BY DEF NextMinute, OneHello, CountFromZero
<1> QED
  BY <1>1, <1>2 DEF TypeInv

LEMMA BeginRoundTyped ==
    ASSUME TypeInv, NEW n \in Node, BeginRound(n) PROVE TypeInv'
<1> USE DEF TypeInv
<1>1. Docs(Own(n)) \in SUBSET Doc
  BY OwnType, DocsType
<1>2. Cardinality(Node) \in Nat
  BY SyncAssumption, FS_CardinalityType
<1>3. TypeOK'
  <2>1. CASE n \in known[n]
    <3>1. Hello(n) \in [from : Node, to : SUBSET Node, hash : SUBSET Doc]
      BY <1>1 DEF Hello, Recipients, TypeOK
    <3> QED
      BY <1>1, <1>2, <2>1, <3>1 DEF BeginRound, NoMismatch, TypeOK, syncVars
  <2>2. CASE n \notin known[n]
    BY <1>1, <1>2, <2>2 DEF BeginRound, NoMismatch, TypeOK, syncVars
  <2> QED
    BY <2>1, <2>2
<1>4. \A m \in hellos : m.from # n /\ m.from \in Node
  BY DEF BeginRound, OneHello, TypeOK
<1>5. OneHello'
  <2>1. pc'[n] # "idle" /\ \A k \in Node : k # n => pc'[k] = pc[k]
    BY DEF BeginRound, TypeOK
  <2>2. CASE n \in known[n]
    <3>1. hellos' = hellos \cup {Hello(n)} /\ Hello(n).from = n
      BY <2>2 DEF BeginRound, Hello
    <3> QED
      BY <2>1, <3>1, <1>4 DEF OneHello
  <2>3. CASE n \notin known[n]
    BY <2>1, <2>3, <1>4 DEF BeginRound, OneHello
  <2> QED
    BY <2>2, <2>3
<1>6. CountFromZero'
  BY DEF BeginRound, CountFromZero, NoMismatch, TypeOK
<1> QED
  BY <1>3, <1>5, <1>6

\* What was heard is sent by different delegates, among them those it differs
\* from.
LEMMA HeardBound ==
    ASSUME TypeInv, NEW n \in Node, NEW heard \in SUBSET Incoming(n)
    PROVE  LET differing == {m \in heard : m.hash # hash[n]}
           IN  /\ IsFiniteSet(differing)
               /\ Cardinality(differing) \in 0..Cardinality(Node)
<1> DEFINE differing == {m \in heard : m.hash # hash[n]}
<1>1. differing \in SUBSET hellos
  BY DEF Incoming
<1>2. /\ \A m \in differing : m.from \in Node
      /\ \A m1, m2 \in differing : m1.from = m2.from => m1 = m2
  BY <1>1 DEF TypeInv, TypeOK, OneHello
<1>3. /\ IsFiniteSet(differing) /\ Cardinality(differing) \in Nat
      /\ Cardinality(differing) <= Cardinality(Node)
  BY <1>2, SyncAssumption, Senders
<1>4. Cardinality(Node) \in Nat
  BY SyncAssumption, FS_CardinalityType
<1> QED
  BY <1>3, <1>4

LEMMA CheckOnlineTyped ==
    ASSUME TypeInv, NEW n \in Node, CheckOnline(n) PROVE TypeInv'
<1> USE DEF TypeInv
<1>1. PICK heard \in SUBSET Incoming(n) :
        LET differing == {m \in heard : m.hash # hash[n]}
        IN  /\ partial' = [partial EXCEPT ![n] = {m.from : m \in differing}]
            /\ mismatch' = [mismatch EXCEPT ![n] = @ + Cardinality(differing)]
            /\ \/ pc' = [pc EXCEPT ![n] = "succeeded"]
               \/ pc' = [pc EXCEPT ![n] = "failed"]
  BY DEF CheckOnline
<1> DEFINE differing == {m \in heard : m.hash # hash[n]}
<1>2. Cardinality(differing) \in 0..Cardinality(Node)
  BY HeardBound
<1>3. Cardinality(Node) \in Nat
  BY SyncAssumption, FS_CardinalityType
<1>4. {m.from : m \in differing} \in SUBSET Node
  BY DEF Incoming, TypeOK
<1>5. mismatch[n] = 0
  BY DEF CheckOnline, CountFromZero
<1> HIDE DEF differing
<1>6. mismatch' \in [Node -> 0..Cardinality(Node)]
  BY <1>1, <1>2, <1>3, <1>5 DEF TypeOK, differing
<1>7. partial' \in [Node -> SUBSET Node]
  BY <1>1, <1>4 DEF TypeOK, differing
<1>8. TypeOK'
  BY <1>1, <1>6, <1>7 DEF CheckOnline, TypeOK, syncVars
<1>9. OneHello' /\ CountFromZero'
  BY <1>1 DEF CheckOnline, OneHello, CountFromZero, TypeOK
<1> QED
  BY <1>8, <1>9

LEMMA ResyncTyped ==
    ASSUME TypeInv, NEW n \in Node, Resync(n) PROVE TypeInv'
<1> USE DEF TypeInv
<1>1. token' \in [Node -> Nat]
  BY DEF Resync, NewToken, TypeOK
<1>2. requests' \subseteq [from : Node, to : Node, token : Nat]
  <2>1. Sources(n) \in SUBSET Node
    BY DEF Sources, TypeOK
  <2>2. requests' = requests
        \/ \E m \in Sources(n) :
              requests' = requests \cup {Request(n, m)}
    BY DEF Resync
  <2> QED
    BY <2>1, <2>2 DEF TypeOK, Request, NewToken
<1>3. TypeOK'
  BY <1>1, <1>2 DEF Resync, TypeOK
<1>4. OneHello' /\ CountFromZero'
  BY DEF Resync, OneHello, CountFromZero, TypeOK
<1> QED
  BY <1>3, <1>4

LEMMA RecordTyped ==
    ASSUME TypeInv, NEW n \in Node, Record(n) PROVE TypeInv'
<1>1. TypeOK'
  BY DEF Record, TypeInv, TypeOK, syncVars
<1>2. OneHello' /\ CountFromZero'
  BY DEF Record, TypeInv, OneHello, CountFromZero, TypeOK
<1> QED
  BY <1>1, <1>2 DEF TypeInv

LEMMA LoadTyped ==
    ASSUME TypeInv, NEW n \in Node, Load(n) PROVE TypeInv'
<1> USE DEF TypeInv
<1>1. Delegates(Own(n)) \in SUBSET Node
  BY OwnType, DelegatesType
<1>2. TypeOK'
  BY <1>1 DEF Load, TypeOK, syncVars
<1>3. OneHello' /\ CountFromZero'
  BY DEF Load, OneHello, CountFromZero, TypeOK
<1> QED
  BY <1>2, <1>3

LEMMA AnswerTyped ==
    ASSUME TypeInv, NEW n \in Node, NEW r \in requests, Answer(n, r) PROVE TypeInv'
<1> USE DEF TypeInv
<1>1. Export(n) \in Copy
  BY OwnType DEF Export
<1>2. r.from \in Node /\ r.token \in Nat
  BY DEF TypeOK
<1> DEFINE a == [from |-> n, to |-> r.from, token |-> r.token, height |-> height[n],
                 copy |-> Export(n)]
<1>3. a \in [from : Node, to : Node, token : Nat, height : Nat, copy : Copy]
  BY <1>1, <1>2 DEF TypeOK
<1>4. answers' = answers \/ answers' = answers \cup {a}
  BY DEF Answer
<1> HIDE DEF a
<1>5. TypeOK'
  BY <1>3, <1>4 DEF Answer, TypeOK, roundVars
<1>6. OneHello' /\ CountFromZero'
  BY DEF Answer, OneHello, CountFromZero, roundVars
<1> QED
  BY <1>5, <1>6

LEMMA DropTyped ==
    ASSUME TypeInv, NEW n \in Node, NEW a \in answers, Drop(n, a) PROVE TypeInv'
<1> USE DEF TypeInv
<1>1. a.copy \in Copy /\ <<>> \in Copy
  BY DEF TypeOK, Copy
<1>2. StoreOf[n] \in Store
  BY SyncAssumption
<1>3. coll' \in [Store -> Copy] /\ filling' \in [Node -> Copy]
  <2>1. coll \in [Store -> Copy] /\ filling \in [Node -> Copy]
    BY DEF TypeOK
  <2>2. \/ /\ coll' = [coll EXCEPT ![StoreOf[n]] = <<>>]
           /\ filling' = [filling EXCEPT ![n] = a.copy]
        \/ coll' = coll /\ filling' = filling
    BY DEF Drop
  <2> QED
    BY <1>1, <1>2, <2>1, <2>2
<1>4. TypeOK'
  BY <1>3 DEF Drop, TypeOK, roundVars
<1>5. OneHello' /\ CountFromZero'
  BY DEF Drop, OneHello, CountFromZero, roundVars
<1> QED
  BY <1>4, <1>5

LEMMA WriteDocumentTyped ==
    ASSUME TypeInv, NEW n \in Node, WriteDocument(n) PROVE TypeInv'
<1> USE DEF TypeInv
<1>1. filling[n] \in Seq(Doc) /\ filling[n] # <<>>
  BY DEF WriteDocument, Locked, TypeOK, Copy
<1>2. Head(filling[n]) \in Doc /\ Tail(filling[n]) \in Copy
  BY <1>1 DEF Copy
<1>3. StoreOf[n] \in Store
  BY SyncAssumption
<1>4. coll[StoreOf[n]] \in Seq(Doc)
  BY <1>3 DEF TypeOK, Copy
<1>5. Append(coll[StoreOf[n]], Head(filling[n])) \in Copy
  BY <1>2, <1>4 DEF Copy
<1>6. coll' \in [Store -> Copy] /\ filling' \in [Node -> Copy]
  BY <1>2, <1>3, <1>5 DEF WriteDocument, TypeOK
<1>7. token' \in [Node -> Nat]
  BY DEF WriteDocument, NewToken, TypeOK
<1>8. TypeOK'
  BY <1>6, <1>7 DEF WriteDocument, TypeOK, roundVars
<1>9. OneHello' /\ CountFromZero'
  BY DEF WriteDocument, OneHello, CountFromZero, roundVars
<1> QED
  BY <1>8, <1>9

LEMMA FillFailsTyped ==
    ASSUME TypeInv, NEW n \in Node, FillFails(n) PROVE TypeInv'
<1> USE DEF TypeInv
<1>1. filling' \in [Node -> Copy]
  BY DEF FillFails, TypeOK, Copy
<1>2. fails' \in Nat
  BY DEF FillFails, TypeOK
<1>3. TypeOK'
  BY <1>1, <1>2 DEF FillFails, TypeOK, roundVars
<1>4. OneHello' /\ CountFromZero'
  BY DEF FillFails, OneHello, CountFromZero, roundVars
<1> QED
  BY <1>3, <1>4

LEMMA TypeStep == TypeInv /\ [Next]_vars => TypeInv'
<1> SUFFICES ASSUME TypeInv, [Next]_vars PROVE TypeInv'
  OBVIOUS
<1>1. CASE Tick
  BY <1>1, TickTyped
<1>2. CASE NextMinute
  BY <1>2, NextMinuteTyped
<1>3. ASSUME NEW n \in Node, RoundStep(n) PROVE TypeInv'
  BY <1>3, BeginRoundTyped, CheckOnlineTyped, ResyncTyped, RecordTyped, LoadTyped
  DEF RoundStep
<1>4. ASSUME NEW n \in Node, Handle(n) PROVE TypeInv'
  BY <1>4, AnswerTyped, DropTyped, WriteDocumentTyped DEF Handle
<1>5. ASSUME NEW n \in Node, FillFails(n) PROVE TypeInv'
  BY <1>5, FillFailsTyped
<1>6. CASE UNCHANGED vars
  BY <1>6 DEF vars, roundVars, syncVars, TypeInv, TypeOK, OneHello, CountFromZero
<1> QED
  BY <1>1, <1>2, <1>3, <1>4, <1>5, <1>6 DEF Next

\* The variables of the synchronization keep their types; in particular no
\* delegate counts more mismatches than there are delegates.
THEOREM SyncTypeCorrect == Spec => []TypeOK
<1>1. TypeInv => TypeOK
  BY DEF TypeInv
<1> QED
  BY <1>1, TypeInit, TypeStep, PTL DEF Spec

-----------------------------------------------------------------------------
(* A minority does not spread its copies                                   *)

Deviants(c) == {n \in Node : Start[StoreOf[n]] # c}
Sharers(c) == Node \ Deviants(c)

\* The copy c stays where it was and nothing is on its way to change it.
Kept(c) ==
    /\ \A s \in Store : Start[s] = c => coll[s] = c
    /\ \A n \in Sharers(c) : known[n] = Node /\ filling[n] = <<>>
    /\ \A r \in requests : r.from \in Deviants(c)
    /\ \A a \in answers : a.to \in Deviants(c)

\* Delegates that hold c send its hash, and hear others from deviants only.
Heard(c) ==
    /\ \A n \in Sharers(c) : pc[n] = "sent" => hash[n] = Docs(c)
    /\ \A m \in hellos : m.from \in Sharers(c) => m.hash = Docs(c)
    /\ \A n \in Sharers(c) : 5 * mismatch[n] <= Cardinality(Node)

SharedInv(c) == TypeInv /\ Kept(c) /\ Heard(c)

LEMMA SharersOwn ==
    ASSUME NEW c, Kept(c), NEW n \in Sharers(c)
    PROVE  n \in Node /\ StoreOf[n] \in Store /\ Start[StoreOf[n]] = c /\ Own(n) = c
BY SyncAssumption DEF Kept, Sharers, Deviants, Own

LEMMA FewDeviants ==
    ASSUME NEW c, Shared(c)
    PROVE  /\ IsFiniteSet(Deviants(c))
           /\ Cardinality(Deviants(c)) \in Nat
           /\ Cardinality(Node) \in Nat
           /\ 5 * Cardinality(Deviants(c)) <= Cardinality(Node)
<1>1. Deviants(c) \in SUBSET Node
  BY DEF Deviants
<1>2. IsFiniteSet(Deviants(c))
  BY <1>1, SyncAssumption, FS_Subset
<1> QED
  BY <1>2, SyncAssumption, FS_CardinalityType DEF Shared, Deviants

LEMMA KeptInit ==
    ASSUME NEW c, Delegates(c) = Node, Init PROVE Kept(c) /\ Heard(c)
<1>1. \A n \in Sharers(c) : n \in Node /\ StoreOf[n] \in Store /\ Start[StoreOf[n]] = c
  BY SyncAssumption DEF Sharers, Deviants
<1>2. Kept(c)
  BY <1>1 DEF Init, Kept
<1>3. Cardinality(Node) \in Nat
  BY SyncAssumption, FS_CardinalityType
<1>4. Heard(c)
  BY <1>1, <1>3 DEF Init, Heard
<1> QED
  BY <1>2, <1>4

LEMMA TickKeeps ==
    ASSUME NEW c, SharedInv(c), Tick PROVE Kept(c)' /\ Heard(c)'
BY DEF Tick, SharedInv, Kept, Heard, Sharers, Deviants, roundVars, syncVars

LEMMA NextMinuteKeeps ==
    ASSUME NEW c, SharedInv(c), NextMinute PROVE Kept(c)' /\ Heard(c)'
<1>1. Kept(c)'
  BY DEF NextMinute, SharedInv, Kept, Sharers, Deviants, syncVars
<1>2. Heard(c)'
  BY DEF NextMinute, SharedInv, Heard, Sharers, Deviants
<1> QED
  BY <1>1, <1>2

LEMMA BeginRoundKeeps ==
    ASSUME NEW c, SharedInv(c), NEW n \in Node, BeginRound(n)
    PROVE  Kept(c)' /\ Heard(c)'
<1> USE DEF SharedInv
<1>1. Kept(c)'
  BY DEF BeginRound, Kept, Sharers, Deviants, syncVars
<1>2. n \in Sharers(c) => Docs(Own(n)) = Docs(c)
  BY SharersOwn
<1>3. Cardinality(Node) \in Nat
  BY SyncAssumption, FS_CardinalityType
<1>4. \A k \in Sharers(c) : 5 * mismatch'[k] <= Cardinality(Node)
  BY <1>3 DEF BeginRound, NoMismatch, Heard, Sharers, TypeInv, TypeOK
<1>5. CASE n \in known[n]
  <2>1. hash'[n] = Docs(Own(n)) /\ \A k \in Node \ {n} : hash'[k] = hash[k]
    BY <1>5 DEF BeginRound, TypeInv, TypeOK
  <2>2. \A k \in Node \ {n} : pc'[k] = pc[k]
    BY <1>5 DEF BeginRound, TypeInv, TypeOK
  <2>3. \A k \in Sharers(c) : pc'[k] = "sent" => hash'[k] = Docs(c)
    BY <1>2, <2>1, <2>2 DEF Heard, Sharers
  <2>4. hellos' = hellos \cup {Hello(n)}
    BY <1>5 DEF BeginRound
  <2>5. Hello(n).from \in Sharers(c) => Hello(n).hash = Docs(c)
    BY <1>2 DEF Hello
  <2>6. \A m \in hellos' : m.from \in Sharers(c) => m.hash = Docs(c)
    BY <2>4, <2>5 DEF Heard
  <2> QED
    BY <1>1, <1>4, <2>3, <2>6 DEF Heard, Sharers, Deviants
<1>6. CASE n \notin known[n]
  <2>1. \A k \in Sharers(c) : pc'[k] = "sent" => hash'[k] = Docs(c)
    BY <1>6 DEF BeginRound, Heard, Sharers, TypeInv, TypeOK
  <2>2. hellos' = hellos
    BY <1>6 DEF BeginRound
  <2> QED
    BY <1>1, <1>4, <2>1, <2>2 DEF Heard, Sharers, Deviants
<1> QED
  BY <1>5, <1>6

\* Other hashes are the deviants', and those are at most a fifth.
LEMMA CheckOnlineKeeps ==
    ASSUME NEW c, Shared(c), SharedInv(c), NEW n \in Node, CheckOnline(n)
    PROVE  Kept(c)' /\ Heard(c)'
<1> USE DEF SharedInv
<1>1. Kept(c)'
  BY DEF CheckOnline, Kept, Sharers, Deviants, syncVars
<1>2. PICK heard \in SUBSET Incoming(n) :
        /\ mismatch' = [mismatch EXCEPT ![n] =
                           @ + Cardinality({m \in heard : m.hash # hash[n]})]
        /\ \/ pc' = [pc EXCEPT ![n] = "succeeded"]
           \/ pc' = [pc EXCEPT ![n] = "failed"]
  BY DEF CheckOnline
<1> DEFINE differing == {m \in heard : m.hash # hash[n]}
<1>3. ASSUME n \in Sharers(c)
      PROVE  5 * mismatch'[n] <= Cardinality(Node)
  <2>1. hash[n] = Docs(c) /\ mismatch[n] = 0
    BY <1>3 DEF CheckOnline, Heard, TypeInv, CountFromZero
  <2>2. differing \in SUBSET hellos
    BY DEF Incoming
  <2>3. \A m \in differing : m.from \in Deviants(c)
    BY <2>1, <2>2 DEF Heard, Sharers, TypeInv, TypeOK
  <2>4. \A m1, m2 \in differing : m1.from = m2.from => m1 = m2
    BY <2>2 DEF TypeInv, OneHello
  <2>5. /\ Cardinality(differing) \in Nat
        /\ Cardinality(differing) <= Cardinality(Deviants(c))
    BY <2>3, <2>4, FewDeviants, Senders
  <2> HIDE DEF differing
  <2>6. mismatch'[n] = Cardinality(differing)
    BY <1>2, <2>1, <2>5 DEF TypeInv, TypeOK, differing
  <2> QED
    BY <2>5, <2>6, FewDeviants
<1>4. \A k \in Node \ {n} : mismatch'[k] = mismatch[k]
  BY <1>2 DEF TypeInv, TypeOK
<1>5. \A k \in Sharers(c) : 5 * mismatch'[k] <= Cardinality(Node)
  BY <1>3, <1>4 DEF Heard, Sharers
<1>6. \A k \in Sharers(c) : pc'[k] = "sent" => hash'[k] = Docs(c)
  BY <1>2 DEF CheckOnline, Heard, Sharers, TypeInv, TypeOK
<1>7. hellos' = hellos
  BY DEF CheckOnline
<1> QED
  BY <1>1, <1>5, <1>6, <1>7 DEF Heard, Sharers, Deviants

\* A delegate that holds c does not ask for another copy.
LEMMA ResyncKeeps ==
    ASSUME NEW c, SharedInv(c), NEW n \in Node, Resync(n)
    PROVE  Kept(c)' /\ Heard(c)'
<1> USE DEF SharedInv
<1>1. ASSUME n \in Sharers(c) PROVE ~TooManyDiffer(n)
  <2>1. known[n] = Node /\ 5 * mismatch[n] <= Cardinality(Node)
    BY <1>1 DEF Kept, Heard
  <2>2. mismatch[n] \in Nat /\ Cardinality(Node) \in Nat
    BY SyncAssumption, FS_CardinalityType DEF TypeInv, TypeOK
  <2> QED
    BY <2>1, <2>2 DEF TooManyDiffer
<1>2. \A r \in requests' : r.from \in Deviants(c)
  <2>1. requests' = requests
        \/ /\ TooManyDiffer(n)
           /\ \E m \in Sources(n) :
                requests' = requests \cup {Request(n, m)}
    BY DEF Resync
  <2> QED
    BY <1>1, <2>1 DEF Kept, Sharers, Request
<1>3. Kept(c)'
  BY <1>2 DEF Resync, Kept, Sharers, Deviants
<1>4. Heard(c)'
  BY DEF Resync, Heard, Sharers, Deviants, TypeInv, TypeOK
<1> QED
  BY <1>3, <1>4

LEMMA RecordKeeps ==
    ASSUME NEW c, SharedInv(c), NEW n \in Node, Record(n)
    PROVE  Kept(c)' /\ Heard(c)'
BY DEF SharedInv, Record, Kept, Heard, Sharers, Deviants, TypeInv, TypeOK, syncVars

LEMMA LoadKeeps ==
    ASSUME NEW c, Delegates(c) = Node, SharedInv(c), NEW n \in Node, Load(n)
    PROVE  Kept(c)' /\ Heard(c)'
<1> USE DEF SharedInv
<1>1. n \in Sharers(c) => Delegates(Own(n)) = Node
  BY SharersOwn
<1>2. \A k \in Sharers(c) : known'[k] = Node
  BY <1>1 DEF Load, Kept, Sharers, TypeInv, TypeOK
<1>3. Kept(c)'
  BY <1>2 DEF Load, Kept, Sharers, Deviants, syncVars
<1>4. Heard(c)'
  BY DEF Load, Heard, Sharers, Deviants, TypeInv, TypeOK
<1> QED
  BY <1>3, <1>4

LEMMA AnswerKeeps ==
    ASSUME NEW c, SharedInv(c), NEW n \in Node, NEW r \in requests, Answer(n, r)
    PROVE  Kept(c)' /\ Heard(c)'
<1> USE DEF SharedInv
<1>1. r.from \in Deviants(c) /\ requests' \in SUBSET requests
  BY DEF Answer, Kept
<1> DEFINE a == [from |-> n, to |-> r.from, token |-> r.token, height |-> height[n],
                 copy |-> Export(n)]
<1>2. answers' = answers \/ answers' = answers \cup {a}
  BY DEF Answer
<1>3. a.to \in Deviants(c)
  BY <1>1
<1> HIDE DEF a
<1>4. \A b \in answers' : b.to \in Deviants(c)
  BY <1>2, <1>3 DEF Kept
<1>5. Kept(c)'
  BY <1>1, <1>4 DEF Answer, Kept, Sharers, Deviants
<1>6. Heard(c)'
  BY DEF Answer, Heard, Sharers, Deviants, roundVars
<1> QED
  BY <1>5, <1>6

\* A deviant's database is not one that started with c.
LEMMA DropKeeps ==
    ASSUME NEW c, SharedInv(c), NEW n \in Node, NEW a \in answers, Drop(n, a)
    PROVE  Kept(c)' /\ Heard(c)'
<1> USE DEF SharedInv
<1>1. n \in Deviants(c) /\ Start[StoreOf[n]] # c
  BY DEF Drop, Kept, Deviants
<1>2. \A s \in Store : Start[s] = c => coll'[s] = c
  BY <1>1 DEF Drop, Kept, TypeInv, TypeOK
<1>3. \A k \in Sharers(c) : filling'[k] = <<>>
  BY <1>1 DEF Drop, Kept, Sharers, TypeInv, TypeOK
<1>4. Kept(c)'
  BY <1>2, <1>3 DEF Drop, Kept, Sharers, Deviants
<1>5. Heard(c)'
  BY DEF Drop, Heard, Sharers, Deviants, roundVars
<1> QED
  BY <1>4, <1>5

LEMMA WriteDocumentKeeps ==
    ASSUME NEW c, SharedInv(c), NEW n \in Node, WriteDocument(n)
    PROVE  Kept(c)' /\ Heard(c)'
<1> USE DEF SharedInv
<1>1. n \in Deviants(c) /\ Start[StoreOf[n]] # c
  BY DEF WriteDocument, Locked, Kept, Sharers, Deviants
<1>2. \A s \in Store : Start[s] = c => coll'[s] = c
  BY <1>1 DEF WriteDocument, Kept, TypeInv, TypeOK
<1>3. \A k \in Sharers(c) : filling'[k] = <<>>
  BY <1>1 DEF WriteDocument, Kept, Sharers, TypeInv, TypeOK
<1>4. Kept(c)'
  BY <1>2, <1>3 DEF WriteDocument, Kept, Sharers, Deviants
<1>5. Heard(c)'
  BY DEF WriteDocument, Heard, Sharers, Deviants, roundVars
<1> QED
  BY <1>4, <1>5

LEMMA FillFailsKeeps ==
    ASSUME NEW c, SharedInv(c), NEW n \in Node, FillFails(n)
    PROVE  Kept(c)' /\ Heard(c)'
<1> USE DEF SharedInv
<1>1. \A k \in Sharers(c) : filling'[k] = <<>>
  BY DEF FillFails, Kept, Sharers, TypeInv, TypeOK
<1>2. Kept(c)'
  BY <1>1 DEF FillFails, Kept, Sharers, Deviants
<1>3. Heard(c)'
  BY DEF FillFails, Heard, Sharers, Deviants, roundVars
<1> QED
  BY <1>2, <1>3

LEMMA SharedStep ==
    ASSUME NEW c, Shared(c), Delegates(c) = Node, SharedInv(c), [Next]_vars
    PROVE  SharedInv(c)'
<1>1. TypeInv'
  BY TypeStep DEF SharedInv
<1>2. CASE Tick
  BY <1>1, <1>2, TickKeeps DEF SharedInv
<1>3. CASE NextMinute
  BY <1>1, <1>3, NextMinuteKeeps DEF SharedInv
<1>4. ASSUME NEW n \in Node, RoundStep(n) PROVE Kept(c)' /\ Heard(c)'
  BY <1>4, BeginRoundKeeps, CheckOnlineKeeps, ResyncKeeps, RecordKeeps, LoadKeeps
  DEF RoundStep
<1>5. ASSUME NEW n \in Node, Handle(n) PROVE Kept(c)' /\ Heard(c)'
  BY <1>5, AnswerKeeps, DropKeeps, WriteDocumentKeeps DEF Handle
<1>6. ASSUME NEW n \in Node, FillFails(n) PROVE Kept(c)' /\ Heard(c)'
  BY <1>6, FillFailsKeeps
<1>7. CASE UNCHANGED vars
  BY <1>1, <1>7 DEF vars, roundVars, syncVars, SharedInv, Kept, Heard, Sharers, Deviants
<1> QED
  BY <1>1, <1>2, <1>3, <1>4, <1>5, <1>6, <1>7 DEF Next, SharedInv

\* A copy of all delegates that all but a fifth hold is kept where it is, for
\* any number of delegates, any other copies, lost messages and broken fills.
THEOREM MinorityDoesNotSpread == Spec => []SharedCopyKept
<1> DEFINE Wanted(c) == Shared(c) /\ Delegates(c) = Node
           AllInv == TypeInv /\ \A s \in Store : Wanted(Start[s]) => SharedInv(Start[s])
<1>1. Init => AllInv
  BY TypeInit, KeptInit DEF SharedInv
<1>2. AllInv /\ [Next]_vars => AllInv'
  <2> SUFFICES ASSUME AllInv, [Next]_vars PROVE AllInv'
    OBVIOUS
  <2>1. TypeInv'
    BY TypeStep
  <2>2. \A s \in Store : Wanted(Start[s]) => SharedInv(Start[s])'
    BY SharedStep
  <2> QED
    BY <2>1, <2>2 DEF Shared, Delegates, Docs
<1>3. AllInv => SharedCopyKept
  BY DEF SharedCopyKept, SharedInv, Kept
<1> QED
  BY <1>1, <1>2, <1>3, PTL DEF Spec
=============================================================================
