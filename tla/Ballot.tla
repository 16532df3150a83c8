------------------------------- MODULE Ballot -------------------------------
(***************************************************************************)
(* What the rounds promise, whatever the messages, the clocks and the      *)
(* handlers that carry them.  In a round a delegate casts at most one      *)
(* vote, for a producer and a set of keys; a delegate elects a producer    *)
(* only with two thirds of such a set, all of them voters for that         *)
(* producer and that very set; and a producer that holds its own election  *)
(* makes at most one block from it.  Elections do not outlive the round.   *)
(***************************************************************************)
EXTENDS Naturals, FiniteSets

CONSTANTS
    Node,           \* the delegates
    None,           \* "no delegate"
    CommitteeMax    \* the most votes that count of one set of keys

VARIABLES
    minute,         \* the round
    cast,           \* votes of this round
    certificate,    \* the election each delegate holds, with its voters
    made            \* how many blocks each has made in this round

ballotVars == <<minute, cast, certificate, made>>

NoCertificate == [producer |-> None, voters |-> {}]

Counted(keys) ==
    IF Cardinality(keys) < CommitteeMax THEN Cardinality(keys) ELSE CommitteeMax

\* Two thirds of those that count, without the rounding of the code.
Majority(voters, keys) == 3 * Cardinality(voters) >= 2 * Counted(keys)

Init ==
    /\ minute = 1
    /\ cast = {}
    /\ certificate = [n \in Node |-> NoCertificate]
    /\ made = [n \in Node |-> 0]

NextMinute ==
    /\ minute' = minute + 1
    /\ cast' = {}
    /\ certificate' = [n \in Node |-> NoCertificate]
    /\ made' = [n \in Node |-> 0]

CastVote(v) ==
    /\ \A b \in cast : b.voter # v
    /\ \E p \in Node, keys \in SUBSET Node :
          cast' = cast \cup {[voter |-> v, choice |-> p, keys |-> keys]}
    /\ UNCHANGED <<minute, certificate, made>>

Elect(n) ==
    /\ certificate[n] = NoCertificate
    /\ \E p \in Node, keys \in SUBSET Node : \E voters \in (SUBSET keys) \ {{}} :
          /\ Majority(voters, keys)
          /\ \A v \in voters : [voter |-> v, choice |-> p, keys |-> keys] \in cast
          /\ certificate' =
                [certificate EXCEPT ![n] = [producer |-> p, voters |-> voters]]
    /\ UNCHANGED <<minute, cast, made>>

Forget(n) ==
    /\ certificate' = [certificate EXCEPT ![n] = NoCertificate]
    /\ UNCHANGED <<minute, cast, made>>

MakeBlock(n) ==
    /\ certificate[n].producer = n
    /\ made[n] = 0
    /\ made' = [made EXCEPT ![n] = 1]
    /\ UNCHANGED <<minute, cast, certificate>>

Next ==
    \/ NextMinute
    \/ \E n \in Node : CastVote(n) \/ Elect(n) \/ Forget(n) \/ MakeBlock(n)

Spec == Init /\ [][Next]_ballotVars
=============================================================================
