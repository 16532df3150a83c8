----------------------------- MODULE MCSending -----------------------------
(***************************************************************************)
(* A small instance of Sending: a delegate of a committee of four with one *)
(* seed; the host h1 has two addresses, h3 none, and the table of the      *)
(* delegates holds an entry without an address.                            *)
(***************************************************************************)
EXTENDS Sending

Names == {"h0", "h1", "h2", "h3"}

Entry(a, i) == [addr |-> a, ip |-> i]

SeedTable      == <<Entry("S", "h3"), Entry("T", "")>>
DelegateTable  == <<Entry("S", "h3"), Entry("A", "h0"), Entry("B", ""), Entry("C", "h2")>>
TimerTable     == <<Entry("S", "h3"), Entry("B", "h1"), Entry("C", "h2"), Entry("", "")>>
CommitteeTable == <<Entry("S", "h3"), Entry("A", "h0"), Entry("B", "h1"), Entry("", "")>>

AddressCount == [h \in Names |-> CASE h = "h1" -> 2 [] h = "h3" -> 0 [] OTHER -> 1]
=============================================================================
