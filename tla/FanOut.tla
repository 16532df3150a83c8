------------------------------- MODULE FanOut -------------------------------
(***************************************************************************)
(* What sending a message to several hosts promises, whatever the threads, *)
(* the connections and the retries that carry it.  A host is handed the    *)
(* message at most once; it handles it at most once, and only when it was  *)
(* handed; it is answered for once, "ok" exactly when it was handed.  The  *)
(* promise is about handing over: a host answered "ok" may never handle    *)
(* the message.                                                            *)
(***************************************************************************)
EXTENDS Naturals

CONSTANT Host

VARIABLES
    handed,         \* hosts that were handed the whole message
    handled,        \* how many times each has handled it
    answer          \* what the caller is told of each

fanVars == <<handed, handled, answer>>

Init ==
    /\ handed = {}
    /\ handled = [h \in Host |-> 0]
    /\ answer = [h \in Host |-> "none"]

HandOver(h) ==
    /\ h \notin handed
    /\ answer[h] = "none"
    /\ handed' = handed \cup {h}
    /\ UNCHANGED <<handled, answer>>

Handle(h) ==
    /\ h \in handed
    /\ handled[h] = 0
    /\ handled' = [handled EXCEPT ![h] = 1]
    /\ UNCHANGED <<handed, answer>>

Answer(h) ==
    /\ answer[h] = "none"
    /\ answer' = [answer EXCEPT ![h] = IF h \in handed THEN "ok" ELSE "failed"]
    /\ UNCHANGED <<handed, handled>>

Next == \E h \in Host : HandOver(h) \/ Handle(h) \/ Answer(h)

Spec == Init /\ [][Next]_fanVars
=============================================================================
