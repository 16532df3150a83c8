--------------------------- MODULE RoundLiveness ---------------------------
(***************************************************************************)
(* The rounds of DpopsRound when nothing fails: what is sent before a sync *)
(* point is delivered and handled before it, no call fails and no delegate *)
(* restarts.  Every round must then end with a block on every chain.       *)
(***************************************************************************)
EXTENDS DpopsRound

\* The vote messages addressed to n are recorded and added up.
VotesHandled(n) ==
    /\ pending[n] = {}
    /\ \A m \in votes : n \in m.to /\ m.round = round => selected[n][m.from] # None

BlocksDelivered(n) == \A b \in blocks : b.parent # tip[n]

PromptTick == Tick /\ \A n \in Node : VotesHandled(n)

PromptNextRound == NextRound /\ \A n \in Node : BlocksDelivered(n)

PromptStep(n) ==
    \/ BeginRound(n)
    \/ SendVrf(n)
    \/ Vote(n)
    \/ FollowCandidate(n)
    \/ FindWinner(n)
    \/ Elect(n)
    \/ ConfirmHeight(n)
    \/ MakeTemplate(n)
    \/ SubmitBlock(n)

PromptNext ==
    \/ PromptTick
    \/ PromptNextRound
    \/ \E n \in Node : PromptStep(n) \/ Receive(n)

\* The round threads, the handler threads and the clock keep going.
PromptFairness ==
    /\ WF_vars(PromptTick)
    /\ WF_vars(PromptNextRound)
    /\ \A n \in Node : WF_vars(PromptStep(n)) /\ WF_vars(Receive(n))

PromptSpec == Init /\ [][PromptNext]_vars /\ PromptFairness

\* Every round ends with a block of that round on the chain of every delegate,
\* the first round through the seed that starts the chain: waiting for votes,
\* counting them twice over and refusing early blocks never stops a round by
\* itself.
EveryRoundMakesABlock ==
    \A r \in 1..MaxRound :
        (round = r) ~> (round = r /\ \A n \in Node : Len(tip[n]) = Len(Genesis) + r)
=============================================================================
