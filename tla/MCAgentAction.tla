--------------------------- MODULE MCAgentAction ---------------------------
(* Small instances of AgentAction for TLC.                                 *)
EXTENDS AgentAction, TLC

CONSTANTS alice, bob

\* alice asks the agent for changes; bob reviews.
MCUser == {alice, bob}
MCReviewer == {bob}
MCConvOwner == [c \in Conv |-> alice]

\* Requests, turns, rows and the parameters of one kind are interchangeable.
MCSymmetry == Permutations(Request) \cup Permutations(Turn) \cup Permutations(Action)
              \cup Permutations(CreateParams)
=============================================================================
