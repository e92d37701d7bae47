--------------------------- MODULE MCChatHistory ----------------------------
EXTENDS ChatHistory

CONSTANTS u1, a1, u2, a2, j1, j2
MCFirst == [user |-> u1, answers |-> <<a1>>]
MCTurns == {[user |-> u2, answers |-> <<a2>>]}

\* Two requests overlap in every way; the third comes after them.
MCNext == Next /\ (requests' > 2 /\ requests' # requests => Quiet)
MCSpec == Init /\ [][MCNext]_vars /\ Fairness
=============================================================================
