------------------------------- MODULE MCTurn -------------------------------
(***************************************************************************)
(* What a turn of the assistant consists of on the server: a completion,   *)
(* or the OAuth token it is given.                                         *)
(***************************************************************************)
EXTENDS MCCompletion, MCOAuthSessions

VARIABLE part

\* The part that is not in use has one initial state.  To keep the run
\* small, no continued message is saved in real time.
TurnInit ==
    /\ part \in {"completion", "token"} /\ Init /\ OAuthInit
    /\ mode.realtime => mode.left = <<>>
    /\ part = "token" => mode = [api |-> "chat", detect |-> FALSE, realtime |-> FALSE, left |-> <<>>]
    /\ part = "completion" => grant = "lasting" /\ budget = B(4, 0, 0, 0, 0)

\* Bounds of the instance: a continuation delivers one item, and only a new
\* message that is saved at its end sees two stops and a failure.
Bounds ==
    /\ loop' # "first" => Len(sent') <= 1
    /\ mode.left # <<>> \/ mode.realtime => stops' + failures' <= 1

TurnNext ==
    /\ UNCHANGED part
    /\ \/ part = "completion" /\ Next /\ Bounds /\ UNCHANGED oauthVars
       \/ part = "token" /\ OAuthNext /\ UNCHANGED vars

TurnSpec == TurnInit /\ [][TurnNext]_<<part, vars, oauthVars>>
=============================================================================
