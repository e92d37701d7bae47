-------------------------- MODULE MCOAuthSessions --------------------------
(* A finite instance of OAuthSessions.                                       *)
EXTENDS OAuthSessions, TLC

CONSTANTS d1, d2, c1, c2

B(callbacks, asks, ends, expiries, breaks) ==
    "callbacks" :> callbacks @@ "asks" :> asks @@ "ends" :> ends
        @@ "expiries" :> expiries @@ "breaks" :> breaks

\* Two requests about one session that may end, with a call that fails; one
\* with two sessions, of which one may end, or with a call that fails; two
\* with two sessions that expire; a refresh while a third session pushes one
\* out; and sign-ins alone.
MCBudget == {B(1, 2, 1, 1, 1), B(2, 1, 1, 1, 0), B(2, 1, 0, 1, 1),
             B(2, 2, 0, 1, 0), B(3, 1, 0, 1, 0), B(4, 0, 0, 0, 0)}

\* Browsers are interchangeable, and so are requests.
Symmetry == Permutations(Device) \cup Permutations(Caller)
=============================================================================
