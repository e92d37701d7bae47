--------------------------- MODULE OAuthSessions ---------------------------
(***************************************************************************)
(* The OAuth sessions of one user (models/oauth_sessions.py): sign-ins and *)
(* connections to MCP servers store them, requests read and refresh them   *)
(* (utils/oauth.py, utils/middleware.py, functions.py), and limits,        *)
(* disconnection and back-channel logout delete them.                      *)
(*                                                                         *)
(* A step runs from one await to the next.  Every session has a grant of   *)
(* its own at the provider; refresh tokens are numbered in the order in    *)
(* which the provider issues them for a grant, 0 being none.               *)
(***************************************************************************)
EXTENDS Naturals, FiniteSets

CONSTANTS
    Device,       \* browsers; each is in at most one OAuth callback at a time
    Caller,       \* requests that need a token
    MaxSessions,  \* OAUTH_MAX_SESSIONS_PER_USER
    MaxCreated,   \* bound: sessions ever created
    Budget        \* bounds, of which a behaviour has one: how many callbacks
                  \* there are, requests, logouts and disconnections, tokens that
                  \* expire, calls to the provider or the database that fail

ASSUME SessionsAssumption == MaxSessions \in Nat \ {0} /\ IsFiniteSet(Device)
ASSUME BudgetAssumption ==
    /\ MaxCreated \in Nat
    /\ Budget \subseteq [{"callbacks", "asks", "ends", "expiries", "breaks"} -> Nat]
    /\ \A b \in Budget : b["callbacks"] <= MaxCreated

VARIABLES
    grant,     \* what the provider issues: see Grant
    table,     \* the rows of oauth_session
    clock,     \* updated_at of the last write
    accepted,  \* accepted[s]: the refresh token the provider accepts for s
    cookie,    \* cookie[d]: oauth_session_id, 0 if there is none
    reader,    \* the requests that get a token
    writer,    \* the callbacks and logouts that create and delete sessions
    created,   \* sessions created so far
    overlapped,\* sessions two requests were refreshing at the same time
    broken,    \* sessions for which a call has failed, 0 standing for any other
    excused,   \* requests during which others deleted sessions
    ended,     \* sessions that a back-channel logout has found
    budget     \* what is left of it

oauthVars == <<grant, table, clock, accepted, cookie, reader, writer, created, overlapped,
               broken, excused, ended, budget>>

\* "rotating" refresh tokens are good for one use, "reused" ones for any
\* number; "bare" tokens expire and cannot be refreshed; "lasting" ones have
\* neither an expiry nor a refresh token.
Grant == {"rotating", "reused", "bare", "lasting"}
Id == 1..MaxCreated

\* get_system_oauth_token, the same for pipe functions, a proxied request
\* that knows only the cookie, and a tool of an MCP server.
Who == {"completion", "pipe", "proxy", "mcp"}

Idle == [at |-> "idle", who |-> "proxy", id |-> 0, refresh |-> 0, retried |-> FALSE, got |-> FALSE]
Resting == [at |-> "idle", what |-> "sso", doomed |-> {}]

OAuthTypeOK ==
    /\ grant \in Grant
    /\ table \subseteq [id: Id, provider: {"sso", "mcp"}, refresh: Nat, fresh: BOOLEAN, updated: Nat]
    /\ clock \in Nat
    /\ accepted \in [Id -> Nat]
    /\ cookie \in [Device -> 0..MaxCreated]
    /\ reader \in [Caller -> [at: {"idle", "find", "refresh", "save", "drop", "list", "done"},
                              who: Who, id: 0..MaxCreated, refresh: Nat,
                              retried: BOOLEAN, got: BOOLEAN]]
    /\ writer \in [Device -> [at: {"idle", "list", "prune", "create"},
                              what: {"sso", "mcp", "logout"}, doomed: SUBSET Id]]
    /\ created \in 0..MaxCreated
    /\ overlapped \subseteq Id /\ broken \subseteq Id \cup {0} /\ ended \subseteq Id
    /\ excused \subseteq Caller
    /\ budget \in [{"callbacks", "asks", "ends", "expiries", "breaks"} -> Nat]

OAuthInit ==
    /\ grant \in Grant
    /\ table = {} /\ clock = 0 /\ accepted = [s \in Id |-> 0]
    /\ cookie = [d \in Device |-> 0]
    /\ reader = [c \in Caller |-> Idle] /\ writer = [d \in Device |-> Resting]
    /\ created = 0
    /\ overlapped = {} /\ broken = {} /\ excused = {} /\ ended = {}
    /\ budget \in Budget

-----------------------------------------------------------------------------
(* The table                                                                 *)

Ids == {r.id : r \in table}
RowOf(s) == CHOOSE r \in table : r.id = s
IdsFor(p) == {r.id : r \in {x \in table : x.provider = p}}

\* delete_session_by_id, for each of S
Delete(S) ==
    /\ table' = {r \in table : r.id \notin S}
    /\ UNCHANGED clock

\* updated_at is in seconds: of two writes in one neither is the later.
Tick == clock' \in {clock, clock + 1}

\* mutant: an update that inserts the row again
Update_Insert(s, token) ==
    /\ Tick
    /\ table' = {r \in table : r.id # s} \cup
          {[id |-> s, provider |-> "sso", refresh |-> token, fresh |-> TRUE, updated |-> clock']}

\* update_session_by_id: nothing if the row is gone.
Update(s, token) ==
    LET Renewed(r) == [r EXCEPT !.refresh = token, !.fresh = TRUE, !.updated = clock']
    IN  /\ Tick
        /\ table' = {IF r.id = s THEN Renewed(r) ELSE r : r \in table}

\* Somebody's sessions disappear while these requests are under way.
Active == {c \in Caller : reader[c].at \notin {"idle", "done"}}

Spend(what) == budget[what] > 0 /\ budget' = [budget EXCEPT ![what] = @ - 1]

Break(s) == Spend("breaks") /\ broken' = broken \cup {s}

Whole == UNCHANGED <<broken, budget>>

-----------------------------------------------------------------------------
(* Requests                                                                  *)

Go(c, r) == reader' = [reader EXCEPT ![c] = r]
Answer(c, got) == Go(c, [Idle EXCEPT !.at = "done", !.who = reader[c].who, !.got = got])

\* The manager returns None: a completion or a pipe looks for another
\* session, once; the others go without a token.
Miss(c) ==
    IF reader[c].who \in {"completion", "pipe"} /\ ~reader[c].retried
    THEN Go(c, [Idle EXCEPT !.at = "list", !.who = reader[c].who, !.retried = TRUE])
    ELSE Answer(c, FALSE)

Seek(c, who, d) ==
    /\ reader[c].at = "idle" /\ Spend("asks")
    /\ LET known == who # "mcp" /\ d # "none" /\ cookie[d] # 0
       IN  /\ who = "mcp" => d = "none"
           /\ who = "proxy" => known
           /\ Go(c, [Idle EXCEPT !.who = who,
                                 !.at = IF who = "mcp" \/ known THEN "find" ELSE "list",
                                 !.id = IF known THEN cookie[d] ELSE 0,
                                 !.retried = who # "mcp" /\ ~known])
    /\ UNCHANGED <<table, clock, accepted, overlapped, excused, broken>>

\* The session of the request: the newest of the MCP server's, else by id.
Wanted(c) ==
    IF reader[c].who = "mcp" THEN {s \in IdsFor("mcp") : \A t \in IdsFor("mcp") : t <= s}
                             ELSE {reader[c].id} \cap Ids

Refused_Never(c, row) == FALSE  \* mutant: no guard against sessions of MCP servers

\* The sign-in's manager leaves sessions of MCP servers alone.
Refused(c, row) == reader[c].who # "mcp" /\ row.provider = "mcp"

\* Sessions that others are refreshing.
Refreshing(c) == {reader[o].id : o \in {x \in Caller \ {c} : reader[x].at \in {"refresh", "save", "drop"}}}

Find(c) ==
    /\ reader[c].at = "find"
    /\ \/ Wanted(c) = {} /\ Miss(c) /\ UNCHANGED overlapped
       \/ \E s \in Wanted(c) : LET row == RowOf(s) IN
             \/ Refused(c, row) /\ Miss(c) /\ UNCHANGED overlapped
             \/ ~Refused(c, row) /\ row.fresh /\ Answer(c, TRUE) /\ UNCHANGED overlapped
             \/ /\ ~Refused(c, row) /\ ~row.fresh
                /\ Go(c, [reader[c] EXCEPT !.at = "refresh", !.id = s, !.refresh = row.refresh])
                /\ overlapped' = overlapped \cup ({s} \cap Refreshing(c))
    /\ Whole /\ UNCHANGED <<table, clock, accepted, excused>>

\* Reading the session raises: the manager finds none.
FindFails(c) ==
    /\ reader[c].at = "find" /\ Miss(c)
    /\ Break(reader[c].id)
    /\ UNCHANGED <<table, clock, accepted, overlapped, excused>>

\* The provider's side of a refresh.
Accepts(s, token) == accepted[s] = token
Issues(s) == IF grant = "rotating" THEN accepted[s] + 1 ELSE 0

\* A response without a refresh token leaves the old one in use.
Merged(old, new) == IF new = 0 THEN old ELSE new

\* _perform_token_refresh: the first manager has no client of an MCP server.
Refresh(c) ==
    LET s == reader[c].id
        token == reader[c].refresh
        fits == reader[c].who = "mcp" \/ s \notin IdsFor("mcp")
    IN  /\ reader[c].at = "refresh"
        /\ IF token # 0 /\ fits /\ Accepts(s, token)
           THEN /\ Go(c, [reader[c] EXCEPT !.at = "save", !.refresh = Merged(token, Issues(s))])
                /\ accepted' = [accepted EXCEPT ![s] = Merged(token, Issues(s))]
           ELSE /\ Go(c, [reader[c] EXCEPT !.at = "drop"])
                /\ UNCHANGED accepted
        /\ Whole /\ UNCHANGED <<table, clock, overlapped, excused>>

\* The request or its answer is lost: the provider may have taken the token.
RefreshFails(c) ==
    LET s == reader[c].id
        token == reader[c].refresh
    IN  /\ reader[c].at = "refresh" /\ token # 0
        /\ Go(c, [reader[c] EXCEPT !.at = "drop"])
        /\ \/ UNCHANGED accepted
           \/ /\ Accepts(s, token)
              /\ accepted' = [accepted EXCEPT ![s] = Merged(token, Issues(s))]
        /\ Break(s)
        /\ UNCHANGED <<table, clock, overlapped, excused>>

\* If the row is gone the update returns None, on which both log calls of
\* _refresh_token raise: None, and nothing is deleted.
SaveToken(c) ==
    /\ reader[c].at = "save"
    /\ Update(reader[c].id, reader[c].refresh)
    /\ IF reader[c].id \in Ids THEN Answer(c, TRUE) ELSE Miss(c)
    /\ Whole /\ UNCHANGED <<accepted, overlapped, excused>>

SaveTokenFails(c) ==
    /\ reader[c].at = "save" /\ Miss(c)
    /\ Break(reader[c].id)
    /\ UNCHANGED <<table, clock, accepted, overlapped, excused>>

Drop(c) ==
    /\ reader[c].at = "drop" /\ Miss(c)
    /\ Delete({reader[c].id})
    /\ excused' = excused \cup (Active \ {c})
    /\ Whole /\ UNCHANGED <<accepted, overlapped>>

DropFails(c) ==
    /\ reader[c].at = "drop" /\ Miss(c)
    /\ Break(reader[c].id)
    /\ UNCHANGED <<table, clock, accepted, overlapped, excused>>

Candidates_All(c) == table  \* mutant: completions choose among all providers' sessions

\* The sessions a request without a usable cookie may fall back on.
Candidates(c) ==
    IF reader[c].who = "completion" THEN {r \in table : r.provider = "sso"} ELSE table

Latest(S) == {r \in S : \A x \in S : x.updated <= r.updated}

\* A pipe whose best session is an MCP server's gets none, and is excused as
\* one that finds no session is.
Fallback(c) ==
    /\ reader[c].at = "list"
    /\ \/ /\ Candidates(c) = {}
          /\ Answer(c, FALSE) /\ excused' = excused \cup {c}
       \/ \E best \in Latest(Candidates(c)) :
             /\ Go(c, [reader[c] EXCEPT !.at = "find", !.id = best.id])
             /\ excused' = IF reader[c].who = "pipe" /\ best.provider = "mcp"
                           THEN excused \cup {c} ELSE excused
    /\ Whole /\ UNCHANGED <<table, clock, accepted, overlapped>>

FallbackFails(c) ==
    /\ reader[c].at = "list" /\ Answer(c, FALSE)
    /\ Break(0) /\ excused' = excused \cup {c}
    /\ UNCHANGED <<table, clock, accepted, overlapped>>

Request(c) ==
    \/ \E who \in Who, d \in Device \cup {"none"} : Seek(c, who, d)
    \/ Find(c) \/ FindFails(c)
    \/ Refresh(c) \/ RefreshFails(c)
    \/ SaveToken(c) \/ SaveTokenFails(c)
    \/ Drop(c) \/ DropFails(c)
    \/ Fallback(c) \/ FallbackFails(c)

-----------------------------------------------------------------------------
(* Callbacks and logout                                                      *)

Move(d, w) == writer' = [writer EXCEPT ![d] = w]

\* A callback whose token the provider has granted, or a logout it asks for.
Begin(d, what) ==
    /\ writer[d].at = "idle"
    /\ Spend(IF what = "logout" THEN "ends" ELSE "callbacks")
    /\ Move(d, [Resting EXCEPT !.at = "list", !.what = what])
    /\ UNCHANGED <<table, clock, accepted, cookie, created, excused, broken, ended>>

\* All but the newest n.
Oldest(S, n) == {s \in S : Cardinality({t \in S : t > s}) >= n}

\* mutant: the limit is kept before the new session is added
Doomed_Late(what) ==
    CASE what = "sso" -> Oldest(IdsFor("sso"), MaxSessions)
      [] what = "mcp" -> IdsFor("mcp")
      [] what = "logout" -> Ids

\* Which of the sessions found are deleted, one after the other.
Doomed(what) ==
    CASE what = "sso" -> IF Cardinality(IdsFor("sso")) >= MaxSessions
                         THEN Oldest(IdsFor("sso"), MaxSessions - 1) ELSE {}
      [] what = "mcp" -> IdsFor("mcp")
      [] what = "logout" -> Ids

List(d) ==
    /\ writer[d].at = "list"
    /\ Move(d, [writer[d] EXCEPT !.at = "prune", !.doomed = Doomed(writer[d].what)])
    /\ ended' = IF writer[d].what = "logout" THEN ended \cup Ids ELSE ended
    /\ Whole /\ UNCHANGED <<table, clock, accepted, cookie, created, excused>>

\* Listing raises: no session is found.
ListFails(d) ==
    /\ writer[d].at = "list"
    /\ Move(d, [writer[d] EXCEPT !.at = "prune"])
    /\ Break(0)
    /\ UNCHANGED <<table, clock, accepted, cookie, created, excused, ended>>

Prune(d, s) ==
    /\ writer[d].at = "prune" /\ s \in writer[d].doomed
    /\ Move(d, [writer[d] EXCEPT !.doomed = @ \ {s}])
    /\ Delete({s}) /\ excused' = excused \cup Active
    /\ Whole /\ UNCHANGED <<accepted, cookie, created, ended>>

PruneFails(d, s) ==
    /\ writer[d].at = "prune" /\ s \in writer[d].doomed
    /\ Move(d, [writer[d] EXCEPT !.doomed = @ \ {s}])
    /\ Break(s)
    /\ UNCHANGED <<table, clock, accepted, cookie, created, excused, ended>>

\* All are pruned: a callback goes on to create its session.
Pruned(d) ==
    /\ writer[d].at = "prune" /\ writer[d].doomed = {}
    /\ Move(d, IF writer[d].what = "logout" THEN Resting ELSE [writer[d] EXCEPT !.at = "create"])
    /\ Whole /\ UNCHANGED <<table, clock, accepted, cookie, created, excused, ended>>

\* What a new grant carries.
FirstToken == IF grant \in {"rotating", "reused"} THEN 1 ELSE 0

\* create_session; a sign-in also sets the cookie.
Create(d) ==
    LET s == created + 1 IN
    /\ writer[d].at = "create" /\ created < MaxCreated
    /\ Move(d, Resting)
    /\ created' = s
    /\ Tick
    /\ table' = table \cup {[id |-> s, provider |-> writer[d].what, refresh |-> FirstToken,
                              fresh |-> TRUE, updated |-> clock']}
    /\ accepted' = [accepted EXCEPT ![s] = FirstToken]
    /\ cookie' = IF writer[d].what = "sso" THEN [cookie EXCEPT ![d] = s] ELSE cookie
    /\ Whole /\ UNCHANGED <<excused, ended>>

\* The session is not stored.
CreateFails(d) ==
    /\ writer[d].at = "create" /\ Move(d, Resting)
    /\ Break(0)
    /\ UNCHANGED <<table, clock, accepted, cookie, created, excused, ended>>

\* signout: the browser forgets the session; the row stays.
SignOut(d) ==
    /\ cookie[d] # 0 /\ Spend("ends")
    /\ cookie' = [cookie EXCEPT ![d] = 0]
    /\ UNCHANGED <<table, clock, accepted, writer, created, excused, broken, ended>>

\* delete_oauth_session_by_provider
Disconnect(p) ==
    /\ IdsFor(p) # {} /\ Spend("ends")
    /\ Delete(IdsFor(p)) /\ excused' = excused \cup Active
    /\ UNCHANGED <<accepted, cookie, writer, created, broken, ended>>

Manage ==
    \/ \E d \in Device :
          \/ \E what \in {"sso", "mcp", "logout"} : Begin(d, what)
          \/ List(d) \/ ListFails(d)
          \/ \E s \in Id : Prune(d, s) \/ PruneFails(d, s)
          \/ Pruned(d)
          \/ Create(d) \/ CreateFails(d)
          \/ SignOut(d)
    \/ \E p \in {"sso", "mcp"} : Disconnect(p)

\* A stored token comes within five minutes of its expiry; a "lasting" one
\* has an expiry that never comes.
Expire(s) ==
    /\ grant # "lasting" /\ Spend("expiries")
    /\ s \in Ids /\ RowOf(s).fresh
    /\ table' = {IF r.id = s THEN [r EXCEPT !.fresh = FALSE] ELSE r : r \in table}
    /\ UNCHANGED <<clock, accepted, cookie, reader, writer, created, overlapped, broken,
                   excused, ended>>

\* Nothing is under way.
Quiet ==
    /\ Active = {} /\ \A d \in Device : writer[d].at = "idle"
    /\ UNCHANGED oauthVars

OAuthNext ==
    \/ Quiet
    \/ /\ UNCHANGED grant
       /\ \/ /\ \E c \in Caller : Request(c)
             /\ UNCHANGED <<cookie, writer, created, ended>>
          \/ Manage /\ UNCHANGED <<reader, overlapped>>
          \/ \E s \in Id : Expire(s)

OAuthSpec == OAuthInit /\ [][OAuthNext]_oauthVars

-----------------------------------------------------------------------------
(* Properties                                                                *)

\* Two requests refreshed it at once, and its tokens are good for one use.
Raced(s) == grant = "rotating" /\ s \in overlapped

\* A refresh never leaves a session with a token that the provider no longer
\* accepts, and never deletes one that could have been refreshed, unless a
\* call failed or two requests refreshed it at the same time: the merge of
\* the response, the update, the two managers' sessions and the deletion
\* after a refused refresh fit together.
RefreshSound ==
    /\ \A r \in table :
          \/ r.refresh = accepted[r.id] \/ r.id \in broken \/ Raced(r.id)
          \/ \E c \in Caller : reader[c].at = "save" /\ reader[c].id = r.id
    /\ \A c \in Caller :
          reader[c].at = "drop" =>
             reader[c].refresh = 0 \/ reader[c].id \in broken \/ Raced(reader[c].id)

\* What the two docstrings of _refresh_token say: requests that refresh a
\* session at the same time are protected from each other, so that none of
\* them gives up (and deletes) a session unless a call failed.
RefreshProtected ==
    \A c \in Caller :
       reader[c].at = "drop" => reader[c].refresh = 0 \/ reader[c].id \in broken

\* A back-channel logout is final: once it has finished, none of the sessions
\* it found is there, whatever refreshes were under way, unless a call failed.
LogoutFinal ==
    \A s \in (ended \cap Ids) \ broken :
       \E d \in Device : writer[d].what = "logout" /\ s \in writer[d].doomed

\* Callbacks list, prune and create in steps of their own; n of them at once
\* exceed the limit on a user's sessions (one for an MCP server) by no more
\* than n - 1, however often they are repeated.
SessionsBounded ==
    broken = {} =>
       /\ Cardinality(IdsFor("sso")) < MaxSessions + Cardinality(Device)
       /\ Cardinality(IdsFor("mcp")) <= Cardinality(Device)

\* A completion or a pipe goes without a token only if there was no
\* session for it, others deleted sessions meanwhile, a call failed, or the
\* tokens cannot be renewed: a stale cookie or an MCP server's newer session
\* does not keep it from the session it can use.
TokenFound ==
    \A c \in Caller :
       reader[c].at = "done" /\ reader[c].who \in {"completion", "pipe"} /\ ~reader[c].got =>
          c \in excused \/ grant = "bare" \/ broken # {} \/ \E s \in Id : Raced(s)
=============================================================================
