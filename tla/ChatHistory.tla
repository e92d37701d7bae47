---------------------------- MODULE ChatHistory -----------------------------
(***************************************************************************)
(* A chat's messages, kept twice: a tree inside the chat's JSON document   *)
(* and rows of the chat_message table (models/chats.py, chat_messages.py). *)
(* A request changes the document by reading it whole and writing it whole *)
(* in another transaction step, and only then upserts the rows, logging    *)
(* the upserts that fail.  get_messages_map_by_chat_id reads the rows and  *)
(* fills their gaps from the document.  The order of siblings, roles,      *)
(* timestamps and _repair_chat_current_id are left out.                    *)
(***************************************************************************)
EXTENDS Naturals, FiniteSets, SequencesExt

CONSTANTS
    User, Assistant, \* message ids
    Turns,           \* the turns: a user message and the sequence of its answers
    First,           \* the turn that created the chat
    Job,             \* requests in flight at once
    MaxRequests,     \* bound on requests, walks not counted
    MaxFailures,     \* bound on failing calls, of the document or of the rows
    Null

Id == User \cup Assistant
Own(t) == {t.user} \cup ToSet(t.answers)

\* The ids of messages are fresh (uuid4).
ASSUME IdAssumption == IsFiniteSet(Id) /\ Null \notin Id
ASSUME TurnAssumption ==
    /\ \A t \in Turns \cup {First} :
          /\ t.user \in User
          /\ t.answers \in Seq(Assistant) /\ IsInjective(t.answers)
          /\ t.user \notin ToSet(t.answers)
          /\ \A s \in (Turns \cup {First}) \ {t} : Own(s) \cap Own(t) = {}
    /\ First \notin Turns
    /\ First.answers # <<>>
ASSUME BoundAssumption == MaxRequests \in Nat /\ MaxFailures \in Nat \ {0}

VARIABLES
    history, \* chat.history: messages and currentId
    rows,    \* chat_message
    tab,     \* the history a browser has loaded
    turns,   \* turns not yet sent
    job,     \* job[j]: the request's remaining steps and what it holds
    requests, failures, \* spent bounds
    disturbed, \* requests overlapped, one sent stale links, or a call of a turn failed
    deleted, \* a deletion was requested
    sent     \* messages whose upsert a request committed

vars == <<history, rows, tab, turns, job, requests, failures, disturbed, deleted, sent>>
counters == <<requests, disturbed, deleted>>

None == [m \in {} |-> {}]
Text == {"", "written"}
Message == [parent : Id \cup {Null}, kids : SUBSET Id, text : Text]
Row == [parent : Id \cup {Null}, text : Text]
Ids(h) == DOMAIN h.messages
Idle == [pc |-> "idle"]
RowOf(message) == [parent |-> message.parent, text |-> message.text]
RowsOf(messages) == [m \in DOMAIN messages |-> RowOf(messages[m])]
Without(f, S) == [m \in DOMAIN f \ S |-> f[m]]
Over(f, g) == [m \in DOMAIN f \cup DOMAIN g |-> IF m \in DOMAIN f THEN f[m] ELSE g[m]]
Put(f, m, value) == [k \in DOMAIN f \cup {m} |-> IF k = m THEN value ELSE f[k]]

TypeOK ==
    /\ Ids(history) \subseteq Id
    /\ \A m \in Ids(history) : history.messages[m] \in Message
    /\ history.current \in Id \cup {Null}
    /\ DOMAIN rows \subseteq Id
    /\ \A m \in DOMAIN rows : rows[m] \in Row
    /\ \A j \in Job : job[j].pc \in {"idle", "next", "commit", "rows", "walked"}
    /\ requests \in 0..MaxRequests
    /\ failures \in 0..MaxFailures

\* A new chat is committed with its first turn and the rows follow, up to the
\* first that fails; a chat from before the table has none.
Init ==
    /\ history = [messages |-> [m \in Own(First) |->
                                  IF m = First.user
                                  THEN [parent |-> Null, kids |-> ToSet(First.answers), text |-> ""]
                                  ELSE [parent |-> First.user, kids |-> {}, text |-> ""]],
                  current |-> First.answers[1]]
    /\ \E kept \in {{}, {First.user}, Ids(history)} :
          /\ rows = RowsOf(Without(history.messages, Id \ kept))
          /\ failures = IF kept = Ids(history) THEN 0 ELSE MaxFailures
    /\ tab = history
    /\ job = [j \in Job |-> Idle]
    /\ requests = 0
    /\ disturbed = FALSE
    /\ deleted = FALSE
    /\ turns = Turns
    /\ sent = Ids(history)

-----------------------------------------------------------------------------
(* The tree: merge_history, delete_message_from_history,                   *)
(* upsert_message_to_history                                               *)

Relinked(messages) ==
    [m \in DOMAIN messages |->
        [messages[m] EXCEPT !.kids = {k \in DOMAIN messages : messages[k].parent = m}]]

\* mutant: merge_history keeps the children lists it was given.
Merged_Unlinked(existing, incoming) ==
    [messages |-> Over(incoming.messages, existing.messages), current |-> incoming.current]

Merged(existing, incoming) ==
    LET messages == Relinked(Over(incoming.messages, existing.messages))
        known == {incoming.current, existing.current} \cap DOMAIN messages
    IN  [messages |-> messages,
         current |-> IF incoming.current \in known THEN incoming.current
                     ELSE IF known # {} THEN existing.current ELSE Null]

\* What a walk down the children from S can reach, and where it can end.
Reached(messages, S) ==
    {m \in Id : \A C \in SUBSET Id :
        S \subseteq C /\ (\A k \in C \cap DOMAIN messages : messages[k].kids \subseteq C) => m \in C}
Ends(messages, S) ==
    {m \in Reached(messages, S) : m \notin DOMAIN messages \/ messages[m].kids = {}}

Doomed(h, m) ==
    IF m \in Ids(h) THEN {m} \cup (h.messages[m].kids \cap Ids(h)) ELSE {}

Adopted(h, m) ==
    (UNION {h.messages[k].kids : k \in Doomed(h, m) \ {m}}) \cap Ids(h)

\* mutant: the grandchildren are left with the parent they had.
Deletions_Orphans(h, m) ==
    {[messages |-> Without(h.messages, Doomed(h, m)), current |-> Null]}

\* The messages a deletion leaves: its message's place is taken by the
\* grandchildren.
Left(h, m) ==
    LET p == h.messages[m].parent
        grand == Adopted(h, m)
    IN  [k \in Ids(h) \ Doomed(h, m) |->
            [h.messages[k] EXCEPT !.parent = IF k \in grand THEN p ELSE @,
                                  !.kids = IF k = p THEN (@ \ {m}) \cup grand ELSE @]]

\* The trees it can leave: they differ in the branch shown.
Deletions(h, m) ==
    IF m \notin Ids(h) THEN {h}
    ELSE LET left == Left(h, m)
             p == h.messages[m].parent
             from == IF p = Null THEN {k \in DOMAIN left : left[k].parent = Null} ELSE {p}
             ends == Ends(left, from)
         IN  {[messages |-> left, current |-> IF c \in DOMAIN left THEN c ELSE Null] :
                 c \in IF ends = {} THEN {Null} ELSE ends}

\* A new message without a parent takes the one that lists it as a child.
ParentOf(h, m) ==
    LET listing == {k \in Ids(h) : m \in h.messages[k].kids}
    IN  IF listing = {} THEN Null ELSE CHOOSE k \in listing : TRUE

\* What an upsert sets: all fields, the children, or the text.
Whole(parent, kids, text) == [sets |-> "all", parent |-> parent, kids |-> kids, text |-> text]
Placeholder(parent) == Whole(parent, {}, "")
Kids(kids) == [sets |-> "kids", kids |-> kids]
Written == [sets |-> "text"]

Upserted(h, m, data) ==
    LET old == IF m \in Ids(h) THEN h.messages[m]
               ELSE [parent |-> ParentOf(h, m), kids |-> {}, text |-> ""]
        new == CASE data.sets = "all" ->
                      [parent |-> IF m \in Ids(h) \/ data.parent # Null THEN data.parent ELSE old.parent,
                       kids |-> data.kids, text |-> data.text]
                 [] data.sets = "kids" -> [old EXCEPT !.kids = data.kids]
                 [] data.sets = "text" -> [old EXCEPT !.text = "written"]
    IN  [messages |-> Put(h.messages, m, new), current |-> m]

-----------------------------------------------------------------------------
(* Requests                                                                *)

Fields == [op |-> "fields"]
Upsert(m, data) == [op |-> "upsert", id |-> m, data |-> data]
Link(m, kids, always) == [op |-> "link", id |-> m, kids |-> kids, always |-> always]
Delete(m) == [op |-> "delete", id |-> m]
Save(h) == [op |-> "save", tab |-> h]

Active(j) == job[j].pc # "idle"
Todo(j) == Head(job[j].todo)
Doing(j, op) == job[j].pc = "next" /\ Todo(j).op = op

Idling(todo) == IF todo = <<>> THEN Idle ELSE [pc |-> "next", todo |-> todo]
Continue(j) == Idling(Tail(job[j].todo))

Request(j, todo, stale) ==
    /\ ~Active(j)
    /\ requests < MaxRequests
    /\ requests' = requests + 1
    /\ job' = [job EXCEPT ![j] = Idling(todo)]
    /\ disturbed' = (disturbed \/ stale \/ \E k \in Job : Active(k))
    /\ UNCHANGED <<history, rows, tab, failures, sent>>

\* A browser loads the chat, between two requests.
Load ==
    /\ \A j \in Job : ~Active(j)
    /\ requests < MaxRequests
    /\ tab' = history
    /\ UNCHANGED <<history, rows, turns, job, counters, failures, sent>>

\* A user message u and its answers: u as the browser has it, the link from
\* its parent, the links to the answers, and a placeholder for each answer.
TurnSteps(u, data, answers) ==
    <<Fields, Upsert(u, data)>>
        \o (IF data.parent = Null THEN <<>> ELSE <<Link(data.parent, {u}, FALSE)>>)
        \o <<Link(u, ToSet(answers), TRUE)>>
        \o [i \in 1..Len(answers) |-> Upsert(answers[i], Placeholder(u))]

\* A message is sent below an answer the browser shows, or as a new first
\* message.
Send(j, t) ==
    \E p \in (Ids(tab) \cap Assistant) \cup {Null} :
        /\ t \in turns
        /\ turns' = turns \ {t}
        /\ Request(j, TurnSteps(t.user, Whole(p, ToSet(t.answers), ""), t.answers),
                   p \notin Ids(history) \cup {Null})
        /\ UNCHANGED deleted

\* The browser's links of some messages are not the document's.
Stale(S) ==
    \E m \in S :
        \/ m \notin Ids(history)
        \/ history.messages[m].parent # tab.messages[m].parent
        \/ history.messages[m].kids # tab.messages[m].kids

\* A user message is sent again with the links the browser has for it, and
\* answered anew, by the answers of a turn ...
Regenerate(j, t) ==
    \E u \in Ids(tab) \cap User :
        LET shown == tab.messages[u]
            kids == shown.kids \cup ToSet(t.answers)
        IN  /\ t \in turns
            /\ turns' = turns \ {t}
            /\ Request(j, TurnSteps(u, Whole(shown.parent, kids, shown.text), t.answers), Stale({u}))
            /\ UNCHANGED deleted

\* ... or by continuing an answer that nothing follows.
Resume(j) ==
    \E a \in Ids(tab) \cap Assistant :
        LET u == tab.messages[a].parent
            shown == tab.messages[u]
        IN  /\ tab.messages[a].kids = {}
            /\ u \in Ids(tab) \cap User
            /\ Request(j, TurnSteps(u, Whole(shown.parent, shown.kids, shown.text), <<a>>), Stale({u, a}))
            /\ UNCHANGED <<turns, deleted>>

\* A completion stores its answer, or the user edits a message.
Write(j) ==
    \E m \in Ids(history) \cup sent :
        /\ Request(j, <<Upsert(m, Written)>>, m \notin Ids(history))
        /\ UNCHANGED <<turns, deleted>>

RequestDelete(j) ==
    \E m \in Ids(tab) :
        /\ Request(j, <<Delete(m)>>, FALSE)
        /\ deleted' = TRUE
        /\ UNCHANGED turns

\* The browser saves its history, showing some answer of it.
RequestSave(j) ==
    \E c \in Ids(tab) \cap Assistant :
        /\ Request(j, <<Save([tab EXCEPT !.current = c])>>, FALSE)
        /\ UNCHANGED <<turns, deleted>>

-----------------------------------------------------------------------------
(* A request's steps                                                       *)

settled == <<tab, turns, counters>>

\* get_message_by_id_and_message_id, before a message's children are extended.
Look(j) ==
    /\ Doing(j, "link")
    /\ LET link == Todo(j)
           found == link.id \in Ids(history)
           kids == history.messages[link.id].kids
       IN  job' = [job EXCEPT ![j] =
             IF found /\ (link.always \/ ~(link.kids \subseteq kids))
             THEN [pc |-> "next", todo |-> <<Upsert(link.id, Kids(kids \cup link.kids))>> \o Tail(@.todo)]
             ELSE Continue(j)]
    /\ UNCHANGED <<history, rows, failures, sent, settled>>

Read(j) ==
    /\ job[j].pc = "next" /\ Todo(j).op # "link"
    /\ job' = [job EXCEPT ![j] = [pc |-> "commit", todo |-> @.todo, snap |-> history]]
    /\ UNCHANGED <<history, rows, failures, sent, settled>>

\* The documents a request may write over the one it read.
Outcomes(j) ==
    LET step == Todo(j)
        snap == job[j].snap
    IN  CASE step.op = "fields" -> {snap}
          [] step.op = "upsert" -> {Upserted(snap, step.id, step.data)}
          [] step.op = "delete" -> Deletions(snap, step.id)
          [] step.op = "save" -> {Merged(snap, step.tab)}

\* The rows a request upserts after committing the messages.
Puts(j, messages) ==
    CASE Todo(j).op = "fields" -> None
      [] Todo(j).op = "upsert" -> Put(None, Todo(j).id, RowOf(messages[Todo(j).id]))
      [] Todo(j).op = "delete" -> IF Todo(j).id \in Ids(job[j].snap) THEN RowsOf(messages) ELSE None
      [] Todo(j).op = "save" -> RowsOf(messages)

\* mutant: a deletion leaves the rows alone.
Drops_None(j) == {}

\* The rows it deletes after that.
Drops(j) == IF Todo(j).op = "delete" THEN Doomed(job[j].snap, Todo(j).id) ELSE {}

Rowing(j, put, drop) ==
    job' = [job EXCEPT ![j] =
        IF DOMAIN put \cup drop = {} THEN Continue(j)
        ELSE [pc |-> "rows", todo |-> @.todo, put |-> put, drop |-> drop]]

Commit(j) ==
    /\ job[j].pc = "commit"
    /\ \E h \in Outcomes(j) :
          /\ history' = h
          /\ Rowing(j, Puts(j, h.messages), Drops(j))
    /\ sent' = IF Todo(j).op = "upsert" THEN sent \cup {Todo(j).id} ELSE sent
    /\ UNCHANGED <<rows, failures, settled>>

\* The steps by which a turn grows the tree.
Grows(step) == step.op = "link" \/ (step.op = "upsert" /\ step.data.sets # "text")

\* A read or a commit of the document fails.  The call returns None and the
\* request goes on, or it raises and the request ends; a save writes the rows
\* of the merged messages before it does.
CallFails(j) ==
    /\ job[j].pc \in {"next", "commit", "walked"}
    /\ failures < MaxFailures
    /\ failures' = failures + 1
    /\ \/ \E after \in {Continue(j), Idle} : job' = [job EXCEPT ![j] = after]
       \/ /\ job[j].pc = "commit" /\ Todo(j).op = "save"
          /\ \E h \in Outcomes(j) : Rowing(j, Puts(j, h.messages), {})
    /\ disturbed' = (disturbed \/ (job[j].pc # "walked" /\ Grows(Todo(j))))
    /\ UNCHANGED <<history, rows, tab, turns, requests, deleted, sent>>

\* Rows are upserted one after the other, in one order of the messages.
Upcoming(j) == CHOOSE m \in DOMAIN job[j].put : TRUE

\* mutant: the upsert updates existing rows only.
PutRow_NoInsert(j) ==
    /\ job[j].pc = "rows"
    /\ DOMAIN job[j].put # {}
    /\ LET m == Upcoming(j)
       IN /\ rows' = IF m \in DOMAIN rows THEN [rows EXCEPT ![m] = job[j].put[m]] ELSE rows
          /\ Rowing(j, Without(job[j].put, {m}), job[j].drop)
    /\ UNCHANGED <<history, failures, sent, settled>>

\* ChatMessages.upsert_message.
PutRow(j) ==
    /\ job[j].pc = "rows"
    /\ DOMAIN job[j].put # {}
    /\ LET m == Upcoming(j)
       IN /\ rows' = Put(rows, m, job[j].put[m])
          /\ Rowing(j, Without(job[j].put, {m}), job[j].drop)
    /\ UNCHANGED <<history, failures, sent, settled>>

\* It fails, which is logged.
PutFails(j) ==
    /\ job[j].pc = "rows"
    /\ failures < MaxFailures
    /\ failures' = failures + 1
    /\ DOMAIN job[j].put # {}
    /\ Rowing(j, Without(job[j].put, {Upcoming(j)}), job[j].drop)
    /\ UNCHANGED <<history, rows, sent, settled>>

\* delete_message_ids_by_chat_id; its failure ends the request.
DropRows(j) ==
    /\ job[j].pc = "rows"
    /\ DOMAIN job[j].put = {}
    /\ \/ rows' = Without(rows, job[j].drop) /\ UNCHANGED failures
       \/ failures < MaxFailures /\ failures' = failures + 1 /\ UNCHANGED rows
    /\ job' = [job EXCEPT ![j] = Continue(j)]
    /\ UNCHANGED <<history, sent, settled>>

-----------------------------------------------------------------------------
(* get_messages_map_by_chat_id                                             *)

Unresolved(map) == {map[m].parent : m \in DOMAIN map} \ (DOMAIN map \cup {Null})

\* The rows are read: all of the document is wanted if there are none, else the
\* parents they miss.
Walk(j) ==
    LET wanted == IF DOMAIN rows = {} THEN Id ELSE Unresolved(rows)
    IN  /\ ~Active(j)
        /\ wanted # {}
        /\ job' = [job EXCEPT ![j] = [pc |-> "walked", todo |-> <<Fields>>, wanted |-> wanted]]
        /\ disturbed' = (disturbed \/ \E k \in Job : Active(k))
        /\ UNCHANGED <<history, rows, tab, turns, requests, deleted, failures, sent>>

\* mutant: the gaps are filled in the returned map only.
Fill_Transient(j) ==
    /\ job[j].pc = "walked"
    /\ job' = [job EXCEPT ![j] = Idle]
    /\ UNCHANGED <<history, rows, failures, sent, settled>>

\* The document is read, and the rows it has for them are backfilled.
Fill(j) ==
    /\ job[j].pc = "walked"
    /\ Rowing(j, RowsOf(Without(history.messages, Id \ job[j].wanted)), {})
    /\ UNCHANGED <<history, rows, failures, sent, settled>>

-----------------------------------------------------------------------------

Arrive(j) ==
    \/ \E t \in Turns : Send(j, t) \/ Regenerate(j, t)
    \/ Resume(j)
    \/ Write(j)
    \/ RequestDelete(j)
    \/ RequestSave(j)

Step(j) ==
    Look(j) \/ Read(j) \/ Commit(j) \/ PutRow(j) \/ DropRows(j) \/ Walk(j) \/ Fill(j)

Next == Load \/ \E j \in Job : Arrive(j) \/ Step(j) \/ PutFails(j) \/ CallFails(j)

\* Requests end, and every request for the model's context walks first.
Fairness == \A j \in Job : WF_vars(Step(j))

Spec == Init /\ [][Next]_vars /\ Fairness

-----------------------------------------------------------------------------

Quiet == \A j \in Job : ~Active(j)

\* The parent of every message, by sets: no message is its own ancestor.
Acyclic(h) ==
    \A S \in SUBSET Ids(h) : S # {} => \E m \in S : h.messages[m].parent \notin S

\* When no two requests overlapped, none resent a user message with stale links
\* and no call failed by which a turn grows the tree, the document is a forest
\* between requests: every parent exists, the children lists are the inverse of the parents, and
\* the current message exists.
TreeSound ==
    Quiet /\ ~disturbed =>
        /\ \A m \in Ids(history) :
              /\ history.messages[m].parent \in Ids(history) \cup {Null}
              /\ history.messages[m].kids = {k \in Ids(history) : history.messages[k].parent = m}
        /\ Acyclic(history)
        /\ history.current \in Ids(history) \/ history = [messages |-> None, current |-> Null]

\* If moreover no call failed, the rows mirror the document.
RowsFollow ==
    Quiet /\ ~disturbed /\ failures = 0 => rows = RowsOf(history.messages)

\* Overlapping requests overwrite each other's documents, but without deletions
\* and failures the table keeps every message a request stored.
RowsKeepAll ==
    Quiet /\ ~deleted /\ failures = 0 => sent \cup Ids(history) \subseteq DOMAIN rows

\* What the rows owe the document: to mirror it, and at the least to lose nothing.
RowsSound == RowsFollow /\ RowsKeepAll

\* What a walk up the parents from m meets.
Ancestors(h, m) ==
    {a \in Id \ {m} : \A C \in SUBSET Id :
        m \in C /\ (\A k \in C \cap Ids(h) : h.messages[k].parent \in C \cup {Null}) => a \in C}

\* While nothing has disturbed the tree, a deletion removes the message and its
\* direct children only, and takes nothing else out of the path above any
\* message it leaves.
DeletionSpares ==
    [][\A j \in Job :
          job[j].pc = "commit" /\ Todo(j).op = "delete" /\ history' # history /\ ~disturbed =>
            LET doomed == Doomed(history, Todo(j).id)
            IN  /\ Ids(history)' = Ids(history) \ doomed
                /\ \A m \in Ids(history)' :
                      Ancestors(history', m) = Ancestors(history, m) \ doomed]_vars

\* Walks fill the rows' gaps from the document, until none is left that it can
\* fill.
GapsHeal == <>[](Unresolved(rows) \cap Ids(history) = {})
=============================================================================
