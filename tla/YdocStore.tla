------------------------------ MODULE YdocStore -----------------------------
(***************************************************************************)
(* Collaborative editing of one document: the store of its Yjs updates     *)
(* (YdocManager in socket/utils.py) and the Socket.IO handlers that join,  *)
(* update and leave it (socket/main.py).  Yjs merges updates in any order, *)
(* so a list entry is the set of edits it carries and a document state is  *)
(* a union of entries.                                                     *)
(*                                                                         *)
(* With Redis every call of the store awaits, and the handlers of all      *)
(* sessions interleave there, on one server or several.  Without Redis the *)
(* store is a pair of dictionaries and its coroutines never suspend.       *)
(***************************************************************************)
EXTENDS Naturals, Sequences

CONSTANTS
    Session,    \* socket ids; each joins the document at most once
    Edit,
    Author,
    Threshold,  \* COMPACTION_THRESHOLD
    Modes       \* deployments to look at: the sessions there are, whether Redis
                \* is configured, and what may happen: "leave": sessions leave
                \* and disconnect; "early": even before their join was answered;
                \* "reap": a silent session is dropped

ASSUME AuthorAssumption == Author \in [Edit -> Session]
ASSUME ThresholdAssumption == Threshold \in Nat \ {0}
ASSUME ModesAssumption ==
    Modes \subseteq [sessions : SUBSET Session, redis : BOOLEAN, may : SUBSET {"leave", "early", "reap"}]

VARIABLES
    mode,     \* the deployment
    updates,  \* the stored list
    users,    \* the stored set of the document's sessions
    index,    \* sessions whose reverse index names the document
    pool,     \* keys of SESSION_POOL
    online,   \* sessions Socket.IO knows
    room,     \* sessions in the document's room
    know,     \* know[s]: the edits the client of s has
    join,     \* join[s]: ydoc_document_join of s
    out,      \* out[s]["leave"], out[s]["disc"]: its leave and disconnect
    upd,      \* upd[e]: yjs_document_update of e
    copy,     \* copy[e]: the list a compaction has read
    lost      \* history: edits that have ever left the store

store == <<updates, users, index>>
socket == <<pool, online, room>>
vars == <<mode, store, socket, know, join, out, upd, copy, lost>>

Redis == mode.redis
May == mode.may
Entry == SUBSET Edit
Exit == {"leave", "disc"}
Edits(list) == UNION {list[k] : k \in 1..Len(list)}
Stored == Edits(updates)

TypeOK ==
    /\ mode \in Modes
    /\ updates \in Seq(Entry)
    /\ users \in SUBSET Session
    /\ index \in SUBSET Session
    /\ pool \in SUBSET online
    /\ online \in SUBSET Session
    /\ room \in SUBSET online
    /\ know \in [Session -> Entry]
    /\ join \in [Session -> {"no", "add", "index", "room", "load", "joined", "failed"}]
    /\ out \in [Session -> [Exit -> {"no", "docs", "remove", "unindex", "unroom", "exists", "count",
                                     "clear", "clearUsers", "end", "done"}]]
    /\ upd \in [Edit -> {"no", "check", "push", "length", "read", "write", "cast", "done", "rejected"}]
    /\ copy \in [Edit -> Seq(Entry)]
    /\ lost \in Entry

Init ==
    /\ mode \in Modes
    /\ updates = <<>>
    /\ users = {}
    /\ index = {}
    /\ pool = mode.sessions
    /\ online = mode.sessions
    /\ room = {}
    /\ know = [s \in Session |-> {}]
    /\ join = [s \in Session |-> "no"]
    /\ out = [s \in Session |-> [x \in Exit |-> "no"]]
    /\ upd = [e \in Edit |-> "no"]
    /\ copy = [e \in Edit |-> <<>>]
    /\ lost = {}

-----------------------------------------------------------------------------
(* ydoc:document:join                                                      *)

JoinStart(s) ==
    /\ join[s] = "no"
    /\ s \in pool
    /\ join' = [join EXCEPT ![s] = "add"]
    /\ UNCHANGED <<store, socket, know, out, upd, copy>>

\* After the note and its access grants were looked up: add_user, enter_room
\* (which fails for a session that is gone, and the handler with it) and
\* get_updates, whose result is sent to the session.
JoinMemory(s) ==
    /\ ~Redis
    /\ join[s] = "add"
    /\ users' = users \cup {s}
    /\ room' = room \cup ({s} \cap online)
    /\ know' = [know EXCEPT ![s] = IF s \in online THEN @ \cup Stored ELSE @]
    /\ join' = [join EXCEPT ![s] = IF s \in online THEN "joined" ELSE "failed"]
    /\ UNCHANGED <<updates, index, pool, online, out, upd, copy>>

\* The same with Redis, one call at a time.
JoinAdd(s) ==
    /\ Redis
    /\ join[s] = "add"
    /\ users' = users \cup {s}
    /\ join' = [join EXCEPT ![s] = "index"]
    /\ UNCHANGED <<updates, index, socket, know, out, upd, copy>>

JoinIndex(s) ==
    /\ join[s] = "index"
    /\ index' = index \cup {s}
    /\ join' = [join EXCEPT ![s] = "room"]
    /\ UNCHANGED <<updates, users, socket, know, out, upd, copy>>

JoinRoom_Late(s) ==  \* mutant: the room is entered after the state was read
    /\ \/ /\ join[s] = "room"
          /\ know' = [know EXCEPT ![s] = @ \cup Stored]
          /\ join' = [join EXCEPT ![s] = "load"]
          /\ UNCHANGED room
       \/ /\ join[s] = "load"
          /\ room' = room \cup ({s} \cap online)
          /\ join' = [join EXCEPT ![s] = "joined"]
          /\ UNCHANGED know
    /\ UNCHANGED <<store, pool, online, out, upd, copy>>
JoinRoom(s) ==
    /\ join[s] = "room"
    /\ room' = room \cup ({s} \cap online)
    /\ join' = [join EXCEPT ![s] = IF s \in online THEN "load" ELSE "failed"]
    /\ UNCHANGED <<store, pool, online, know, out, upd, copy>>

JoinLoad(s) ==
    /\ join[s] = "load"
    /\ know' = [know EXCEPT ![s] = @ \cup Stored]
    /\ join' = [join EXCEPT ![s] = "joined"]
    /\ UNCHANGED <<store, socket, out, upd, copy>>

-----------------------------------------------------------------------------
(* ydoc:document:update                                                    *)

\* A joined client edits its copy and sends the update.
Type(e) ==
    LET s == Author[e] IN
    /\ upd[e] = "no"
    /\ join[s] = "joined"
    /\ s \in online
    /\ out[s]["leave"] = "no" /\ out[s]["disc"] = "no"
    /\ know' = [know EXCEPT ![s] = @ \cup {e}]
    /\ upd' = [upd EXCEPT ![e] = "check"]
    /\ UNCHANGED <<store, socket, join, out, copy>>

\* The sender must be in the room and known; then the handler awaits the
\* note, the grants and stop_item_tasks.
UpdateCheck(e) ==
    /\ upd[e] = "check"
    /\ upd' = [upd EXCEPT ![e] = IF Author[e] \in room \cap pool THEN "push" ELSE "rejected"]
    /\ UNCHANGED <<store, socket, know, join, out, copy>>

\* The older half of the list becomes one entry.
Squash_KeepNewer(list) ==  \* mutant: the older half is dropped
    SubSeq(list, Len(list) \div 2 + 1, Len(list))
Squash(list) ==
    LET mid == Len(list) \div 2
    IN  <<UNION {list[k] : k \in 1..mid}>> \o SubSeq(list, mid + 1, Len(list))

\* The update is sent to everybody else in the room.
Send(e) == know' = [s \in Session |-> IF s \in room \ {Author[e]} THEN know[s] \cup {e} ELSE know[s]]

\* append_to_updates, _compact_updates_memory and the start of the broadcast:
\* no suspension in between.
PushMemory(e) ==
    LET appended == Append(updates, {e}) IN
    /\ ~Redis
    /\ upd[e] = "push"
    /\ updates' = IF Len(appended) >= Threshold /\ Len(appended) > 1 THEN Squash(appended) ELSE appended
    /\ Send(e)
    /\ upd' = [upd EXCEPT ![e] = "done"]
    /\ UNCHANGED <<users, index, socket, join, out, copy>>

\* append_to_updates with Redis: RPUSH, LLEN and, if the list is long,
\* _compact_updates_redis, which reads the list and later replaces it.
PushRedis(e) ==
    /\ Redis
    /\ upd[e] = "push"
    /\ updates' = Append(updates, {e})
    /\ upd' = [upd EXCEPT ![e] = "length"]
    /\ UNCHANGED <<users, index, socket, know, join, out, copy>>

Length(e) ==
    /\ upd[e] = "length"
    /\ upd' = [upd EXCEPT ![e] = IF Len(updates) >= Threshold THEN "read" ELSE "cast"]
    /\ UNCHANGED <<store, socket, know, join, out, copy>>

CompactRead(e) ==
    /\ upd[e] = "read"
    /\ copy' = [copy EXCEPT ![e] = IF Len(updates) > 1 THEN updates ELSE <<>>]
    /\ upd' = [upd EXCEPT ![e] = IF Len(updates) > 1 THEN "write" ELSE "cast"]
    /\ UNCHANGED <<store, socket, know, join, out>>

CompactWrite(e) ==
    /\ upd[e] = "write"
    /\ updates' = Squash(copy[e])
    /\ copy' = [copy EXCEPT ![e] = <<>>]
    /\ upd' = [upd EXCEPT ![e] = "cast"]
    /\ UNCHANGED <<users, index, socket, know, join, out>>

Broadcast(e) ==
    /\ upd[e] = "cast"
    /\ Send(e)
    /\ upd' = [upd EXCEPT ![e] = "done"]
    /\ UNCHANGED <<store, socket, join, out, copy>>

-----------------------------------------------------------------------------
(* ydoc:document:leave and disconnect                                      *)

Move(s, x, pc) == out' = [out EXCEPT ![s][x] = pc]

\* remove_user (SREM of the users, then of the reverse index), leave_room.
LeaveStart(s) ==
    /\ "leave" \in May
    /\ out[s]["leave"] = "no"
    /\ s \in pool
    /\ IF "early" \in May THEN join[s] # "no" ELSE join[s] = "joined"
    /\ users' = users \ {s}
    /\ room' = IF Redis THEN room ELSE room \ {s}
    /\ Move(s, "leave", IF Redis THEN "unindex" ELSE "exists")
    /\ UNCHANGED <<updates, index, pool, online, know, join, upd, copy>>

LeaveIndex(s) ==
    /\ out[s]["leave"] = "unindex"
    /\ index' = index \ {s}
    /\ Move(s, "leave", "unroom")
    /\ UNCHANGED <<updates, users, socket, know, join, upd, copy>>

LeaveRoom(s) ==
    /\ out[s]["leave"] = "unroom"
    /\ room' = room \ {s}
    /\ Move(s, "leave", "exists")
    /\ UNCHANGED <<store, pool, online, know, join, upd, copy>>

LeaveExists(s) ==
    /\ Redis
    /\ out[s]["leave"] = "exists"
    /\ Move(s, "leave", IF updates # <<>> THEN "count" ELSE "done")
    /\ UNCHANGED <<store, socket, know, join, upd, copy>>

\* Without Redis the same check and clear_document are one step.
LeaveMemory_NoCount(s) ==  \* mutant: whoever leaves clears the document
    /\ ~Redis
    /\ out[s]["leave"] = "exists"
    /\ updates' = <<>>
    /\ users' = {}
    /\ Move(s, "leave", "done")
    /\ UNCHANGED <<index, socket, know, join, upd, copy>>
LeaveMemory(s) ==
    /\ ~Redis
    /\ out[s]["leave"] = "exists"
    /\ updates' = IF users = {} THEN <<>> ELSE updates
    /\ Move(s, "leave", "done")
    /\ UNCHANGED <<users, index, socket, know, join, upd, copy>>

\* disconnect: the session leaves SESSION_POOL, and then, with Redis,
\* remove_user_from_all_documents reads its reverse index ...
DiscStart(s) ==
    /\ "leave" \in May
    /\ out[s]["disc"] = "no"
    /\ "early" \in May \/ join[s] \in {"no", "joined"}
    /\ s \in pool
    /\ pool' = pool \ {s}
    /\ IF Redis
          THEN /\ Move(s, "disc", "docs")
               /\ UNCHANGED <<updates, users>>
          ELSE /\ Move(s, "disc", "end")
               /\ users' = users \ {s}
               /\ updates' = IF users = {s} THEN <<>> ELSE updates
    /\ UNCHANGED <<index, online, room, know, join, upd, copy>>

\* A session that was dropped before is not cleaned up after.
DiscUnknown(s) ==
    /\ "leave" \in May
    /\ out[s]["disc"] = "no"
    /\ s \in online \ pool
    /\ Move(s, "disc", "end")
    /\ UNCHANGED <<store, socket, know, join, upd, copy>>

DiscDocs(s) ==
    /\ out[s]["disc"] = "docs"
    /\ Move(s, "disc", IF s \in index THEN "remove" ELSE "unindex")
    /\ UNCHANGED <<store, socket, know, join, upd, copy>>

\* ... removes it from the users of each document named there ...
DiscRemove_OnlyIndex(s) ==  \* mutant: the users keep the session
    /\ out[s]["disc"] = "remove"
    /\ index' = index \ {s}
    /\ Move(s, "disc", "count")
    /\ UNCHANGED <<updates, users, socket, know, join, upd, copy>>
DiscRemove(s) ==
    /\ out[s]["disc"] = "remove"
    /\ users' = users \ {s}
    /\ Move(s, "disc", "count")
    /\ UNCHANGED <<updates, index, socket, know, join, upd, copy>>

\* ... and drops the index; Socket.IO forgets the session last.
DiscIndex(s) ==
    /\ out[s]["disc"] = "unindex"
    /\ index' = index \ {s}
    /\ Move(s, "disc", "end")
    /\ UNCHANGED <<updates, users, socket, know, join, upd, copy>>

DiscEnd(s) ==
    /\ out[s]["disc"] = "end"
    /\ online' = online \ {s}
    /\ room' = room \ {s}
    /\ Move(s, "disc", "done")
    /\ UNCHANGED <<store, pool, know, join, upd, copy>>

\* A session that missed its heartbeats, or did not answer an event call in
\* time, is dropped from SESSION_POOL though its socket may still be open.
Reap(s) ==
    /\ "reap" \in May
    /\ s \in pool
    /\ out[s]["disc"] = "no"
    /\ pool' = pool \ {s}
    /\ UNCHANGED <<store, online, room, know, join, out, upd, copy>>

\* get_users, and clear_document when nobody is left: DEL of the updates,
\* then of the users.
After(x) == IF x = "leave" THEN "done" ELSE "unindex"

Count(s, x) ==
    /\ out[s][x] = "count"
    /\ Move(s, x, IF users = {} THEN "clear" ELSE After(x))
    /\ UNCHANGED <<store, socket, know, join, upd, copy>>

ClearUpdates(s, x) ==
    /\ out[s][x] = "clear"
    /\ updates' = <<>>
    /\ Move(s, x, "clearUsers")
    /\ UNCHANGED <<users, index, socket, know, join, upd, copy>>

ClearUsers(s, x) ==
    /\ out[s][x] = "clearUsers"
    /\ users' = {}
    /\ Move(s, x, After(x))
    /\ UNCHANGED <<updates, index, socket, know, join, upd, copy>>

-----------------------------------------------------------------------------

Join(s) == JoinStart(s) \/ JoinMemory(s) \/ JoinAdd(s) \/ JoinIndex(s) \/ JoinRoom(s) \/ JoinLoad(s)
Update(e) == \/ Type(e) \/ UpdateCheck(e) \/ PushMemory(e) \/ PushRedis(e) \/ Length(e)
             \/ CompactRead(e) \/ CompactWrite(e) \/ Broadcast(e)
Leave(s) == LeaveStart(s) \/ LeaveIndex(s) \/ LeaveRoom(s) \/ LeaveExists(s) \/ LeaveMemory(s)
Disconnect(s) == \/ Reap(s) \/ DiscStart(s) \/ DiscUnknown(s) \/ DiscDocs(s) \/ DiscRemove(s)
                 \/ DiscIndex(s) \/ DiscEnd(s)
Clear(s, x) == Count(s, x) \/ ClearUpdates(s, x) \/ ClearUsers(s, x)

Next ==
    /\ \/ \E s \in Session : Join(s) \/ Leave(s) \/ Disconnect(s) \/ (\E x \in Exit : Clear(s, x))
       \/ \E e \in Edit : Update(e)
    /\ lost' = lost \cup (Stored \ Stored')
    /\ UNCHANGED mode

Spec == Init /\ [][Next]_vars

-----------------------------------------------------------------------------

\* "Rolling compaction: squash oldest half into one snapshot" and "Cleaning up
\* document as no users are left": a stored edit disappears only when the
\* document has no users.  (With Redis a compaction replaces a list that has
\* grown since it was read.)
DropOnlyWhenEmpty == [][~Redis => Stored \subseteq Stored' \/ users' = {}]_vars

\* No handler is on its way.
Quiet ==
    /\ \A s \in Session : /\ join[s] \in {"no", "joined", "failed"}
                          /\ \A x \in Exit : out[s][x] \in {"no", "done"}
    /\ \A e \in Edit : upd[e] \in {"no", "done", "rejected"}

\* Collaboration: once the handlers have settled, two members of the room that
\* the server knows have the same document, whatever order joins, edits and
\* departures came in, unless the store has lost an edit of theirs (which the
\* compaction that lost or read it may bring back).  The edits of a session
\* dropped from the pool are rejected.
Converged ==
    Quiet => \A r, s \in room \cap pool : (know[r] \cup know[s]) \cap lost = {} => know[r] = know[s]

\* The in-memory store loses nothing of a document in use: what its members
\* see is what the next session to join will get.
MembersSeeStored == ~Redis /\ Quiet => \A s \in room \cap pool : know[s] = Stored

\* Who edits a document together sees one document, and in memory the stored one.
SameDocument == Converged /\ MembersSeeStored

\* A session that was admitted and has not begun to go is among the stored
\* users, so that nobody else's departure clears the document under it.
MembersListed ==
    ~Redis => \A s \in room : (\A x \in Exit : out[s][x] = "no") => s \in users

\* Sessions that are gone are not counted as users: they would keep the
\* document from ever being cleared.  (Unless they went before their join was
\* answered, or were dropped while silent, which removes no user.)
NoGhostUsers == Quiet /\ May \subseteq {"leave"} => users \subseteq pool

\* The stored users, who decide when the document is cleared, are neither too
\* few nor too many.
UsersExact == MembersListed /\ NoGhostUsers
=============================================================================
