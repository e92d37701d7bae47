---------------------------- MODULE SocketProofs ----------------------------
(***************************************************************************)
(* Safety of what the Socket.IO server keeps.                              *)
(*                                                                         *)
(* Collaborative editing, for any sessions, edits, deployments and         *)
(* compaction threshold: members of a document see one document, the       *)
(* in-memory store keeps what they see, and its users are those who edit.  *)
(* An edit is told to a member by the broadcast or by the state it loads:  *)
(* Told says that one of the two is still to come until it has arrived.    *)
(* With Redis an edit can leave the store and be brought back, so Told     *)
(* speaks of edits that never left; Copied says that a compaction brings   *)
(* back no others.                                                         *)
(*                                                                         *)
(* The session and usage pools, for any deployments, sessions and crashes: *)
(* sweeps of the session pool exclude each other, and in a single process  *)
(* they spare live sessions and a disconnect is thorough.  The first rests *)
(* on the lease: a sweep begins only with the lock, and the lease outlives *)
(* a sweep.  The others rest on the event loop: where one process serves   *)
(* everybody, the commands of a handler are not interleaved with           *)
(* another's, so that what it read is still true.                          *)
(***************************************************************************)
EXTENDS YdocStore, SessionPool, SequenceTheorems, FiniteSetTheorems, TLAPS

\* Where handlers await without Redis.
MemoryPlaces ==
    ~Redis =>
        /\ \A s \in Session : /\ join[s] \in {"no", "add", "joined", "failed"}
                              /\ out[s]["leave"] \in {"no", "exists", "done"}
                              /\ out[s]["disc"] \in {"no", "end", "done"}
        /\ \A e \in Edit : upd[e] \in {"no", "check", "push", "done", "rejected"}

\* Socket.IO forgets a session after the pool.
Dropped == \A s \in Session : out[s]["disc"] # "no" => s \notin pool

Entered == \A s \in room : join[s] \in {"load", "joined"}
Typed == \A e \in Edit : upd[e] # "no" => join[Author[e]] = "joined" /\ e \in know[Author[e]]

Casting == {e \in Edit : upd[e] \in {"length", "read", "write", "cast"}}
Own(s) == {e \in Edit : Author[e] = s /\ upd[e] \in {"check", "push"}}

\* Edits that were pushed are in the store, or have been.
Pushed == \A e \in Casting \cup {e \in Edit : upd[e] = "done"} : e \in Stored \cup lost
Copied == \A e \in Edit : Edits(copy[e]) \subseteq Stored \cup lost

Known ==
    \A s \in Session : \A e \in know[s] :
        e \in Stored \cup lost \/ (Author[e] = s /\ upd[e] \in {"check", "push", "rejected"})
Rejected == \A e \in Edit : upd[e] = "rejected" => Author[e] \notin room \cap pool

Told == \A e \in Stored \ lost, s \in room : join[s] = "joined" => e \in know[s] \cup Casting

\* The document that a member of the room sees on the in-memory store.
Unjoined == ~Redis => \A s \in Session : join[s] # "joined" => know[s] = {}
Members == ~Redis => \A s \in room \cap pool : s \in users /\ know[s] = Stored \cup Own(s)

\* Sessions leave after they have joined, and are removed where they were added.
Removed(s) ==
    /\ s \in users => s \in pool \/ out[s]["disc"] # "no"
    /\ join[s] # "no" => s \in pool \/ out[s]["disc"] # "no"
    /\ s \in online /\ out[s]["disc"] = "no" => s \in pool
    /\ out[s]["disc"] # "no" => join[s] \in {"no", "joined"}
    /\ out[s]["leave"] # "no" => join[s] = "joined" /\ s \notin users
    /\ join[s] \in {"no", "add"} => s \notin users
    /\ Redis /\ s \in users => join[s] = "index" \/ s \in index
    /\ out[s]["disc"] \notin {"no", "docs", "remove"} => s \notin users
Orderly == May \subseteq {"leave"} => \A s \in Session : Removed(s)

IInv ==
    /\ TypeOK
    /\ MemoryPlaces
    /\ Dropped
    /\ Entered
    /\ Typed
    /\ Pushed
    /\ Copied
    /\ Known
    /\ Rejected
    /\ Told
    /\ Unjoined
    /\ Members
    /\ MembersListed
    /\ Orderly

-----------------------------------------------------------------------------
(* Lists of entries                                                          *)

\* The empty list holds nothing.
LEMMA EditsEmpty == Edits(<<>>) = {}
BY DEF Edits

\* An entry that is appended adds its edits.
LEMMA EditsAppend ==
    ASSUME NEW list \in Seq(Entry), NEW x \in Entry
    PROVE  Append(list, x) \in Seq(Entry) /\ Edits(Append(list, x)) = Edits(list) \cup x
<1>1. /\ Append(list, x) \in Seq(Entry) /\ Len(Append(list, x)) = Len(list) + 1
      /\ \A k \in 1..Len(list) : Append(list, x)[k] = list[k]
      /\ Append(list, x)[Len(list) + 1] = x /\ Len(list) \in Nat
  BY AppendProperties, LenProperties
<1>2. 1..(Len(list) + 1) = 1..Len(list) \cup {Len(list) + 1}
  BY <1>1
<1>3. QED
  BY <1>1, <1>2 DEF Edits

\* Compaction changes how edits are grouped, and nothing else.
LEMMA EditsSquash ==
    ASSUME NEW list \in Seq(Entry)
    PROVE  Squash(list) \in Seq(Entry) /\ Edits(Squash(list)) = Edits(list)
<1> DEFINE n == Len(list)
           mid == n \div 2
           head == UNION {list[k] : k \in 1..mid}
           tail == SubSeq(list, mid + 1, n)
           new == <<head>> \o tail
<1>1. n \in Nat /\ mid \in Nat /\ mid <= n /\ list \in [1..n -> Entry]
  BY LenProperties
<1> HIDE DEF n, mid
<1>2. /\ tail \in Seq(Entry) /\ Len(tail) = n - mid
      /\ \A k \in 1..(n - mid) : tail[k] = list[mid + k]
  <2>1. \A k \in (mid + 1)..n : list[k] \in Entry
    BY <1>1
  <2>2. /\ tail \in Seq(Entry)
        /\ Len(tail) = IF mid + 1 <= n THEN n - (mid + 1) + 1 ELSE 0
        /\ \A k \in 1..(n - (mid + 1) + 1) : tail[k] = list[mid + 1 + k - 1]
    BY <1>1, <2>1, SubSeqProperties
  <2>3. n - (mid + 1) + 1 = n - mid
    BY <1>1
  <2>4. Len(tail) = n - mid
    BY <1>1, <2>2
  <2>5. ASSUME NEW k \in 1..(n - mid) PROVE tail[k] = list[mid + k]
    <3>1. tail[k] = list[mid + 1 + k - 1]
      BY <2>2, <2>3
    <3>2. mid + 1 + k - 1 = mid + k
      BY <1>1
    <3>3. QED
      BY <3>1, <3>2
  <2>6. QED
    BY <2>2, <2>4, <2>5
<1>3. head \in Entry
  BY <1>1 DEF Entry
<1> HIDE DEF head, tail
<1>4. <<head>> \in Seq(Entry) /\ Len(<<head>>) = 1 /\ <<head>>[1] = head
  BY <1>3
<1>5. /\ new \in Seq(Entry) /\ Len(new) = 1 + (n - mid)
      /\ \A k \in 1..Len(new) : new[k] = IF k <= 1 THEN <<head>>[k] ELSE tail[k - 1]
  BY <1>1, <1>2, <1>4, ConcatProperties
<1>6. Edits(new) \subseteq Edits(list)
  <2> SUFFICES ASSUME NEW k \in 1..Len(new) PROVE new[k] \subseteq Edits(list)
    BY DEF Edits
  <2>1. CASE k = 1
    BY <1>1, <1>4, <1>5, <2>1 DEF Edits, head, n
  <2>2. CASE k > 1
    <3>1. k - 1 \in 1..(n - mid) /\ new[k] = list[mid + (k - 1)] /\ mid + (k - 1) \in 1..n
      BY <1>1, <1>2, <1>5, <2>2
    <3>2. QED
      BY <3>1 DEF Edits, n
  <2>3. QED
    BY <1>1, <1>5, <2>1, <2>2
<1>7. Edits(list) \subseteq Edits(new)
  <2> SUFFICES ASSUME NEW k \in 1..n PROVE list[k] \subseteq Edits(new)
    BY DEF Edits, n
  <2>1. CASE k <= mid
    <3>1. list[k] \subseteq head
      BY <1>1, <2>1 DEF head
    <3>2. new[1] = head /\ 1 \in 1..Len(new)
      BY <1>1, <1>4, <1>5
    <3>3. QED
      BY <3>1, <3>2 DEF Edits
  <2>2. CASE k > mid
    <3>1. (k - mid) \in 1..(n - mid) /\ (k - mid) + 1 \in 1..Len(new) /\ mid + (k - mid) = k
      BY <1>1, <1>5, <2>2
    <3>2. new[(k - mid) + 1] = list[k]
      BY <1>1, <1>2, <1>5, <2>2, <3>1
    <3>3. QED
      BY <3>1, <3>2 DEF Edits
  <2>3. QED
    BY <1>1, <2>1, <2>2
<1>8. Squash(list) = new
  BY DEF Squash, n, mid, head, tail
<1>9. QED
  BY <1>5, <1>6, <1>7, <1>8

-----------------------------------------------------------------------------
(* What the steps do to the store                                            *)

\* A push adds the edit, on either store and whether or not it compacts.
LEMMA Pushes ==
    ASSUME TypeOK, NEW e \in Edit, PushMemory(e) \/ PushRedis(e)
    PROVE  updates' \in Seq(Entry) /\ Stored' = Stored \cup {e}
<1> DEFINE appended == Append(updates, {e})
<1>1. updates \in Seq(Entry) /\ {e} \in Entry
  BY DEF TypeOK, Entry
<1>2. appended \in Seq(Entry) /\ Edits(appended) = Edits(updates) \cup {e}
  BY <1>1, EditsAppend
<1>3. Squash(appended) \in Seq(Entry) /\ Edits(Squash(appended)) = Edits(updates) \cup {e}
  BY <1>2, EditsSquash
<1>4. updates' \in {appended, Squash(appended)}
  BY DEF PushMemory, PushRedis
<1>5. QED
  BY <1>2, <1>3, <1>4 DEF Stored

\* A compaction stores the edits of the list it has read.
LEMMA Compacts ==
    ASSUME TypeOK, NEW e \in Edit, CompactWrite(e)
    PROVE  updates' \in Seq(Entry) /\ Stored' = Edits(copy[e])
BY EditsSquash DEF TypeOK, CompactWrite, Stored

\* A step that clears the document, or leaves the list alone.
LEMMA Clears ==
    /\ updates' = <<>> => updates' \in Seq(Entry) /\ Stored' = {}
    /\ updates' = updates => Stored' = Stored
<1>1. ASSUME updates' = <<>> PROVE updates' \in Seq(Entry) /\ Stored' = {}
  BY <1>1, EditsEmpty DEF Stored
<1>2. ASSUME updates' = updates PROVE Stored' = Stored
  BY <1>2 DEF Stored
<1>3. QED
  BY <1>1, <1>2

\* disconnect, with and without Redis.
LEMMA Disconnects ==
    ASSUME NEW s \in Session, DiscStart(s)
    PROVE  /\ s \in pool /\ out[s]["disc"] = "no" /\ "leave" \in May
           /\ "early" \in May \/ join[s] \in {"no", "joined"}
           /\ pool' = pool \ {s}
           /\ out' = [out EXCEPT ![s]["disc"] = IF Redis THEN "docs" ELSE "end"]
           /\ users' = IF Redis THEN users ELSE users \ {s}
           /\ \/ updates' = updates
              \/ updates' = <<>> /\ ~Redis /\ users' = {}
           /\ UNCHANGED <<index, online, room, know, join, upd, copy>>
<1>1. CASE Redis
  BY <1>1 DEF DiscStart, Move
<1>2. CASE ~Redis
  BY <1>2 DEF DiscStart, Move
<1>3. QED
  BY <1>1, <1>2

\* The edits of the store, and what every step does to the history.
LEMMA Frame ==
    ASSUME TypeOK, [Next]_vars
    PROVE  /\ mode' = mode /\ Redis' = Redis /\ May' = May
           /\ Stored \subseteq Edit
           /\ lost' = lost \cup (Stored \ Stored')
           /\ Stored \cup lost \subseteq Stored' \cup lost'
<1>1. mode' = mode
  BY DEF Next, vars
<1>2. Stored \subseteq Edit
  BY DEF TypeOK, Stored, Edits, Entry
<1>3. CASE Next
  BY <1>1, <1>2, <1>3 DEF Next, Redis, May
<1>4. CASE UNCHANGED vars
  BY <1>1, <1>2, <1>4, Clears DEF vars, store, Redis, May
<1>5. QED
  BY <1>3, <1>4

\* Lists hold sets of edits; sessions leave the pool before Socket.IO forgets them.
LEMMA TypeStep == IInv /\ [Next]_vars => TypeOK'
<1> SUFFICES ASSUME IInv, [Next]_vars PROVE TypeOK'
  OBVIOUS
<1> USE AuthorAssumption DEF IInv, TypeOK, Entry, Dropped, Exit, Casting
<1>0. mode' = mode /\ Redis' = Redis /\ May' = May /\ Stored \subseteq Edit
      /\ lost' = lost \cup (Stored \ Stored')
      /\ Stored \cup lost \subseteq Stored' \cup lost'
  BY Frame
<1>1. ASSUME NEW s \in Session, JoinStart(s) PROVE TypeOK'
  BY <1>0, <1>1, Clears DEF JoinStart, store, socket
<1>2. ASSUME NEW s \in Session, JoinMemory(s) PROVE TypeOK'
  BY <1>0, <1>2, Clears DEF JoinMemory, store, socket
<1>3. ASSUME NEW s \in Session, JoinAdd(s) PROVE TypeOK'
  BY <1>0, <1>3, Clears DEF JoinAdd, store, socket
<1>4. ASSUME NEW s \in Session, JoinIndex(s) PROVE TypeOK'
  BY <1>0, <1>4, Clears DEF JoinIndex, store, socket
<1>5. ASSUME NEW s \in Session, JoinRoom(s) PROVE TypeOK'
  BY <1>0, <1>5, Clears DEF JoinRoom, store, socket
<1>6. ASSUME NEW s \in Session, JoinLoad(s) PROVE TypeOK'
  BY <1>0, <1>6, Clears DEF JoinLoad, store, socket
<1>7. ASSUME NEW s \in Session, LeaveStart(s) PROVE TypeOK'
  BY <1>0, <1>7, Clears DEF LeaveStart, store, socket, Move, Exit
<1>8. ASSUME NEW s \in Session, LeaveIndex(s) PROVE TypeOK'
  BY <1>0, <1>8, Clears DEF LeaveIndex, store, socket, Move, Exit
<1>9. ASSUME NEW s \in Session, LeaveRoom(s) PROVE TypeOK'
  BY <1>0, <1>9, Clears DEF LeaveRoom, store, socket, Move, Exit
<1>10. ASSUME NEW s \in Session, LeaveExists(s) PROVE TypeOK'
  BY <1>0, <1>10, Clears DEF LeaveExists, store, socket, Move, Exit
<1>11. ASSUME NEW s \in Session, LeaveMemory(s) PROVE TypeOK'
  BY <1>0, <1>11, Clears DEF LeaveMemory, store, socket, Move, Exit
<1>12. ASSUME NEW s \in Session, Reap(s) PROVE TypeOK'
  BY <1>0, <1>12, Clears DEF Reap, store, socket
<1>13. ASSUME NEW s \in Session, DiscStart(s) PROVE TypeOK'
  <2>1. PICK pc \in {"docs", "end"} : out' = [out EXCEPT ![s]["disc"] = pc]
    BY <1>13, Disconnects
  <2>2. out' \in [Session -> [Exit -> {"no", "docs", "remove", "unindex", "unroom", "exists", "count",
                                       "clear", "clearUsers", "end", "done"}]]
    BY <2>1
  <2>3. updates' \in Seq(Entry) /\ users' \subseteq Session
    BY <1>13, Clears, Disconnects
  <2>4. QED
    BY <1>0, <1>13, <2>2, <2>3, Disconnects
<1>14. ASSUME NEW s \in Session, DiscUnknown(s) PROVE TypeOK'
  BY <1>0, <1>14, Clears DEF DiscUnknown, store, socket, Move, Exit
<1>15. ASSUME NEW s \in Session, DiscDocs(s) PROVE TypeOK'
  BY <1>0, <1>15, Clears DEF DiscDocs, store, socket, Move, Exit
<1>16. ASSUME NEW s \in Session, DiscRemove(s) PROVE TypeOK'
  BY <1>0, <1>16, Clears DEF DiscRemove, store, socket, Move, Exit
<1>17. ASSUME NEW s \in Session, DiscIndex(s) PROVE TypeOK'
  BY <1>0, <1>17, Clears DEF DiscIndex, store, socket, Move, Exit
<1>18. ASSUME NEW s \in Session, DiscEnd(s) PROVE TypeOK'
  BY <1>0, <1>18, Clears DEF DiscEnd, store, socket, Move, Exit
<1>19. ASSUME NEW s \in Session, NEW x \in Exit, Count(s, x) PROVE TypeOK'
  BY <1>0, <1>19, Clears DEF Count, store, socket, Move, Exit, After
<1>20. ASSUME NEW s \in Session, NEW x \in Exit, ClearUpdates(s, x) PROVE TypeOK'
  BY <1>0, <1>20, Clears DEF ClearUpdates, store, socket, Move, Exit, After
<1>21. ASSUME NEW s \in Session, NEW x \in Exit, ClearUsers(s, x) PROVE TypeOK'
  BY <1>0, <1>21, Clears DEF ClearUsers, store, socket, Move, Exit, After
<1>22. ASSUME NEW e \in Edit, Type(e) PROVE TypeOK'
  BY <1>0, <1>22, Clears DEF Type, store, socket
<1>23. ASSUME NEW e \in Edit, UpdateCheck(e) PROVE TypeOK'
  BY <1>0, <1>23, Clears DEF UpdateCheck, store, socket
<1>24. ASSUME NEW e \in Edit, PushMemory(e) PROVE TypeOK'
  BY <1>0, <1>24, Pushes DEF PushMemory, store, socket, Send
<1>25. ASSUME NEW e \in Edit, PushRedis(e) PROVE TypeOK'
  BY <1>0, <1>25, Pushes DEF PushRedis, store, socket
<1>26. ASSUME NEW e \in Edit, Length(e) PROVE TypeOK'
  BY <1>0, <1>26, Clears DEF Length, store, socket
<1>27. ASSUME NEW e \in Edit, CompactRead(e) PROVE TypeOK'
  BY <1>0, <1>27, Clears DEF CompactRead, store, socket
<1>28. ASSUME NEW e \in Edit, CompactWrite(e) PROVE TypeOK'
  <2>1. <<>> \in Seq(Entry)
    BY DEF Entry
  <2>2. QED
    BY <1>0, <1>28, <2>1, Compacts DEF CompactWrite, store, socket
<1>29. ASSUME NEW e \in Edit, Broadcast(e) PROVE TypeOK'
  BY <1>0, <1>29, Clears DEF Broadcast, store, socket, Send
<1>30. CASE UNCHANGED vars
  BY <1>0, <1>30, Clears DEF vars, store, socket
<1>31. QED
  BY <1>1, <1>2, <1>3, <1>4, <1>5, <1>6, <1>7, <1>8, <1>9, <1>10, <1>11, <1>12, <1>13, <1>14, <1>15, <1>16, <1>17, <1>18, <1>19, <1>20, <1>21, <1>22, <1>23, <1>24, <1>25, <1>26, <1>27, <1>28, <1>29, <1>30 DEF Next, Join, Leave, Disconnect, Clear, Update

\* Where handlers are.
LEMMA PlacesStep == IInv /\ [Next]_vars => (MemoryPlaces /\ Dropped /\ Entered /\ Typed)'
<1> SUFFICES ASSUME IInv, [Next]_vars PROVE (MemoryPlaces /\ Dropped /\ Entered /\ Typed)'
  OBVIOUS
<1> USE AuthorAssumption DEF IInv, TypeOK, Entry, MemoryPlaces, Dropped, Entered, Typed, Exit
<1>0. mode' = mode /\ Redis' = Redis /\ May' = May /\ Stored \subseteq Edit
      /\ lost' = lost \cup (Stored \ Stored')
      /\ Stored \cup lost \subseteq Stored' \cup lost'
  BY Frame
<1>1. ASSUME NEW s \in Session, JoinStart(s) PROVE (MemoryPlaces /\ Dropped /\ Entered /\ Typed)'
  BY <1>0, <1>1, Clears DEF JoinStart, store, socket
<1>2. ASSUME NEW s \in Session, JoinMemory(s) PROVE (MemoryPlaces /\ Dropped /\ Entered /\ Typed)'
  BY <1>0, <1>2, Clears DEF JoinMemory, store, socket
<1>3. ASSUME NEW s \in Session, JoinAdd(s) PROVE (MemoryPlaces /\ Dropped /\ Entered /\ Typed)'
  BY <1>0, <1>3, Clears DEF JoinAdd, store, socket
<1>4. ASSUME NEW s \in Session, JoinIndex(s) PROVE (MemoryPlaces /\ Dropped /\ Entered /\ Typed)'
  BY <1>0, <1>4, Clears DEF JoinIndex, store, socket
<1>5. ASSUME NEW s \in Session, JoinRoom(s) PROVE (MemoryPlaces /\ Dropped /\ Entered /\ Typed)'
  BY <1>0, <1>5, Clears DEF JoinRoom, store, socket
<1>6. ASSUME NEW s \in Session, JoinLoad(s) PROVE (MemoryPlaces /\ Dropped /\ Entered /\ Typed)'
  BY <1>0, <1>6, Clears DEF JoinLoad, store, socket
<1>7. ASSUME NEW s \in Session, LeaveStart(s) PROVE (MemoryPlaces /\ Dropped /\ Entered /\ Typed)'
  BY <1>0, <1>7, Clears DEF LeaveStart, store, socket, Move, Exit
<1>8. ASSUME NEW s \in Session, LeaveIndex(s) PROVE (MemoryPlaces /\ Dropped /\ Entered /\ Typed)'
  BY <1>0, <1>8, Clears DEF LeaveIndex, store, socket, Move, Exit
<1>9. ASSUME NEW s \in Session, LeaveRoom(s) PROVE (MemoryPlaces /\ Dropped /\ Entered /\ Typed)'
  BY <1>0, <1>9, Clears DEF LeaveRoom, store, socket, Move, Exit
<1>10. ASSUME NEW s \in Session, LeaveExists(s) PROVE (MemoryPlaces /\ Dropped /\ Entered /\ Typed)'
  BY <1>0, <1>10, Clears DEF LeaveExists, store, socket, Move, Exit
<1>11. ASSUME NEW s \in Session, LeaveMemory(s) PROVE (MemoryPlaces /\ Dropped /\ Entered /\ Typed)'
  BY <1>0, <1>11, Clears DEF LeaveMemory, store, socket, Move, Exit
<1>12. ASSUME NEW s \in Session, Reap(s) PROVE (MemoryPlaces /\ Dropped /\ Entered /\ Typed)'
  BY <1>0, <1>12, Clears DEF Reap, store, socket
<1>13. ASSUME NEW s \in Session, DiscStart(s) PROVE (MemoryPlaces /\ Dropped /\ Entered /\ Typed)'
  <2>1. pool' = pool \ {s} /\ UNCHANGED <<room, know, join, upd>>
    BY <1>13, Disconnects
  <2>2. PICK pc \in {"docs", "end"} : out' = [out EXCEPT ![s]["disc"] = pc] /\ (~Redis => pc = "end")
    BY <1>13, Disconnects
  <2>3. MemoryPlaces'
    BY <1>0, <2>1, <2>2
  <2>4. (Dropped /\ Entered /\ Typed)'
    BY <2>1, <2>2
  <2>5. QED
    BY <2>3, <2>4
<1>14. ASSUME NEW s \in Session, DiscUnknown(s) PROVE (MemoryPlaces /\ Dropped /\ Entered /\ Typed)'
  BY <1>0, <1>14, Clears DEF DiscUnknown, store, socket, Move, Exit
<1>15. ASSUME NEW s \in Session, DiscDocs(s) PROVE (MemoryPlaces /\ Dropped /\ Entered /\ Typed)'
  BY <1>0, <1>15, Clears DEF DiscDocs, store, socket, Move, Exit
<1>16. ASSUME NEW s \in Session, DiscRemove(s) PROVE (MemoryPlaces /\ Dropped /\ Entered /\ Typed)'
  BY <1>0, <1>16, Clears DEF DiscRemove, store, socket, Move, Exit
<1>17. ASSUME NEW s \in Session, DiscIndex(s) PROVE (MemoryPlaces /\ Dropped /\ Entered /\ Typed)'
  BY <1>0, <1>17, Clears DEF DiscIndex, store, socket, Move, Exit
<1>18. ASSUME NEW s \in Session, DiscEnd(s) PROVE (MemoryPlaces /\ Dropped /\ Entered /\ Typed)'
  BY <1>0, <1>18, Clears DEF DiscEnd, store, socket, Move, Exit
<1>19. ASSUME NEW s \in Session, NEW x \in Exit, Count(s, x) PROVE (MemoryPlaces /\ Dropped /\ Entered /\ Typed)'
  BY <1>0, <1>19, Clears DEF Count, store, socket, Move, Exit, After
<1>20. ASSUME NEW s \in Session, NEW x \in Exit, ClearUpdates(s, x) PROVE (MemoryPlaces /\ Dropped /\ Entered /\ Typed)'
  BY <1>0, <1>20, Clears DEF ClearUpdates, store, socket, Move, Exit, After
<1>21. ASSUME NEW s \in Session, NEW x \in Exit, ClearUsers(s, x) PROVE (MemoryPlaces /\ Dropped /\ Entered /\ Typed)'
  BY <1>0, <1>21, Clears DEF ClearUsers, store, socket, Move, Exit, After
<1>22. ASSUME NEW e \in Edit, Type(e) PROVE (MemoryPlaces /\ Dropped /\ Entered /\ Typed)'
  BY <1>0, <1>22, Clears DEF Type, store, socket
<1>23. ASSUME NEW e \in Edit, UpdateCheck(e) PROVE (MemoryPlaces /\ Dropped /\ Entered /\ Typed)'
  BY <1>0, <1>23, Clears DEF UpdateCheck, store, socket
<1>24. ASSUME NEW e \in Edit, PushMemory(e) PROVE (MemoryPlaces /\ Dropped /\ Entered /\ Typed)'
  BY <1>0, <1>24, Pushes DEF PushMemory, store, socket, Send
<1>25. ASSUME NEW e \in Edit, PushRedis(e) PROVE (MemoryPlaces /\ Dropped /\ Entered /\ Typed)'
  BY <1>0, <1>25, Pushes DEF PushRedis, store, socket
<1>26. ASSUME NEW e \in Edit, Length(e) PROVE (MemoryPlaces /\ Dropped /\ Entered /\ Typed)'
  BY <1>0, <1>26, Clears DEF Length, store, socket
<1>27. ASSUME NEW e \in Edit, CompactRead(e) PROVE (MemoryPlaces /\ Dropped /\ Entered /\ Typed)'
  BY <1>0, <1>27, Clears DEF CompactRead, store, socket
<1>28. ASSUME NEW e \in Edit, CompactWrite(e) PROVE (MemoryPlaces /\ Dropped /\ Entered /\ Typed)'
  BY <1>0, <1>28, Compacts DEF CompactWrite, store, socket
<1>29. ASSUME NEW e \in Edit, Broadcast(e) PROVE (MemoryPlaces /\ Dropped /\ Entered /\ Typed)'
  BY <1>0, <1>29, Clears DEF Broadcast, store, socket, Send
<1>30. CASE UNCHANGED vars
  BY <1>0, <1>30, Clears DEF vars, store, socket
<1>31. QED
  BY <1>1, <1>2, <1>3, <1>4, <1>5, <1>6, <1>7, <1>8, <1>9, <1>10, <1>11, <1>12, <1>13, <1>14, <1>15, <1>16, <1>17, <1>18, <1>19, <1>20, <1>21, <1>22, <1>23, <1>24, <1>25, <1>26, <1>27, <1>28, <1>29, <1>30 DEF Next, Join, Leave, Disconnect, Clear, Update

\* Sessions go as they came.
LEMMA OrderStep == IInv /\ [Next]_vars => Orderly'
<1> SUFFICES ASSUME IInv, [Next]_vars PROVE Orderly'
  OBVIOUS
<1> USE AuthorAssumption DEF IInv, TypeOK, Entry, Dropped, Entered, Typed, Orderly, Removed, Exit
<1>0. mode' = mode /\ Redis' = Redis /\ May' = May /\ Stored \subseteq Edit
      /\ lost' = lost \cup (Stored \ Stored')
      /\ Stored \cup lost \subseteq Stored' \cup lost'
  BY Frame
<1>1. ASSUME NEW s \in Session, JoinStart(s) PROVE Orderly'
  BY <1>0, <1>1, Clears DEF JoinStart, store, socket
<1>2. ASSUME NEW s \in Session, JoinMemory(s) PROVE Orderly'
  BY <1>0, <1>2, Clears DEF JoinMemory, store, socket
<1>3. ASSUME NEW s \in Session, JoinAdd(s) PROVE Orderly'
  BY <1>0, <1>3, Clears DEF JoinAdd, store, socket
<1>4. ASSUME NEW s \in Session, JoinIndex(s) PROVE Orderly'
  BY <1>0, <1>4, Clears DEF JoinIndex, store, socket
<1>5. ASSUME NEW s \in Session, JoinRoom(s) PROVE Orderly'
  BY <1>0, <1>5, Clears DEF JoinRoom, store, socket
<1>6. ASSUME NEW s \in Session, JoinLoad(s) PROVE Orderly'
  BY <1>0, <1>6, Clears DEF JoinLoad, store, socket
<1>7. ASSUME NEW s \in Session, LeaveStart(s) PROVE Orderly'
  BY <1>0, <1>7, Clears DEF LeaveStart, store, socket, Move, Exit
<1>8. ASSUME NEW s \in Session, LeaveIndex(s) PROVE Orderly'
  BY <1>0, <1>8, Clears DEF LeaveIndex, store, socket, Move, Exit
<1>9. ASSUME NEW s \in Session, LeaveRoom(s) PROVE Orderly'
  BY <1>0, <1>9, Clears DEF LeaveRoom, store, socket, Move, Exit
<1>10. ASSUME NEW s \in Session, LeaveExists(s) PROVE Orderly'
  BY <1>0, <1>10, Clears DEF LeaveExists, store, socket, Move, Exit
<1>11. ASSUME NEW s \in Session, LeaveMemory(s) PROVE Orderly'
  BY <1>0, <1>11, Clears DEF LeaveMemory, store, socket, Move, Exit
<1>12. ASSUME NEW s \in Session, Reap(s) PROVE Orderly'
  BY <1>0, <1>12, Clears DEF Reap, store, socket
<1>13. ASSUME NEW s \in Session, DiscStart(s) PROVE Orderly'
  BY <1>0, <1>13, Clears, Disconnects DEF socket, Exit
<1>14. ASSUME NEW s \in Session, DiscUnknown(s) PROVE Orderly'
  BY <1>0, <1>14, Clears DEF DiscUnknown, store, socket, Move, Exit
<1>15. ASSUME NEW s \in Session, DiscDocs(s) PROVE Orderly'
  <2>1. Redis
    BY <1>15 DEF DiscDocs, MemoryPlaces
  <2>2. QED
    BY <1>0, <1>15, <2>1, Clears DEF DiscDocs, store, socket, Move, Exit
<1>16. ASSUME NEW s \in Session, DiscRemove(s) PROVE Orderly'
  BY <1>0, <1>16, Clears DEF DiscRemove, store, socket, Move, Exit
<1>17. ASSUME NEW s \in Session, DiscIndex(s) PROVE Orderly'
  BY <1>0, <1>17, Clears DEF DiscIndex, store, socket, Move, Exit
<1>18. ASSUME NEW s \in Session, DiscEnd(s) PROVE Orderly'
  BY <1>0, <1>18, Clears DEF DiscEnd, store, socket, Move, Exit
<1>19. ASSUME NEW s \in Session, NEW x \in Exit, Count(s, x) PROVE Orderly'
  BY <1>0, <1>19, Clears DEF Count, store, socket, Move, Exit, After
<1>20. ASSUME NEW s \in Session, NEW x \in Exit, ClearUpdates(s, x) PROVE Orderly'
  BY <1>0, <1>20, Clears DEF ClearUpdates, store, socket, Move, Exit, After
<1>21. ASSUME NEW s \in Session, NEW x \in Exit, ClearUsers(s, x) PROVE Orderly'
  BY <1>0, <1>21, Clears DEF ClearUsers, store, socket, Move, Exit, After
<1>22. ASSUME NEW e \in Edit, Type(e) PROVE Orderly'
  BY <1>0, <1>22, Clears DEF Type, store, socket
<1>23. ASSUME NEW e \in Edit, UpdateCheck(e) PROVE Orderly'
  BY <1>0, <1>23, Clears DEF UpdateCheck, store, socket
<1>24. ASSUME NEW e \in Edit, PushMemory(e) PROVE Orderly'
  BY <1>0, <1>24, Pushes DEF PushMemory, store, socket, Send
<1>25. ASSUME NEW e \in Edit, PushRedis(e) PROVE Orderly'
  BY <1>0, <1>25, Pushes DEF PushRedis, store, socket
<1>26. ASSUME NEW e \in Edit, Length(e) PROVE Orderly'
  BY <1>0, <1>26, Clears DEF Length, store, socket
<1>27. ASSUME NEW e \in Edit, CompactRead(e) PROVE Orderly'
  BY <1>0, <1>27, Clears DEF CompactRead, store, socket
<1>28. ASSUME NEW e \in Edit, CompactWrite(e) PROVE Orderly'
  BY <1>0, <1>28, Compacts DEF CompactWrite, store, socket
<1>29. ASSUME NEW e \in Edit, Broadcast(e) PROVE Orderly'
  BY <1>0, <1>29, Clears DEF Broadcast, store, socket, Send
<1>30. CASE UNCHANGED vars
  BY <1>0, <1>30, Clears DEF vars, store, socket
<1> HIDE DEF IInv, TypeOK, Entry, Dropped, Entered, Typed, Orderly, Removed, Exit
<1>31. QED
  BY <1>1, <1>2, <1>3, <1>4, <1>5, <1>6, <1>7, <1>8, <1>9, <1>10, <1>11, <1>12, <1>13, <1>14, <1>15, <1>16, <1>17, <1>18, <1>19, <1>20, <1>21, <1>22, <1>23, <1>24, <1>25, <1>26, <1>27, <1>28, <1>29, <1>30 DEF Next, Join, Leave, Disconnect, Clear, Update

\* Edits come from their authors, through the store.
LEMMA KnownStep == IInv /\ [Next]_vars => (Pushed /\ Copied /\ Known /\ Rejected)'
<1> SUFFICES ASSUME IInv, [Next]_vars PROVE (Pushed /\ Copied /\ Known /\ Rejected)'
  OBVIOUS
<1> USE AuthorAssumption DEF IInv, TypeOK, Entry, Dropped, Typed, Pushed, Copied, Known, Rejected, Casting
<1>0. mode' = mode /\ Redis' = Redis /\ May' = May /\ Stored \subseteq Edit
      /\ lost' = lost \cup (Stored \ Stored')
      /\ Stored \cup lost \subseteq Stored' \cup lost'
  BY Frame
<1>1. ASSUME NEW s \in Session, JoinStart(s) PROVE (Pushed /\ Copied /\ Known /\ Rejected)'
  BY <1>0, <1>1, Clears DEF JoinStart, store, socket
<1>2. ASSUME NEW s \in Session, JoinMemory(s) PROVE (Pushed /\ Copied /\ Known /\ Rejected)'
  BY <1>0, <1>2, Clears DEF JoinMemory, store, socket
<1>3. ASSUME NEW s \in Session, JoinAdd(s) PROVE (Pushed /\ Copied /\ Known /\ Rejected)'
  BY <1>0, <1>3, Clears DEF JoinAdd, store, socket
<1>4. ASSUME NEW s \in Session, JoinIndex(s) PROVE (Pushed /\ Copied /\ Known /\ Rejected)'
  BY <1>0, <1>4, Clears DEF JoinIndex, store, socket
<1>5. ASSUME NEW s \in Session, JoinRoom(s) PROVE (Pushed /\ Copied /\ Known /\ Rejected)'
  BY <1>0, <1>5, Clears DEF JoinRoom, store, socket
<1>6. ASSUME NEW s \in Session, JoinLoad(s) PROVE (Pushed /\ Copied /\ Known /\ Rejected)'
  BY <1>0, <1>6, Clears DEF JoinLoad, store, socket
<1>7. ASSUME NEW s \in Session, LeaveStart(s) PROVE (Pushed /\ Copied /\ Known /\ Rejected)'
  BY <1>0, <1>7, Clears DEF LeaveStart, store, socket, Move, Exit
<1>8. ASSUME NEW s \in Session, LeaveIndex(s) PROVE (Pushed /\ Copied /\ Known /\ Rejected)'
  BY <1>0, <1>8, Clears DEF LeaveIndex, store, socket, Move, Exit
<1>9. ASSUME NEW s \in Session, LeaveRoom(s) PROVE (Pushed /\ Copied /\ Known /\ Rejected)'
  BY <1>0, <1>9, Clears DEF LeaveRoom, store, socket, Move, Exit
<1>10. ASSUME NEW s \in Session, LeaveExists(s) PROVE (Pushed /\ Copied /\ Known /\ Rejected)'
  BY <1>0, <1>10, Clears DEF LeaveExists, store, socket, Move, Exit
<1>11. ASSUME NEW s \in Session, LeaveMemory(s) PROVE (Pushed /\ Copied /\ Known /\ Rejected)'
  BY <1>0, <1>11, Clears DEF LeaveMemory, store, socket, Move, Exit
<1>12. ASSUME NEW s \in Session, Reap(s) PROVE (Pushed /\ Copied /\ Known /\ Rejected)'
  BY <1>0, <1>12, Clears DEF Reap, store, socket
<1>13. ASSUME NEW s \in Session, DiscStart(s) PROVE (Pushed /\ Copied /\ Known /\ Rejected)'
  BY <1>0, <1>13, Clears, Disconnects DEF socket, Exit
<1>14. ASSUME NEW s \in Session, DiscUnknown(s) PROVE (Pushed /\ Copied /\ Known /\ Rejected)'
  BY <1>0, <1>14, Clears DEF DiscUnknown, store, socket, Move, Exit
<1>15. ASSUME NEW s \in Session, DiscDocs(s) PROVE (Pushed /\ Copied /\ Known /\ Rejected)'
  BY <1>0, <1>15, Clears DEF DiscDocs, store, socket, Move, Exit
<1>16. ASSUME NEW s \in Session, DiscRemove(s) PROVE (Pushed /\ Copied /\ Known /\ Rejected)'
  BY <1>0, <1>16, Clears DEF DiscRemove, store, socket, Move, Exit
<1>17. ASSUME NEW s \in Session, DiscIndex(s) PROVE (Pushed /\ Copied /\ Known /\ Rejected)'
  BY <1>0, <1>17, Clears DEF DiscIndex, store, socket, Move, Exit
<1>18. ASSUME NEW s \in Session, DiscEnd(s) PROVE (Pushed /\ Copied /\ Known /\ Rejected)'
  BY <1>0, <1>18, Clears DEF DiscEnd, store, socket, Move, Exit
<1>19. ASSUME NEW s \in Session, NEW x \in Exit, Count(s, x) PROVE (Pushed /\ Copied /\ Known /\ Rejected)'
  BY <1>0, <1>19, Clears DEF Count, store, socket, Move, Exit, After
<1>20. ASSUME NEW s \in Session, NEW x \in Exit, ClearUpdates(s, x) PROVE (Pushed /\ Copied /\ Known /\ Rejected)'
  BY <1>0, <1>20, Clears DEF ClearUpdates, store, socket, Move, Exit, After
<1>21. ASSUME NEW s \in Session, NEW x \in Exit, ClearUsers(s, x) PROVE (Pushed /\ Copied /\ Known /\ Rejected)'
  BY <1>0, <1>21, Clears DEF ClearUsers, store, socket, Move, Exit, After
<1>22. ASSUME NEW e \in Edit, Type(e) PROVE (Pushed /\ Copied /\ Known /\ Rejected)'
  BY <1>0, <1>22, Clears DEF Type, store, socket
<1>23. ASSUME NEW e \in Edit, UpdateCheck(e) PROVE (Pushed /\ Copied /\ Known /\ Rejected)'
  BY <1>0, <1>23, Clears DEF UpdateCheck, store, socket
<1>24. ASSUME NEW e \in Edit, PushMemory(e) PROVE (Pushed /\ Copied /\ Known /\ Rejected)'
  <2>1. /\ Stored' = Stored \cup {e} /\ UNCHANGED <<room, pool, copy>> /\ upd[e] = "push"
        /\ upd' = [upd EXCEPT ![e] = "done"]
    BY <1>24, Pushes DEF PushMemory, socket
  <2>2. (Pushed /\ Copied /\ Rejected)'
    BY <1>0, <1>24, <2>1
  <2>3. Known'
    BY <1>0, <1>24, <2>1 DEF PushMemory, Send
  <2>4. QED
    BY <2>2, <2>3
<1>25. ASSUME NEW e \in Edit, PushRedis(e) PROVE (Pushed /\ Copied /\ Known /\ Rejected)'
  <2>1. /\ Stored' = Stored \cup {e} /\ UNCHANGED <<room, pool, copy>> /\ upd[e] = "push"
        /\ upd' = [upd EXCEPT ![e] = "length"]
    BY <1>25, Pushes DEF PushRedis, socket
  <2>2. (Pushed /\ Copied /\ Rejected)'
    BY <1>0, <1>25, <2>1
  <2>3. Known'
    BY <1>0, <1>25, <2>1 DEF PushRedis
  <2>4. QED
    BY <2>2, <2>3
<1>26. ASSUME NEW e \in Edit, Length(e) PROVE (Pushed /\ Copied /\ Known /\ Rejected)'
  BY <1>0, <1>26, Clears DEF Length, store, socket
<1>27. ASSUME NEW e \in Edit, CompactRead(e) PROVE (Pushed /\ Copied /\ Known /\ Rejected)'
  <2>1. updates' = updates /\ Stored' = Stored /\ UNCHANGED <<know, room, pool>>
    BY <1>27, Clears DEF CompactRead, store, socket
  <2>2. (Pushed /\ Known /\ Rejected)'
    BY <1>0, <1>27, <2>1 DEF CompactRead
  <2>3. Edits(copy'[e]) \subseteq Stored
    BY <1>27, EditsEmpty DEF CompactRead, Stored
  <2>4. \A f \in Edit \ {e} : copy'[f] = copy[f]
    BY <1>27 DEF CompactRead
  <2>5. Copied'
    BY <1>0, <2>3, <2>4
  <2>6. QED
    BY <2>2, <2>5
<1>28. ASSUME NEW e \in Edit, CompactWrite(e) PROVE (Pushed /\ Copied /\ Known /\ Rejected)'
  <2>1. UNCHANGED <<know, room, pool>>
    BY <1>28 DEF CompactWrite, socket
  <2>2. (Pushed /\ Known /\ Rejected)'
    BY <1>0, <1>28, <2>1 DEF CompactWrite
  <2>3. Edits(copy'[e]) = {}
    BY <1>28, EditsEmpty DEF CompactWrite
  <2>4. \A f \in Edit \ {e} : copy'[f] = copy[f]
    BY <1>28 DEF CompactWrite
  <2>5. Copied'
    BY <1>0, <2>3, <2>4
  <2>6. QED
    BY <2>2, <2>5
<1>29. ASSUME NEW e \in Edit, Broadcast(e) PROVE (Pushed /\ Copied /\ Known /\ Rejected)'
  BY <1>0, <1>29, Clears DEF Broadcast, store, socket, Send
<1>30. CASE UNCHANGED vars
  BY <1>0, <1>30, Clears DEF vars, store, socket
<1>31. QED
  BY <1>1, <1>2, <1>3, <1>4, <1>5, <1>6, <1>7, <1>8, <1>9, <1>10, <1>11, <1>12, <1>13, <1>14, <1>15, <1>16, <1>17, <1>18, <1>19, <1>20, <1>21, <1>22, <1>23, <1>24, <1>25, <1>26, <1>27, <1>28, <1>29, <1>30 DEF Next, Join, Leave, Disconnect, Clear, Update

\* An edit that stays in the store is told to every member.
LEMMA ToldStep == IInv /\ [Next]_vars => Told'
<1> SUFFICES ASSUME IInv, [Next]_vars PROVE Told'
  OBVIOUS
<1> USE AuthorAssumption DEF IInv, TypeOK, Entry, Entered, Pushed, Copied, Typed, Told, Casting
<1>0. mode' = mode /\ Redis' = Redis /\ May' = May /\ Stored \subseteq Edit
      /\ lost' = lost \cup (Stored \ Stored')
      /\ Stored \cup lost \subseteq Stored' \cup lost'
  BY Frame
<1>1. ASSUME NEW s \in Session, JoinStart(s) PROVE Told'
  BY <1>0, <1>1, Clears DEF JoinStart, store, socket
<1>2. ASSUME NEW s \in Session, JoinMemory(s) PROVE Told'
  BY <1>0, <1>2, Clears DEF JoinMemory, store, socket
<1>3. ASSUME NEW s \in Session, JoinAdd(s) PROVE Told'
  BY <1>0, <1>3, Clears DEF JoinAdd, store, socket
<1>4. ASSUME NEW s \in Session, JoinIndex(s) PROVE Told'
  BY <1>0, <1>4, Clears DEF JoinIndex, store, socket
<1>5. ASSUME NEW s \in Session, JoinRoom(s) PROVE Told'
  BY <1>0, <1>5, Clears DEF JoinRoom, store, socket
<1>6. ASSUME NEW s \in Session, JoinLoad(s) PROVE Told'
  BY <1>0, <1>6, Clears DEF JoinLoad, store, socket
<1>7. ASSUME NEW s \in Session, LeaveStart(s) PROVE Told'
  BY <1>0, <1>7, Clears DEF LeaveStart, store, socket, Move, Exit
<1>8. ASSUME NEW s \in Session, LeaveIndex(s) PROVE Told'
  BY <1>0, <1>8, Clears DEF LeaveIndex, store, socket, Move, Exit
<1>9. ASSUME NEW s \in Session, LeaveRoom(s) PROVE Told'
  BY <1>0, <1>9, Clears DEF LeaveRoom, store, socket, Move, Exit
<1>10. ASSUME NEW s \in Session, LeaveExists(s) PROVE Told'
  BY <1>0, <1>10, Clears DEF LeaveExists, store, socket, Move, Exit
<1>11. ASSUME NEW s \in Session, LeaveMemory(s) PROVE Told'
  BY <1>0, <1>11, Clears DEF LeaveMemory, store, socket, Move, Exit
<1>12. ASSUME NEW s \in Session, Reap(s) PROVE Told'
  BY <1>0, <1>12, Clears DEF Reap, store, socket
<1>13. ASSUME NEW s \in Session, DiscStart(s) PROVE Told'
  BY <1>0, <1>13, Clears, Disconnects DEF socket, Exit
<1>14. ASSUME NEW s \in Session, DiscUnknown(s) PROVE Told'
  BY <1>0, <1>14, Clears DEF DiscUnknown, store, socket, Move, Exit
<1>15. ASSUME NEW s \in Session, DiscDocs(s) PROVE Told'
  BY <1>0, <1>15, Clears DEF DiscDocs, store, socket, Move, Exit
<1>16. ASSUME NEW s \in Session, DiscRemove(s) PROVE Told'
  BY <1>0, <1>16, Clears DEF DiscRemove, store, socket, Move, Exit
<1>17. ASSUME NEW s \in Session, DiscIndex(s) PROVE Told'
  BY <1>0, <1>17, Clears DEF DiscIndex, store, socket, Move, Exit
<1>18. ASSUME NEW s \in Session, DiscEnd(s) PROVE Told'
  BY <1>0, <1>18, Clears DEF DiscEnd, store, socket, Move, Exit
<1>19. ASSUME NEW s \in Session, NEW x \in Exit, Count(s, x) PROVE Told'
  BY <1>0, <1>19, Clears DEF Count, store, socket, Move, Exit, After
<1>20. ASSUME NEW s \in Session, NEW x \in Exit, ClearUpdates(s, x) PROVE Told'
  BY <1>0, <1>20, Clears DEF ClearUpdates, store, socket, Move, Exit, After
<1>21. ASSUME NEW s \in Session, NEW x \in Exit, ClearUsers(s, x) PROVE Told'
  BY <1>0, <1>21, Clears DEF ClearUsers, store, socket, Move, Exit, After
<1>22. ASSUME NEW e \in Edit, Type(e) PROVE Told'
  BY <1>0, <1>22, Clears DEF Type, store, socket
<1>23. ASSUME NEW e \in Edit, UpdateCheck(e) PROVE Told'
  BY <1>0, <1>23, Clears DEF UpdateCheck, store, socket
<1>24. ASSUME NEW e \in Edit, PushMemory(e) PROVE Told'
  <2>1. /\ Stored' = Stored \cup {e} /\ upd[e] = "push" /\ UNCHANGED <<room, join>>
        /\ know' = [s \in Session |-> IF s \in room \ {Author[e]} THEN know[s] \cup {e} ELSE know[s]]
        /\ upd' = [upd EXCEPT ![e] = "done"]
    BY <1>24, Pushes DEF PushMemory, Send, socket
  <2>2. Casting \subseteq Casting' /\ e \in know[Author[e]]
    BY <1>24, <2>1
  <2>3. \A s \in room : e \in know'[s] /\ know[s] \subseteq know'[s]
    BY <2>1, <2>2
  <2>4. QED
    BY <1>0, <2>1, <2>2, <2>3
<1>25. ASSUME NEW e \in Edit, PushRedis(e) PROVE Told'
  <2>1. Stored' = Stored \cup {e} /\ upd[e] = "push" /\ UNCHANGED <<know, room, join>>
    BY <1>25, Pushes DEF PushRedis, socket
  <2>2. Casting \cup {e} \subseteq Casting'
    BY <1>25 DEF PushRedis
  <2>3. QED
    BY <1>0, <2>1, <2>2
<1>26. ASSUME NEW e \in Edit, Length(e) PROVE Told'
  BY <1>0, <1>26, Clears DEF Length, store, socket
<1>27. ASSUME NEW e \in Edit, CompactRead(e) PROVE Told'
  BY <1>0, <1>27, Clears DEF CompactRead, store, socket
<1>28. ASSUME NEW e \in Edit, CompactWrite(e) PROVE Told'
  <2>1. Stored' \ lost' \subseteq Stored \ lost
    BY <1>0, <1>28, Compacts
  <2>2. Casting \subseteq Casting' /\ UNCHANGED <<know, room, join>>
    BY <1>28 DEF CompactWrite, socket
  <2>3. QED
    BY <2>1, <2>2
<1>29. ASSUME NEW e \in Edit, Broadcast(e) PROVE Told'
  BY <1>0, <1>29, Clears DEF Broadcast, store, socket, Send
<1>30. CASE UNCHANGED vars
  BY <1>0, <1>30, Clears DEF vars, store, socket
<1>31. QED
  BY <1>1, <1>2, <1>3, <1>4, <1>5, <1>6, <1>7, <1>8, <1>9, <1>10, <1>11, <1>12, <1>13, <1>14, <1>15, <1>16, <1>17, <1>18, <1>19, <1>20, <1>21, <1>22, <1>23, <1>24, <1>25, <1>26, <1>27, <1>28, <1>29, <1>30 DEF Next, Join, Leave, Disconnect, Clear, Update

\* In memory, members see the stored document.
LEMMA MemberStep == IInv /\ [Next]_vars => (Unjoined /\ Members /\ MembersListed)'
<1> SUFFICES ASSUME IInv, [Next]_vars PROVE (Unjoined /\ Members /\ MembersListed)'
  OBVIOUS
<1> USE AuthorAssumption DEF IInv, TypeOK, Entry, MemoryPlaces, Dropped, Entered, Typed, Known, Unjoined, Members, MembersListed, Own, Exit
<1>0. mode' = mode /\ Redis' = Redis /\ May' = May /\ Stored \subseteq Edit
      /\ lost' = lost \cup (Stored \ Stored')
      /\ Stored \cup lost \subseteq Stored' \cup lost'
  BY Frame
<1>1. ASSUME NEW s \in Session, JoinStart(s) PROVE (Unjoined /\ Members /\ MembersListed)'
  BY <1>0, <1>1, Clears DEF JoinStart, store, socket
<1>2. ASSUME NEW s \in Session, JoinMemory(s) PROVE (Unjoined /\ Members /\ MembersListed)'
  BY <1>0, <1>2, Clears DEF JoinMemory, store, socket
<1>3. ASSUME NEW s \in Session, JoinAdd(s) PROVE (Unjoined /\ Members /\ MembersListed)'
  BY <1>0, <1>3, Clears DEF JoinAdd, store, socket
<1>4. ASSUME NEW s \in Session, JoinIndex(s) PROVE (Unjoined /\ Members /\ MembersListed)'
  BY <1>0, <1>4, Clears DEF JoinIndex, store, socket
<1>5. ASSUME NEW s \in Session, JoinRoom(s) PROVE (Unjoined /\ Members /\ MembersListed)'
  BY <1>0, <1>5, Clears DEF JoinRoom, store, socket
<1>6. ASSUME NEW s \in Session, JoinLoad(s) PROVE (Unjoined /\ Members /\ MembersListed)'
  BY <1>0, <1>6, Clears DEF JoinLoad, store, socket
<1>7. ASSUME NEW s \in Session, LeaveStart(s) PROVE (Unjoined /\ Members /\ MembersListed)'
  BY <1>0, <1>7, Clears DEF LeaveStart, store, socket, Move, Exit
<1>8. ASSUME NEW s \in Session, LeaveIndex(s) PROVE (Unjoined /\ Members /\ MembersListed)'
  BY <1>0, <1>8, Clears DEF LeaveIndex, store, socket, Move, Exit
<1>9. ASSUME NEW s \in Session, LeaveRoom(s) PROVE (Unjoined /\ Members /\ MembersListed)'
  BY <1>0, <1>9, Clears DEF LeaveRoom, store, socket, Move, Exit
<1>10. ASSUME NEW s \in Session, LeaveExists(s) PROVE (Unjoined /\ Members /\ MembersListed)'
  BY <1>0, <1>10, Clears DEF LeaveExists, store, socket, Move, Exit
<1>11. ASSUME NEW s \in Session, LeaveMemory(s) PROVE (Unjoined /\ Members /\ MembersListed)'
  BY <1>0, <1>11, Clears DEF LeaveMemory, store, socket, Move, Exit
<1>12. ASSUME NEW s \in Session, Reap(s) PROVE (Unjoined /\ Members /\ MembersListed)'
  BY <1>0, <1>12, Clears DEF Reap, store, socket
<1>13. ASSUME NEW s \in Session, DiscStart(s) PROVE (Unjoined /\ Members /\ MembersListed)'
  <2> SUFFICES ASSUME ~Redis PROVE (Unjoined /\ Members /\ MembersListed)'
    BY <1>0 DEF Unjoined, Members, MembersListed
  <2>1. pool' = pool \ {s} /\ users' = users \ {s} /\ UNCHANGED <<room, know, join, upd>>
    BY <1>13, Disconnects
  <2>2. Unjoined' /\ MembersListed'
    BY <1>0, <1>13, <2>1, Disconnects DEF Exit
  <2>3. CASE updates' = updates
    BY <1>0, <2>1, <2>2, <2>3, Clears
  <2>4. CASE users' = {}
    BY <1>0, <2>1, <2>2, <2>4
  <2>5. QED
    BY <1>13, <2>3, <2>4, Disconnects
<1>14. ASSUME NEW s \in Session, DiscUnknown(s) PROVE (Unjoined /\ Members /\ MembersListed)'
  BY <1>0, <1>14, Clears DEF DiscUnknown, store, socket, Move, Exit
<1>15. ASSUME NEW s \in Session, DiscDocs(s) PROVE (Unjoined /\ Members /\ MembersListed)'
  BY <1>0, <1>15, Clears DEF DiscDocs, store, socket, Move, Exit
<1>16. ASSUME NEW s \in Session, DiscRemove(s) PROVE (Unjoined /\ Members /\ MembersListed)'
  BY <1>0, <1>16, Clears DEF DiscRemove, store, socket, Move, Exit
<1>17. ASSUME NEW s \in Session, DiscIndex(s) PROVE (Unjoined /\ Members /\ MembersListed)'
  BY <1>0, <1>17, Clears DEF DiscIndex, store, socket, Move, Exit
<1>18. ASSUME NEW s \in Session, DiscEnd(s) PROVE (Unjoined /\ Members /\ MembersListed)'
  BY <1>0, <1>18, Clears DEF DiscEnd, store, socket, Move, Exit
<1>19. ASSUME NEW s \in Session, NEW x \in Exit, Count(s, x) PROVE (Unjoined /\ Members /\ MembersListed)'
  BY <1>0, <1>19, Clears DEF Count, store, socket, Move, Exit, After
<1>20. ASSUME NEW s \in Session, NEW x \in Exit, ClearUpdates(s, x) PROVE (Unjoined /\ Members /\ MembersListed)'
  BY <1>0, <1>20, Clears DEF ClearUpdates, store, socket, Move, Exit, After
<1>21. ASSUME NEW s \in Session, NEW x \in Exit, ClearUsers(s, x) PROVE (Unjoined /\ Members /\ MembersListed)'
  BY <1>0, <1>21, Clears DEF ClearUsers, store, socket, Move, Exit, After
<1>22. ASSUME NEW e \in Edit, Type(e) PROVE (Unjoined /\ Members /\ MembersListed)'
  BY <1>0, <1>22, Clears DEF Type, store, socket
<1>23. ASSUME NEW e \in Edit, UpdateCheck(e) PROVE (Unjoined /\ Members /\ MembersListed)'
  BY <1>0, <1>23, Clears DEF UpdateCheck, store, socket
<1>24. ASSUME NEW e \in Edit, PushMemory(e) PROVE (Unjoined /\ Members /\ MembersListed)'
  <2>1. /\ Stored' = Stored \cup {e} /\ upd[e] = "push" /\ ~Redis
        /\ know' = [s \in Session |-> IF s \in room \ {Author[e]} THEN know[s] \cup {e} ELSE know[s]]
        /\ upd' = [upd EXCEPT ![e] = "done"]
        /\ UNCHANGED <<users, room, pool, join, out>>
    BY <1>24, Pushes DEF PushMemory, Send, socket
  <2>2. Unjoined' /\ MembersListed'
    <3>1. Unjoined'
      BY <1>0, <2>1
    <3>2. MembersListed'
      BY <1>0, <2>1
    <3>3. QED
      BY <3>1, <3>2
  <2>3. ASSUME NEW s \in room \cap pool PROVE s \in users' /\ know'[s] = Stored' \cup Own(s)'
    <3>1. s \in users /\ know[s] = Stored \cup Own(s)
      BY <1>0, <2>1
    <3>2. CASE s = Author[e]
      <4>1. Own(s) = Own(s)' \cup {e}
        BY <1>24, <2>1, <3>2
      <4>2. QED
        BY <1>24, <2>1, <3>1, <3>2, <4>1
    <3>3. CASE s # Author[e]
      <4>1. Own(s)' = Own(s)
        BY <1>24, <2>1, <3>3
      <4>2. QED
        BY <1>24, <2>1, <3>1, <3>3, <4>1
    <3>4. QED
      BY <3>2, <3>3
  <2>4. QED
    BY <2>1, <2>2, <2>3
<1>25. ASSUME NEW e \in Edit, PushRedis(e) PROVE (Unjoined /\ Members /\ MembersListed)'
  BY <1>0, <1>25, Pushes DEF PushRedis, store, socket
<1>26. ASSUME NEW e \in Edit, Length(e) PROVE (Unjoined /\ Members /\ MembersListed)'
  BY <1>0, <1>26, Clears DEF Length, store, socket
<1>27. ASSUME NEW e \in Edit, CompactRead(e) PROVE (Unjoined /\ Members /\ MembersListed)'
  BY <1>0, <1>27, Clears DEF CompactRead, store, socket
<1>28. ASSUME NEW e \in Edit, CompactWrite(e) PROVE (Unjoined /\ Members /\ MembersListed)'
  BY <1>0, <1>28, Compacts DEF CompactWrite, store, socket
<1>29. ASSUME NEW e \in Edit, Broadcast(e) PROVE (Unjoined /\ Members /\ MembersListed)'
  BY <1>0, <1>29, Clears DEF Broadcast, store, socket, Send
<1>30. CASE UNCHANGED vars
  BY <1>0, <1>30, Clears DEF vars, store, socket
<1>31. QED
  BY <1>1, <1>2, <1>3, <1>4, <1>5, <1>6, <1>7, <1>8, <1>9, <1>10, <1>11, <1>12, <1>13, <1>14, <1>15, <1>16, <1>17, <1>18, <1>19, <1>20, <1>21, <1>22, <1>23, <1>24, <1>25, <1>26, <1>27, <1>28, <1>29, <1>30 DEF Next, Join, Leave, Disconnect, Clear, Update

-----------------------------------------------------------------------------
(* The invariant, and what follows from it                                   *)

\* Nobody has joined and nothing is stored.
LEMMA Initially == Init => IInv
<1> SUFFICES ASSUME Init PROVE IInv
  OBVIOUS
<1>1. Edits(<<>>) = {} /\ Stored = {} /\ <<>> \in Seq(Entry)
  BY EditsEmpty DEF Init, Stored
<1>2. TypeOK /\ MemoryPlaces
  BY <1>1, ModesAssumption DEF Init, TypeOK, MemoryPlaces, Entry, Exit
<1>3. Dropped /\ Entered /\ Typed /\ Rejected
  BY DEF Init, Dropped, Entered, Typed, Rejected, Exit
<1>4. Pushed /\ Copied /\ Known /\ Told
  BY <1>1 DEF Init, Pushed, Copied, Known, Told, Casting
<1>5. Unjoined /\ Members /\ MembersListed /\ Orderly
  BY <1>1 DEF Init, Unjoined, Members, MembersListed, Orderly, Removed, Exit
<1>6. QED
  BY <1>2, <1>3, <1>4, <1>5 DEF IInv

\* Every step of a join, an update, a compaction, a leave or a disconnect keeps
\* the inductive invariant.
THEOREM Invariant == Spec => []IInv
<1>1. IInv /\ [Next]_vars => IInv'
  BY TypeStep, PlacesStep, OrderStep, KnownStep, ToldStep, MemberStep DEF IInv
<1>2. QED
  BY <1>1, Initially, PTL DEF Spec

\* The state of the store, of the sessions and of their handlers is well formed.
THEOREM TypeCorrect == Spec => []TypeOK
<1>1. IInv => TypeOK
  BY DEF IInv
<1>2. QED
  BY <1>1, Invariant, PTL

\* Members of the document see one document once the handlers have settled,
\* and on the in-memory store the stored one, which the next session gets.
THEOREM OneDocument == Spec => []SameDocument
<1>1. IInv => Converged
  <2> SUFFICES ASSUME IInv, Quiet, NEW r \in room \cap pool, NEW s \in room \cap pool,
                      (know[r] \cup know[s]) \cap lost = {}, NEW e \in know[r]
               PROVE  e \in know[s]
    BY DEF Converged
  <2> USE DEF IInv, TypeOK, Entry, Quiet
  <2>1. join[s] = "joined" /\ Casting = {}
    <3>1. join[s] = "joined"
      BY DEF Entered
    <3>2. Casting = {}
      BY DEF Casting
    <3> QED
      BY <3>1, <3>2
  <2>2. e \in Edit /\ upd[e] \notin {"check", "push"} /\ e \notin lost
    BY DEF Known
  <2>3. upd[e] = "rejected" => Author[e] # r
    BY <2>2 DEF Rejected
  <2>4. e \in Stored
    BY <2>2, <2>3 DEF Known
  <2>5. QED
    BY <2>1, <2>2, <2>4 DEF Told
<1>2. IInv => MembersSeeStored
  <2> SUFFICES ASSUME IInv, ~Redis, Quiet, NEW s \in room \cap pool PROVE know[s] = Stored
    BY DEF MembersSeeStored
  <2>1. Own(s) = {}
    BY DEF Own, Quiet
  <2>2. QED
    BY <2>1 DEF IInv, Members
<1>3. QED
  BY <1>1, <1>2, Invariant, PTL DEF SameDocument

\* Whoever has entered the room of the in-memory store is among its users, and
\* nobody is who went after joining.
THEOREM Users == Spec => []UsersExact
<1>1. IInv => NoGhostUsers
  <2> SUFFICES ASSUME IInv, Quiet, May \subseteq {"leave"}, NEW s \in users PROVE s \in pool
    BY DEF NoGhostUsers
  <2>1. s \in Session /\ Removed(s) /\ out[s]["disc"] \in {"no", "done"}
    BY DEF IInv, TypeOK, Orderly, Quiet, Exit
  <2>2. QED
    BY <2>1 DEF Removed
<1>2. IInv => MembersListed
  BY DEF IInv
<1>3. QED
  BY <1>1, <1>2, Invariant, PTL DEF UsersExact

\* In memory only whoever finds no users clears the document.
LEMMA DropStep ==
    ASSUME IInv, [Next]_vars, ~Redis
    PROVE  Stored \subseteq Stored' \/ users' = {}
<1>1. CASE updates' = updates
  BY <1>1, Clears
<1>2. ASSUME NEW e \in Edit, PushMemory(e) PROVE Stored \subseteq Stored'
  BY <1>2, Pushes DEF IInv
<1>3. ASSUME NEW s \in Session, LeaveMemory(s), updates' # updates PROVE users' = {}
  BY <1>3 DEF LeaveMemory
<1>4. ASSUME NEW s \in Session, DiscStart(s), updates' # updates PROVE users' = {}
  BY <1>4, Disconnects
<1>5. ASSUME NEW e \in Edit, CompactWrite(e) PROVE FALSE
  BY <1>5 DEF CompactWrite, IInv, MemoryPlaces
<1>6. ASSUME NEW s \in Session, NEW x \in Exit, ClearUpdates(s, x) PROVE FALSE
  BY <1>6 DEF ClearUpdates, IInv, MemoryPlaces, Exit
<1>7. ASSUME NEW s \in Session, Join(s) PROVE updates' = updates
  BY <1>7 DEF Join, JoinStart, JoinMemory, JoinAdd, JoinIndex, JoinRoom, JoinLoad, store
<1>8. ASSUME NEW s \in Session, Leave(s), ~LeaveMemory(s) PROVE updates' = updates
  BY <1>8 DEF Leave, LeaveStart, LeaveIndex, LeaveRoom, LeaveExists, store
<1>9. ASSUME NEW s \in Session, Disconnect(s), ~DiscStart(s) PROVE updates' = updates
  BY <1>9 DEF Disconnect, Reap, DiscUnknown, DiscDocs, DiscRemove, DiscIndex, DiscEnd, store
<1>10. ASSUME NEW s \in Session, NEW x \in Exit, Clear(s, x), ~ClearUpdates(s, x) PROVE updates' = updates
  BY <1>10 DEF Clear, Count, ClearUsers, store
<1>11. ASSUME NEW e \in Edit, Update(e), ~PushMemory(e), ~CompactWrite(e) PROVE updates' = updates
  BY <1>11 DEF Update, Type, UpdateCheck, PushRedis, Length, CompactRead, Broadcast, store
<1>12. CASE UNCHANGED vars
  BY <1>12, Clears DEF vars, store
<1>13. QED
  BY <1>1, <1>2, <1>3, <1>4, <1>5, <1>6, <1>7, <1>8, <1>9, <1>10, <1>11, <1>12 DEF Next

\* A stored edit of the in-memory store disappears only with its last user.
THEOREM DropsOnlyWhenEmpty == Spec => DropOnlyWhenEmpty
<1>1. IInv /\ [Next]_vars => [~Redis => Stored \subseteq Stored' \/ users' = {}]_vars
  BY DropStep
<1>2. QED
  BY <1>1, Invariant, PTL DEF Spec, DropOnlyWhenEmpty

-----------------------------------------------------------------------------
(* The pools.                                                              *)

Section ==
    {Idle}
    \cup [op : {"heartbeat", "disc", "discRead"}, s : Sid]
    \cup [op : {"usage", "discWrite"}, s : Sid, view : SUBSET Sid]
    \cup [op : {"reap"}, todo : SUBSET Sid]
    \cup [op : {"reap", "reapDel"}, s : Sid, todo : SUBSET Sid]
    \cup [op : {"clean"}, view : SUBSET Sid, expired : SUBSET Sid]

PoolTyped ==
    /\ [running |-> running, host |-> host] \in Deployment
    /\ up \subseteq running
    /\ sock \in [Sid -> {"new", "open", "closing", "closed", "dropped"}]
    /\ sessionPool \in [Sid -> {"absent", "fresh", "stale"}]
    /\ usage \subseteq Sid
    /\ old \subseteq usage
    /\ sec \in [Instance -> Section]

\* Only a live instance is in the middle of something.
SectionsLive == \A i \in Instance : sec[i] # Idle => i \in up

\* Who sweeps the session pool holds its lock.
SweepHolds == \A i \in Instance : sec[i].op \in {"reap", "reapDel"} => slock = i

\* In a single process the usage that a handler has read is still there ...
ViewCurrent ==
    \A i \in Instance : sec[i].op \in {"usage", "discWrite", "clean"} => sec[i].view = usage

\* ... and its session has not been closed by another handler.
Handled ==
    \A i \in Instance : /\ sec[i].op = "usage" => sock[sec[i].s] \in {"open", "closing"}
                        /\ sec[i].op \in {"disc", "discRead", "discWrite"} => sock[sec[i].s] = "closing"

AloneInv ==
    Alone => /\ \A i \in Instance : sec[i].op = "reapDel" => sessionPool[sec[i].s] # "fresh"
             /\ ViewCurrent
             /\ Handled
             /\ \A s \in Sid : sock[s] = "closed" => s \notin usage

PoolIInv == PoolTyped /\ SectionsLive /\ SweepHolds /\ AloneInv

-----------------------------------------------------------------------------
(* Deployments and the single process                                      *)

LEMMA DeploymentFacts ==
    ASSUME PoolTyped
    PROVE  /\ IsFiniteSet(running) /\ up \subseteq Instance
           /\ host \in [Sid -> Instance \cup {Nobody}]
<1>1. running \subseteq Instance /\ host \in [Sid -> Instance \cup {Nobody}]
    BY DeploymentAssumption DEF PoolTyped
<1>2. IsFiniteSet(running)
    BY <1>1, FS_Subset, DeploymentAssumption
<1> QED
    BY <1>1, <1>2 DEF PoolTyped

\* A single process is in the middle of one thing at a time.
LEMMA OneSection ==
    ASSUME PoolTyped, SectionsLive, Alone, NEW i \in up
    PROVE  /\ up = {i}
           /\ \A j \in Instance : j # i => sec[j] = Idle
<1>1. PICK x : running = {x}
    BY DeploymentFacts, FS_Singleton DEF Alone
<1>2. up = {i}
    BY <1>1 DEF PoolTyped
<1> QED
    BY <1>2 DEF SectionsLive

-----------------------------------------------------------------------------
(* Types                                                                   *)

LEMMA TypedStep == PoolTyped /\ SectionsLive /\ [PoolNext]_poolVars => PoolTyped' /\ SectionsLive'
<1> SUFFICES ASSUME PoolTyped, SectionsLive, [PoolNext]_poolVars PROVE PoolTyped' /\ SectionsLive'
    OBVIOUS
<1>0. /\ up \subseteq Instance
      /\ \A s \in Sid : host[s] \in up => host[s] \in Instance
    BY DeploymentFacts
<1> USE <1>0 DEF PoolTyped, SectionsLive, Section, deployment, sockets, loops, locks, Free, Begin, EndSection, Idle
<1>1. ASSUME NEW s \in Sid, Connect(s) PROVE PoolTyped' /\ SectionsLive'
    BY <1>1 DEF Connect
<1>2. ASSUME NEW s \in Sid, JoinWrite(s) PROVE PoolTyped' /\ SectionsLive'
    BY <1>2 DEF JoinWrite
<1>3. ASSUME NEW s \in Sid, Heartbeat(s) PROVE PoolTyped' /\ SectionsLive'
    BY <1>3 DEF Heartbeat
<1>4. ASSUME NEW s \in Sid, Usage(s) PROVE PoolTyped' /\ SectionsLive'
    BY <1>4 DEF Usage
<1>5. ASSUME NEW s \in Sid, Close(s) PROVE PoolTyped' /\ SectionsLive'
    BY <1>5 DEF Close
<1>6. ASSUME NEW s \in Sid, DiscCheck(s) PROVE PoolTyped' /\ SectionsLive'
    BY <1>6 DEF DiscCheck
<1>7. ASSUME NEW s \in Sid, AgeSession(s) PROVE PoolTyped' /\ SectionsLive'
    BY <1>7 DEF AgeSession
<1>8. ASSUME NEW s \in Sid, AgeUsage(s) PROVE PoolTyped' /\ SectionsLive'
    BY <1>8 DEF AgeUsage
<1>9. ASSUME NEW i \in Instance, HeartbeatWrite(i) PROVE PoolTyped' /\ SectionsLive'
    BY <1>9 DEF HeartbeatWrite
<1>10. ASSUME NEW i \in Instance, UsageWrite(i) PROVE PoolTyped' /\ SectionsLive'
    BY <1>10 DEF UsageWrite
<1>11. ASSUME NEW i \in Instance, DiscDelete(i) PROVE PoolTyped' /\ SectionsLive'
    BY <1>11 DEF DiscDelete, Closed
<1>12. ASSUME NEW i \in Instance, DiscRead(i) PROVE PoolTyped' /\ SectionsLive'
    BY <1>12 DEF DiscRead, Closed
<1>13. ASSUME NEW i \in Instance, DiscWrite(i) PROVE PoolTyped' /\ SectionsLive'
    BY <1>13 DEF DiscWrite, Closed
<1>14. ASSUME NEW i \in Instance, ReapLook(i) PROVE PoolTyped' /\ SectionsLive'
    BY <1>14 DEF ReapLook
<1>15. ASSUME NEW i \in Instance, ReapDelete(i) PROVE PoolTyped' /\ SectionsLive'
    BY <1>15 DEF ReapDelete
<1>16. ASSUME NEW i \in Instance, CleanWrite(i) PROVE PoolTyped' /\ SectionsLive'
    BY <1>16 DEF CleanWrite
<1>17. ASSUME NEW i \in Instance, ReapAcquire(i) PROVE PoolTyped' /\ SectionsLive'
    BY <1>17 DEF ReapAcquire, Sweep
<1>18. ASSUME NEW i \in Instance, ReapWake(i) PROVE PoolTyped' /\ SectionsLive'
    BY <1>18 DEF ReapWake, Sweep
<1>19. ASSUME NEW i \in Instance, CleanAcquire(i) PROVE PoolTyped' /\ SectionsLive'
    BY <1>19 DEF CleanAcquire, Clean
<1>20. ASSUME NEW i \in Instance, CleanWake(i) PROVE PoolTyped' /\ SectionsLive'
    BY <1>20 DEF CleanWake, Clean
<1>21. ASSUME NEW i \in Instance, Crash(i) PROVE PoolTyped' /\ SectionsLive'
    BY <1>21 DEF Crash
<1>22. ASSUME ExpireSession PROVE PoolTyped' /\ SectionsLive'
    BY <1>22 DEF ExpireSession
<1>23. ASSUME ExpireUsage PROVE PoolTyped' /\ SectionsLive'
    BY <1>23 DEF ExpireUsage
<1>24. ASSUME UNCHANGED poolVars PROVE PoolTyped' /\ SectionsLive'
    BY <1>24 DEF poolVars
<1> QED
    BY <1>1, <1>2, <1>3, <1>4, <1>5, <1>6, <1>7, <1>8, <1>9, <1>10, <1>11, <1>12, <1>13, <1>14, <1>15, <1>16, <1>17, <1>18, <1>19, <1>20, <1>21, <1>22, <1>23, <1>24
       DEF PoolNext, SectionStep, ReaperStep, CleanerStep

-----------------------------------------------------------------------------
(* Sweeps                                                                  *)

LEMMA SweepStep == PoolTyped /\ SectionsLive /\ SweepHolds /\ [PoolNext]_poolVars => SweepHolds'
<1> SUFFICES ASSUME PoolTyped, SectionsLive, SweepHolds, [PoolNext]_poolVars PROVE SweepHolds'
    OBVIOUS
<1>0. /\ up \subseteq Instance /\ Nobody \notin Instance
      /\ \A s \in Sid : host[s] \in up => host[s] \in Instance
    BY DeploymentFacts, DeploymentAssumption
<1> USE <1>0 DEF PoolTyped, SectionsLive, SweepHolds, Section, deployment, sockets, loops, locks, Free, Begin, EndSection, Idle
<1>1. ASSUME NEW s \in Sid, Connect(s) PROVE SweepHolds'
    BY <1>1 DEF Connect
<1>2. ASSUME NEW s \in Sid, JoinWrite(s) PROVE SweepHolds'
    BY <1>2 DEF JoinWrite
<1>3. ASSUME NEW s \in Sid, Heartbeat(s) PROVE SweepHolds'
    BY <1>3 DEF Heartbeat
<1>4. ASSUME NEW s \in Sid, Usage(s) PROVE SweepHolds'
    BY <1>4 DEF Usage
<1>5. ASSUME NEW s \in Sid, Close(s) PROVE SweepHolds'
    BY <1>5 DEF Close
<1>6. ASSUME NEW s \in Sid, DiscCheck(s) PROVE SweepHolds'
    BY <1>6 DEF DiscCheck
<1>7. ASSUME NEW s \in Sid, AgeSession(s) PROVE SweepHolds'
    BY <1>7 DEF AgeSession
<1>8. ASSUME NEW s \in Sid, AgeUsage(s) PROVE SweepHolds'
    BY <1>8 DEF AgeUsage
<1>9. ASSUME NEW i \in Instance, HeartbeatWrite(i) PROVE SweepHolds'
    BY <1>9 DEF HeartbeatWrite
<1>10. ASSUME NEW i \in Instance, UsageWrite(i) PROVE SweepHolds'
    BY <1>10 DEF UsageWrite
<1>11. ASSUME NEW i \in Instance, DiscDelete(i) PROVE SweepHolds'
    BY <1>11 DEF DiscDelete, Closed
<1>12. ASSUME NEW i \in Instance, DiscRead(i) PROVE SweepHolds'
    BY <1>12 DEF DiscRead, Closed
<1>13. ASSUME NEW i \in Instance, DiscWrite(i) PROVE SweepHolds'
    BY <1>13 DEF DiscWrite, Closed
<1>14. ASSUME NEW i \in Instance, ReapLook(i) PROVE SweepHolds'
    BY <1>14 DEF ReapLook
<1>15. ASSUME NEW i \in Instance, ReapDelete(i) PROVE SweepHolds'
    BY <1>15 DEF ReapDelete
<1>16. ASSUME NEW i \in Instance, CleanWrite(i) PROVE SweepHolds'
    BY <1>16 DEF CleanWrite
<1>17. ASSUME NEW i \in Instance, ReapAcquire(i) PROVE SweepHolds'
    BY <1>17 DEF ReapAcquire, Sweep
<1>18. ASSUME NEW i \in Instance, ReapWake(i) PROVE SweepHolds'
    BY <1>18 DEF ReapWake, Sweep
<1>19. ASSUME NEW i \in Instance, CleanAcquire(i) PROVE SweepHolds'
    BY <1>19 DEF CleanAcquire, Clean
<1>20. ASSUME NEW i \in Instance, CleanWake(i) PROVE SweepHolds'
    BY <1>20 DEF CleanWake, Clean
<1>21. ASSUME NEW i \in Instance, Crash(i) PROVE SweepHolds'
    BY <1>21 DEF Crash
<1>22. ASSUME ExpireSession PROVE SweepHolds'
    BY <1>22 DEF ExpireSession
<1>23. ASSUME ExpireUsage PROVE SweepHolds'
    BY <1>23 DEF ExpireUsage
<1>24. ASSUME UNCHANGED poolVars PROVE SweepHolds'
    BY <1>24 DEF poolVars
<1> QED
    BY <1>1, <1>2, <1>3, <1>4, <1>5, <1>6, <1>7, <1>8, <1>9, <1>10, <1>11, <1>12, <1>13, <1>14, <1>15, <1>16, <1>17, <1>18, <1>19, <1>20, <1>21, <1>22, <1>23, <1>24
       DEF PoolNext, SectionStep, ReaperStep, CleanerStep

-----------------------------------------------------------------------------
(* The single process                                                      *)

LEMMA AloneStep == PoolTyped /\ SectionsLive /\ AloneInv /\ [PoolNext]_poolVars => AloneInv'
<1> SUFFICES ASSUME PoolTyped, SectionsLive, AloneInv, [PoolNext]_poolVars, Alone' PROVE AloneInv'
    BY DEF AloneInv
<1>a. running' = running
    BY DEF PoolNext, SectionStep, ReaperStep, CleanerStep, poolVars, deployment, sockets, loops, locks,
           Connect, JoinWrite, Heartbeat, Usage, Close, DiscCheck, AgeSession, AgeUsage,
           HeartbeatWrite, UsageWrite, DiscDelete, DiscRead, DiscWrite, ReapLook, ReapDelete, CleanWrite,
           ReapAcquire, ReapWake, CleanAcquire, CleanWake, Crash, ExpireSession, ExpireUsage
<1>b. Alone
    BY <1>a DEF Alone
<1>c. /\ up \subseteq Instance
      /\ \A s \in Sid : host[s] \in up => host[s] \in Instance
    BY DeploymentFacts
<1>d. \A i \in up : up = {i} /\ \A j \in Instance : j # i => sec[j] = Idle
    BY <1>b, OneSection
<1> USE <1>b, <1>c, <1>d DEF PoolTyped, SectionsLive, AloneInv, ViewCurrent, Handled,
                             Section, deployment, sockets, loops, locks, Free, Begin, EndSection, Idle
<1>1. ASSUME NEW s \in Sid, Connect(s) PROVE AloneInv'
    BY <1>1 DEF Connect
<1>2. ASSUME NEW s \in Sid, JoinWrite(s) PROVE AloneInv'
    BY <1>2 DEF JoinWrite
<1>3. ASSUME NEW s \in Sid, Heartbeat(s) PROVE AloneInv'
    BY <1>3 DEF Heartbeat
<1>4. ASSUME NEW s \in Sid, Usage(s) PROVE AloneInv'
    BY <1>4 DEF Usage
<1>5. ASSUME NEW s \in Sid, Close(s) PROVE AloneInv'
    BY <1>5 DEF Close
<1>6. ASSUME NEW s \in Sid, DiscCheck(s) PROVE AloneInv'
    BY <1>6 DEF DiscCheck
<1>7. ASSUME NEW s \in Sid, AgeSession(s) PROVE AloneInv'
    BY <1>7 DEF AgeSession
<1>8. ASSUME NEW s \in Sid, AgeUsage(s) PROVE AloneInv'
    BY <1>8 DEF AgeUsage
<1>9. ASSUME NEW i \in Instance, HeartbeatWrite(i) PROVE AloneInv'
    BY <1>9 DEF HeartbeatWrite
<1>10. ASSUME NEW i \in Instance, UsageWrite(i) PROVE AloneInv'
    BY <1>10 DEF UsageWrite
<1>11. ASSUME NEW i \in Instance, DiscDelete(i) PROVE AloneInv'
    BY <1>11 DEF DiscDelete, Closed
<1>12. ASSUME NEW i \in Instance, DiscRead(i) PROVE AloneInv'
    BY <1>12 DEF DiscRead, Closed
<1>13. ASSUME NEW i \in Instance, DiscWrite(i) PROVE AloneInv'
    BY <1>13 DEF DiscWrite, Closed
<1>14. ASSUME NEW i \in Instance, ReapLook(i) PROVE AloneInv'
    BY <1>14 DEF ReapLook
<1>15. ASSUME NEW i \in Instance, ReapDelete(i) PROVE AloneInv'
    BY <1>15 DEF ReapDelete
<1>16. ASSUME NEW i \in Instance, CleanWrite(i) PROVE AloneInv'
    BY <1>16 DEF CleanWrite
<1>17. ASSUME NEW i \in Instance, ReapAcquire(i) PROVE AloneInv'
    BY <1>17 DEF ReapAcquire, Sweep
<1>18. ASSUME NEW i \in Instance, ReapWake(i) PROVE AloneInv'
    BY <1>18 DEF ReapWake, Sweep
<1>19. ASSUME NEW i \in Instance, CleanAcquire(i) PROVE AloneInv'
    BY <1>19 DEF CleanAcquire, Clean
<1>20. ASSUME NEW i \in Instance, CleanWake(i) PROVE AloneInv'
    BY <1>20 DEF CleanWake, Clean
<1>21. ASSUME NEW i \in Instance, Crash(i) PROVE AloneInv'
    BY <1>21 DEF Crash
<1>22. ASSUME ExpireSession PROVE AloneInv'
    BY <1>22 DEF ExpireSession
<1>23. ASSUME ExpireUsage PROVE AloneInv'
    BY <1>23 DEF ExpireUsage
<1>24. ASSUME UNCHANGED poolVars PROVE AloneInv'
    BY <1>24 DEF poolVars
<1> QED
    BY <1>1, <1>2, <1>3, <1>4, <1>5, <1>6, <1>7, <1>8, <1>9, <1>10, <1>11, <1>12, <1>13, <1>14, <1>15, <1>16, <1>17, <1>18, <1>19, <1>20, <1>21, <1>22, <1>23, <1>24
       DEF PoolNext, SectionStep, ReaperStep, CleanerStep

-----------------------------------------------------------------------------
(* Theorems                                                                *)

LEMMA InitPoolIInv == PoolInit => PoolIInv
<1> SUFFICES ASSUME PoolInit PROVE PoolIInv
    OBVIOUS
<1>1. PoolTyped
    <2>1. PICK d \in Deployment : running = d.running /\ host = d.host
        BY DEF PoolInit
    <2>2. [running |-> running, host |-> host] \in Deployment
        BY <2>1, DeploymentAssumption
    <2> QED
        BY <2>2 DEF PoolInit, PoolTyped, Section, Idle
<1> QED
    BY <1>1 DEF PoolInit, PoolIInv, SectionsLive, SweepHolds, AloneInv, ViewCurrent, Handled, Idle

\* The invariant of all proofs below: it holds in every reachable state.
THEOREM Inductive == PoolSpec => []PoolIInv
<1>1. PoolIInv /\ [PoolNext]_poolVars => PoolIInv'
    BY TypedStep, SweepStep, AloneStep DEF PoolIInv
<1> QED
    BY InitPoolIInv, <1>1, PTL DEF PoolSpec

\* Whatever the deployment, two instances never sweep the session pool at once
\* (periodic_session_pool_cleanup under RedisLock); and a single process never
\* reaps a session whose heartbeat came in time.
THEOREM Sweeps == PoolSpec => []SweepsSound
<1>1. PoolIInv => SweepsSound
    BY DEF PoolIInv, SweepHolds, AloneInv, SweepsSound, SweepsExclusive, ReapedMissedHeartbeats
<1> QED
    BY Inductive, <1>1, PTL

\* In a single process, disconnect leaves no usage of a known session behind.
THEOREM DisconnectsClean == PoolSpec => []DisconnectCleans
<1>1. PoolIInv => DisconnectCleans
    BY DEF PoolIInv, AloneInv, DisconnectCleans
<1> QED
    BY Inductive, <1>1, PTL
=============================================================================
