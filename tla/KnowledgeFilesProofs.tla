------------------------ MODULE KnowledgeFilesProofs ------------------------
(***************************************************************************)
(* Safety of the files of knowledge bases, for any files, bases, texts and *)
(* requests, and any number of failing calls.                              *)
(*                                                                         *)
(* A linked file can be found at every moment (Searchable).  The handlers  *)
(* order their calls so that chunks are stored before the link, and go     *)
(* after it; new chunks are stored before the old ones go.  SearchInv says *)
(* so of the calls still to come: which calls a request can hold (Shape),  *)
(* that two requests with calls about one file have raced (Overlap), that  *)
(* a link goes before the chunks (UnlinkFirst), that chunks come before    *)
(* the link (StoreFirst), that an inserted chunk is there until the call   *)
(* ends (Stored), and where a propagation stands between its three calls   *)
(* (NewFirst).  A raise keeps it because it skips the rest of the block; a *)
(* write that is lost keeps it but for the removal of a link, after which  *)
(* the chunks go nevertheless: that link is in wiped.                      *)
(*                                                                         *)
(* A base holds a hash once (NoDuplicates): what the search for duplicates *)
(* did not find is still not there at the insertion, but for what a        *)
(* request that overlapped this one has brought (Rivalry).                 *)
(*                                                                         *)
(* Once no request is left, a base finds exactly its files' current texts  *)
(* (FoundIsCurrent).  CurrentInv says why, call by call: rows, files'      *)
(* collections and stores under way agree on the text (Texts); a chunk     *)
(* without a link has a call ahead that links or drops it (Strays, with    *)
(* Homed, Bare, Emptied and LastLinks for the handlers that leave no such  *)
(* call), one that was deleted to be stored anew has its store ahead       *)
(* (Filled, with Refill), and one with an older text has its propagation   *)
(* ahead (UpToDate, with Uploaded).                                        *)
(***************************************************************************)
EXTENDS KnowledgeFiles, FiniteSetTheorems, TLAPS

Todo(j) == job[j].todo
Same(u, t) == u.kb = t.kb /\ u.file = t.file
Linking == {"link", "attach"}

\* t goes with u when u raises.
Leads(u, t) == u.at[1] = t.at[1] /\ u.skips = t.at[1] /\ Before(u, t)

Kinds ==
    {{"store", "processing", "link", "attach"}, {"batch"}, {"hash", "link"},
     {"wipeFile", "store"}, {"wipe", "store"}, {"wipe", "unlinkAll"},
     {"store", "spread"}, {"old", "store", "dropOld"},
     {"unlink", "drop", "dropHash", "dropOwn", "dropRow"}}

CallOK(t) ==
    /\ t.at \in (Nat \ {0}) \X Nat /\ t.skips \in {0, t.at[1]}
    /\ t.kb \in Kb \cup {Nothing} /\ t.file \in File \cup {Nothing}
    /\ t.do \in UNION Kinds
    /\ t.file = Nothing <=> t.do \in {"wipe", "unlinkAll", "batch"}
    /\ t.kb = Nothing => t.do \in {"store", "spread", "dropRow", "dropOwn"}
    /\ t.do = "store" => IF t.kb = Nothing THEN t.text \in Text ELSE t.text = Nothing
    /\ t.do = "batch" => \A f \in DOMAIN t.text : f \in File /\ file[f].status # "absent"
    /\ t.do = "spread" => t.kb = Nothing
    /\ t.file # Nothing => file[t.file].status # "absent"

Status == {"absent", "deleted", "pending", "processing", "completed", "failed"}

HeldOK(held) ==
    \/ held = Free
    \/ /\ held = [stage |-> held.stage, text |-> held.text, docs |-> held.docs]
       /\ held.stage \in {"check", "insert", "finish"}

Typed ==
    /\ DOMAIN file = File
    /\ \A f \in File : /\ file[f] = [status |-> file[f].status, text |-> file[f].text, hash |-> file[f].hash]
                       /\ file[f].status \in Status
    /\ DOMAIN own = File
    /\ links \subseteq Kb \X File
    /\ \A l \in links : There(l[2])
    /\ stranded \subseteq Kb \X File
    /\ \A l \in stranded : file[l[2]].status = "deleted"
    /\ IsFiniteSet(vectors)
    /\ \A v \in vectors : v.kb \in Kb /\ v.file \in File /\ file[v.file].status # "absent"
    /\ faults \in Nat
    /\ job = [j \in Job |-> [todo |-> Todo(j), held |-> job[j].held, old |-> job[j].old]]
    /\ \A j \in Job : HeldOK(job[j].held) /\ \A t \in Todo(j) : CallOK(t)

-----------------------------------------------------------------------------
(* Sequences, places and chunks.                                           *)

\* The sequence of a finite set's members holds each of them, and nothing else.
LEMMA Listing ==
    ASSUME NEW S, IsFiniteSet(S)
    PROVE  /\ SetToSeq(S) \in Seq(S)
           /\ \A i \in DOMAIN SetToSeq(S) : SetToSeq(S)[i] \in S
           /\ Len(SetToSeq(S)) \in Nat
           /\ \A i \in DOMAIN SetToSeq(S) : i \in Nat \ {0} /\ i <= Len(SetToSeq(S))
           /\ \A x \in S : \E i \in DOMAIN SetToSeq(S) : SetToSeq(S)[i] = x
           /\ S # {} => 1 \in DOMAIN SetToSeq(S)
<1> DEFINE n == Cardinality(S)
<1>1. n \in Nat /\ ExistsBijection(1..n, S)
  BY FS_CardinalityType
<1>2. \E f \in [1..n -> S] : IsInjective(f)
  BY <1>1 DEF ExistsBijection, Bijection, Injection, IsInjective
<1>3. SetToSeq(S) \in [1..n -> S] /\ IsInjective(SetToSeq(S))
  BY <1>2 DEF SetToSeq
<1>4. SetToSeq(S) \in Surjection(1..n, S)
  <2>1. SetToSeq(S) \in Injection(1..n, S)
    BY <1>3 DEF Injection, IsInjective
  <2>2. IsFiniteSet(1..n) /\ Cardinality(1..n) = n
    BY <1>1, FS_Interval
  <2>. QED
    BY <2>1, <2>2, FS_Injection
<1>5. SetToSeq(S) \in Seq(S) /\ Len(SetToSeq(S)) = n
  BY <1>1, <1>3
<1>6. S # {} => n # 0
  BY FS_EmptySet
<1>. HIDE DEF n
<1>. QED
  BY <1>1, <1>3, <1>4, <1>5, <1>6 DEF Surjection

\* A new chunk's identifier is not in use.
LEMMA NewIds == ASSUME Typed, File # {} PROVE NewId(1) \notin {v.id : v \in vectors}
<1> DEFINE ids == {v.id : v \in vectors}
           n == Cardinality(vectors) + Cardinality(File)
<1>1. IsFiniteSet(vectors) /\ IsFiniteSet(File)
  BY FiniteAssumption DEF Typed
<1>2. IsFiniteSet(ids) /\ Cardinality(ids) <= Cardinality(vectors)
  <2>1. [v \in vectors |-> v.id] \in Surjection(vectors, ids)
    BY DEF Surjection
  <2>. QED
    BY <1>1, <2>1, FS_Surjection
<1>3. /\ Cardinality(vectors) \in Nat /\ Cardinality(File) \in Nat /\ Cardinality(File) # 0
      /\ Cardinality(ids) \in Nat
  BY <1>1, <1>2, FS_CardinalityType, FS_EmptySet
<1>4. IsFiniteSet(1..n) /\ Cardinality(1..n) = n
  <2>1. n \in Int /\ n >= 1 /\ 1 \in Int
    BY <1>3
  <2>. HIDE DEF n
  <2>. QED
    BY <2>1, FS_Interval
<1>5. ~(1..n \subseteq ids)
  <2>1. 1..n \subseteq ids => Cardinality(1..n) <= Cardinality(ids)
    BY <1>2, FS_Subset
  <2>. QED
    BY <1>2, <1>3, <1>4, <2>1
<1>6. Unused = (1..n) \ ids /\ Unused # {} /\ IsFiniteSet(Unused)
  BY <1>4, <1>5, FS_Subset DEF Unused
<1>7. SetToSeq(Unused)[1] \in Unused
  BY <1>6, Listing
<1>. QED
  BY <1>6, <1>7 DEF NewId

\* Places are ordered: no call is before itself or before one that is before it.
LEMMA Places ==
    ASSUME NEW s, NEW t, NEW u, CallOK(s), CallOK(t), CallOK(u)
    PROVE  /\ s.at[1] \in Nat \ {0} /\ s.at[2] \in Nat
           /\ ~Before(s, s)
           /\ Before(s, t) => ~Before(t, s) /\ s.at[1] <= t.at[1] /\ s # t
           /\ Before(s, t) /\ Before(t, u) => Before(s, u)
<1>. s.at[1] \in Nat \ {0} /\ s.at[2] \in Nat /\ t.at[1] \in Nat /\ t.at[2] \in Nat /\ u.at[1] \in Nat /\ u.at[2] \in Nat
  BY DEF CallOK
<1>. QED
  BY DEF Before

-----------------------------------------------------------------------------
(* What a call does to its request.                                        *)

\* A turn changes the calls of its own request and lets go of what the request held.
LEMMA Turns ==
    ASSUME Typed, NEW j \in Job, NEW STATE todo, Turn(j, todo)
    PROVE  /\ job' = [i \in Job |-> [todo |-> Todo(i)', held |-> job'[i].held, old |-> job'[i].old]]
           /\ \A i \in Job \ {j} : job'[i] = job[i]
           /\ Todo(j)' = todo /\ job'[j].held = Free /\ job'[j].old = job[j].old
<1>1. job = [i \in Job |-> [todo |-> Todo(i), held |-> job[i].held, old |-> job[i].old]]
  BY DEF Typed
<1>2. job' = [i \in Job |-> IF i = j THEN [todo |-> todo, held |-> Free, old |-> job[j].old] ELSE job[i]]
  BY <1>1 DEF Turn
<1>3. \A i \in Job \ {j} : job'[i] = job[i]
  BY <1>2
<1>4. job'[j] = [todo |-> todo, held |-> Free, old |-> job[j].old]
  BY <1>2
<1>5. \A i \in Job : job'[i] = [todo |-> Todo(i)', held |-> job'[i].held, old |-> job'[i].old]
  BY <1>1, <1>3, <1>4 DEF Todo
<1>. QED
  BY <1>2, <1>3, <1>4, <1>5 DEF Todo

\* A store's stage changes only what its own request holds.
LEMMA Holds ==
    ASSUME Typed, NEW j \in Job, NEW STATE held, Hold(j, held)
    PROVE  /\ job' = [i \in Job |-> [todo |-> Todo(i)', held |-> job'[i].held, old |-> job'[i].old]]
           /\ \A i \in Job \ {j} : job'[i] = job[i]
           /\ Todo(j)' = Todo(j) /\ job'[j].held = held /\ job'[j].old = job[j].old
<1>1. job = [i \in Job |-> [todo |-> Todo(i), held |-> job[i].held, old |-> job[i].old]]
  BY DEF Typed
<1>2. job' = [i \in Job |-> IF i = j THEN [todo |-> Todo(j), held |-> held, old |-> job[j].old] ELSE job[i]]
  BY <1>1 DEF Hold
<1>. QED
  BY <1>1, <1>2 DEF Todo

\* A write that is lost: its request goes on.
Lost(j, s) == Unwritten(j, s) /\ s.do # "dropRow"

\* A call that returns.
Act(j, s) ==
    \/ Load(j, s) \/ Check(j, s) \/ Insert(j, s) \/ Finish(j, s)
    \/ Processing(j, s) \/ Link(j, s) \/ Unlink(j, s) \/ UnlinkAll(j, s) \/ Hash(j, s) \/ DropRow(j, s)
    \/ Spread(j, s) \/ BatchInsert(j, s) \/ Drop(j, s) \/ DropHash(j, s) \/ Wipe(j, s)
    \/ DropOwn(j, s) \/ Old(j, s) \/ DropOld(j, s) \/ Lost(j, s)

\* The row of a file is not deleted.
Undeleted(j, s) == Unwritten(j, s) /\ s.do = "dropRow"

\* A call that raises.
Raise(j, s) == Missing(j, s) \/ Duplicate(j, s) \/ StoreFails(j, s) \/ VectorFails(j, s) \/ Undeleted(j, s)

\* Every step is a call that returns or one that raises.
LEMMA Acts == ASSUME NEW j \in Job, Step(j) \/ Fails(j) \/ Loses(j)
              PROVE  \E s \in First(j) : Act(j, s) \/ Raise(j, s)
  BY DEF Step, Fails, Loses, Act, Raise, Lost, Undeleted

\* Which calls change what.
LEMMA Changes ==
    ASSUME NEW j \in Job, NEW s \in First(j), Act(j, s)
    PROVE  /\ file' = file \/ Check(j, s) \/ Finish(j, s) \/ Processing(j, s) \/ Link(j, s) \/ Hash(j, s) \/ DropRow(j, s)
              \/ (Lost(j, s) /\ s.do = "attach")
           /\ own' = own \/ Load(j, s) \/ Insert(j, s) \/ DropOwn(j, s)
           /\ links' = links \/ Link(j, s) \/ Unlink(j, s) \/ UnlinkAll(j, s) \/ DropRow(j, s)
           /\ \/ vectors' = vectors
              \/ Insert(j, s) \/ BatchInsert(j, s) \/ Drop(j, s) \/ DropHash(j, s) \/ Wipe(j, s) \/ DropOld(j, s)
           /\ wiped' = wiped \/ Insert(j, s) \/ Wipe(j, s) \/ (Lost(j, s) /\ s.do = "unlink")
           /\ spilled' = spilled \/ DropHash(j, s)
           /\ stranded' = stranded \/ DropRow(j, s)
           /\ raced' = raced /\ unfinished \subseteq unfinished' /\ (faults' = faults \/ faults' = faults + 1)
           /\ \/ s.do # "store" /\ Turn(j, Rest(j, s))
              \/ Finish(j, s) \/ Load(j, s) \/ Check(j, s) \/ Insert(j, s)
              \/ Spread(j, s) \/ BatchInsert(j, s) \/ Old(j, s)
<1>1. ASSUME Load(j, s) \/ Check(j, s) \/ Insert(j, s) \/ Finish(j, s)
      PROVE  /\ links' = links /\ spilled' = spilled /\ stranded' = stranded
             /\ raced' = raced /\ unfinished \subseteq unfinished' /\ (faults' = faults \/ faults' = faults + 1)
             /\ Insert(j, s) \/ (vectors' = vectors /\ wiped' = wiped)
             /\ Load(j, s) \/ Insert(j, s) \/ own' = own
             /\ Check(j, s) \/ Finish(j, s) \/ file' = file
  BY <1>1 DEF Load, Check, Insert, Finish, history
<1>2. ASSUME NEW do, Returns(j, s, do), do # "store"
      PROVE  /\ raced' = raced /\ unfinished \subseteq unfinished' /\ faults' = faults
             /\ s.do # "store" /\ Turn(j, Rest(j, s))
  BY <1>2 DEF Returns
<1>3. CASE Processing(j, s)
  BY <1>2, <1>3 DEF Processing
<1>4. CASE Link(j, s)
  BY <1>2, <1>4 DEF Link
<1>5. CASE Unlink(j, s)
  BY <1>2, <1>5 DEF Unlink
<1>6. CASE UnlinkAll(j, s)
  BY <1>2, <1>6 DEF UnlinkAll
<1>7. CASE Hash(j, s)
  BY <1>2, <1>7 DEF Hash
<1>8. CASE DropRow(j, s)
  BY <1>2, <1>8 DEF DropRow
<1>9. CASE Spread(j, s)
  BY <1>9 DEF Spread, history
<1>10. CASE BatchInsert(j, s)
  BY <1>10 DEF BatchInsert, history
<1>11. CASE Drop(j, s)
  BY <1>2, <1>11 DEF Drop
<1>12. CASE DropHash(j, s)
  BY <1>2, <1>12 DEF DropHash
<1>13. CASE Wipe(j, s)
  BY <1>2, <1>13 DEF Wipe
<1>14. CASE DropOwn(j, s)
  BY <1>2, <1>14 DEF DropOwn
<1>15. CASE Old(j, s)
  BY <1>15 DEF Old, history
<1>16. CASE DropOld(j, s)
  BY <1>2, <1>16 DEF DropOld
<1>17. CASE Lost(j, s)
  BY <1>17 DEF Lost, Unwritten
<1>. QED
  BY <1>1, <1>3, <1>4, <1>5, <1>6, <1>7, <1>8, <1>9, <1>10, <1>11, <1>12, <1>13, <1>14, <1>15, <1>16, <1>17 DEF Act

\* The call that a request is in comes before its others.
LEMMA Firsts == ASSUME Typed, NEW j \in Job, NEW s \in First(j)
                PROVE  /\ s \in Todo(j) /\ CallOK(s)
                       /\ \A t \in Todo(j) : CallOK(t) /\ (t # s => Before(s, t)) /\ ~Before(t, s)
<1>1. s \in Todo(j) /\ \A t \in Todo(j) \ {s} : Before(s, t)
  BY DEF First, Todo
<1>2. \A t \in Todo(j) : CallOK(t)
  BY DEF Typed
<1>. QED
  BY <1>1, <1>2, Places

\* The call stays until its chunk is in, or it is done.
LEMMA Progress ==
    ASSUME Typed, NEW j \in Job, NEW s \in First(j), Act(j, s)
    PROVE  /\ job' = [i \in Job |-> [todo |-> Todo(i)', held |-> job'[i].held, old |-> job'[i].old]]
           /\ \A i \in Job \ {j} : job'[i] = job[i] /\ Todo(i)' = Todo(i)
           /\ \/ /\ s.do = "store" /\ job[j].held.stage # "finish"
                 /\ Todo(j)' = Todo(j) /\ job'[j].old = job[j].old
                 /\ Load(j, s) \/ Check(j, s) \/ Insert(j, s)
              \/ /\ Todo(j)' = Todo(j) \ {s} /\ job'[j].held = Free
                 /\ s.do \notin {"spread", "batch"}
                 /\ s.do = "store" => Finish(j, s)
                 /\ job'[j].old = IF s.do = "old" THEN Chunks(s.kb, s.file) ELSE job[j].old
              \/ Spread(j, s) /\ job'[j].held = Free /\ job'[j].old = job[j].old
              \/ BatchInsert(j, s) /\ job'[j].held = Free /\ job'[j].old = job[j].old
<1>1. CASE Load(j, s) \/ Check(j, s) \/ Insert(j, s)
  <2>1. \E held : Hold(j, held)
    BY <1>1 DEF Load, Check, Insert
  <2>2. s.do = "store" /\ job[j].held.stage # "finish"
    BY <1>1 DEF Load, Check, Insert, Storing
  <2>. QED
    BY <1>1, <2>1, <2>2, Holds DEF Todo
<1>2. CASE Turn(j, Rest(j, s)) /\ (s.do = "store" => Finish(j, s)) /\ s.do \notin {"spread", "batch", "old"}
  <2>1. Turn(j, Todo(j) \ {s})
    BY <1>2 DEF Rest, Todo
  <2>. QED
    BY <1>2, <2>1, Turns DEF Todo
<1>3. CASE Old(j, s)
  <2>1. job = [i \in Job |-> [todo |-> Todo(i), held |-> job[i].held, old |-> job[i].old]]
    BY DEF Typed
  <2>2. /\ s.do = "old"
        /\ job' = [i \in Job |-> IF i = j THEN [todo |-> Rest(j, s), held |-> Free, old |-> Chunks(s.kb, s.file)] ELSE job[i]]
    BY <1>3, <2>1 DEF Old
  <2>3. /\ \A i \in Job \ {j} : job'[i] = job[i]
        /\ job'[j] = [todo |-> Rest(j, s), held |-> Free, old |-> Chunks(s.kb, s.file)]
    BY <2>2
  <2>4. \A i \in Job : job'[i] = [todo |-> Todo(i)', held |-> job'[i].held, old |-> job'[i].old]
    BY <2>1, <2>3 DEF Todo
  <2>. QED
    BY <2>2, <2>3, <2>4 DEF Todo, Rest
<1>4. CASE Spread(j, s) \/ BatchInsert(j, s)
  <2>1. \E todo : Turn(j, todo)
    BY <1>4 DEF Spread, BatchInsert
  <2>. QED
    BY <1>4, <2>1, Turns DEF Todo
<1>5. Load(j, s) \/ Check(j, s) \/ Insert(j, s) \/ Old(j, s) \/ Spread(j, s) \/ BatchInsert(j, s)
      \/ (Turn(j, Rest(j, s)) /\ (s.do = "store" => Finish(j, s)) /\ s.do \notin {"spread", "batch", "old"})
  <2>1. CASE Finish(j, s)
    BY <2>1 DEF Finish, Storing
  <2>2. ASSUME NEW do, Returns(j, s, do), do \notin {"spread", "batch", "old", "store"}
        PROVE  Turn(j, Rest(j, s)) /\ s.do \notin {"spread", "batch", "old", "store"}
    BY <2>2 DEF Returns
  <2>3. CASE Processing(j, s) \/ Link(j, s) \/ Unlink(j, s) \/ UnlinkAll(j, s) \/ Hash(j, s) \/ DropRow(j, s)
    BY <2>2, <2>3 DEF Processing, Link, Unlink, UnlinkAll, Hash, DropRow
  <2>4. CASE Drop(j, s) \/ DropHash(j, s) \/ Wipe(j, s) \/ DropOwn(j, s) \/ DropOld(j, s)
    BY <2>2, <2>4 DEF Drop, DropHash, Wipe, DropOwn, DropOld
  <2>5. CASE Lost(j, s)
    BY <2>5 DEF Lost, Unwritten
  <2>. QED
    BY <2>1, <2>3, <2>4, <2>5 DEF Act
<1>. QED
  BY <1>1, <1>2, <1>3, <1>4, <1>5

\* A call that raises does not delete a row.
LEMMA NotDropped == ASSUME Typed, NEW j \in Job, NEW s \in First(j), Raise(j, s) PROVE ~DropRow(j, s)
<1>1. CASE Undeleted(j, s)
  <2>1. faults' # faults
    BY <1>1 DEF Undeleted, Unwritten, Typed
  <2>. QED
    BY <2>1 DEF DropRow, Returns
<1>2. CASE ~Undeleted(j, s)
  BY <1>2 DEF Raise, Missing, Duplicate, StoreFails, VectorFails, Storing, DropRow, Returns
<1>. QED
  BY <1>1, <1>2

\* A deleted file stays deleted, and a text changes where it is committed.
LEMMA FileEffect ==
    ASSUME Typed, NEW j \in Job, NEW s \in First(j), Act(j, s) \/ Raise(j, s)
    PROVE  /\ DOMAIN file' = File
           /\ \A f \in File :
                /\ file'[f] = [status |-> file'[f].status, text |-> file'[f].text, hash |-> file'[f].hash]
                /\ file'[f].status \in Status
                /\ file'[f].status = "absent" <=> file[f].status = "absent"
                /\ file[f].status = "deleted" => file'[f].status = "deleted"
                /\ There(f)' <=> There(f) /\ ~(DropRow(j, s) /\ s.file = f)
                /\ \/ file'[f].text = file[f].text
                   \/ s.file = f /\ DropRow(j, s) /\ file'[f].text = Nothing
                   \/ s.file = f /\ Hash(j, s) /\ file'[f].text = s.text
                   \/ s.file = f /\ Storing(j, s, "check") /\ file'[f].text = Content(j, s)
<1> DEFINE Conclusion == /\ DOMAIN file' = File
           /\ \A f \in File :
                /\ file'[f] = [status |-> file'[f].status, text |-> file'[f].text, hash |-> file'[f].hash]
                /\ file'[f].status \in Status
                /\ file'[f].status = "absent" <=> file[f].status = "absent"
                /\ file[f].status = "deleted" => file'[f].status = "deleted"
                /\ There(f)' <=> There(f) /\ ~(DropRow(j, s) /\ s.file = f)
                /\ \/ file'[f].text = file[f].text
                   \/ s.file = f /\ DropRow(j, s) /\ file'[f].text = Nothing
                   \/ s.file = f /\ Hash(j, s) /\ file'[f].text = s.text
                   \/ s.file = f /\ Storing(j, s, "check") /\ file'[f].text = Content(j, s)
<1>1. /\ DOMAIN file = File
      /\ \A f \in File : /\ file[f] = [status |-> file[f].status, text |-> file[f].text, hash |-> file[f].hash]
                         /\ file[f].status \in Status
  BY DEF Typed
<1>2. s.file \in File => file[s.file].status # "absent"
  BY Firsts, NothingAssumption DEF CallOK
<1>3. ASSUME file' = file, ~DropRow(j, s) PROVE Conclusion
  BY <1>1, <1>3 DEF There
<1>4. ASSUME s.file \in File, ~DropRow(j, s),
             NEW r, file' = [file EXCEPT ![s.file] = r],
             r = [status |-> r.status, text |-> r.text, hash |-> r.hash], r.status \in Status,
             There(s.file) => r.status \notin {"absent", "deleted"}, ~There(s.file) => r.status = file[s.file].status,
             \/ r.text = file[s.file].text
             \/ Hash(j, s) /\ r.text = s.text
             \/ Storing(j, s, "check") /\ r.text = Content(j, s)
      PROVE  Conclusion
  <2>1. \A f \in File : file'[f] = IF f = s.file THEN r ELSE file[f]
    BY <1>1, <1>4
  <2>2. DOMAIN file' = File
    BY <1>1, <1>4
  <2>. QED
    BY <1>1, <1>2, <1>4, <2>1, <2>2 DEF There
<1>5. CASE DropRow(j, s)
  <2>1. s.do = "dropRow" /\ file' = [file EXCEPT ![s.file] = Fresh("deleted")]
    BY <1>5 DEF DropRow, Returns
  <2>2. s.file \in File
    BY <1>2, <2>1, Firsts DEF CallOK
  <2>3. \A f \in File : file'[f] = IF f = s.file THEN Fresh("deleted") ELSE file[f]
    BY <1>1, <2>1
  <2>4. DOMAIN file' = File
    BY <1>1, <2>1
  <2>5. file'[s.file] = [status |-> "deleted", text |-> Nothing, hash |-> Nothing]
    BY <2>2, <2>3 DEF Fresh
  <2>6. There(s.file)' <=> FALSE
    BY <2>5 DEF There
  <2>7. \A f \in File \ {s.file} : file'[f] = file[f] /\ (There(f)' <=> There(f))
    BY <2>3 DEF There
  <2>8. ASSUME NEW f \in File, f # s.file
        PROVE  /\ file'[f] = [status |-> file'[f].status, text |-> file'[f].text, hash |-> file'[f].hash]
               /\ file'[f].status \in Status
               /\ file'[f].status = file[f].status /\ (There(f)' <=> There(f)) /\ file'[f].text = file[f].text
    BY <1>1, <2>7, <2>8
  <2>9. /\ file'[s.file] = [status |-> file'[s.file].status, text |-> file'[s.file].text, hash |-> file'[s.file].hash]
        /\ file'[s.file].status = "deleted" /\ "deleted" \in Status /\ file'[s.file].text = Nothing
    BY <2>5 DEF Status
  <2>10. \A f \in File : There(f)' <=> There(f) /\ ~(DropRow(j, s) /\ s.file = f)
    <3>. SUFFICES ASSUME NEW f \in File PROVE There(f)' <=> There(f) /\ ~(DropRow(j, s) /\ s.file = f)
      OBVIOUS
    <3>. QED
      BY <1>5, <2>6, <2>8
  <2>. QED
    BY <1>2, <1>5, <2>2, <2>4, <2>8, <2>9, <2>10
<1>6. s.do \notin {"wipe", "unlinkAll", "batch"} => s.file \in File
  BY Firsts DEF CallOK
<1>7. CASE Raise(j, s)
  <2>0. ~DropRow(j, s)
    BY <1>7, NotDropped
  <2>1. CASE Missing(j, s) \/ VectorFails(j, s) \/ Undeleted(j, s)
    BY <1>3, <2>0, <2>1 DEF Missing, VectorFails, Undeleted, Unwritten
  <2>2. CASE Duplicate(j, s)
    <3> DEFINE r == IF There(s.file) THEN [status |-> "failed", text |-> Content(j, s), hash |-> Nothing] ELSE file[s.file]
    <3>1. file' = [file EXCEPT ![s.file] = r] /\ Storing(j, s, "check") /\ s.do = "store"
      BY <2>2 DEF Duplicate, Storing
    <3>2. PICK q : q = r
      OBVIOUS
    <3>3. /\ q = [status |-> q.status, text |-> q.text, hash |-> q.hash] /\ q.status \in Status
          /\ There(s.file) => q.status \notin {"absent", "deleted"}
          /\ ~There(s.file) => q.status = file[s.file].status
          /\ q.text = file[s.file].text \/ q.text = Content(j, s)
      BY <1>1, <1>6, <3>1, <3>2 DEF Status
    <3>. QED
      BY <1>4, <1>6, <2>0, <3>1, <3>2, <3>3
  <2>3. CASE StoreFails(j, s)
    <3> DEFINE r == IF There(s.file) THEN [status |-> "failed", text |-> file[s.file].text, hash |-> Nothing] ELSE file[s.file]
    <3>1. s.do = "store" /\ s.file \in File
      BY <1>6, <2>3 DEF StoreFails, Storing
    <3>2. PICK q : q = r
      OBVIOUS
    <3>3. file' = [file EXCEPT ![s.file] = q]
      BY <1>1, <2>3, <3>1, <3>2 DEF StoreFails, StoreRaises
    <3>4. /\ q = [status |-> q.status, text |-> q.text, hash |-> q.hash] /\ q.status \in Status
          /\ There(s.file) => q.status \notin {"absent", "deleted"}
          /\ ~There(s.file) => q.status = file[s.file].status
          /\ q.text = file[s.file].text
      BY <1>1, <3>1, <3>2 DEF Status
    <3>. QED
      BY <1>4, <2>0, <3>1, <3>3, <3>4
  <2>. QED
    BY <1>7, <2>1, <2>2, <2>3 DEF Raise
<1>8. CASE Check(j, s)
  <2> DEFINE r == [file[s.file] EXCEPT !.text = Content(j, s)]
  <2>1. s.do = "store" /\ s.file \in File /\ Storing(j, s, "check") /\ ~DropRow(j, s)
    BY <1>6, <1>8 DEF Check, Storing, DropRow, Returns
  <2>2. PICK q : q = r
    OBVIOUS
  <2>3. file' = [file EXCEPT ![s.file] = q]
    BY <1>1, <1>8, <2>1, <2>2 DEF Check
  <2>4. /\ q = [status |-> q.status, text |-> q.text, hash |-> q.hash] /\ q.status \in Status
        /\ q.status = file[s.file].status
        /\ q.text = Content(j, s)
    BY <1>1, <2>1, <2>2
  <2>. QED
    BY <1>4, <2>1, <2>3, <2>4 DEF There
<1>9. CASE Finish(j, s)
  <2> DEFINE r == IF There(s.file) THEN [status |-> "completed", text |-> file[s.file].text, hash |-> job[j].held.text] ELSE file[s.file]
  <2>1. s.do = "store" /\ s.file \in File /\ ~DropRow(j, s)
    BY <1>6, <1>9 DEF Finish, Storing, DropRow, Returns
  <2>2. PICK q : q = r
    OBVIOUS
  <2>3. file' = file \/ file' = [file EXCEPT ![s.file] = q]
    BY <1>1, <1>9, <2>1, <2>2 DEF Finish
  <2>4. /\ q = [status |-> q.status, text |-> q.text, hash |-> q.hash] /\ q.status \in Status
        /\ There(s.file) => q.status \notin {"absent", "deleted"}
        /\ ~There(s.file) => q.status = file[s.file].status
        /\ q.text = file[s.file].text
    BY <1>1, <2>1, <2>2 DEF Status
  <2>. QED
    BY <1>3, <1>4, <2>1, <2>3, <2>4
<1>10. CASE Hash(j, s)
  <2> DEFINE r == IF There(s.file) THEN [status |-> file[s.file].status, text |-> s.text, hash |-> s.text] ELSE file[s.file]
  <2>1. s.do = "hash" /\ s.file \in File /\ ~DropRow(j, s)
    BY <1>6, <1>10 DEF Hash, Returns, DropRow
  <2>2. PICK q : q = r
    OBVIOUS
  <2>3. file' = [file EXCEPT ![s.file] = q]
    BY <1>1, <1>10, <2>1, <2>2 DEF Hash
  <2>4. /\ q = [status |-> q.status, text |-> q.text, hash |-> q.hash] /\ q.status \in Status
        /\ q.status = file[s.file].status
        /\ q.text = file[s.file].text \/ q.text = s.text
    BY <1>1, <2>1, <2>2
  <2>. QED
    BY <1>4, <1>10, <2>1, <2>3, <2>4 DEF There
<1>11. ASSUME NEW status \in {"processing", "failed"}, file' = Marked(s.file, status), s.file \in File, ~DropRow(j, s)
       PROVE  Conclusion
  <2> DEFINE r == [file[s.file] EXCEPT !.status = IF There(s.file) THEN status ELSE @]
  <2>1. PICK q : q = r
    OBVIOUS
  <2>2. file' = [file EXCEPT ![s.file] = q]
    BY <1>1, <1>11, <2>1 DEF Marked
  <2>3. /\ q = [status |-> q.status, text |-> q.text, hash |-> q.hash] /\ q.status \in Status
        /\ There(s.file) => q.status \notin {"absent", "deleted"}
        /\ ~There(s.file) => q.status = file[s.file].status
        /\ q.text = file[s.file].text
    BY <1>1, <1>11, <2>1 DEF Status
  <2>. QED
    BY <1>4, <1>11, <2>2, <2>3
<1>12. CASE Processing(j, s) \/ Link(j, s) \/ (Lost(j, s) /\ s.do = "attach")
  <2>1. s.do \in {"processing", "link", "attach"} /\ ~DropRow(j, s)
    BY <1>12 DEF Processing, Link, Returns, DropRow
  <2>2. file' = file \/ file' = Marked(s.file, "processing") \/ file' = Marked(s.file, "failed")
    BY <1>12 DEF Processing, Link, Lost, Unwritten
  <2>. QED
    BY <1>3, <1>6, <1>11, <2>1, <2>2
<1>. QED
  BY <1>3, <1>5, <1>7, <1>8, <1>9, <1>10, <1>12, Changes

\* Which links a call makes and takes.
LEMMA LinksEffect ==
    ASSUME Typed, NEW j \in Job, NEW s \in First(j), Act(j, s)
    PROVE  /\ \A l : l \in links' /\ l \notin links => Link(j, s) /\ l = <<s.kb, s.file>> /\ There(s.file)
           /\ \A l : l \in links /\ l \notin links' =>
                 \/ Unlink(j, s) /\ l = <<s.kb, s.file>>
                 \/ UnlinkAll(j, s) /\ l[1] = s.kb
                 \/ DropRow(j, s) /\ l[2] = s.file
           /\ Link(j, s) /\ There(s.file) => <<s.kb, s.file>> \in links'
           /\ Unlink(j, s) => <<s.kb, s.file>> \notin links'
           /\ UnlinkAll(j, s) => \A f \in File : <<s.kb, f>> \notin links'
           /\ DropRow(j, s) => \A k \in Kb : <<k, s.file>> \notin links'
<1>1. links' = links \/ Link(j, s) \/ Unlink(j, s) \/ UnlinkAll(j, s) \/ DropRow(j, s)
  BY Changes
<1>2. ASSUME Link(j, s)
      PROVE  /\ s.do \in Linking
             /\ links' = IF There(s.file) /\ <<s.kb, s.file>> \notin links THEN links \cup {<<s.kb, s.file>>} ELSE links
  <2>1. s.do \in Linking /\ s.kb \in Kb
    BY <1>2, Firsts DEF Link, Returns, Linking, CallOK
  <2>2. s.kb \notin Linked(s.file) <=> <<s.kb, s.file>> \notin links
    BY <2>1 DEF Linked
  <2>. QED
    BY <1>2, <2>1, <2>2 DEF Link
<1>3. ASSUME Unlink(j, s) PROVE s.do = "unlink" /\ links' = links \ {<<s.kb, s.file>>}
  BY <1>3 DEF Unlink, Returns
<1>4. ASSUME UnlinkAll(j, s) PROVE s.do = "unlinkAll" /\ links' = links \ ({s.kb} \X File)
  BY <1>4 DEF UnlinkAll, Returns
<1>5. ASSUME DropRow(j, s) PROVE s.do = "dropRow" /\ links' = links \ {l \in links : l[2] = s.file}
  BY <1>5 DEF DropRow, Returns
<1>6. links \subseteq Kb \X File
  BY DEF Typed
<1>. QED
  BY <1>1, <1>2, <1>3, <1>4, <1>5, <1>6 DEF Linking

\* Which chunks a call inserts and deletes, and whom a deletion by hash spills on.
LEMMA ChunksEffect ==
    ASSUME Typed, NEW j \in Job, NEW s \in First(j), Act(j, s)
    PROVE  /\ IsFiniteSet(vectors')
           /\ \A v : v \in vectors' /\ v \notin vectors =>
                 \/ /\ Insert(j, s) /\ s.kb \in Kb
                    /\ v.id = NewId(1) /\ v.kb = s.kb /\ v.file = s.file /\ v.text = job[j].held.docs /\ v.hash = job[j].held.text
                 \/ /\ BatchInsert(j, s)
                    /\ v.kb = s.kb /\ v.file \in DOMAIN s.text /\ v.text = s.text[v.file] /\ v.hash = Nothing
           /\ Insert(j, s) /\ s.kb \in Kb =>
                 \E v \in vectors' : /\ v.id = NewId(1) /\ v.kb = s.kb /\ v.file = s.file
                                     /\ v.text = job[j].held.docs /\ v.hash = job[j].held.text
           /\ BatchInsert(j, s) => \A f \in DOMAIN s.text : \E v \in vectors' : v.kb = s.kb /\ v.file = f
           /\ \A v : v \in vectors /\ v \notin vectors' =>
                 \/ Drop(j, s) /\ v \in Chunks(s.kb, s.file)
                 \/ DropHash(j, s) /\ v.kb = s.kb /\ (v.file = s.file \/ <<v.kb, v.file>> \in spilled')
                 \/ /\ Wipe(j, s) /\ v.kb = s.kb /\ (s.file = Nothing \/ v.file = s.file)
                    /\ <<v.kb, v.file>> \in wiped'
                 \/ DropOld(j, s) /\ v \in job[j].old
           /\ Drop(j, s) => Chunks(s.kb, s.file)' = {}
           /\ Wipe(j, s) => \A v \in vectors' : v.kb = s.kb => s.file # Nothing /\ v.file # s.file
           /\ DropOld(j, s) => vectors' \cap job[j].old = {}
<1>1. \/ vectors' = vectors
      \/ Insert(j, s) \/ BatchInsert(j, s) \/ Drop(j, s) \/ DropHash(j, s) \/ Wipe(j, s) \/ DropOld(j, s)
  BY Changes
<1>2. ASSUME Insert(j, s)
      PROVE  \/ vectors' = vectors /\ s.kb \notin Kb
             \/ /\ vectors' = vectors \cup {[id |-> NewId(1), kb |-> s.kb, file |-> s.file, text |-> job[j].held.docs, hash |-> job[j].held.text]}
                /\ s.kb \in Kb
  <2>1. s.kb \in Kb \cup {Nothing}
    BY Firsts DEF CallOK
  <2>. QED
    BY <1>2, <2>1, NothingAssumption DEF Insert
<1> DEFINE fs == SetToSeq(DOMAIN s.text)
           chunk(i) == [id |-> NewId(i), kb |-> s.kb, file |-> fs[i], text |-> s.text[fs[i]], hash |-> Nothing]
<1>3. ASSUME BatchInsert(j, s)
      PROVE  /\ vectors' = vectors \cup {chunk(i) : i \in DOMAIN fs}
             /\ IsFiniteSet({chunk(i) : i \in DOMAIN fs})
             /\ \A i \in DOMAIN fs : fs[i] \in DOMAIN s.text
             /\ \A f \in DOMAIN s.text : \E i \in DOMAIN fs : fs[i] = f
  <2>1. s.do = "batch"
    BY <1>3 DEF BatchInsert
  <2>2. IsFiniteSet(DOMAIN s.text)
    BY <2>1, Firsts, FiniteAssumption, FS_Subset DEF CallOK
  <2>3. fs \in Seq(DOMAIN s.text) /\ \A f \in DOMAIN s.text : \E i \in DOMAIN fs : fs[i] = f
    BY <2>2, Listing
  <2>4. IsFiniteSet(DOMAIN fs)
    <3>1. Len(fs) \in Nat /\ DOMAIN fs = 1..Len(fs)
      BY <2>3
    <3>. HIDE DEF fs
    <3>2. 1 \in Int /\ Len(fs) \in Int
      BY <3>1
    <3>. QED
      BY <3>1, <3>2, FS_Interval
  <2>5. IsFiniteSet({chunk(i) : i \in DOMAIN fs})
    <3>. HIDE DEF fs
    <3>1. [i \in DOMAIN fs |-> chunk(i)] \in Surjection(DOMAIN fs, {chunk(i) : i \in DOMAIN fs})
      BY DEF Surjection
    <3>. QED
      BY <2>4, <3>1, FS_Surjection
  <2>6. vectors' = vectors \cup {chunk(i) : i \in DOMAIN fs}
    BY <1>3 DEF BatchInsert
  <2>7. \A i \in DOMAIN fs : fs[i] \in DOMAIN s.text
    BY <2>3
  <2>. QED
    BY <2>3, <2>5, <2>6, <2>7
<1>4. ASSUME Drop(j, s) PROVE vectors' = vectors \ Chunks(s.kb, s.file)
  BY <1>4 DEF Drop
<1>5. ASSUME DropHash(j, s)
      PROVE  \E taken \in SUBSET {v \in vectors : v.kb = s.kb} :
                 /\ vectors' = vectors \ taken
                 /\ spilled' = spilled \cup {<<s.kb, v.file>> : v \in {w \in taken : w.file # s.file}}
  <2>1. \A taken \in Hashed(s.kb, s.text) : taken \in SUBSET {v \in vectors : v.kb = s.kb}
    BY DEF Hashed
  <2>. QED
    BY <1>5, <2>1 DEF DropHash
<1> DEFINE whole == IF s.file = Nothing THEN {v \in vectors : v.kb = s.kb} ELSE Chunks(s.kb, s.file)
<1>6. ASSUME Wipe(j, s) PROVE vectors' = vectors \ whole /\ wiped' = wiped \cup {<<s.kb, v.file>> : v \in whole}
  BY <1>6 DEF Wipe
<1>7. ASSUME DropOld(j, s) PROVE vectors' = vectors \ job[j].old
  BY <1>7 DEF DropOld
<1>8. s.do = "store" \/ ~Insert(j, s)
  BY DEF Insert, Storing
<1>9. /\ BatchInsert(j, s) => s.do = "batch"
      /\ Drop(j, s) => s.do = "drop"
      /\ DropHash(j, s) => s.do = "dropHash"
      /\ Wipe(j, s) => s.do \in {"wipe", "wipeFile"}
      /\ DropOld(j, s) => s.do = "dropOld"
  BY DEF BatchInsert, Drop, DropHash, Wipe, DropOld, Returns
<1>10. IsFiniteSet(vectors)
  BY DEF Typed
<1>. HIDE DEF fs
<1>11. IsFiniteSet(vectors')
  <2>1. vectors' \subseteq vectors => IsFiniteSet(vectors')
    BY <1>10, FS_Subset
  <2>2. ASSUME NEW new, IsFiniteSet(new), vectors' = vectors \cup new PROVE IsFiniteSet(vectors')
    BY <1>10, <2>2, FS_Union
  <2>3. CASE Insert(j, s)
    <3> DEFINE c == [id |-> NewId(1), kb |-> s.kb, file |-> s.file, text |-> job[j].held.docs, hash |-> job[j].held.text]
    <3>1. IsFiniteSet({c})
      BY FS_Singleton
    <3>. QED
      BY <1>2, <2>1, <2>2, <2>3, <3>1
  <2>4. CASE BatchInsert(j, s)
    <3> DEFINE new == {chunk(i) : i \in DOMAIN fs}
    <3>1. IsFiniteSet(new) /\ vectors' = vectors \cup new
      BY <1>3, <2>4
    <3>. HIDE DEF new
    <3>. QED
      BY <2>2, <3>1
  <2>. QED
    BY <1>1, <1>4, <1>5, <1>6, <1>7, <2>1, <2>3, <2>4
<1>12. CASE vectors' = vectors /\ ~Insert(j, s)
       /\ ~BatchInsert(j, s) /\ ~Drop(j, s) /\ ~DropHash(j, s) /\ ~Wipe(j, s) /\ ~DropOld(j, s)
  BY <1>11, <1>12
<1>13. CASE Insert(j, s)
  <2> DEFINE c == [id |-> NewId(1), kb |-> s.kb, file |-> s.file, text |-> job[j].held.docs, hash |-> job[j].held.text]
  <2>1. \/ vectors' = vectors /\ s.kb \notin Kb
        \/ vectors' = vectors \cup {c} /\ s.kb \in Kb
    BY <1>2, <1>13, Zenon
  <2>2. c.id = NewId(1) /\ c.kb = s.kb /\ c.file = s.file /\ c.text = job[j].held.docs /\ c.hash = job[j].held.text
    OBVIOUS
  <2>. HIDE DEF c
  <2>. QED
    BY <1>8, <1>9, <1>11, <1>13, <2>1, <2>2
<1>14. CASE BatchInsert(j, s)
  <2>1. \A v : v \in vectors' /\ v \notin vectors => v.kb = s.kb /\ v.file \in DOMAIN s.text /\ v.text = s.text[v.file] /\ v.hash = Nothing
    BY <1>3, <1>14
  <2>2. \A f \in DOMAIN s.text : \E v \in vectors' : v.kb = s.kb /\ v.file = f
    <3>. SUFFICES ASSUME NEW f \in DOMAIN s.text PROVE \E v \in vectors' : v.kb = s.kb /\ v.file = f
      OBVIOUS
    <3>1. PICK i \in DOMAIN fs : fs[i] = f
      BY <1>3, <1>14
    <3>2. chunk(i) \in vectors' /\ chunk(i).kb = s.kb /\ chunk(i).file = f
      BY <1>3, <1>14, <3>1
    <3>. QED
      BY <3>2
  <2>3. vectors \subseteq vectors'
    BY <1>3, <1>14
  <2>. QED
    BY <1>8, <1>9, <1>11, <1>14, <2>1, <2>2, <2>3
<1>15. CASE Drop(j, s)
  BY <1>4, <1>8, <1>9, <1>11, <1>15 DEF Chunks
<1>16. CASE DropHash(j, s)
  BY <1>5, <1>8, <1>9, <1>11, <1>16
<1>17. CASE Wipe(j, s)
  BY <1>6, <1>8, <1>9, <1>11, <1>17 DEF Chunks
<1>18. CASE DropOld(j, s)
  BY <1>7, <1>8, <1>9, <1>11, <1>18
<1>. QED
  BY <1>1, <1>12, <1>13, <1>14, <1>15, <1>16, <1>17, <1>18

\* The parts of a call.
LEMMA Fields ==
    ASSUME NEW i, NEW n, NEW do, NEW k, NEW f, NEW text
    PROVE  LET c == Call(<<i, n>>, do, k, f, text)
           IN  c.at = <<i, n>> /\ c.at[1] = i /\ c.at[2] = n /\ c.do = do /\ c.kb = k /\ c.file = f /\ c.text = text /\ c.skips = i
  BY DEF Call

\* The calls an edit spreads into: one propagation for each base that holds the file.
LEMMA Propagated ==
    ASSUME Typed, NEW j \in Job, NEW s \in First(j), Spread(j, s)
    PROVE  LET kbs == SetToSeq(Linked(s.file))
           IN  /\ s.file \in File /\ s.do = "spread"
               /\ \A i \in DOMAIN kbs : i \in Nat \ {0} /\ kbs[i] \in Linked(s.file)
               /\ \A k \in Linked(s.file) : \E i \in DOMAIN kbs : kbs[i] = k
               /\ \A i \in DOMAIN kbs : Propagation(i, kbs[i], s.file) \subseteq Todo(j)'
               /\ \A t \in Todo(j)' : \E i \in DOMAIN kbs : t \in Propagation(i, kbs[i], s.file)
<1> DEFINE kbs == SetToSeq(Linked(s.file))
<1>1. IsFiniteSet(Linked(s.file))
  BY FiniteAssumption, FS_Subset DEF Linked
<1>2. s.do = "spread" /\ Turn(j, UNION {Propagation(i, kbs[i], s.file) : i \in DOMAIN kbs})
  BY DEF Spread
<1>3. Todo(j)' = UNION {Propagation(i, kbs[i], s.file) : i \in DOMAIN kbs}
  BY <1>2, Turns
<1>4. /\ \A i \in DOMAIN kbs : i \in Nat \ {0} /\ kbs[i] \in Linked(s.file)
      /\ \A k \in Linked(s.file) : \E i \in DOMAIN kbs : kbs[i] = k
  BY <1>1, Listing
<1>5. s.file \in File
  BY <1>2, Firsts DEF CallOK
<1>. HIDE DEF kbs
<1>6. (\A i \in DOMAIN kbs : Propagation(i, kbs[i], s.file) \subseteq Todo(j)') 
      /\ (\A t \in Todo(j)' : \E i \in DOMAIN kbs : t \in Propagation(i, kbs[i], s.file))
  BY <1>3
<1>. QED
  BY <1>2, <1>4, <1>5, <1>6 DEF kbs

\* The calls a batch turns into: a hash and a link for each of its files.
LEMMA Batched ==
    ASSUME Typed, NEW j \in Job, NEW s \in First(j), BatchInsert(j, s)
    PROVE  LET fs == SetToSeq(DOMAIN s.text)
           IN  /\ s.do = "batch" /\ s.kb \in Kb
               /\ \A i \in DOMAIN fs : i \in Nat \ {0} /\ fs[i] \in DOMAIN s.text
               /\ \A f \in DOMAIN s.text : f \in File /\ file[f].status # "absent"
               /\ \A f \in DOMAIN s.text : \E t \in Todo(j)' : t.do = "link" /\ t.kb = s.kb /\ t.file = f
               /\ \A t \in Todo(j)' : \E i \in DOMAIN fs :
                     t \in {Call(<<1, i>>, "hash", s.kb, fs[i], s.text[fs[i]]), Do(<<2, i>>, "link", s.kb, fs[i])}
<1> DEFINE fs == SetToSeq(DOMAIN s.text)
           calls(i) == {Call(<<1, i>>, "hash", s.kb, fs[i], s.text[fs[i]]), Do(<<2, i>>, "link", s.kb, fs[i])}
<1>1. s.do = "batch" /\ Turn(j, UNION {calls(i) : i \in DOMAIN fs})
  BY DEF BatchInsert
<1>2. s.kb \in Kb /\ \A f \in DOMAIN s.text : f \in File /\ file[f].status # "absent"
  BY <1>1, Firsts DEF CallOK
<1>3. IsFiniteSet(DOMAIN s.text)
  BY <1>2, FiniteAssumption, FS_Subset
<1>4. /\ \A i \in DOMAIN fs : i \in Nat \ {0} /\ fs[i] \in DOMAIN s.text
      /\ \A f \in DOMAIN s.text : \E i \in DOMAIN fs : fs[i] = f
  BY <1>3, Listing
<1>5. Todo(j)' = UNION {calls(i) : i \in DOMAIN fs}
  BY <1>1, Turns
<1>. HIDE DEF fs
<1>6. \A t \in Todo(j)' : \E i \in DOMAIN fs : t \in calls(i)
  BY <1>5
<1>7. \A f \in DOMAIN s.text : \E t \in Todo(j)' : t.do = "link" /\ t.kb = s.kb /\ t.file = f
  <2>. SUFFICES ASSUME NEW f \in DOMAIN s.text PROVE \E t \in Todo(j)' : t.do = "link" /\ t.kb = s.kb /\ t.file = f
    OBVIOUS
  <2>1. PICK i \in DOMAIN fs : fs[i] = f
    BY <1>4
  <2>2. Do(<<2, i>>, "link", s.kb, fs[i]) \in Todo(j)'
    BY <1>5
  <2>. QED
    BY <2>1, <2>2, Fields DEF Do
<1>. QED
  BY <1>1, <1>2, <1>4, <1>6, <1>7 DEF fs

\* A call that raises inserts, deletes and links nothing; it takes later calls of its block with it.
LEMMA RaiseEffect ==
    ASSUME Typed, NEW j \in Job, NEW s \in First(j), Raise(j, s)
    PROVE  /\ job' = [i \in Job |-> [todo |-> Todo(i)', held |-> job'[i].held, old |-> job'[i].old]]
           /\ \A i \in Job \ {j} : job'[i] = job[i] /\ Todo(i)' = Todo(i)
           /\ Todo(j)' = {t \in Todo(j) \ {s} : t.at[1] # s.skips}
           /\ job'[j].held = Free /\ job'[j].old = job[j].old
           /\ links' = links /\ vectors' = vectors /\ own' = own
           /\ wiped' = wiped /\ spilled' = spilled /\ stranded' = stranded /\ raced' = raced
           /\ unfinished \subseteq unfinished' /\ faults' \in Nat /\ faults' >= faults
<1>1. Turn(j, Aborted(j, s))
  BY DEF Raise, Missing, Duplicate, StoreFails, VectorFails, Undeleted, Unwritten, StoreRaises, Raises
<1>2. Aborted(j, s) = {t \in Todo(j) \ {s} : t.at[1] # s.skips}
  BY DEF Aborted, Rest, Todo
<1>3. /\ links' = links /\ vectors' = vectors /\ own' = own
      /\ wiped' = wiped /\ spilled' = spilled /\ stranded' = stranded /\ raced' = raced
      /\ unfinished \subseteq unfinished'
  BY DEF Raise, Missing, Duplicate, StoreFails, VectorFails, Undeleted, Unwritten, StoreRaises, Raises
<1>4. faults' = faults \/ faults' = faults + 1
  BY DEF Raise, Missing, Duplicate, StoreFails, VectorFails, Undeleted, Unwritten, StoreRaises, Raises
<1>5. faults \in Nat
  BY DEF Typed
<1>6. faults' \in Nat /\ faults' >= faults
  BY <1>4, <1>5
<1>. QED
  BY <1>1, <1>2, <1>3, <1>6, Turns DEF Todo

\* A request that arrives changes nobody else's calls.
LEMMA RequestEffect ==
    ASSUME Typed, NEW j \in Job, NEW STATE todo, Request(j, todo)
    PROVE  /\ Todo(j) = {}
           /\ job' = [i \in Job |-> [todo |-> Todo(i)', held |-> job'[i].held, old |-> job'[i].old]]
           /\ \A i \in Job \ {j} : job'[i] = job[i] /\ Todo(i)' = Todo(i)
           /\ Todo(j)' = todo /\ job'[j].held = job[j].held
           /\ links' = links /\ vectors' = vectors /\ own' = own /\ faults' = faults /\ wiped' = wiped
           /\ unfinished' = unfinished /\ spilled' = spilled /\ stranded' = stranded
           /\ raced \subseteq raced'
           /\ \A i \in Job \ {j} : Todo(i) # {} =>
                 /\ Concerned(Todo(i)) \X Concerned(todo) \subseteq raced'
                 /\ Concerned(todo) \X Concerned(Todo(i)) \subseteq raced'
<1>1. job = [i \in Job |-> [todo |-> Todo(i), held |-> job[i].held, old |-> job[i].old]]
  BY DEF Typed
<1>2. job' = [i \in Job |-> IF i = j THEN [todo |-> todo, held |-> job[j].held, old |-> job[j].old] ELSE job[i]]
  <2>1. job' = [job EXCEPT ![j].todo = todo]
    BY DEF Request
  <2>. QED
    BY <1>1, <2>1
<1>3. \A i \in Job \ {j} : job'[i] = job[i] /\ Todo(i)' = Todo(i)
  BY <1>2 DEF Todo
<1>4. job'[j] = [todo |-> todo, held |-> job[j].held, old |-> job[j].old]
  BY <1>2
<1>5. \A i \in Job : job'[i] = [todo |-> Todo(i)', held |-> job'[i].held, old |-> job'[i].old]
  BY <1>1, <1>3, <1>4 DEF Todo
<1>6. raced' = raced \cup UNION {(F \X Concerned(todo)) \cup (Concerned(todo) \X F) :
                                    F \in {Concerned(job[i].todo) : i \in {k \in Job : Active(k)}}}
  BY DEF Request
<1>7. \A i \in Job \ {j} : Todo(i) # {} =>
                 /\ Concerned(Todo(i)) \X Concerned(todo) \subseteq raced'
                 /\ Concerned(todo) \X Concerned(Todo(i)) \subseteq raced'
  <2>. SUFFICES ASSUME NEW i \in Job \ {j}, Todo(i) # {}
                PROVE  /\ Concerned(Todo(i)) \X Concerned(todo) \subseteq raced'
                       /\ Concerned(todo) \X Concerned(Todo(i)) \subseteq raced'
    OBVIOUS
  <2>1. Concerned(Todo(i)) \in {Concerned(job[k].todo) : k \in {k \in Job : Active(k)}}
    BY DEF Active, Todo
  <2> DEFINE F == Concerned(Todo(i))
  <2>2. (F \X Concerned(todo)) \cup (Concerned(todo) \X F) \subseteq raced'
    BY <1>6, <2>1
  <2>. QED
    BY <2>2
<1>8. raced \subseteq raced'
  BY <1>6
<1>9. /\ Todo(j) = {} 
      /\ links' = links /\ vectors' = vectors /\ own' = own /\ faults' = faults /\ wiped' = wiped
      /\ unfinished' = unfinished /\ spilled' = spilled /\ stranded' = stranded
  BY DEF Request, Active, Todo
<1>. QED
  BY <1>2, <1>3, <1>4, <1>5, <1>7, <1>8, <1>9 DEF Todo

-----------------------------------------------------------------------------
(* What a request arrives with.                                            *)

Plan(todo) ==
    /\ \E K \in Kinds : \A t \in todo : t.do \in K
    /\ \A t \in todo : \A u \in todo \ {t} :
        /\ t.do = "store" /\ t.kb = Nothing => Before(t, u)
        /\ t.do \in {"spread", "unlinkAll"} => u.at[1] # t.at[1] /\ u.kb = t.kb /\ u.do # t.do
        /\ t.do = "unlink" /\ u.at[1] = t.at[1] => Before(t, u)
        /\ t.do = "dropRow" /\ u.do \in {"unlink", "drop"} => Before(u, t)
    /\ (\E t \in todo : t.do \in Linking) =>
        \A u, w \in todo : u.do = "store" /\ w.do = "store" /\ u.kb # Nothing /\ w.kb # Nothing => u = w

Pairs(todo) ==
    \A t \in todo :
        /\ t.do \in Linking => \A s \in todo : s.do = "store" =>
            \E u \in todo : u.do = "store" /\ Same(u, t) /\ Leads(u, t) /\ ~Before(u, s)
        /\ t.do = "wipeFile" => \E u \in todo : u.do = "store" /\ Same(u, t) /\ Leads(t, u)
        /\ t.do = "unlink" => \E u \in todo : u.do = "drop" /\ Same(u, t) /\ u.at[1] = t.at[1]

Fits(todo) ==
    /\ Plan(todo) /\ Pairs(todo)
    /\ \A t \in todo :
        /\ t.do # "dropOld"
        /\ t.do \in {"drop", "dropHash"} =>
            \E u \in todo : u.do = "unlink" /\ Same(u, t) /\ u.at[1] = t.at[1] /\ Before(u, t)
        /\ t.do \in Linking => \E u \in todo : u.do = "store" /\ Same(u, t) /\ Leads(u, t)

Uploading(j, f, t, c) ==
    {Store(<<1, 1>>, Nothing, f, t)}
    \cup IF c = Nothing THEN {}
         ELSE {Do(<<1, 2>>, "processing", c, f), Store(<<1, 3>>, c, f, Nothing), Do(<<1, 4>>, "attach", c, f)}

Adding(k, f) == {Store(<<1, 1>>, k, f, Nothing), Do(<<1, 2>>, "link", k, f)}
Updating(k, f) == {Do(<<1, 1>>, "wipeFile", k, f), Store(<<1, 2>>, k, f, Nothing)}
Editing(f, t) == {Store(<<1, 1>>, Nothing, f, t), Do(<<2, 1>>, "spread", Nothing, f)}
Batching(k, texts) == {Call(<<1, 1>>, "batch", k, Nothing, texts)}
Resetting(k) == {Do(<<1, 1>>, "wipe", k, Nothing), Do(<<2, 1>>, "unlinkAll", k, Nothing)}

\* An arrival changes a row only where an upload creates it.
LEMMA FileArrives ==
    ASSUME Typed, NEW j \in Job, Arrive(j)
    PROVE  /\ DOMAIN file' = File
           /\ \A f \in File : file'[f] = file[f] \/ (file[f].status = "absent" /\ file'[f] = Fresh("pending"))
<1>1. file' = file \/ \E f \in File : file[f].status = "absent" /\ file' = [file EXCEPT ![f] = Fresh("pending")]
  BY DEF Arrive, Upload, DeleteFile, EditFile, AddFile, UpdateFile, RemoveFile, Reset, BatchAdd, Reindex
<1>2. DOMAIN file = File
  BY DEF Typed
<1>3. CASE file' = file
  BY <1>2, <1>3
<1>4. ASSUME NEW f \in File, file[f].status = "absent", file' = [file EXCEPT ![f] = Fresh("pending")]
      PROVE  /\ DOMAIN file' = File
             /\ \A g \in File : file'[g] = file[g] \/ (file[g].status = "absent" /\ file'[g] = Fresh("pending"))
  <2>. HIDE DEF Fresh
  <2>. QED
    BY <1>2, <1>4
<1>. QED
  BY <1>1, <1>3, <1>4

\* Upload arrives with calls that fit the plan.
LEMMA UploadFits ==
    ASSUME Typed, NEW j \in Job, NEW f \in File, Upload(j, f)
    PROVE  \E t \in Text, c \in Collection :
              /\ Request(j, Uploading(j, f, t, c)) /\ Fits(Uploading(j, f, t, c))
              /\ \A u \in Uploading(j, f, t, c) : CallOK(u)'
<1>1. PICK t \in Text, c \in Collection : Request(j, Uploading(j, f, t, c))
  BY DEF Upload, Uploading
<1>2. file'[f].status = "pending"
  BY DEF Upload, Fresh, Typed
<1>3. c \in Kb \cup {Nothing}
  BY DEF Collection
<1>4. \A u \in Uploading(j, f, t, c) : CallOK(u)'
  BY <1>2, <1>3, NothingAssumption DEF Uploading, Do, Store, Call, CallOK, Kinds
<1>5. Fits(Uploading(j, f, t, c))
  <2>1. CASE c = Nothing
    <3>1. Uploading(j, f, t, c) = {Store(<<1, 1>>, Nothing, f, t)}
      BY <2>1 DEF Uploading
    <3>2. Store(<<1, 1>>, Nothing, f, t).do = "store"
      BY DEF Store, Call
    <3>. QED
      BY <3>1, <3>2 DEF Fits, Plan, Pairs, Kinds, Linking
  <2>2. CASE c # Nothing
    <3> DEFINE a == Store(<<1, 1>>, Nothing, f, t)
               b == Do(<<1, 2>>, "processing", c, f)
               d == Store(<<1, 3>>, c, f, Nothing)
               e == Do(<<1, 4>>, "attach", c, f)
    <3>1. Uploading(j, f, t, c) = {a, b, d, e}
      BY <2>2 DEF Uploading
    <3>2. a.do = "store" /\ a.kb = Nothing /\ b.do = "processing" /\ d.do = "store" /\ d.kb = c /\ e.do = "attach"
      BY DEF Store, Do, Call
    <3>3. Same(d, e) /\ Leads(d, e) /\ ~Before(d, d) /\ ~Before(d, a) /\ Before(a, b) /\ Before(a, d) /\ Before(a, e)
      BY DEF Store, Do, Call, Same, Leads, Before
    <3>. HIDE DEF a, b, d, e
    <3>4. \E K \in Kinds : \A u \in {a, b, d, e} : u.do \in K
      BY <3>2 DEF Kinds
    <3>5. Plan({a, b, d, e})
      BY <2>2, <3>2, <3>3, <3>4 DEF Plan
    <3>6. Pairs({a, b, d, e})
      BY <3>2, <3>3 DEF Pairs, Linking
    <3>. QED
      BY <3>1, <3>2, <3>3, <3>5, <3>6 DEF Fits, Linking
  <2>. QED
    BY <2>1, <2>2
<1>. QED
  BY <1>1, <1>4, <1>5

\* So does AddFile.
LEMMA AddFits ==
    ASSUME Typed, NEW j \in Job, NEW f \in File, NEW k \in Kb, AddFile(j, k, f)
    PROVE  Request(j, Adding(k, f)) /\ Fits(Adding(k, f)) /\ \A u \in Adding(k, f) : CallOK(u)'
<1> DEFINE a == Store(<<1, 1>>, k, f, Nothing)
           b == Do(<<1, 2>>, "link", k, f)
<1>1. Request(j, {a, b}) /\ file'[f].status # "absent"
  BY DEF AddFile, There
<1>2. CallOK(a)' /\ CallOK(b)'
  BY <1>1, NothingAssumption DEF Do, Store, Call, CallOK, Kinds
<1>3. a.do = "store" /\ b.do = "link" /\ a.kb = k /\ Same(a, b) /\ Leads(a, b) /\ ~Before(a, a)
  BY DEF Store, Do, Call, Same, Leads, Before
<1>. HIDE DEF a, b
<1>4. \E K \in Kinds : \A u \in {a, b} : u.do \in K
  BY <1>3 DEF Kinds
<1>5. Fits({a, b})
  BY <1>3, <1>4, NothingAssumption DEF Fits, Plan, Pairs, Linking
<1>. QED
  BY <1>1, <1>2, <1>5 DEF a, b, Adding

\* So does UpdateFile.
LEMMA UpdateFits ==
    ASSUME Typed, NEW j \in Job, NEW f \in File, NEW k \in Kb, UpdateFile(j, k, f)
    PROVE  Request(j, Updating(k, f)) /\ Fits(Updating(k, f)) /\ \A u \in Updating(k, f) : CallOK(u)'
<1> DEFINE a == Do(<<1, 1>>, "wipeFile", k, f)
           b == Store(<<1, 2>>, k, f, Nothing)
<1>1. Request(j, {a, b}) /\ file'[f].status # "absent"
  BY DEF UpdateFile, There
<1>2. CallOK(a)' /\ CallOK(b)'
  BY <1>1, NothingAssumption DEF Do, Store, Call, CallOK, Kinds
<1>3. a.do = "wipeFile" /\ b.do = "store" /\ b.kb = k /\ Same(b, a) /\ Leads(a, b)
  BY DEF Store, Do, Call, Same, Leads, Before
<1>. HIDE DEF a, b
<1>4. \E K \in Kinds : \A u \in {a, b} : u.do \in K
  BY <1>3 DEF Kinds
<1>5. Fits({a, b})
  BY <1>3, <1>4, NothingAssumption DEF Fits, Plan, Pairs, Linking
<1>. QED
  BY <1>1, <1>2, <1>5 DEF a, b, Updating

\* So does EditFile.
LEMMA EditFits ==
    ASSUME Typed, NEW j \in Job, NEW f \in File, EditFile(j, f)
    PROVE  \E t \in Text : /\ Request(j, Editing(f, t)) /\ Fits(Editing(f, t))
                           /\ \A u \in Editing(f, t) : CallOK(u)'
<1>1. PICK t \in Text : Request(j, {Store(<<1, 1>>, Nothing, f, t), Do(<<2, 1>>, "spread", Nothing, f)})
  BY DEF EditFile
<1> DEFINE a == Store(<<1, 1>>, Nothing, f, t)
           b == Do(<<2, 1>>, "spread", Nothing, f)
<1>2. file'[f].status # "absent"
  BY DEF EditFile, There
<1>3. CallOK(a)' /\ CallOK(b)'
  BY <1>2, NothingAssumption DEF Do, Store, Call, CallOK, Kinds
<1>4. a.do = "store" /\ b.do = "spread" /\ Before(a, b) /\ a.at[1] # b.at[1] /\ a.kb = b.kb
  BY DEF Store, Do, Call, Before
<1>5. Request(j, {a, b})
  BY <1>1
<1>. HIDE DEF a, b
<1>6. \E K \in Kinds : \A u \in {a, b} : u.do \in K
  BY <1>4 DEF Kinds
<1>7. Fits({a, b})
  BY <1>4, <1>6 DEF Fits, Plan, Pairs, Linking
<1>. QED
  BY <1>3, <1>5, <1>7 DEF a, b, Editing

\* So does BatchAdd.
LEMMA BatchFits ==
    ASSUME Typed, NEW j \in Job, NEW k \in Kb, NEW F \in SUBSET File, BatchAdd(j, k, F)
    PROVE  LET texts == [f \in {g \in F : k \notin Linked(g)} |-> file[f].text]
           IN  Request(j, Batching(k, texts)) /\ Fits(Batching(k, texts)) /\ \A u \in Batching(k, texts) : CallOK(u)'
<1> DEFINE files == {f \in F : k \notin Linked(f)}
           texts == [f \in files |-> file[f].text]
           a == Call(<<1, 1>>, "batch", k, Nothing, texts)
<1>1. Request(j, {a}) /\ file' = file /\ \A f \in F : file[f].status # "absent"
  BY DEF BatchAdd, There
<1>2. DOMAIN texts = files /\ \A f \in files : f \in File /\ file'[f].status # "absent"
  BY <1>1
<1>. HIDE DEF texts
<1>3. a.at = <<1, 1>> /\ a.do = "batch" /\ a.kb = k /\ a.file = Nothing /\ a.text = texts /\ a.skips = 1
  BY DEF Call
<1>. HIDE DEF a
<1>4. ASSUME NEW u, u = a PROVE CallOK(u)'
  <2>1. u.at = <<1, 1>> /\ u.do = "batch" /\ u.kb = k /\ u.file = Nothing /\ u.text = texts /\ u.skips = 1
    BY <1>3, <1>4
  <2>2. \A f \in DOMAIN u.text : f \in File /\ file'[f].status # "absent"
    BY <1>2, <2>1
  <2>. QED
    BY <2>1, <2>2, NothingAssumption DEF CallOK, Kinds
<1>5. Fits({a})
  BY <1>3 DEF Fits, Plan, Pairs, Kinds, Linking
<1>. QED
  BY <1>1, <1>4, <1>5 DEF a, texts, Batching

\* So does Reset.
LEMMA ResetFits ==
    ASSUME Typed, NEW j \in Job, NEW k \in Kb, Reset(j, k)
    PROVE  Request(j, Resetting(k)) /\ Fits(Resetting(k)) /\ \A u \in Resetting(k) : CallOK(u)'
<1> DEFINE a == Do(<<1, 1>>, "wipe", k, Nothing)
           b == Do(<<2, 1>>, "unlinkAll", k, Nothing)
<1>1. Request(j, {a, b})
  BY DEF Reset
<1>2. CallOK(a)' /\ CallOK(b)'
  BY NothingAssumption DEF Do, Call, CallOK, Kinds
<1>3. a.do = "wipe" /\ b.do = "unlinkAll" /\ a.at[1] # b.at[1] /\ a.kb = b.kb
  BY DEF Do, Call
<1>. HIDE DEF a, b
<1>4. \E K \in Kinds : \A u \in {a, b} : u.do \in K
  BY <1>3 DEF Kinds
<1>5. Fits({a, b})
  BY <1>3, <1>4 DEF Fits, Plan, Pairs, Linking
<1>. QED
  BY <1>1, <1>2, <1>5 DEF a, b, Resetting

\* The three calls that take a file out of a base, in their order.
LEMMA UnlinkingFits ==
    ASSUME NEW i \in Nat \ {0}, NEW k \in Kb, NEW f \in File, file'[f].status # "absent", NEW t \in Unlinking(i, k, f)
    PROVE  /\ CallOK(t)' /\ t.do \in {"unlink", "drop", "dropHash"} /\ t.at[1] = i /\ t.kb = k /\ t.file = f
           /\ Do(<<i, 1>>, "unlink", k, f) \in Unlinking(i, k, f) /\ Do(<<i, 2>>, "drop", k, f) \in Unlinking(i, k, f)
           /\ LET u == Do(<<i, 1>>, "unlink", k, f)
              IN  /\ u.do = "unlink" /\ Same(u, t) /\ u.at[1] = i
                  /\ t.do = "unlink" <=> t = u
                  /\ t.do # "unlink" => Before(u, t)
           /\ LET u == Do(<<i, 2>>, "drop", k, f) IN u.do = "drop" /\ Same(u, t) /\ u.at[1] = i
<1>1. \/ t = Do(<<i, 1>>, "unlink", k, f)
      \/ t = Do(<<i, 2>>, "drop", k, f)
      \/ t = Call(<<i, 3>>, "dropHash", k, f, file[f].hash)
  BY DEF Unlinking
<1>2. /\ t.at[1] = i /\ t.kb = k /\ t.file = f /\ t.skips = i
      /\ \/ t.at = <<i, 1>> /\ t.do = "unlink" /\ t = Do(<<i, 1>>, "unlink", k, f)
         \/ t.at = <<i, 2>> /\ t.do = "drop"
         \/ t.at = <<i, 3>> /\ t.do = "dropHash"
  BY <1>1 DEF Do, Call
<1>3. CallOK(t)'
  BY <1>2, NothingAssumption DEF CallOK, Kinds
<1> DEFINE u == Do(<<i, 1>>, "unlink", k, f)
           d == Do(<<i, 2>>, "drop", k, f)
<1>4. u \in Unlinking(i, k, f) /\ d \in Unlinking(i, k, f)
  BY DEF Unlinking
<1>5. u.at = <<i, 1>> /\ u.do = "unlink" /\ u.kb = k /\ u.file = f /\ d.at[1] = i /\ d.do = "drop" /\ d.kb = k /\ d.file = f
  BY DEF Do, Call
<1>6. t.do = "unlink" <=> t = u
  BY <1>2, <1>5
<1>. HIDE DEF u, d
<1>7. Same(u, t) /\ u.at[1] = i /\ Same(d, t) /\ (t.do # "unlink" => Before(u, t))
  BY <1>2, <1>5 DEF Same, Before
<1>. QED
  BY <1>2, <1>3, <1>4, <1>5, <1>6, <1>7 DEF u, d

\* The calls of unlinkings, each a block, and of what comes after them.
LEMMA UnlinkingsFit ==
    ASSUME NEW kbs, \A i \in DOMAIN kbs : i \in Nat \ {0} /\ kbs[i] \in Kb,
           NEW f \in File, file'[f].status # "absent",
           NEW more, \A u \in more : CallOK(u)' /\ u.do \in {"dropRow", "dropOwn"} /\ \A i \in DOMAIN kbs : i < u.at[1],
           NEW todo, more \subseteq todo,
           \A t \in todo : t \in more \/ \E i \in DOMAIN kbs : t \in Unlinking(i, kbs[i], f),
           \A i \in DOMAIN kbs : \A t \in Unlinking(i, kbs[i], f) : t.do \in {"unlink", "drop"} => t \in todo
    PROVE  Fits(todo) /\ \A t \in todo : CallOK(t)'
<1> DEFINE U(i) == Do(<<i, 1>>, "unlink", kbs[i], f)
           D(i) == Do(<<i, 2>>, "drop", kbs[i], f)
<1>0. file'[f].status # "absent"
  OBVIOUS
<1>1. ASSUME NEW i \in DOMAIN kbs, NEW t \in Unlinking(i, kbs[i], f)
      PROVE  /\ CallOK(t)' /\ t.do \in {"unlink", "drop", "dropHash"} /\ t.at[1] = i
             /\ U(i) \in todo /\ U(i).do = "unlink" /\ Same(U(i), t) /\ U(i).at[1] = i
             /\ D(i) \in todo /\ D(i).do = "drop" /\ Same(D(i), t) /\ D(i).at[1] = i
             /\ t.do = "unlink" <=> t = U(i)
             /\ t.do # "unlink" => Before(U(i), t)
  <2>1. PICK k \in Kb : k = kbs[i]
    OBVIOUS
  <2>2. i \in Nat \ {0} /\ t \in Unlinking(i, k, f)
    BY <2>1
  <2>3. /\ CallOK(t)' /\ t.do \in {"unlink", "drop", "dropHash"} /\ t.at[1] = i
        /\ U(i) \in Unlinking(i, k, f) /\ U(i).do = "unlink" /\ Same(U(i), t) /\ U(i).at[1] = i
        /\ D(i) \in Unlinking(i, k, f) /\ D(i).do = "drop" /\ Same(D(i), t) /\ D(i).at[1] = i
        /\ t.do = "unlink" <=> t = U(i)
        /\ t.do # "unlink" => Before(U(i), t)
    <3>1. U(i) = Do(<<i, 1>>, "unlink", k, f) /\ D(i) = Do(<<i, 2>>, "drop", k, f)
      BY <2>1
    <3>2. /\ CallOK(t)' /\ t.do \in {"unlink", "drop", "dropHash"} /\ t.at[1] = i
          /\ Do(<<i, 1>>, "unlink", k, f) \in Unlinking(i, k, f) /\ Do(<<i, 2>>, "drop", k, f) \in Unlinking(i, k, f)
          /\ LET u == Do(<<i, 1>>, "unlink", k, f)
             IN  /\ u.do = "unlink" /\ Same(u, t) /\ u.at[1] = i
                 /\ t.do = "unlink" <=> t = u
                 /\ t.do # "unlink" => Before(u, t)
          /\ LET u == Do(<<i, 2>>, "drop", k, f) IN u.do = "drop" /\ Same(u, t) /\ u.at[1] = i
      BY <1>0, <2>2, UnlinkingFits
    <3>3. /\ CallOK(t)' /\ t.do \in {"unlink", "drop", "dropHash"} /\ t.at[1] = i
          /\ U(i) \in Unlinking(i, k, f) /\ D(i) \in Unlinking(i, k, f)
      BY <3>1, <3>2
    <3>4. /\ U(i).do = "unlink" /\ Same(U(i), t) /\ U(i).at[1] = i
          /\ t.do = "unlink" <=> t = U(i)
          /\ t.do # "unlink" => Before(U(i), t)
      BY <3>1, <3>2
    <3>5. D(i).do = "drop" /\ Same(D(i), t) /\ D(i).at[1] = i
      BY <3>1, <3>2
    <3>. HIDE DEF U, D
    <3>. QED
      BY <3>3, <3>4, <3>5
  <2>. HIDE DEF U, D
  <2>. QED
    BY <2>1, <2>3
<1>. HIDE DEF U, D
<1>2. \A t \in todo : CallOK(t)' /\ t.do \in {"unlink", "drop", "dropHash", "dropRow", "dropOwn"}
  BY <1>1
<1>3. ASSUME NEW t \in todo, t.do \in {"unlink", "drop", "dropHash"}
      PROVE  \E i \in DOMAIN kbs : t \in Unlinking(i, kbs[i], f)
  BY <1>3
<1>4. \A t \in todo : t.do \in {"drop", "dropHash"} =>
          \E u \in todo : u.do = "unlink" /\ Same(u, t) /\ u.at[1] = t.at[1] /\ Before(u, t)
  BY <1>1, <1>3
<1>5. \A t \in todo : t.do = "unlink" => \E u \in todo : u.do = "drop" /\ Same(u, t) /\ u.at[1] = t.at[1]
  BY <1>1, <1>3
<1>6. ASSUME NEW t \in todo, t.do = "unlink", NEW u \in todo \ {t}, u.at[1] = t.at[1] PROVE Before(t, u)
  <2>1. PICK i \in DOMAIN kbs : t \in Unlinking(i, kbs[i], f)
    BY <1>3, <1>6
  <2>2. t = U(i) /\ t.at[1] = i
    BY <1>1, <1>6, <2>1
  <2>3. u \notin more
    BY <1>6, <2>2
  <2>4. PICK n \in DOMAIN kbs : u \in Unlinking(n, kbs[n], f)
    BY <2>3
  <2>5. n = i
    BY <1>1, <1>6, <2>2, <2>4
  <2>. QED
    BY <1>1, <1>6, <2>2, <2>4, <2>5
<1>7. ASSUME NEW t \in todo, t.do = "dropRow", NEW u \in todo, u.do \in {"unlink", "drop"} PROVE Before(u, t)
  <2>1. PICK i \in DOMAIN kbs : u \in Unlinking(i, kbs[i], f)
    BY <1>3, <1>7
  <2>2. t \in more /\ u.at[1] = i
    BY <1>1, <1>7, <2>1
  <2>. QED
    BY <2>2 DEF Before
<1>8. \E K \in Kinds : \A t \in todo : t.do \in K
  BY <1>2 DEF Kinds
<1>9. Plan(todo)
  BY <1>2, <1>6, <1>7, <1>8 DEF Plan, Linking
<1>10. Pairs(todo)
  BY <1>2, <1>5 DEF Pairs, Linking
<1>. QED
  BY <1>2, <1>4, <1>9, <1>10 DEF Fits, Linking

\* RemoveFile arrives with calls that fit the plan.
LEMMA RemoveFits ==
    ASSUME Typed, NEW j \in Job, NEW f \in File, NEW k \in Kb, RemoveFile(j, k, f)
    PROVE  \E more : /\ more \in {{}, {Do(<<2, 1>>, "dropOwn", k, f), Do(<<3, 1>>, "dropRow", k, f)}}
                     /\ Request(j, Unlinking(1, k, f) \cup more)
                     /\ Fits(Unlinking(1, k, f) \cup more)
                     /\ \A u \in Unlinking(1, k, f) \cup more : CallOK(u)'
<1> DEFINE a == Do(<<2, 1>>, "dropOwn", k, f)
           b == Do(<<3, 1>>, "dropRow", k, f)
<1>1. PICK more \in {{}, {a, b}} : Request(j, Unlinking(1, k, f) \cup more)
  BY DEF RemoveFile
<1>2. file'[f].status # "absent"
  BY DEF RemoveFile, There
<1>3. CallOK(a)' /\ CallOK(b)'
  BY <1>2, NothingAssumption DEF Do, Call, CallOK, Kinds
<1>4. a.do = "dropOwn" /\ b.do = "dropRow" /\ a.at[1] = 2 /\ b.at[1] = 3
  BY DEF Do, Call
<1>. HIDE DEF a, b
<1>5. \A u \in more : u.do \in {"dropOwn", "dropRow"} /\ CallOK(u)' /\ 1 < u.at[1]
  BY <1>1, <1>3, <1>4
<1>6. PICK kbs : kbs = <<k>>
  OBVIOUS
<1>7. DOMAIN kbs = {1} /\ kbs[1] = k
  BY <1>6
<1>8. PICK todo : todo = Unlinking(1, k, f) \cup more
  OBVIOUS
<1>9. /\ \A i \in DOMAIN kbs : i \in Nat \ {0} /\ kbs[i] \in Kb
      /\ \A u \in more : CallOK(u)' /\ u.do \in {"dropRow", "dropOwn"} /\ \A i \in DOMAIN kbs : i < u.at[1]
      /\ more \subseteq todo
      /\ \A t \in todo : t \in more \/ \E i \in DOMAIN kbs : t \in Unlinking(i, kbs[i], f)
      /\ \A i \in DOMAIN kbs : \A t \in Unlinking(i, kbs[i], f) : t.do \in {"unlink", "drop"} => t \in todo
  BY <1>5, <1>7, <1>8
<1>10. Fits(todo) /\ \A t \in todo : CallOK(t)'
  BY <1>2, <1>9, UnlinkingsFit
<1>. QED
  BY <1>1, <1>8, <1>10 DEF a, b

Deleting(kbs, f) ==
    {s \in UNION {Unlinking(i, kbs[i], f) : i \in DOMAIN kbs} : s.do = "dropHash" => s.text # Nothing}
    \cup Dropping(Len(kbs) + 1, f)

\* So does DeleteFile, whose blocks are the bases that hold the file.
LEMMA DeleteFits ==
    ASSUME Typed, NEW j \in Job, NEW f \in File, DeleteFile(j, f)
    PROVE  LET kbs == SetToSeq(Linked(f))
           IN  Request(j, Deleting(kbs, f)) /\ Fits(Deleting(kbs, f)) /\ \A u \in Deleting(kbs, f) : CallOK(u)'
<1>1. PICK kbs : kbs = SetToSeq(Linked(f))
  OBVIOUS
<1>2. Request(j, Deleting(kbs, f)) /\ file'[f].status # "absent"
  BY <1>1 DEF DeleteFile, There, Deleting
<1>3. IsFiniteSet(Linked(f)) /\ Linked(f) \subseteq Kb
  BY FiniteAssumption, FS_Subset DEF Linked
<1>4. Len(kbs) \in Nat /\ \A i \in DOMAIN kbs : i \in Nat \ {0} /\ i <= Len(kbs) /\ kbs[i] \in Kb
  BY <1>1, <1>3, Listing
<1>5. PICK more : more = Dropping(Len(kbs) + 1, f)
  OBVIOUS
<1>6. \A u \in more : CallOK(u)' /\ u.do \in {"dropRow", "dropOwn"} /\ \A i \in DOMAIN kbs : i < u.at[1]
  <2>. SUFFICES ASSUME NEW u \in more
                PROVE  CallOK(u)' /\ u.do \in {"dropRow", "dropOwn"} /\ \A i \in DOMAIN kbs : i < u.at[1]
    OBVIOUS
  <2>1. /\ u.at \in {<<Len(kbs) + 1, 1>>, <<Len(kbs) + 1, 2>>} /\ u.skips = Len(kbs) + 1
        /\ u.do \in {"dropRow", "dropOwn"} /\ u.kb = Nothing /\ u.file = f
    BY <1>5 DEF Dropping, Do, Call
  <2>2. Len(kbs) + 1 \in Nat \ {0}
    BY <1>4
  <2>3. CallOK(u)'
    BY <1>2, <2>1, <2>2, NothingAssumption DEF CallOK, Kinds
  <2>. QED
    BY <1>4, <2>1, <2>3
<1>7. PICK todo : todo = Deleting(kbs, f)
  OBVIOUS
<1>8. /\ more \subseteq todo
      /\ \A t \in todo : t \in more \/ \E i \in DOMAIN kbs : t \in Unlinking(i, kbs[i], f)
      /\ \A i \in DOMAIN kbs : \A t \in Unlinking(i, kbs[i], f) : t.do \in {"unlink", "drop"} => t \in todo
  BY <1>5, <1>7 DEF Deleting
<1>9. Fits(todo) /\ \A t \in todo : CallOK(t)'
  BY <1>2, <1>4, <1>6, <1>8, UnlinkingsFit
<1>. QED
  BY <1>1, <1>2, <1>7, <1>9

Files(k) == SetToSeq({f \in File : k \in Linked(f)})

Restore(i, k) == {[Store(<<i, n>>, k, Files(k)[n], Nothing) EXCEPT !.skips = 0] : n \in DOMAIN Files(k)}

Reindexing(kbs) ==
    UNION {{Do(<<i, 0>>, "wipe", kbs[i], Nothing)} \cup Restore(i, kbs[i]) : i \in DOMAIN kbs}

\* The files of a base as reindexing lists them.
LEMMA Listed == ASSUME NEW k PROVE /\ \A n \in DOMAIN Files(k) : n \in Nat \ {0} /\ Files(k)[n] \in File /\ k \in Linked(Files(k)[n])
                                   /\ \A f \in File : k \in Linked(f) => \E n \in DOMAIN Files(k) : Files(k)[n] = f
<1> DEFINE S == {f \in File : k \in Linked(f)}
<1>1. IsFiniteSet(S)
  BY FiniteAssumption, FS_Subset
<1>2. /\ \A n \in DOMAIN SetToSeq(S) : SetToSeq(S)[n] \in S /\ n \in Nat \ {0}
      /\ \A f \in S : \E n \in DOMAIN SetToSeq(S) : SetToSeq(S)[n] = f
  BY <1>1, Listing
<1>3. Files(k) = SetToSeq(S)
  BY DEF Files
<1>. QED
  BY <1>2, <1>3

\* Reindex arrives with calls that fit the plan; its blocks are the bases.
LEMMA ReindexFits ==
    ASSUME Typed, NEW j \in Job, Reindex(j)
    PROVE  LET kbs == SetToSeq(Kb)
           IN  /\ Request(j, Reindexing(kbs)) /\ Fits(Reindexing(kbs)) /\ \A u \in Reindexing(kbs) : CallOK(u)'
               /\ \A i \in DOMAIN kbs : i \in Nat \ {0} /\ kbs[i] \in Kb
<1> DEFINE kbs == SetToSeq(Kb)
<1>1. Request(j, Reindexing(kbs)) /\ file' = file
  BY DEF Reindex, Reindexing, Restore, Files
<1>2. \A i \in DOMAIN kbs : i \in Nat \ {0} /\ kbs[i] \in Kb
  BY FiniteAssumption, Listing
<1>. HIDE DEF kbs
<1>3. ASSUME NEW i \in DOMAIN kbs, NEW u \in {Do(<<i, 0>>, "wipe", kbs[i], Nothing)} \cup Restore(i, kbs[i])
      PROVE  CallOK(u)' /\ u.do \in {"wipe", "store"}
  <2>1. CASE u = Do(<<i, 0>>, "wipe", kbs[i], Nothing)
    <3>1. u.at = <<i, 0>> /\ u.do = "wipe" /\ u.kb = kbs[i] /\ u.file = Nothing /\ u.skips = i
      BY <2>1 DEF Do, Call
    <3>. QED
      BY <1>2, <3>1, NothingAssumption DEF CallOK, Kinds
  <2>2. CASE u \in Restore(i, kbs[i])
    <3> DEFINE k == kbs[i]
    <3>1. PICK n \in DOMAIN Files(k) : u = [Store(<<i, n>>, k, Files(k)[n], Nothing) EXCEPT !.skips = 0]
      BY <2>2 DEF Restore
    <3>2. u.at = <<i, n>> /\ u.do = "store" /\ u.kb = k /\ u.file = Files(k)[n] /\ u.skips = 0 /\ u.text = Nothing
      BY <3>1 DEF Store, Call
    <3>3. n \in Nat /\ u.file \in File /\ k \in Kb /\ <<k, u.file>> \in links
      BY <1>2, <3>2, Listed DEF Linked
    <3>4. file'[u.file].status # "absent"
      BY <1>1, <3>3 DEF Typed, There
    <3>. HIDE DEF k
    <3>. QED
      BY <1>2, <3>2, <3>3, <3>4, NothingAssumption DEF CallOK, Kinds
  <2>. QED
    BY <1>3, <2>1, <2>2
<1>4. \A u \in Reindexing(kbs) : CallOK(u)' /\ u.do \in {"wipe", "store"}
  BY <1>3 DEF Reindexing
<1>5. \E K \in Kinds : \A u \in Reindexing(kbs) : u.do \in K
  BY <1>4 DEF Kinds
<1>6. \A u \in Reindexing(kbs) : u.kb # Nothing
  <2>. SUFFICES ASSUME NEW u \in Reindexing(kbs) PROVE u.kb # Nothing
    OBVIOUS
  <2>. PICK i \in DOMAIN kbs : u \in {Do(<<i, 0>>, "wipe", kbs[i], Nothing)} \cup Restore(i, kbs[i])
    BY DEF Reindexing
  <2>. SUFFICES u.kb = kbs[i]
    BY <1>2, NothingAssumption
  <2>1. CASE u = Do(<<i, 0>>, "wipe", kbs[i], Nothing)
    BY <2>1 DEF Do, Call
  <2>2. CASE u \in Restore(i, kbs[i])
    <3>1. PICK n \in DOMAIN Files(kbs[i]) : u = [Store(<<i, n>>, kbs[i], Files(kbs[i])[n], Nothing) EXCEPT !.skips = 0]
      BY <2>2 DEF Restore
    <3>. QED
      BY <3>1 DEF Store, Call
  <2>. QED
    BY <2>1, <2>2
<1>7. Fits(Reindexing(kbs))
  BY <1>4, <1>5, <1>6 DEF Fits, Plan, Pairs, Linking
<1>. QED
  BY <1>1, <1>2, <1>4, <1>7 DEF kbs

\* Whatever request arrives, its calls fit the plan.
LEMMA Arrivals == ASSUME Typed, NEW j \in Job, Arrive(j)
                  PROVE  \E todo : Request(j, todo) /\ Fits(todo) /\ \A t \in todo : CallOK(t)'
<1>1. \/ \E f \in File : Upload(j, f) \/ DeleteFile(j, f) \/ EditFile(j, f)
      \/ \E f \in File, k \in Kb : AddFile(j, k, f) \/ UpdateFile(j, k, f) \/ RemoveFile(j, k, f)
      \/ \E k \in Kb : Reset(j, k) \/ \E F \in SUBSET File : BatchAdd(j, k, F)
      \/ Reindex(j)
  BY DEF Arrive
<1>2. CASE \E f \in File : Upload(j, f)
  BY <1>2, UploadFits
<1>3. CASE \E f \in File : DeleteFile(j, f)
  BY <1>3, DeleteFits
<1>4. CASE \E f \in File : EditFile(j, f)
  BY <1>4, EditFits
<1>5. CASE \E f \in File, k \in Kb : AddFile(j, k, f)
  BY <1>5, AddFits
<1>6. CASE \E f \in File, k \in Kb : UpdateFile(j, k, f)
  BY <1>6, UpdateFits
<1>7. CASE \E f \in File, k \in Kb : RemoveFile(j, k, f)
  BY <1>7, RemoveFits
<1>8. CASE \E k \in Kb : Reset(j, k)
  BY <1>8, ResetFits
<1>9. CASE \E k \in Kb, F \in SUBSET File : BatchAdd(j, k, F)
  BY <1>9, BatchFits
<1>10. CASE Reindex(j)
  BY <1>10, ReindexFits
<1>. QED
  BY <1>1, <1>2, <1>3, <1>4, <1>5, <1>6, <1>7, <1>8, <1>9, <1>10

-----------------------------------------------------------------------------
(* The types.                                                              *)

\* A call stays well-typed as long as no row becomes absent again.
LEMMA Steady == ASSUME NEW t, CallOK(t), \A f \in File : file'[f].status = "absent" => file[f].status = "absent"
                PROVE  CallOK(t)'
  BY DEF CallOK

\* The three calls of a propagation.
LEMMA SpreadCalls ==
    ASSUME NEW i \in Nat \ {0}, NEW k \in Kb, NEW f \in File, NEW t \in Propagation(i, k, f)
    PROVE  /\ t.at[1] = i /\ t.skips = i /\ t.kb = k /\ t.file = f /\ t.text = Nothing
           /\ \/ t.at = <<i, 1>> /\ t.do = "old"
              \/ t.at = <<i, 2>> /\ t.do = "store"
              \/ t.at = <<i, 3>> /\ t.do = "dropOld"
  BY DEF Propagation, Do, Store, Call

\* The two calls of a batched file.
LEMMA BatchCalls ==
    ASSUME NEW i \in Nat \ {0}, NEW k \in Kb, NEW f \in File, NEW text,
           NEW t \in {Call(<<1, i>>, "hash", k, f, text), Do(<<2, i>>, "link", k, f)}
    PROVE  /\ t.kb = k /\ t.file = f /\ t.at \in {<<1, i>>, <<2, i>>} /\ t.skips = t.at[1]
           /\ \/ t.do = "hash" /\ t.text = text
              \/ t.do = "link" /\ t.text = Nothing
  BY DEF Do, Call

\* The calls of a request remain calls.
LEMMA TodoTyped ==
    ASSUME Typed, NEW j \in Job, NEW s \in First(j), Act(j, s) \/ Raise(j, s)
    PROVE  \A i \in Job : \A t \in Todo(i)' : CallOK(t)'
<1>1. \A i \in Job : \A t \in Todo(i) : CallOK(t)
  BY DEF Typed
<1>2. \A f \in File : file'[f].status = "absent" <=> file[f].status = "absent"
  BY FileEffect
<1>3. \A i \in Job : \A t \in Todo(i) : CallOK(t)'
  BY <1>1, <1>2, Steady
<1>4. CASE Todo(j)' \subseteq Todo(j) /\ \A i \in Job \ {j} : Todo(i)' = Todo(i)
  BY <1>3, <1>4
<1>5. CASE Raise(j, s)
  BY <1>4, <1>5, RaiseEffect
<1>6. CASE Spread(j, s)
  <2>1. ASSUME NEW t \in Todo(j)' PROVE CallOK(t)'
    <3> DEFINE kbs == SetToSeq(Linked(s.file))
    <3>1. PICK i \in DOMAIN kbs : t \in Propagation(i, kbs[i], s.file)
      BY <1>6, Propagated
    <3>2. s.file \in File /\ i \in Nat \ {0} /\ kbs[i] \in Kb
      BY <1>6, <3>1, Propagated DEF Linked
    <3>. HIDE DEF kbs
    <3>3. /\ t.at \in {<<i, 1>>, <<i, 2>>, <<i, 3>>} /\ t.at[1] = i /\ t.skips = i /\ t.kb = kbs[i] /\ t.file = s.file /\ t.text = Nothing
          /\ t.do \in {"old", "store", "dropOld"}
      <4>1. PICK k \in Kb, f \in File : k = kbs[i] /\ f = s.file
        BY <3>2
      <4>2. t \in Propagation(i, k, f)
        BY <3>1, <4>1
      <4>3. /\ t.at[1] = i /\ t.skips = i /\ t.kb = k /\ t.file = f /\ t.text = Nothing
            /\ \/ t.at = <<i, 1>> /\ t.do = "old"
               \/ t.at = <<i, 2>> /\ t.do = "store"
               \/ t.at = <<i, 3>> /\ t.do = "dropOld"
        BY <3>2, <4>2, SpreadCalls
      <4>. QED
        BY <4>1, <4>3
    <3>4. file'[s.file].status # "absent"
      BY <1>2, <3>2, <1>6, Firsts, NothingAssumption DEF CallOK
    <3>. QED
      BY <3>2, <3>3, <3>4, NothingAssumption DEF CallOK, Kinds
  <2>2. \A i \in Job \ {j} : Todo(i)' = Todo(i)
    BY <1>6, Progress DEF Act
  <2>. QED
    BY <1>3, <2>1, <2>2
<1>7. CASE BatchInsert(j, s)
  <2>1. ASSUME NEW t \in Todo(j)' PROVE CallOK(t)'
    <3> DEFINE fs == SetToSeq(DOMAIN s.text)
    <3>1. PICK i \in DOMAIN fs : t \in {Call(<<1, i>>, "hash", s.kb, fs[i], s.text[fs[i]]), Do(<<2, i>>, "link", s.kb, fs[i])}
      BY <1>7, Batched
    <3>2. s.kb \in Kb /\ i \in Nat \ {0} /\ fs[i] \in DOMAIN s.text /\ fs[i] \in File /\ file[fs[i]].status # "absent"
      BY <1>7, <3>1, Batched
    <3>. HIDE DEF fs
    <3>3. /\ t.at \in {<<1, i>>, <<2, i>>} /\ t.skips = t.at[1] /\ t.kb = s.kb /\ t.file = fs[i]
          /\ t.do \in {"hash", "link"}
      <4>0. PICK text : text = s.text[fs[i]]
        OBVIOUS
      <4>1. PICK k \in Kb, f \in File : k = s.kb /\ f = fs[i]
        BY <3>2
      <4>2. t \in {Call(<<1, i>>, "hash", k, f, text), Do(<<2, i>>, "link", k, f)}
        BY <3>1, <4>0, <4>1
      <4>. QED
        BY <3>2, <4>1, <4>2, BatchCalls
    <3>4. file'[t.file].status # "absent"
      BY <1>2, <3>2, <3>3
    <3>. QED
      BY <3>2, <3>3, <3>4, NothingAssumption DEF CallOK, Kinds
  <2>2. \A i \in Job \ {j} : Todo(i)' = Todo(i)
    BY <1>7, Progress DEF Act
  <2>. QED
    BY <1>3, <2>1, <2>2
<1>. QED
  BY <1>4, <1>5, <1>6, <1>7, Progress

\* What a store holds stays in its type.
LEMMA HeldTyped ==
    ASSUME Typed, NEW j \in Job, NEW s \in First(j), Act(j, s) \/ Raise(j, s)
    PROVE  \A i \in Job : HeldOK(job[i].held)'
<1>1. \A i \in Job : HeldOK(job[i].held)
  BY DEF Typed
<1>2. \A i \in Job \ {j} : HeldOK(job[i].held)'
  <2>1. \A i \in Job \ {j} : job'[i] = job[i]
    BY Progress, RaiseEffect
  <2>. QED
    BY <1>1, <2>1 DEF HeldOK
<1>3. CASE job'[j].held = Free
  BY <1>2, <1>3 DEF HeldOK
<1>4. CASE Load(j, s)
  <2>1. PICK held : Hold(j, held) /\ held = [stage |-> "check", text |-> held.text, docs |-> held.docs]
    BY <1>4 DEF Load
  <2>2. job'[j].held = held /\ held.stage = "check"
    BY <2>1, Holds
  <2>. QED
    BY <1>2, <2>1, <2>2 DEF HeldOK
<1>5. CASE Check(j, s) \/ Insert(j, s)
  <2>1. PICK stage \in {"insert", "finish"} : Hold(j, [job[j].held EXCEPT !.stage = stage])
    BY <1>5 DEF Check, Insert
  <2>2. job[j].held.stage # "none"
    BY <1>5 DEF Check, Insert, Storing
  <2>3. job[j].held # Free
    BY <2>2 DEF Free
  <2>4. job[j].held = [stage |-> job[j].held.stage, text |-> job[j].held.text, docs |-> job[j].held.docs]
    BY <1>1, <2>3 DEF HeldOK
  <2>5. PICK held : held = [job[j].held EXCEPT !.stage = stage]
    OBVIOUS
  <2>6. held = [stage |-> held.stage, text |-> held.text, docs |-> held.docs] /\ held.stage = stage
    BY <2>4, <2>5
  <2>7. job'[j].held = held
    BY <2>1, <2>5, Holds
  <2>. QED
    BY <1>2, <2>6, <2>7 DEF HeldOK
<1>. QED
  BY <1>3, <1>4, <1>5, Progress, RaiseEffect

\* Typed is kept by calls.
LEMMA TypedStep == ASSUME Typed, NEW j \in Job, Step(j) \/ Fails(j) \/ Loses(j) PROVE Typed'
<1>1. PICK s \in First(j) : Act(j, s) \/ Raise(j, s)
  BY Acts
<1>2. /\ DOMAIN file' = File
      /\ \A f \in File : /\ file'[f] = [status |-> file'[f].status, text |-> file'[f].text, hash |-> file'[f].hash]
                         /\ file'[f].status \in Status
                         /\ file'[f].status = "absent" <=> file[f].status = "absent"
                         /\ file[f].status = "deleted" => file'[f].status = "deleted"
                         /\ There(f)' <=> There(f) /\ ~(DropRow(j, s) /\ s.file = f)
  BY <1>1, FileEffect
<1>3. DOMAIN own' = File
  <2>1. DOMAIN own = File
    BY DEF Typed
  <2>2. CASE Raise(j, s)
    BY <2>1, <2>2, RaiseEffect
  <2>3. CASE Act(j, s)
    <3>1. own' = own \/ Load(j, s) \/ Insert(j, s) \/ DropOwn(j, s)
      BY <2>3, Changes
    <3>. QED
      BY <2>1, <3>1 DEF Load, Insert, DropOwn
  <2>. QED
    BY <1>1, <2>2, <2>3
<1>4. links' \subseteq Kb \X File /\ \A l \in links' : There(l[2])'
  <2>1. links \subseteq Kb \X File /\ \A l \in links : There(l[2])
    BY DEF Typed
  <2>2. CASE Raise(j, s)
    <3>1. ~DropRow(j, s) /\ links' = links
      BY <2>2, RaiseEffect, NotDropped
    <3>. QED
      BY <1>2, <2>1, <3>1
  <2>3. CASE Act(j, s)
    <3>1. /\ \A l : l \in links' /\ l \notin links => Link(j, s) /\ l = <<s.kb, s.file>> /\ There(s.file)
          /\ DropRow(j, s) => \A k \in Kb : <<k, s.file>> \notin links'
      BY <2>3, LinksEffect
    <3>2. Link(j, s) => s.do \in {"link", "attach"} /\ ~DropRow(j, s)
      BY DEF Link, Returns, DropRow
    <3>3. s.do \in {"link", "attach"} => s.kb \in Kb /\ s.file \in File
      BY Firsts DEF CallOK
    <3>4. links' \subseteq Kb \X File
      BY <2>1, <3>1, <3>2, <3>3
    <3>5. ASSUME NEW l \in links' PROVE There(l[2])'
      <4>1. There(l[2]) /\ l[2] \in File /\ l[1] \in Kb /\ l = <<l[1], l[2]>>
        BY <2>1, <3>1, <3>2, <3>3, <3>4, <3>5
      <4>2. ~(DropRow(j, s) /\ s.file = l[2])
        BY <3>1, <3>5, <4>1
      <4>. QED
        BY <1>2, <4>1, <4>2
    <3>. QED
      BY <3>4, <3>5
  <2>. QED
    BY <1>1, <2>2, <2>3
<1>5. stranded' \subseteq Kb \X File /\ \A l \in stranded' : file'[l[2]].status = "deleted"
  <2>1. stranded \subseteq Kb \X File /\ links \subseteq Kb \X File /\ \A l \in stranded : file[l[2]].status = "deleted"
    BY DEF Typed
  <2>2. CASE stranded' = stranded
    BY <1>2, <2>1, <2>2
  <2>3. CASE DropRow(j, s)
    <3>1. stranded' \subseteq stranded \cup {l \in links : l[2] = s.file} /\ file' = [file EXCEPT ![s.file] = Fresh("deleted")]
      BY <2>3 DEF DropRow
    <3>2. s.file \in File
      BY <2>3, Firsts DEF CallOK, DropRow, Returns
    <3>3. file'[s.file].status = "deleted"
      BY <3>1, <3>2 DEF Typed, Fresh
    <3>. QED
      BY <1>2, <2>1, <3>1, <3>3
  <2>. QED
    BY <1>1, <2>2, <2>3, Changes, RaiseEffect
<1>6. IsFiniteSet(vectors') /\ \A v \in vectors' : v.kb \in Kb /\ v.file \in File /\ file'[v.file].status # "absent"
  <2>1. IsFiniteSet(vectors) /\ \A v \in vectors : v.kb \in Kb /\ v.file \in File /\ file'[v.file].status # "absent"
    BY <1>2 DEF Typed
  <2>2. CASE Raise(j, s)
    BY <2>1, <2>2, RaiseEffect
  <2>3. CASE Act(j, s)
    <3>1. IsFiniteSet(vectors')
      BY <2>3, ChunksEffect
    <3>2. ASSUME NEW v \in vectors', v \notin vectors PROVE v.kb \in Kb /\ v.file \in File /\ file'[v.file].status # "absent"
      <4>1. \/ Insert(j, s) /\ s.kb \in Kb /\ v.kb = s.kb /\ v.file = s.file
            \/ BatchInsert(j, s) /\ v.kb = s.kb /\ v.file \in DOMAIN s.text
        BY <2>3, <3>2, ChunksEffect
      <4>2. CASE Insert(j, s)
        BY <1>2, <4>1, <4>2, Firsts, NothingAssumption DEF CallOK, Insert, Storing, BatchInsert
      <4>3. CASE BatchInsert(j, s)
        BY <1>2, <4>1, <4>3, Batched DEF Insert, Storing
      <4>. QED
        BY <4>1, <4>2, <4>3
    <3>. QED
      BY <2>1, <3>1, <3>2
  <2>. QED
    BY <1>1, <2>2, <2>3
<1>7. faults' \in Nat
  BY <1>1, Changes, RaiseEffect DEF Typed
<1>8. job' = [i \in Job |-> [todo |-> Todo(i)', held |-> job'[i].held, old |-> job'[i].old]]
  BY <1>1, Progress, RaiseEffect
<1>9. \A i \in Job : HeldOK(job[i].held)' /\ \A t \in Todo(i)' : CallOK(t)'
  BY <1>1, HeldTyped, TodoTyped
<1>10. \A i \in Job : HeldOK(job'[i].held) /\ \A t \in Todo(i)' : CallOK(t)'
  BY <1>9 DEF HeldOK
<1>. QED
  BY <1>2, <1>3, <1>4, <1>5, <1>6, <1>7, <1>8, <1>9 DEF Typed

\* Typed is kept by arrivals.
LEMMA TypedArrive == ASSUME Typed, NEW j \in Job, Arrive(j) PROVE Typed'
<1>1. PICK todo : Request(j, todo) /\ \A t \in todo : CallOK(t)'
  BY Arrivals
<1>2. /\ job' = [i \in Job |-> [todo |-> Todo(i)', held |-> job'[i].held, old |-> job'[i].old]]
      /\ \A i \in Job \ {j} : job'[i] = job[i] /\ Todo(i)' = Todo(i)
      /\ Todo(j)' = todo /\ job'[j].held = job[j].held
      /\ links' = links /\ vectors' = vectors /\ own' = own /\ faults' = faults /\ stranded' = stranded
  BY <1>1, RequestEffect
<1>3. DOMAIN file' = File /\ \A f \in File : file'[f] = file[f] \/ (file[f].status = "absent" /\ file'[f] = Fresh("pending"))
  BY FileArrives
<1>4. \A f \in File : /\ file'[f] = [status |-> file'[f].status, text |-> file'[f].text, hash |-> file'[f].hash]
                      /\ file'[f].status \in Status
                      /\ file[f].status # "absent" => file'[f] = file[f]
                      /\ file'[f].status = "absent" => file[f].status = "absent"
  BY <1>3 DEF Typed, Fresh, Status
<1>5. \A i \in Job : \A t \in Todo(i)' : CallOK(t)'
  <2>1. \A i \in Job : \A t \in Todo(i) : CallOK(t)'
    BY <1>4, Steady DEF Typed
  <2>. QED
    BY <1>1, <1>2, <2>1
<1>6. \A i \in Job : HeldOK(job[i].held)'
  <2>1. \A i \in Job : HeldOK(job[i].held) /\ job'[i].held = job[i].held
    BY <1>2 DEF Typed
  <2>. QED
    BY <2>1 DEF HeldOK
<1>7. \A l \in links' : There(l[2])'
  BY <1>2, <1>4 DEF Typed, There
<1>8. /\ \A l \in stranded' : file'[l[2]].status = "deleted"
      /\ \A v \in vectors' : v.kb \in Kb /\ v.file \in File /\ file'[v.file].status # "absent"
  BY <1>2, <1>4 DEF Typed
<1>9. links' \subseteq Kb \X File /\ stranded' \subseteq Kb \X File /\ DOMAIN own' = File /\ IsFiniteSet(vectors') /\ faults' \in Nat
  BY <1>2 DEF Typed
<1>. QED
  BY <1>2, <1>3, <1>4, <1>5, <1>6, <1>7, <1>8, <1>9 DEF Typed

\* A crash empties every request and keeps both databases.
LEMMA CrashEffect ==
    ASSUME Typed, Crash
    PROVE  /\ \A j \in Job : Todo(j)' = {} /\ First(j)' = {} /\ job'[j].held = Free
           /\ file' = file /\ own' = own /\ links' = links /\ vectors' = vectors /\ raced' = raced
           /\ wiped' = wiped /\ spilled' = spilled /\ stranded' = stranded
           /\ unfinished' = unfinished \cup wiped \cup (Kb \X {s.file : s \in UNION {Todo(j) : j \in Job}})
           /\ faults' = faults + 1
  BY DEF Crash, Idle, Todo, First

\* Typed is kept by a crash.
LEMMA TypedCrash == ASSUME Typed, Crash PROVE Typed'
<1>1. /\ \A j \in Job : Todo(j)' = {} /\ job'[j].held = Free
      /\ file' = file /\ own' = own /\ links' = links /\ vectors' = vectors /\ stranded' = stranded /\ faults' = faults + 1
  BY CrashEffect
<1>2. job' = [j \in Job |-> [todo |-> Todo(j)', held |-> job'[j].held, old |-> job'[j].old]]
  BY DEF Crash, Idle, Todo
<1>3. \A j \in Job : HeldOK(job[j].held)' /\ \A t \in Todo(j)' : CallOK(t)'
  BY <1>1 DEF HeldOK
<1>4. faults' \in Nat
  BY <1>1 DEF Typed
<1>5. (\A l \in links' : There(l[2])')
  BY <1>1 DEF Typed, There
<1>. QED
  BY <1>1, <1>2, <1>3, <1>4, <1>5 DEF Typed

\* Typed holds at the start.
LEMMA TypedInit == Init => Typed
<1>. SUFFICES ASSUME Init PROVE Typed
  OBVIOUS
<1>1. job = [j \in Job |-> [todo |-> Todo(j), held |-> job[j].held, old |-> job[j].old]]
  BY DEF Init, Idle, Todo
<1>2. \A j \in Job : HeldOK(job[j].held) /\ \A t \in Todo(j) : CallOK(t)
  BY DEF Init, Idle, Todo, HeldOK
<1>3. IsFiniteSet(vectors)
  BY FS_EmptySet DEF Init
<1>4. \A f \in File : /\ file[f] = [status |-> file[f].status, text |-> file[f].text, hash |-> file[f].hash]
                      /\ file[f].status \in Status
  BY DEF Init, Fresh, Status
<1>. QED
  BY <1>1, <1>2, <1>3, <1>4 DEF Init, Typed

-----------------------------------------------------------------------------
(* The shape of a request's calls, and overlapping requests.               *)

Planned == \A j \in Job : Plan(Todo(j))

\* Only a store holds something between its steps.
HeldByStore == \A j \in Job : job[j].held.stage # "none" => \E s \in First(j) : s.do = "store"

\* The calls of a propagation into one base are of different kinds.
Single ==
    \A j \in Job : \A t \in Todo(j) : t.do = "dropOld" =>
        \A u, w \in Todo(j) : u.at[1] = t.at[1] /\ w.at[1] = t.at[1] /\ u.do = w.do => u = w

Overlap == \A i, j \in Job : i # j => Concerned(Todo(i)) \X Concerned(Todo(j)) \subseteq raced

Shape == Typed /\ Planned /\ HeldByStore /\ Single /\ Overlap

\* The calls of a request are of one kind of handler.
LEMMA Kind == ASSUME Shape, NEW j \in Job PROVE \E K \in Kinds : \A t \in Todo(j) : t.do \in K
  BY DEF Shape, Planned, Plan

\* A call leaves other requests alone, and its own as it was, shorter, or expanded.
LEMMA Later ==
    ASSUME Typed, NEW j \in Job, NEW s \in First(j), Act(j, s) \/ Raise(j, s)
    PROVE  /\ \A i \in Job \ {j} : job'[i] = job[i] /\ Todo(i)' = Todo(i) /\ First(i)' = First(i)
           /\ Todo(j)' \subseteq Todo(j) \/ Spread(j, s) \/ BatchInsert(j, s)
           /\ \/ job'[j].held = Free
              \/ /\ s.do = "store"
                 /\ Load(j, s) \/ Check(j, s) \/ Insert(j, s)
                 /\ Todo(j)' = Todo(j) /\ First(j)' = First(j) /\ job'[j].old = job[j].old
<1>1. \A i \in Job \ {j} : job'[i] = job[i] /\ Todo(i)' = Todo(i)
  BY Progress, RaiseEffect
<1>2. \A i \in Job : Todo(i)' = Todo(i) => First(i)' = First(i)
  BY DEF First, Todo
<1>. QED
  BY <1>1, <1>2, Progress, RaiseEffect

\* A call that an edit spread into belongs to one base's propagation.
LEMMA SpreadTodo ==
    ASSUME Typed, NEW j \in Job, NEW s \in First(j), Spread(j, s), NEW t \in Todo(j)'
    PROVE  /\ s.file \in File
           /\ \E i \in Nat \ {0}, k \in Linked(s.file) :
              /\ t \in Propagation(i, k, s.file) /\ Propagation(i, k, s.file) \subseteq Todo(j)'
              /\ \A u \in Todo(j)' : u.at[1] = i => u \in Propagation(i, k, s.file)
<1> DEFINE kbs == SetToSeq(Linked(s.file))
<1>1. PICK i \in DOMAIN kbs : t \in Propagation(i, kbs[i], s.file)
  BY Propagated
<1>2. /\ s.file \in File /\ i \in Nat \ {0} /\ kbs[i] \in Linked(s.file)
      /\ Propagation(i, kbs[i], s.file) \subseteq Todo(j)'
  BY <1>1, Propagated
<1>3. ASSUME NEW u \in Todo(j)', u.at[1] = i PROVE u \in Propagation(i, kbs[i], s.file)
  <2>1. PICK n \in DOMAIN kbs : u \in Propagation(n, kbs[n], s.file)
    BY Propagated
  <2>2. n \in Nat \ {0} /\ kbs[n] \in Kb
    BY <2>1, Propagated DEF Linked
  <2>3. u.at[1] = n
    <3>1. PICK k \in Kb : k = kbs[n]
      BY <2>2
    <3>. QED
      BY <1>2, <2>1, <2>2, <3>1, SpreadCalls
  <2>. QED
    BY <1>3, <2>1, <2>3
<1>. HIDE DEF kbs
<1>. QED
  BY <1>1, <1>2, <1>3

\* A request never becomes about more files than it arrived for.
LEMMA Narrow ==
    ASSUME Typed, NEW j \in Job, NEW s \in First(j), Act(j, s) \/ Raise(j, s)
    PROVE  Concerned(Todo(j)') \subseteq Concerned(Todo(j))
<1>1. \A t \in Todo(j) : t.file \in File \cup {Nothing}
  BY DEF Typed, CallOK
<1>2. s \in Todo(j)
  BY Firsts
<1>3. CASE Todo(j)' \subseteq Todo(j)
  BY <1>1, <1>3, NothingAssumption DEF Concerned
<1>4. CASE Spread(j, s)
  <2>1. \A t \in Todo(j)' : t.file = s.file /\ s.file \in File
    <3>. SUFFICES ASSUME NEW t \in Todo(j)' PROVE t.file = s.file /\ s.file \in File
      OBVIOUS
    <3>1. PICK i \in Nat \ {0}, k \in Linked(s.file) : t \in Propagation(i, k, s.file) /\ s.file \in File
      BY <1>4, SpreadTodo
    <3>. QED
      BY <3>1 DEF Propagation, Do, Store, Call
  <2>2. Concerned(Todo(j)') \subseteq {s.file}
    BY <2>1, NothingAssumption DEF Concerned
  <2>3. \A t \in Todo(j) : t.file \in File => t.file \in Concerned(Todo(j))
    BY DEF Concerned
  <2>4. CASE Todo(j)' = {}
    BY <2>4 DEF Concerned
  <2>5. CASE Todo(j)' # {}
    BY <1>2, <2>1, <2>2, <2>3, <2>5
  <2>. QED
    BY <2>4, <2>5
<1>5. CASE BatchInsert(j, s)
  <2>1. s.file = Nothing
    BY <1>5, Firsts DEF CallOK, BatchInsert
  <2>2. Concerned(Todo(j)) = File
    BY <1>2, <2>1 DEF Concerned
  <2>3. \A t \in Todo(j)' : CallOK(t)'
    BY TodoTyped
  <2>4. \A t \in Todo(j)' : t.file \in File \cup {Nothing}
    BY <2>3 DEF CallOK
  <2>. QED
    BY <2>2, <2>4, NothingAssumption DEF Concerned
<1>. QED
  BY <1>3, <1>4, <1>5, Later

\* Overlap is kept by calls.
LEMMA OverlapStep ==
    ASSUME Typed, Overlap, NEW j \in Job, NEW s \in First(j), Act(j, s) \/ Raise(j, s)
    PROVE  Overlap'
<1>1. \A i \in Job : Concerned(Todo(i)') \subseteq Concerned(Todo(i))
  BY Later, Narrow
<1>2. raced' = raced
  BY Changes, RaiseEffect
<1>. SUFFICES ASSUME NEW i \in Job, NEW k \in Job, i # k PROVE (Concerned(Todo(i)) \X Concerned(Todo(k)))' \subseteq raced'
  BY DEF Overlap
<1>3. Concerned(Todo(i)) \X Concerned(Todo(k)) \subseteq raced
  BY DEF Overlap
<1>4. Concerned(Todo(i))' = Concerned(Todo(i)') /\ Concerned(Todo(k))' = Concerned(Todo(k)')
  BY DEF Concerned
<1>. QED
  BY <1>1, <1>2, <1>3, <1>4

\* Shape is kept by calls.
LEMMA ShapeStep ==
    ASSUME Shape, NEW j \in Job, Step(j) \/ Fails(j) \/ Loses(j)
    PROVE  Shape'
<1>. USE DEF Shape
<1>1. PICK s \in First(j) : Act(j, s) \/ Raise(j, s)
  BY Acts
<1>2. Typed'
  BY TypedStep
<1>3. Overlap'
  BY <1>1, OverlapStep
<1>4. /\ \A i \in Job \ {j} : job'[i] = job[i] /\ Todo(i)' = Todo(i) /\ First(i)' = First(i)
      /\ Todo(j)' \subseteq Todo(j) \/ Spread(j, s) \/ BatchInsert(j, s)
      /\ job'[j].held = Free \/ (s.do = "store" /\ First(j)' = First(j))
  <2>1. Typed
    OBVIOUS
  <2>. QED
    BY <1>1, <2>1, Later
<1>5. HeldByStore'
  BY <1>4 DEF HeldByStore, Free
<1>6. CASE Todo(j)' \subseteq Todo(j)
  <2>1. \A i \in Job : Todo(i)' \subseteq Todo(i)
    BY <1>4, <1>6
  <2>2. Planned'
    <3>1. \A i \in Job : Plan(Todo(i)')
      BY <2>1 DEF Planned, Plan
    <3>. QED
      BY <3>1 DEF Planned, Plan
  <2>3. Single'
    BY <2>1 DEF Single
  <2>. QED
    BY <1>2, <1>3, <1>5, <2>2, <2>3
<1>7. CASE Spread(j, s)
  <2>1. ASSUME NEW t \in Todo(j)'
        PROVE  /\ t.do \in {"store", "old", "dropOld"} /\ t.kb # Nothing
               /\ \A u, w \in Todo(j)' : u.at[1] = t.at[1] /\ w.at[1] = t.at[1] /\ u.do = w.do => u = w
    <3>1. PICK i \in Nat \ {0}, k \in Linked(s.file) :
              /\ t \in Propagation(i, k, s.file)
              /\ \A u \in Todo(j)' : u.at[1] = i => u \in Propagation(i, k, s.file)
      BY <1>7, <2>1, SpreadTodo
    <3>2. t.at[1] = i /\ t.do \in {"store", "old", "dropOld"} /\ t.kb # Nothing
      BY <3>1, NothingAssumption DEF Propagation, Do, Store, Call, Linked
    <3>3. ASSUME NEW u \in Propagation(i, k, s.file), NEW w \in Propagation(i, k, s.file), u.do = w.do PROVE u = w
      BY <3>3 DEF Propagation, Do, Store, Call
    <3>. QED
      BY <3>1, <3>2, <3>3
  <2>2. Planned'
    <3>1. \E K \in Kinds : \A t \in Todo(j)' : t.do \in K
      BY <2>1 DEF Kinds
    <3>. QED
      BY <1>4, <2>1, <3>1 DEF Planned, Plan, Linking
  <2>3. Single'
    BY <1>4, <2>1 DEF Single
  <2>. QED
    BY <1>2, <1>3, <1>5, <2>2, <2>3
<1>8. CASE BatchInsert(j, s)
  <2>1. ASSUME NEW t \in Todo(j)' PROVE t.do \in {"hash", "link"}
    <3>1. \E i : t \in {Call(<<1, i>>, "hash", s.kb, SetToSeq(DOMAIN s.text)[i], s.text[SetToSeq(DOMAIN s.text)[i]]),
                        Do(<<2, i>>, "link", s.kb, SetToSeq(DOMAIN s.text)[i])}
      BY <1>8, Batched
    <3>. QED
      BY <3>1 DEF Do, Call
  <2>2. \E K \in Kinds : \A t \in Todo(j)' : t.do \in K
    BY <2>1 DEF Kinds
  <2>3. Planned'
    BY <1>4, <2>1, <2>2 DEF Planned, Plan
  <2>4. Single'
    BY <1>4, <2>1 DEF Single
  <2>. QED
    BY <1>2, <1>3, <1>5, <2>3, <2>4
<1>. QED
  BY <1>4, <1>6, <1>7, <1>8

\* Shape is kept by arrivals.
LEMMA ShapeArrive == ASSUME Shape, NEW j \in Job, Arrive(j) PROVE Shape'
<1>. USE DEF Shape
<1>1. PICK todo : Request(j, todo) /\ Fits(todo)
  BY Arrivals
<1>2. /\ Todo(j) = {} /\ Todo(j)' = todo
      /\ \A i \in Job \ {j} : job'[i] = job[i] /\ Todo(i)' = Todo(i)
      /\ raced \subseteq raced' /\ job'[j].held = job[j].held
      /\ \A i \in Job \ {j} : Todo(i) # {} =>
                 /\ Concerned(Todo(i)) \X Concerned(todo) \subseteq raced'
                 /\ Concerned(todo) \X Concerned(Todo(i)) \subseteq raced'
  BY <1>1, RequestEffect
<1>3. Typed'
  BY TypedArrive
<1>4. Planned'
  BY <1>1, <1>2 DEF Planned, Fits, Plan
<1>5. HeldByStore'
  <2>1. First(j) = {} /\ \A i \in Job : Todo(i)' = Todo(i) => First(i)' = First(i)
    BY <1>2 DEF First, Todo
  <2>. QED
    BY <1>2, <2>1 DEF HeldByStore
<1>6. Single'
  BY <1>1, <1>2 DEF Single, Fits
<1>7. Overlap'
  <2>. SUFFICES ASSUME NEW i \in Job, NEW k \in Job, i # k PROVE (Concerned(Todo(i)) \X Concerned(Todo(k)))' \subseteq raced'
    BY DEF Overlap
  <2>1. \A n \in Job \ {j} : Concerned(Todo(n))' = Concerned(Todo(n))
    BY <1>2 DEF Concerned
  <2>2. Concerned(Todo(j))' = Concerned(todo)
    BY <1>2 DEF Concerned
  <2>3. Concerned({}) = {}
    BY DEF Concerned
  <2>4. \A n \in Job \ {j} : /\ Concerned(Todo(n)) \X Concerned(todo) \subseteq raced'
                             /\ Concerned(todo) \X Concerned(Todo(n)) \subseteq raced'
    <3>. SUFFICES ASSUME NEW n \in Job \ {j}, Todo(n) = {}
                  PROVE  /\ Concerned(Todo(n)) \X Concerned(todo) \subseteq raced'
                         /\ Concerned(todo) \X Concerned(Todo(n)) \subseteq raced'
      BY <1>2
    <3>1. Concerned(Todo(n)) = {}
      BY <2>3
    <3>. QED
      BY <3>1
  <2>5. CASE i # j /\ k # j
    BY <1>2, <2>1, <2>5 DEF Overlap
  <2>6. CASE i = j \/ k = j
    BY <2>1, <2>2, <2>4, <2>6
  <2>. QED
    BY <2>5, <2>6
<1>. QED
  BY <1>3, <1>4, <1>5, <1>6, <1>7

\* Shape is kept by a crash.
LEMMA ShapeCrash == ASSUME Shape, Crash PROVE Shape'
<1>1. /\ \A j \in Job : Todo(j)' = {} /\ job'[j].held = Free
  BY CrashEffect DEF Shape
<1>2. Typed'
  BY TypedCrash DEF Shape
<1>3. \A j \in Job : Concerned(Todo(j))' = {}
  BY <1>1 DEF Concerned
<1>4. Planned' /\ HeldByStore' /\ Single' /\ Overlap'
  BY <1>1, <1>3 DEF Planned, Plan, HeldByStore, Single, Overlap, Kinds, Free
<1>. QED
  BY <1>2, <1>4 DEF Shape

\* Shape holds at the start.
LEMMA ShapeInit == Init => Shape
<1>. SUFFICES ASSUME Init PROVE Shape
  OBVIOUS
<1>1. \A j \in Job : Todo(j) = {} /\ job[j].held.stage = "none"
  BY DEF Init, Idle, Free, Todo
<1>2. \A j \in Job : Concerned(Todo(j)) = {}
  BY <1>1 DEF Concerned
<1>. QED
  BY <1>1, <1>2, TypedInit DEF Shape, Planned, Plan, HeldByStore, Single, Overlap, Kinds

-----------------------------------------------------------------------------
(* No duplicates.                                                          *)

\* What was looked for before an insertion is still not there, but for what a
\* request that overlapped this one has brought.
Rivalry ==
    \A j \in Job : \A s \in First(j) : Storing(j, s, "insert") /\ job[j].held.text # Nothing =>
        \A v \in Rivals(j, s) : v.file = s.file \/ {<<s.file, v.file>>, <<v.file, s.file>>} \subseteq raced

\* A request is in one call at a time.
LEMMA Unique == ASSUME Typed, NEW j \in Job, NEW s \in First(j), NEW t \in First(j) PROVE s = t
  BY Firsts

\* A call about a file, or about all, makes its request concern the file.
LEMMA NamedFiles == ASSUME Typed, NEW j \in Job, NEW t \in Todo(j), NEW f \in File, t.file \in {f, Nothing}
                    PROVE  f \in Concerned(Todo(j))
  BY DEF Concerned

\* An insertion with a hash adds no second copy.
LEMMA NoDuplicatesStep ==
    ASSUME Shape, Rivalry, NoDuplicates, NEW j \in Job, NEW s \in First(j), Act(j, s) \/ Raise(j, s)
    PROVE  NoDuplicates'
<1>. SUFFICES ASSUME NEW v \in vectors', NEW w \in vectors',
                     v.kb = w.kb, v.hash = w.hash, v.hash # Nothing, <<v.file, w.file>> \notin raced'
              PROVE  v.file = w.file
  BY DEF NoDuplicates
<1>1. raced' = raced
  BY Changes, RaiseEffect DEF Shape
<1>2. ASSUME NEW u \in vectors', u \notin vectors, u.hash # Nothing
      PROVE  Storing(j, s, "insert") /\ u.kb = s.kb /\ u.file = s.file /\ u.hash = job[j].held.text
  <2>1. Act(j, s)
    BY <1>2, RaiseEffect DEF Shape
  <2>2. \/ Insert(j, s) /\ u.kb = s.kb /\ u.file = s.file /\ u.hash = job[j].held.text
        \/ u.hash = Nothing
    BY <1>2, <2>1, ChunksEffect DEF Shape
  <2>. QED
    BY <1>2, <2>2 DEF Insert
<1>3. ASSUME NEW u \in vectors', NEW x \in vectors', u \notin vectors, x \in vectors,
             u.kb = x.kb, u.hash = x.hash, u.hash # Nothing
      PROVE  u.file = x.file \/ {<<u.file, x.file>>, <<x.file, u.file>>} \subseteq raced
  <2>1. Storing(j, s, "insert") /\ u.kb = s.kb /\ u.file = s.file /\ u.hash = job[j].held.text
    BY <1>2, <1>3
  <2>2. x \in Rivals(j, s)
    BY <1>3, <2>1 DEF Rivals
  <2>3. job[j].held.text # Nothing
    BY <1>3, <2>1
  <2>. QED
    BY <2>1, <2>2, <2>3 DEF Rivalry
<1>4. CASE v \in vectors /\ w \in vectors
  BY <1>1, <1>4 DEF NoDuplicates
<1>5. CASE v \notin vectors /\ w \notin vectors
  BY <1>2, <1>5
<1>6. CASE v \in vectors /\ w \notin vectors
  BY <1>1, <1>3, <1>6
<1>7. CASE v \notin vectors /\ w \in vectors
  BY <1>1, <1>3, <1>7
<1>. QED
  BY <1>4, <1>5, <1>6, <1>7

\* Rivalry is kept by calls.
LEMMA RivalryStep ==
    ASSUME Shape, Rivalry, NoDuplicates, NEW j \in Job, NEW s \in First(j), Act(j, s) \/ Raise(j, s)
    PROVE  Rivalry'
<1>. SUFFICES ASSUME NEW i \in Job, NEW t \in First(i)', Storing(i, t, "insert")', job'[i].held.text # Nothing,
                     NEW v \in Rivals(i, t)'
              PROVE  v.file = t.file \/ {<<t.file, v.file>>, <<v.file, t.file>>} \subseteq raced'
  BY DEF Rivalry
<1>1. raced' = raced
  BY Changes, RaiseEffect DEF Shape
<1>2. t.do = "store" /\ job'[i].held.stage = "insert" /\ v \in vectors' /\ v.kb = t.kb /\ v.hash = job'[i].held.text
  BY DEF Storing, Rivals
<1>3. CASE i # j
  <2>1. t \in First(i) /\ job'[i] = job[i]
    BY <1>3, Later DEF Shape
  <2>2. Storing(i, t, "insert") /\ job[i].held.text # Nothing
    BY <1>2, <2>1 DEF Storing
  <2>3. CASE v \in vectors
    <3>1. v \in Rivals(i, t)
      BY <1>2, <2>1, <2>3 DEF Rivals
    <3>. QED
      BY <1>1, <2>1, <2>2, <3>1 DEF Rivalry
  <2>4. CASE v \notin vectors
    <3>1. Act(j, s)
      BY <1>2, <2>4, RaiseEffect DEF Shape
    <3>2. Insert(j, s) /\ v.file = s.file
      BY <1>2, <2>4, <3>1, ChunksEffect DEF Shape
    <3>3. s \in Todo(j) /\ s.file \in File
      BY <3>2, Firsts DEF Shape, CallOK, Insert, Storing
    <3>4. t \in Todo(i) /\ t.file \in File
      BY <1>2, <2>1, Firsts DEF Shape, CallOK
    <3>5. s.file \in Concerned(Todo(j)) /\ t.file \in Concerned(Todo(i))
      BY <3>3, <3>4, NamedFiles DEF Shape
    <3>6. {<<s.file, t.file>>, <<t.file, s.file>>} \subseteq raced
      BY <1>3, <3>5 DEF Shape, Overlap
    <3>. QED
      BY <1>1, <3>2, <3>6
  <2>. QED
    BY <2>3, <2>4
<1>4. CASE i = j
  <2>1. job'[j].held # Free
    BY <1>2, <1>4 DEF Free
  <2>2. /\ Load(j, s) \/ Check(j, s) \/ Insert(j, s)
        /\ First(j)' = First(j)
    BY <2>1, Later DEF Shape
  <2>3. s = t
    BY <1>4, <2>2, Unique DEF Shape
  <2>4. ~Load(j, s)
    <3>1. ASSUME Load(j, s) PROVE FALSE
      <4>1. PICK held : Hold(j, held) /\ held.stage = "check"
        BY <3>1 DEF Load
      <4>2. job'[j].held = held
        BY <4>1, Holds DEF Shape
      <4>. QED
        BY <1>2, <1>4, <4>1, <4>2
    <3>. QED
      BY <3>1
  <2>5. ASSUME NEW stage, Hold(j, [job[j].held EXCEPT !.stage = stage]), job[j].held.stage # "none"
        PROVE  job'[j].held.stage = stage /\ job'[j].held.text = job[j].held.text
    <3>1. job[j].held = [stage |-> job[j].held.stage, text |-> job[j].held.text, docs |-> job[j].held.docs]
      BY <2>5 DEF Shape, Typed, HeldOK, Free
    <3>2. PICK held : held = [job[j].held EXCEPT !.stage = stage]
      OBVIOUS
    <3>3. held.stage = stage /\ held.text = job[j].held.text
      BY <3>1, <3>2
    <3>4. job'[j].held = held
      BY <2>5, <3>2, Holds DEF Shape
    <3>. QED
      BY <3>3, <3>4
  <2>6. ~Insert(j, s)
    BY <1>2, <1>4, <2>5 DEF Insert, Storing
  <2>7. Check(j, s)
    BY <2>2, <2>4, <2>6
  <2>8. job'[j].held.text = job[j].held.text /\ vectors' = vectors
    BY <2>5, <2>7 DEF Check, Storing
  <2>9. v \in Rivals(j, s) /\ v.hash # Nothing
    BY <1>2, <1>4, <2>3, <2>8 DEF Rivals
  <2>10. PICK w \in Rivals(j, s) : w.file = s.file
    BY <2>7, <2>9 DEF Check
  <2>11. v \in vectors /\ w \in vectors /\ v.kb = w.kb /\ v.hash = w.hash
    BY <2>9, <2>10 DEF Rivals
  <2>. QED
    BY <1>1, <2>3, <2>9, <2>10, <2>11 DEF NoDuplicates
<1>. QED
  BY <1>3, <1>4

\* Rivalry and NoDuplicates are kept by arrivals.
LEMMA RivalryArrive ==
    ASSUME Shape, Rivalry, NoDuplicates, NEW j \in Job, Arrive(j)
    PROVE  Rivalry' /\ NoDuplicates'
<1>1. PICK todo : Request(j, todo)
  BY Arrivals DEF Shape
<1>2. /\ Todo(j) = {} /\ job'[j].held = job[j].held /\ vectors' = vectors /\ raced \subseteq raced'
      /\ \A i \in Job \ {j} : job'[i] = job[i] /\ Todo(i)' = Todo(i)
  BY <1>1, RequestEffect DEF Shape
<1>3. First(j) = {}
  BY <1>2 DEF First, Todo
<1>4. job'[j].held.stage = "none"
  BY <1>2, <1>3 DEF Shape, HeldByStore
<1>5. \A i \in Job \ {j} : First(i)' = First(i)
  BY <1>2 DEF First, Todo
<1>6. Rivalry'
  <2>. SUFFICES ASSUME NEW i \in Job, NEW t \in First(i)', Storing(i, t, "insert")', job'[i].held.text # Nothing,
                       NEW v \in Rivals(i, t)'
                PROVE  v.file = t.file \/ {<<t.file, v.file>>, <<v.file, t.file>>} \subseteq raced'
    BY DEF Rivalry
  <2>1. i # j
    BY <1>4 DEF Storing
  <2>2. t \in First(i) /\ Storing(i, t, "insert") /\ job[i].held.text # Nothing /\ v \in Rivals(i, t)
    BY <1>2, <1>5, <2>1 DEF Storing, Rivals
  <2>. QED
    BY <1>2, <2>2 DEF Rivalry
<1>. QED
  BY <1>2, <1>6 DEF NoDuplicates

\* Rivalry and NoDuplicates are kept by a crash.
LEMMA RivalryCrash == ASSUME Shape, Rivalry, NoDuplicates, Crash PROVE Rivalry' /\ NoDuplicates'
<1>1. (\A j \in Job : First(j)' = {}) /\ vectors' = vectors /\ raced' = raced
  BY CrashEffect DEF Shape
<1>. QED
  BY <1>1 DEF Rivalry, NoDuplicates

-----------------------------------------------------------------------------
(* Chunks and links of a file that one request is about.                   *)

\* The chunks to be replaced have been listed.
Live(j, t) == \A w \in Todo(j) : w.do = "old" => ~Before(w, t)
Mine(j, t) == Live(j, t) /\ \A v \in job[j].old : v.kb = t.kb /\ v.file = t.file

IsLinked(t) == <<t.kb, t.file>> \in links
Kept(t) == Alone(t.file) /\ <<t.kb, t.file>> \notin spilled

\* The three phases of a propagation into a base.
Announced(j, t) ==
    \E w, u \in Todo(j) : /\ w.do = "old" /\ u.do = "store" /\ Same(w, t) /\ Same(u, t)
                          /\ Leads(w, t) /\ Leads(u, t) /\ Before(w, u)
Renewing(j, t) ==
    /\ Mine(j, t)
    /\ \E u \in Todo(j) : u.do = "store" /\ Same(u, t) /\ Leads(u, t)
    /\ Kept(t) => job[j].old \subseteq vectors
Renewed(j, t) ==
    /\ Mine(j, t)
    /\ \A u \in Todo(j) : u.do = "store" => u.at[1] # t.at[1]
    /\ Kept(t) => Chunks(t.kb, t.file) \ job[j].old # {}

\* The old chunks go when the new ones are there.
NewFirst ==
    \A j \in Job : \A t \in Todo(j) : t.do = "dropOld" =>
        /\ Announced(j, t) \/ Renewing(j, t) \/ Renewed(j, t)
        /\ \A u \in Todo(j) : u.do = "dropOld" /\ Before(u, t) => Announced(j, t)

\* A link goes before the chunks, in one block with them, if it can be removed,
UnlinkFirst ==
    \A j \in Job : \A t \in Todo(j) :
      t.do \in {"drop", "dropHash"} /\ Alone(t.file) /\ IsLinked(t) /\ <<t.kb, t.file>> \notin wiped \cap unfinished =>
        \E u \in Todo(j) : u.do = "unlink" /\ Same(u, t) /\ u.at[1] = t.at[1] /\ Before(u, t)

\* and comes after them.
StoreFirst ==
    \A j \in Job : \A t \in Todo(j) : t.do \in Linking /\ Kept(t) /\ Chunks(t.kb, t.file) = {} =>
        \E u \in Todo(j) : u.do = "store" /\ Same(u, t) /\ Leads(u, t)

\* What a request has inserted is there.
Stored ==
    \A j \in Job : \A s \in First(j) : Storing(j, s, "finish") /\ s.kb # Nothing /\ Kept(s) =>
        /\ Chunks(s.kb, s.file) # {}
        /\ \A t \in Todo(j) : t.do = "dropOld" /\ t.at[1] = s.at[1] => Chunks(s.kb, s.file) \ job[j].old # {}

\* While one request concerns a file that has not raced, no other is in a call about it.
LEMMA Apart ==
    ASSUME Shape, NEW j \in Job, NEW s \in First(j), NEW i \in Job \ {j}, NEW f \in File,
           f \in Concerned(Todo(i)), Alone(f)
    PROVE  s.file \notin {f, Nothing}
<1>. SUFFICES ASSUME s.file \in {f, Nothing} PROVE FALSE
  OBVIOUS
<1>1. s \in Todo(j)
  BY Firsts DEF Shape
<1>2. f \in Concerned(Todo(j))
  BY <1>1, NamedFiles DEF Shape
<1>3. <<f, f>> \in raced
  BY <1>2 DEF Shape, Overlap
<1>. QED
  BY <1>3 DEF Alone

\* When the old chunks are about to go, they are this file's, and newer ones are there.
LEMMA Renewal ==
    ASSUME Shape, NewFirst, NEW j \in Job, NEW s \in First(j), s.do = "dropOld"
    PROVE  /\ \A v \in job[j].old : v.kb = s.kb /\ v.file = s.file
           /\ Kept(s) => Chunks(s.kb, s.file) \ job[j].old # {}
<1>1. s \in Todo(j) /\ \A t \in Todo(j) : ~Before(t, s)
  BY Firsts DEF Shape
<1>2. Renewed(j, s)
  BY <1>1 DEF NewFirst, Announced, Renewing, Leads
<1>. QED
  BY <1>2 DEF Renewed, Mine

\* A call about another file.
LEMMA Undisturbed ==
    ASSUME Shape, NewFirst, NEW j \in Job, NEW s \in First(j), Act(j, s) \/ Raise(j, s),
           NEW f \in File, s.file \notin {f, Nothing}
    PROVE  /\ \A v : v.file = f => /\ v \in vectors' => v \in vectors
                                   /\ v \in vectors => v \in vectors' \/ <<v.kb, f>> \in spilled'
           /\ \A k : <<k, f>> \in links' <=> <<k, f>> \in links
<1>1. CASE Raise(j, s)
  BY <1>1, RaiseEffect DEF Shape
<1>2. CASE Act(j, s)
  <2>1. s.do \notin {"wipe", "unlinkAll", "batch"}
    BY Firsts DEF Shape, CallOK
  <2>2. ~BatchInsert(j, s) /\ ~UnlinkAll(j, s)
    BY <2>1 DEF BatchInsert, UnlinkAll, Returns
  <2>3. ASSUME NEW v, v.file = f, v \in vectors', v \notin vectors PROVE FALSE
    BY <1>2, <2>2, <2>3, ChunksEffect DEF Shape
  <2>4. ASSUME NEW v, v.file = f, v \in vectors, v \notin vectors' PROVE <<v.kb, f>> \in spilled'
    <3>1. \/ Drop(j, s) /\ v \in Chunks(s.kb, s.file)
          \/ v.file = s.file \/ <<v.kb, v.file>> \in spilled'
          \/ DropOld(j, s) /\ v \in job[j].old
      BY <1>2, <2>4, ChunksEffect DEF Shape
    <3>2. DropOld(j, s) /\ v \in job[j].old => v.file = s.file
      BY Renewal DEF DropOld, Returns
    <3>. QED
      BY <2>4, <3>1, <3>2 DEF Chunks
  <2>5. ASSUME NEW k, <<k, f>> \in links', <<k, f>> \notin links PROVE FALSE
    <3>1. <<k, f>> = <<s.kb, s.file>>
      BY <1>2, <2>5, LinksEffect DEF Shape
    <3>. QED
      BY <3>1
  <2>6. ASSUME NEW k, <<k, f>> \in links, <<k, f>> \notin links' PROVE FALSE
    BY <1>2, <2>2, <2>6, LinksEffect DEF Shape
  <2>. QED
    BY <2>3, <2>4, <2>5, <2>6
<1>. QED
  BY <1>1, <1>2

\* What has raced or been spilled on stays so.
LEMMA Monotone ==
    ASSUME Shape, NEW j \in Job, NEW s \in First(j), Act(j, s) \/ Raise(j, s)
    PROVE  raced' = raced /\ spilled \subseteq spilled'
  BY Changes, RaiseEffect DEF Shape, DropHash

\* Searchable is kept by calls.
LEMMA SearchableStep ==
    ASSUME Shape, UnlinkFirst, StoreFirst, NewFirst, Searchable,
           NEW j \in Job, NEW s \in First(j), Act(j, s) \/ Raise(j, s)
    PROVE  Searchable'
<1>. SUFFICES ASSUME NEW l \in links', l \notin wiped', l \notin spilled', Alone(l[2])'
              PROVE  \E v \in vectors' : v.kb = l[1] /\ v.file = l[2]
  BY DEF Searchable, Chunks
<1>1. Alone(l[2]) /\ l \notin spilled
  BY Monotone DEF Alone
<1>2. CASE Raise(j, s)
  <2>1. links' = links /\ wiped' = wiped /\ vectors' = vectors
    BY <1>2, RaiseEffect DEF Shape
  <2>. QED
    BY <1>1, <2>1 DEF Searchable, Chunks
<1>3. CASE Act(j, s)
  <2>0. s \in Todo(j) /\ CallOK(s) /\ \A t \in Todo(j) : ~Before(t, s)
    BY Firsts DEF Shape
  <2>1. CASE l \notin links
    <3>1. Link(j, s) /\ l = <<s.kb, s.file>>
      BY <1>3, <2>1, LinksEffect DEF Shape
    <3>2. s.do \in Linking /\ vectors' = vectors
      BY <3>1 DEF Link, Returns, Linking
    <3>3. Chunks(s.kb, s.file) # {}
      BY <1>1, <2>0, <3>1, <3>2 DEF StoreFirst, Kept, Leads
    <3>. QED
      BY <3>1, <3>2, <3>3 DEF Chunks
  <2>2. CASE l \in links /\ l \in wiped
    <3>1. Insert(j, s)
      BY <1>3, <2>2, Changes DEF Shape, Wipe, Lost, Unwritten
    <3>2. Insert(j, s) /\ s.kb # Nothing /\ l = <<s.kb, s.file>>
      BY <2>2, <3>1 DEF Insert
    <3>3. s.kb \in Kb
      BY <2>0, <3>2 DEF CallOK
    <3>. QED
      BY <1>3, <3>2, <3>3, ChunksEffect DEF Shape
  <2>3. CASE l \in links /\ l \notin wiped
    <3>1. PICK v \in vectors : v.kb = l[1] /\ v.file = l[2]
      BY <1>1, <2>3 DEF Searchable, Chunks
    <3>2. l = <<v.kb, v.file>>
      BY <2>3, <3>1 DEF Shape, Typed
    <3>3. ASSUME v \notin vectors', s.do \in {"drop", "dropHash"}, v.kb = s.kb, v.file = s.file PROVE FALSE
      <4>1. IsLinked(s) /\ Alone(s.file) /\ <<s.kb, s.file>> \notin wiped
        BY <1>1, <2>3, <3>1, <3>2, <3>3 DEF IsLinked
      <4>. QED
        BY <2>0, <3>3, <4>1 DEF UnlinkFirst
    <3>4. CASE v \in vectors'
      BY <3>1, <3>4
    <3>5. CASE v \notin vectors' /\ ~DropOld(j, s)
      <4>1. \/ Drop(j, s) /\ v \in Chunks(s.kb, s.file)
            \/ DropHash(j, s) /\ v.kb = s.kb /\ v.file = s.file
        BY <1>3, <3>2, <3>5, ChunksEffect DEF Shape
      <4>2. s.do \in {"drop", "dropHash"} /\ v.kb = s.kb /\ v.file = s.file
        BY <4>1 DEF Drop, DropHash, Returns, Chunks
      <4>. QED
        BY <3>3, <3>5, <4>2
    <3>6. CASE v \notin vectors' /\ DropOld(j, s)
      <4>1. s.do = "dropOld" /\ vectors' = vectors \ job[j].old
        BY <3>6 DEF DropOld, Returns
      <4>2. v.kb = s.kb /\ v.file = s.file
        BY <3>6, <4>1, Renewal
      <4>3. Chunks(s.kb, s.file) \ job[j].old # {}
        BY <1>1, <3>1, <3>2, <4>1, <4>2, Renewal DEF Kept
      <4>. QED
        BY <3>1, <4>1, <4>2, <4>3 DEF Chunks
    <3>. QED
      BY <3>4, <3>5, <3>6
  <2>. QED
    BY <2>1, <2>2, <2>3
<1>. QED
  BY <1>2, <1>3

\* A batched file's calls come after its chunk.
LEMMA BatchTodo ==
    ASSUME Typed, NEW j \in Job, NEW s \in First(j), BatchInsert(j, s), NEW t \in Todo(j)'
    PROVE  /\ t.do \in {"hash", "link"} /\ t.kb = s.kb /\ t.file \in DOMAIN s.text /\ t.file \in File
           /\ t.do = "hash" => t.text = s.text[t.file]
           /\ \E v \in vectors' : v.kb = t.kb /\ v.file = t.file
<1> DEFINE fs == SetToSeq(DOMAIN s.text)
<1>1. PICK n \in DOMAIN fs : t \in {Call(<<1, n>>, "hash", s.kb, fs[n], s.text[fs[n]]), Do(<<2, n>>, "link", s.kb, fs[n])}
  BY Batched
<1>2. fs[n] \in DOMAIN s.text /\ fs[n] \in File
  BY <1>1, Batched
<1>. HIDE DEF fs
<1>3. t.kb = s.kb /\ t.file = fs[n] /\ t.do \in {"hash", "link"} /\ (t.do = "hash" => t.text = s.text[fs[n]])
  BY <1>1 DEF Do, Call
<1>4. \E v \in vectors' : v.kb = s.kb /\ v.file = fs[n]
  BY <1>2, ChunksEffect DEF Act
<1>. QED
  BY <1>2, <1>3, <1>4

\* A request's own calls of other kinds.
LEMMA OtherKinds ==
    ASSUME Shape, NEW j \in Job, NEW s \in Todo(j), NEW t \in Todo(j)
    PROVE  /\ t.do \in Linking => s.do \notin {"drop", "dropHash", "wipe", "wipeFile", "dropOld", "unlink"}
           /\ t.do \in {"drop", "dropHash"} => s.do \notin Linking
           /\ t.do = "dropOld" => s.do \in {"store", "spread", "old", "dropOld"}
           /\ t.do = "store" => s.do \notin {"drop", "dropHash", "unlink"}
  BY Kind DEF Kinds, Linking

\* UnlinkFirst is kept by calls.
LEMMA UnlinkFirstStep ==
    ASSUME Shape, NewFirst, UnlinkFirst, NEW j \in Job, NEW s \in First(j), Act(j, s) \/ Raise(j, s)
    PROVE  UnlinkFirst'
<1>. SUFFICES ASSUME NEW i \in Job, NEW t \in Todo(i)', t.do \in {"drop", "dropHash"}, Alone(t.file)', IsLinked(t)',
                     <<t.kb, t.file>> \notin wiped' \cap unfinished'
              PROVE  \E u \in Todo(i)' : u.do = "unlink" /\ Same(u, t) /\ u.at[1] = t.at[1] /\ Before(u, t)
  BY DEF UnlinkFirst
<1>1. Alone(t.file) /\ <<t.kb, t.file>> \in links'
  BY Monotone DEF Alone, IsLinked
<1>2. t \in Todo(i)
  <2>1. ASSUME Spread(j, s), i = j PROVE FALSE
    <3>1. \E n \in Nat \ {0}, k \in Linked(s.file) : t \in Propagation(n, k, s.file)
      BY <2>1, SpreadTodo DEF Shape
    <3>. QED
      BY <3>1 DEF Propagation, Do, Store, Call
  <2>2. ASSUME BatchInsert(j, s), i = j PROVE FALSE
    BY <2>2, BatchTodo DEF Shape
  <2>. QED
    BY <2>1, <2>2, Later DEF Shape
<1>3. s \in Todo(j) /\ CallOK(s)
  BY Firsts DEF Shape
<1>4. t.file \in File
  BY <1>2 DEF Shape, Typed, CallOK
<1>5. <<t.kb, t.file>> \in links
  <2>. SUFFICES ASSUME <<t.kb, t.file>> \notin links PROVE FALSE
    OBVIOUS
  <2>1. Link(j, s) /\ s.file = t.file /\ s.do \in Linking
    <3>1. Act(j, s)
      BY <1>1, RaiseEffect DEF Shape
    <3>2. Link(j, s) /\ <<t.kb, t.file>> = <<s.kb, s.file>>
      BY <1>1, <3>1, LinksEffect DEF Shape
    <3>. QED
      BY <3>2 DEF Link, Returns, Linking
  <2>2. i # j
    BY <1>2, <1>3, <2>1, OtherKinds
  <2>3. t.file \in Concerned(Todo(i))
    BY <1>2, <1>4, NamedFiles DEF Shape
  <2>. QED
    BY <1>1, <1>4, <2>1, <2>2, <2>3, Apart
<1>6. <<t.kb, t.file>> \notin wiped \cap unfinished
  <2>. SUFFICES ASSUME <<t.kb, t.file>> \in wiped, <<t.kb, t.file>> \in unfinished PROVE FALSE
    OBVIOUS
  <2>0. <<t.kb, t.file>> \notin wiped'
    BY Changes, RaiseEffect DEF Shape
  <2>1. Insert(j, s) /\ s.file = t.file
    <3>1. Act(j, s)
      BY <2>0, RaiseEffect DEF Shape
    <3>2. Insert(j, s)
      BY <2>0, <3>1, Changes DEF Shape, Wipe, Lost, Unwritten
    <3>. QED
      BY <3>2 DEF Insert
  <2>2. s.do = "store"
    BY <2>1 DEF Insert, Storing
  <2>3. i # j
    BY <1>2, <1>3, <2>2, OtherKinds
  <2>4. t.file \in Concerned(Todo(i))
    BY <1>2, <1>4, NamedFiles DEF Shape
  <2>. QED
    BY <1>1, <1>4, <2>1, <2>3, <2>4, Apart
<1>7. PICK u \in Todo(i) : u.do = "unlink" /\ Same(u, t) /\ u.at[1] = t.at[1] /\ Before(u, t)
  BY <1>1, <1>2, <1>5, <1>6 DEF UnlinkFirst, IsLinked
<1>8. u \in Todo(i)'
  <2>1. CASE i # j
    BY <1>7, <2>1, Later DEF Shape
  <2>2. CASE i = j /\ Raise(j, s)
    <3>1. s.do # "unlink"
      BY <2>2 DEF Raise, Missing, Duplicate, StoreFails, VectorFails, Undeleted, Storing
    <3>. QED
      BY <1>7, <2>2, <3>1, RaiseEffect DEF Shape
  <2>3. CASE i = j /\ Act(j, s)
    <3>1. s.do \notin {"spread", "batch"}
      BY <1>2, <1>3, <2>3, Kind DEF Kinds
    <3>2. Todo(j)' = Todo(j) \/ Todo(j)' = Todo(j) \ {s}
      BY <2>3, <3>1, Progress DEF Shape, Spread, BatchInsert
    <3>3. u # s
      <4>1. ASSUME u = s PROVE FALSE
        <5>1. Unlink(j, s) \/ Lost(j, s)
          BY <1>7, <2>3, <4>1 DEF Act, Load, Check, Insert, Finish, Processing, Link, UnlinkAll, Hash, DropRow,
                Spread, BatchInsert, Drop, DropHash, Wipe, DropOwn, Old, DropOld, Returns, Storing
        <5>2. Unlink(j, s) => <<s.kb, s.file>> \notin links'
          BY <2>3, LinksEffect DEF Shape
        <5>3. Lost(j, s) => <<s.kb, s.file>> \in wiped' \cap unfinished'
          <6>1. s.do = "unlink" /\ s.file \in File
            BY <1>3, <1>7, <4>1 DEF CallOK
          <6>2. Lost(j, s) => <<s.kb, s.file>> \in wiped'
            BY <6>1 DEF Lost, Unwritten
          <6>3. Lost(j, s) => <<s.kb, s.file>> \in unfinished'
            BY <6>1, NothingAssumption DEF Lost, Unwritten
          <6>. QED
            BY <6>2, <6>3
        <5>. QED
          BY <1>1, <1>7, <4>1, <5>1, <5>2, <5>3 DEF Same
      <4>. QED
        BY <4>1
    <3>. QED
      BY <1>7, <2>3, <3>2, <3>3
  <2>. QED
    BY <2>1, <2>2, <2>3
<1>. QED
  BY <1>7, <1>8

\* StoreFirst is kept by calls.
LEMMA StoreFirstStep ==
    ASSUME Shape, NewFirst, StoreFirst, Stored, NEW j \in Job, NEW s \in First(j), Act(j, s) \/ Raise(j, s)
    PROVE  StoreFirst'
<1>. SUFFICES ASSUME NEW i \in Job, NEW t \in Todo(i)', t.do \in Linking, Kept(t)', Chunks(t.kb, t.file)' = {}
              PROVE  \E u \in Todo(i)' : u.do = "store" /\ Same(u, t) /\ Leads(u, t)
  BY DEF StoreFirst
<1>1. Kept(t) /\ Alone(t.file) /\ <<t.kb, t.file>> \notin spilled' /\ \A v \in vectors' : v.kb = t.kb => v.file # t.file
  BY Monotone DEF Alone, Kept, Chunks
<1>2. s \in Todo(j) /\ CallOK(s)
  BY Firsts DEF Shape
<1>3. t \in Todo(i)
  <2>1. ASSUME Spread(j, s), i = j PROVE FALSE
    <3>1. \E n \in Nat \ {0}, k \in Linked(s.file) : t \in Propagation(n, k, s.file)
      BY <2>1, SpreadTodo DEF Shape
    <3>. QED
      BY <3>1 DEF Propagation, Do, Store, Call, Linking
  <2>2. ASSUME BatchInsert(j, s), i = j PROVE FALSE
    BY <1>1, <2>2, BatchTodo DEF Shape
  <2>. QED
    BY <2>1, <2>2, Later DEF Shape
<1>4. t.file \in File /\ t.kb \in Kb
  BY <1>3 DEF Shape, Typed, CallOK, Linking
<1>5. CASE i # j
  <2>1. t.file \in Concerned(Todo(i))
    BY <1>3, <1>4, NamedFiles DEF Shape
  <2>2. s.file \notin {t.file, Nothing}
    BY <1>1, <1>4, <1>5, <2>1, Apart
  <2>3. Chunks(t.kb, t.file) = {}
    BY <1>1, <1>4, <2>2, Undisturbed DEF Chunks
  <2>4. Todo(i)' = Todo(i)
    BY <1>5, Later DEF Shape
  <2>. QED
    BY <1>1, <1>3, <2>3, <2>4 DEF StoreFirst
<1>6. CASE i = j /\ Raise(j, s)
  <2>1. vectors' = vectors /\ Todo(j)' = {x \in Todo(j) \ {s} : x.at[1] # s.skips}
    BY <1>6, RaiseEffect DEF Shape
  <2>2. PICK u \in Todo(j) : u.do = "store" /\ Same(u, t) /\ Leads(u, t)
    BY <1>1, <1>3, <1>6, <2>1 DEF StoreFirst, Chunks
  <2>. QED
    BY <1>6, <2>1, <2>2 DEF Leads
<1>7. CASE i = j /\ Act(j, s)
  <2>1. \A v \in vectors : v.kb = t.kb => v.file # t.file
    <3>. SUFFICES ASSUME NEW v \in vectors, v.kb = t.kb, v.file = t.file PROVE FALSE
      OBVIOUS
    <3>1. v \notin vectors'
      BY <1>1
    <3>2. s.do \notin {"drop", "dropHash", "wipe", "wipeFile", "dropOld"}
      BY <1>2, <1>3, <1>7, OtherKinds
    <3>3. Drop(j, s) \/ DropHash(j, s) \/ Wipe(j, s) \/ DropOld(j, s)
      BY <1>7, <3>1, ChunksEffect DEF Shape
    <3>. QED
      BY <3>2, <3>3 DEF Drop, DropHash, Wipe, DropOld, Returns
  <2>2. PICK u \in Todo(j) : u.do = "store" /\ Same(u, t) /\ Leads(u, t)
    BY <1>1, <1>3, <1>7, <2>1 DEF StoreFirst, Chunks
  <2>3. s.do # "spread"
    BY <1>2, <1>3, <1>7, Kind DEF Kinds, Linking
  <2>4. ~BatchInsert(j, s)
    BY <1>1, <1>7, BatchTodo DEF Shape
  <2>5. CASE u = s /\ Finish(j, s)
    <3>1. Storing(j, s, "finish") /\ s.kb # Nothing /\ Kept(s)
      BY <1>1, <1>4, <2>2, <2>5, NothingAssumption DEF Finish, Same, Kept
    <3>2. Chunks(s.kb, s.file) # {}
      BY <3>1 DEF Stored
    <3>. QED
      BY <2>1, <2>2, <2>5, <3>2 DEF Chunks, Same
  <2>6. CASE ~(u = s /\ Finish(j, s))
    <3>1. Todo(j)' = Todo(j) \/ (Todo(j)' = Todo(j) \ {s} /\ u # s)
      BY <1>7, <2>2, <2>3, <2>4, <2>6, Progress DEF Shape, Spread
    <3>. QED
      BY <1>7, <2>2, <3>1
  <2>. QED
    BY <2>5, <2>6
<1>. QED
  BY <1>5, <1>6, <1>7

\* Stored is kept by calls.
LEMMA StoredStep ==
    ASSUME Shape, NewFirst, Stored, NEW j \in Job, NEW s \in First(j), Act(j, s) \/ Raise(j, s)
    PROVE  Stored'
<1>. SUFFICES ASSUME NEW i \in Job, NEW t \in First(i)', Storing(i, t, "finish")', t.kb # Nothing, Kept(t)'
              PROVE  /\ Chunks(t.kb, t.file)' # {}
                     /\ \A x \in Todo(i)' : x.do = "dropOld" /\ x.at[1] = t.at[1] =>
                           Chunks(t.kb, t.file)' \ job'[i].old # {}
  BY DEF Stored
<1>1. Kept(t) /\ Alone(t.file) /\ <<t.kb, t.file>> \notin spilled'
  BY Monotone DEF Alone, Kept
<1>2. t.do = "store" /\ job'[i].held.stage = "finish"
  BY DEF Storing
<1>3. CASE i # j
  <2>1. t \in First(i) /\ job'[i] = job[i] /\ Todo(i)' = Todo(i)
    BY <1>3, Later DEF Shape
  <2>2. t \in Todo(i) /\ t.file \in File
    BY <1>2, <2>1, Firsts DEF Shape, CallOK
  <2>3. t.file \in Concerned(Todo(i))
    BY <2>2, NamedFiles DEF Shape
  <2>4. s.file \notin {t.file, Nothing}
    BY <1>1, <1>3, <2>2, <2>3, Apart
  <2>5. Chunks(t.kb, t.file)' = Chunks(t.kb, t.file)
    <3>1. \A v : v.kb = t.kb /\ v.file = t.file => (v \in vectors' <=> v \in vectors)
      BY <1>1, <2>2, <2>4, Undisturbed
    <3>. QED
      BY <3>1 DEF Chunks
  <2>6. Storing(i, t, "finish")
    BY <1>2, <2>1 DEF Storing
  <2>. QED
    BY <1>1, <2>1, <2>5, <2>6 DEF Stored
<1>4. CASE i = j
  <2>1. job'[j].held # Free
    BY <1>2, <1>4 DEF Free
  <2>2. /\ Load(j, s) \/ Check(j, s) \/ Insert(j, s)
        /\ First(j)' = First(j) /\ Todo(j)' = Todo(j) /\ job'[j].old = job[j].old
    BY <2>1, Later DEF Shape
  <2>3. s = t
    BY <1>4, <2>2, Unique DEF Shape
  <2>4. ~Load(j, s)
    <3>1. ASSUME Load(j, s) PROVE FALSE
      <4>1. PICK held : Hold(j, held) /\ held.stage = "check"
        BY <3>1 DEF Load
      <4>2. job'[j].held = held
        BY <4>1, Holds DEF Shape
      <4>. QED
        BY <1>2, <1>4, <4>1, <4>2
    <3>. QED
      BY <3>1
  <2>5. ~Check(j, s)
    <3>1. ASSUME Check(j, s) PROVE FALSE
      <4>1. Hold(j, [job[j].held EXCEPT !.stage = "insert"]) /\ job[j].held.stage # "none"
        BY <3>1 DEF Check, Storing
      <4>2. job[j].held = [stage |-> job[j].held.stage, text |-> job[j].held.text, docs |-> job[j].held.docs]
        BY <4>1 DEF Shape, Typed, HeldOK, Free
      <4>3. PICK held : held = [job[j].held EXCEPT !.stage = "insert"]
        OBVIOUS
      <4>4. held.stage = "insert"
        BY <4>2, <4>3
      <4>5. job'[j].held = held
        BY <4>1, <4>3, Holds DEF Shape
      <4>. QED
        BY <1>2, <1>4, <4>4, <4>5
    <3>. QED
      BY <3>1
  <2>6. Insert(j, s)
    BY <2>2, <2>4, <2>5
  <2>7. s \in Todo(j) /\ s.kb \in Kb /\ s.file \in File /\ \A x \in Todo(j) : ~Before(x, s)
    BY <1>2, <2>3, Firsts DEF Shape, CallOK
  <2>8. PICK c \in vectors' : c.id = NewId(1) /\ c.kb = s.kb /\ c.file = s.file
    BY <2>6, <2>7, ChunksEffect DEF Shape, Act
  <2>9. c \notin vectors
    BY <2>7, <2>8, NewIds DEF Shape
  <2>10. c \in Chunks(t.kb, t.file)'
    BY <2>3, <2>8 DEF Chunks
  <2>11. ASSUME NEW x \in Todo(j), x.do = "dropOld", x.at[1] = s.at[1] PROVE c \notin job[j].old
    <3>1. \A u \in Todo(j) : u.do = "store" /\ u.at[1] = x.at[1] => u = s
      BY <1>2, <2>3, <2>7, <2>11 DEF Shape, Single
    <3>2. ~Announced(j, x)
      BY <2>7, <3>1 DEF Announced, Leads
    <3>3. ~Renewed(j, x)
      BY <1>2, <2>3, <2>7, <2>11 DEF Renewed
    <3>4. Renewing(j, x)
      BY <2>11, <3>2, <3>3 DEF NewFirst
    <3>5. Same(s, x)
      BY <3>1, <3>4 DEF Renewing, Leads
    <3>6. job[j].old \subseteq vectors
      BY <1>1, <2>3, <3>4, <3>5 DEF Renewing, Same, Kept
    <3>. QED
      BY <2>9, <3>6
  <2>. QED
    BY <1>4, <2>2, <2>3, <2>10, <2>11
<1>. QED
  BY <1>3, <1>4

\* What an edit spreads into begins with its chunks still to be listed.
LEMMA SpreadAnnounced ==
    ASSUME Shape, NEW j \in Job, NEW s \in First(j), Spread(j, s), NEW t \in Todo(j)', t.do = "dropOld"
    PROVE  Announced(j, t)'
<1>1. PICK n \in Nat \ {0}, k \in Linked(s.file) :
          t \in Propagation(n, k, s.file) /\ Propagation(n, k, s.file) \subseteq Todo(j)'
  BY SpreadTodo DEF Shape
<1> DEFINE w == Do(<<n, 1>>, "old", k, s.file)
           u == Store(<<n, 2>>, k, s.file, Nothing)
<1>2. t.at = <<n, 3>> /\ t.kb = k /\ t.file = s.file
  BY <1>1 DEF Propagation, Do, Store, Call
<1>3. w \in Todo(j)' /\ u \in Todo(j)'
  BY <1>1 DEF Propagation
<1>4. /\ w.at = <<n, 1>> /\ w.do = "old" /\ w.kb = k /\ w.file = s.file /\ w.skips = n
      /\ u.at = <<n, 2>> /\ u.do = "store" /\ u.kb = k /\ u.file = s.file /\ u.skips = n
  BY DEF Do, Store, Call
<1>. HIDE DEF w, u
<1>5. Same(w, t) /\ Same(u, t) /\ Leads(w, t) /\ Leads(u, t) /\ Before(w, u)
  BY <1>2, <1>4 DEF Same, Leads, Before
<1>. QED
  BY <1>3, <1>4, <1>5 DEF Announced

\* A propagation that another call leaves in its phase.
LEMMA PhasesKept ==
    ASSUME NEW j \in Job, NEW t, job'[j].old = job[j].old, vectors \subseteq vectors', Kept(t)' => Kept(t),
           Todo(j)' \subseteq Todo(j)
    PROVE  /\ Renewing(j, t) /\ (\A u \in Todo(j) : u.do = "store" /\ Leads(u, t) => u \in Todo(j)') => Renewing(j, t)'
           /\ Renewed(j, t) => Renewed(j, t)'
           /\ Announced(j, t) /\ (\A u \in Todo(j) : u.do \in {"old", "store"} /\ Leads(u, t) => u \in Todo(j)')
                => Announced(j, t)'
<1>1. Mine(j, t) => Mine(j, t)'
  BY DEF Mine, Live
<1>2. Chunks(t.kb, t.file) \subseteq Chunks(t.kb, t.file)'
  BY DEF Chunks
<1>3. Renewing(j, t) /\ (\A u \in Todo(j) : u.do = "store" /\ Leads(u, t) => u \in Todo(j)') => Renewing(j, t)'
  BY <1>1 DEF Renewing
<1>4. Renewed(j, t) => Renewed(j, t)'
  BY <1>1, <1>2 DEF Renewed
<1>. QED
  BY <1>3, <1>4 DEF Announced

\* NewFirst is kept by calls.
LEMMA NewFirstStep ==
    ASSUME Shape, NewFirst, Stored, NEW j \in Job, NEW s \in First(j), Act(j, s) \/ Raise(j, s)
    PROVE  NewFirst'
<1>. SUFFICES ASSUME NEW i \in Job, NEW t \in Todo(i)', t.do = "dropOld"
              PROVE  /\ Announced(i, t)' \/ Renewing(i, t)' \/ Renewed(i, t)'
                     /\ \A u \in Todo(i)' : u.do = "dropOld" /\ Before(u, t) => Announced(i, t)'
  BY DEF NewFirst
<1>1. Kept(t)' => Kept(t)
  BY Monotone DEF Alone, Kept
<1>2. s \in Todo(j) /\ CallOK(s) /\ \A x \in Todo(j) : CallOK(x) /\ ~Before(x, s) /\ (x # s => Before(s, x))
  BY Firsts DEF Shape
<1>3. CASE i # j
  <2>1. Todo(i)' = Todo(i) /\ job'[i] = job[i] /\ t \in Todo(i)
    BY <1>3, Later DEF Shape
  <2>2. t.file \in File
    BY <2>1 DEF Shape, Typed, CallOK
  <2>3. t.file \in Concerned(Todo(i))
    BY <2>1, <2>2, NamedFiles DEF Shape
  <2>4. Announced(i, t)' <=> Announced(i, t)
    BY <2>1 DEF Announced
  <2>5. Mine(i, t)' <=> Mine(i, t)
    BY <2>1 DEF Mine, Live
  <2>6. Kept(t)' => \A v \in vectors : v.kb = t.kb /\ v.file = t.file => v \in vectors'
    <3>. SUFFICES ASSUME Kept(t)', NEW v \in vectors, v.kb = t.kb, v.file = t.file PROVE v \in vectors'
      OBVIOUS
    <3>1. Alone(t.file) /\ <<t.kb, t.file>> \notin spilled'
      BY <1>1 DEF Kept
    <3>2. s.file \notin {t.file, Nothing}
      BY <1>3, <2>2, <2>3, <3>1, Apart
    <3>. QED
      BY <2>2, <3>1, <3>2, Undisturbed
  <2>7. Renewing(i, t) => Renewing(i, t)'
    BY <1>1, <2>1, <2>5, <2>6 DEF Renewing, Mine
  <2>8. Renewed(i, t) => Renewed(i, t)'
    BY <1>1, <2>1, <2>5, <2>6 DEF Renewed, Mine, Chunks
  <2>. QED
    BY <2>1, <2>4, <2>7, <2>8 DEF NewFirst
<1>4. CASE i = j /\ Raise(j, s)
  <2>1. /\ Todo(j)' = {x \in Todo(j) \ {s} : x.at[1] # s.skips}
        /\ job'[j].old = job[j].old /\ vectors' = vectors
    BY <1>4, RaiseEffect DEF Shape
  <2>2. \A u \in Todo(j) : Leads(u, t) => u \in Todo(j)'
    BY <1>4, <2>1 DEF Leads
  <2>3. /\ Renewing(j, t) => Renewing(j, t)'
        /\ Renewed(j, t) => Renewed(j, t)'
        /\ Announced(j, t) => Announced(j, t)'
    BY <1>1, <2>1, <2>2, PhasesKept
  <2>4. t \in Todo(j) /\ Todo(j)' \subseteq Todo(j)
    BY <1>4, <2>1
  <2>. QED
    BY <1>4, <2>3, <2>4 DEF NewFirst
<1>5. CASE i = j /\ Spread(j, s)
  BY <1>5, SpreadAnnounced
<1>6. CASE i = j /\ BatchInsert(j, s)
  BY <1>6, BatchTodo DEF Shape
<1>7. CASE i = j /\ Act(j, s) /\ ~Spread(j, s) /\ ~BatchInsert(j, s)
  <2>1. \/ /\ s.do = "store" /\ Todo(j)' = Todo(j) /\ job'[j].old = job[j].old
           /\ Load(j, s) \/ Check(j, s) \/ Insert(j, s)
        \/ /\ Todo(j)' = Todo(j) \ {s} /\ s.do \notin {"spread", "batch"}
           /\ s.do = "store" => Finish(j, s)
           /\ job'[j].old = IF s.do = "old" THEN Chunks(s.kb, s.file) ELSE job[j].old
    BY <1>7, Progress DEF Shape
  <2>2. t \in Todo(j) /\ Todo(j)' \subseteq Todo(j) /\ Todo(j) \ {s} \subseteq Todo(j)'
    BY <1>7, <2>1
  <2>3. s.do \in {"store", "old", "dropOld"}
    BY <1>2, <2>1, <2>2, OtherKinds
  <2>4. Announced(j, t) /\ (s.do = "old" => s.at[1] # t.at[1]) => Announced(j, t)'
    <3>. SUFFICES ASSUME Announced(j, t), s.do = "old" => s.at[1] # t.at[1] PROVE Announced(j, t)'
      OBVIOUS
    <3>1. PICK w, u \in Todo(j) : /\ w.do = "old" /\ u.do = "store" /\ Same(w, t) /\ Same(u, t)
                                  /\ Leads(w, t) /\ Leads(u, t) /\ Before(w, u)
      BY DEF Announced
    <3>2. w # s /\ u # s
      BY <1>2, <3>1 DEF Leads
    <3>3. w \in Todo(j)' /\ u \in Todo(j)'
      BY <2>2, <3>1, <3>2
    <3>. QED
      BY <3>1, <3>3 DEF Announced
  <2>5. CASE s.do = "old"
    <3>1. Todo(j)' = Todo(j) \ {s} /\ job'[j].old = Chunks(s.kb, s.file) /\ t # s /\ Before(s, t)
      BY <1>2, <2>1, <2>2, <2>5
    <3>2. Announced(j, t)
      BY <1>2, <2>2, <2>5, <3>1 DEF NewFirst, Renewing, Renewed, Mine, Live
    <3>3. ASSUME NEW x \in Todo(j)', s.at[1] = t.at[1], Before(x, t) PROVE x.at[1] = t.at[1]
      <4>1. x \in Todo(j) /\ x # s
        BY <3>1
      <4>2. Before(s, x) /\ CallOK(x) /\ CallOK(t)
        BY <1>2, <2>2, <4>1
      <4>3. s.at[1] <= x.at[1] /\ x.at[1] <= t.at[1] /\ s.at[1] \in Nat /\ x.at[1] \in Nat
        BY <1>2, <3>3, <4>2, Places
      <4>. QED
        BY <3>3, <4>3
    <3>4. CASE s.at[1] # t.at[1]
      BY <1>7, <2>4, <3>2, <3>4
    <3>5. CASE s.at[1] = t.at[1]
      <4>1. PICK w, u \in Todo(j) : /\ w.do = "old" /\ u.do = "store" /\ Same(w, t) /\ Same(u, t)
                                    /\ Leads(w, t) /\ Leads(u, t) /\ Before(w, u)
        BY <3>2 DEF Announced
      <4>2. w = s
        BY <1>2, <2>2, <2>5, <3>5, <4>1 DEF Shape, Single, Leads
      <4>3. u \in Todo(j)'
        BY <2>5, <3>1, <4>1
      <4>4. Live(j, t)'
        <5>. SUFFICES ASSUME NEW x \in Todo(j)', x.do = "old", Before(x, t) PROVE FALSE
          BY DEF Live
        <5>1. x.at[1] = t.at[1]
          BY <3>3, <3>5
        <5>2. x = s
          BY <1>2, <2>2, <2>5, <3>5, <5>1 DEF Shape, Single
        <5>. QED
          BY <3>1, <5>2
      <4>5. Old(j, s)
        BY <1>7, <2>5 DEF Act, Load, Check, Insert, Finish, Processing, Link, Unlink, UnlinkAll, Hash, DropRow,
              Spread, BatchInsert, Drop, DropHash, Wipe, DropOwn, DropOld, Lost, Unwritten, Returns, Storing
      <4>6. vectors' = vectors
        BY <4>5 DEF Old
      <4>7. Renewing(j, t)'
        BY <3>1, <4>1, <4>2, <4>3, <4>4, <4>6 DEF Renewing, Mine, Same, Chunks
      <4>8. ASSUME NEW x \in Todo(j)', x.do = "dropOld", Before(x, t) PROVE FALSE
        <5>1. x.at[1] = t.at[1] /\ x \in Todo(j)
          BY <2>2, <3>3, <3>5, <4>8
        <5>2. x = t
          BY <2>2, <4>8, <5>1 DEF Shape, Single
        <5>. QED
          BY <1>2, <2>2, <4>8, <5>2, Places
      <4>. QED
        BY <1>7, <4>7, <4>8
    <3>. QED
      BY <3>4, <3>5
  <2>6. CASE s.do = "dropOld"
    <3>1. t # s /\ Before(s, t)
      BY <1>2, <1>7, <2>1, <2>2, <2>6
    <3>2. Announced(j, t)
      BY <1>2, <2>2, <2>6, <3>1 DEF NewFirst
    <3>. QED
      BY <1>7, <2>4, <2>6, <3>2
  <2>7. CASE s.do = "store"
    <3>1. vectors \subseteq vectors' /\ job'[j].old = job[j].old
      <4>1. Finish(j, s) \/ Load(j, s) \/ Check(j, s) \/ Insert(j, s)
        BY <2>1, <2>7
      <4>2. vectors \subseteq vectors'
        BY <4>1 DEF Finish, Load, Check, Insert
      <4>. QED
        BY <2>1, <2>7, <4>2
    <3>2. /\ Renewing(j, t) /\ (\A u \in Todo(j) : u.do = "store" /\ Leads(u, t) => u \in Todo(j)') => Renewing(j, t)'
          /\ Renewed(j, t) => Renewed(j, t)'
      BY <1>1, <2>2, <3>1, PhasesKept
    <3>3. Announced(j, t) => Announced(j, t)'
      BY <2>4, <2>7
    <3>4. CASE Renewing(j, t) /\ ~\A u \in Todo(j) : u.do = "store" /\ Leads(u, t) => u \in Todo(j)'
      <4>1. Leads(s, t) /\ Todo(j)' = Todo(j) \ {s} /\ Finish(j, s)
        BY <2>1, <2>2, <2>7, <3>4
      <4>2. \A u \in Todo(j) : u.do = "store" /\ u.at[1] = t.at[1] => u = s
        BY <1>2, <2>2, <2>7, <4>1 DEF Shape, Single, Leads
      <4>3. Same(s, t) /\ Mine(j, t)
        BY <3>4, <4>2 DEF Renewing, Leads
      <4>4. Mine(j, t)'
        BY <2>2, <3>1, <4>3 DEF Mine, Live
      <4>5. Kept(t)' => Chunks(t.kb, t.file)' \ job'[j].old # {}
        <5>. SUFFICES ASSUME Kept(t)' PROVE Chunks(t.kb, t.file)' \ job'[j].old # {}
          OBVIOUS
        <5>1. Kept(s) /\ Storing(j, s, "finish") /\ t.at[1] = s.at[1]
          BY <1>1, <4>1, <4>3 DEF Kept, Same, Finish, Leads
        <5>2. s.kb # Nothing
          BY <1>2, <2>2, <4>3, NothingAssumption DEF Same, CallOK
        <5>3. Chunks(s.kb, s.file) \ job[j].old # {}
          BY <2>2, <5>1, <5>2 DEF Stored
        <5>. QED
          BY <3>1, <4>3, <5>3 DEF Chunks, Same
      <4>6. Renewed(j, t)'
        BY <4>1, <4>2, <4>4, <4>5 DEF Renewed
      <4>. QED
        <5>1. \A u \in Todo(j) : u.do = "dropOld" /\ Before(u, t) => Announced(j, t)
          BY <2>2 DEF NewFirst
        <5>. QED
          BY <1>7, <2>2, <3>3, <4>6, <5>1
    <3>5. CASE ~(Renewing(j, t) /\ ~\A u \in Todo(j) : u.do = "store" /\ Leads(u, t) => u \in Todo(j)')
      <4>1. /\ Announced(j, t) \/ Renewing(j, t) \/ Renewed(j, t)
            /\ \A u \in Todo(j) : u.do = "dropOld" /\ Before(u, t) => Announced(j, t)
        BY <2>2 DEF NewFirst
      <4>. QED
        BY <1>7, <2>2, <3>2, <3>3, <3>5, <4>1
    <3>. QED
      BY <3>4, <3>5
  <2>. QED
    BY <2>3, <2>5, <2>6, <2>7
<1>. QED
  BY <1>3, <1>4, <1>5, <1>6, <1>7

SearchInv ==
    /\ Shape /\ Rivalry /\ NoDuplicates
    /\ UnlinkFirst /\ StoreFirst /\ Stored /\ NewFirst /\ Searchable

\* SearchInv is kept by arrivals.
LEMMA SearchArrive == ASSUME SearchInv, NEW j \in Job, Arrive(j) PROVE SearchInv'
<1>. USE DEF SearchInv
<1>1. Shape' /\ Rivalry' /\ NoDuplicates'
  BY ShapeArrive, RivalryArrive
<1>2. PICK todo : Request(j, todo) /\ Fits(todo)
  BY Arrivals DEF Shape
<1>3. /\ Todo(j) = {} /\ Todo(j)' = todo /\ job'[j].held = job[j].held
      /\ \A i \in Job \ {j} : job'[i] = job[i] /\ Todo(i)' = Todo(i)
      /\ links' = links /\ vectors' = vectors /\ wiped' = wiped /\ unfinished' = unfinished
      /\ spilled' = spilled /\ raced \subseteq raced'
  BY <1>2, RequestEffect DEF Shape
<1>4. \A f : Alone(f)' => Alone(f)
  BY <1>3 DEF Alone
<1>5. \A t : Kept(t)' => Kept(t)
  BY <1>3, <1>4 DEF Kept
<1>6. Searchable'
  BY <1>3, <1>4 DEF Searchable, Chunks
<1>7. \A k, f : Chunks(k, f)' = Chunks(k, f)
  BY <1>3 DEF Chunks
<1>8. UnlinkFirst'
  <2>1. \A t : IsLinked(t)' <=> IsLinked(t)
    BY <1>3 DEF IsLinked
  <2>2. \A t \in Todo(j)' : t.do \in {"drop", "dropHash"} =>
            \E u \in Todo(j)' : u.do = "unlink" /\ Same(u, t) /\ u.at[1] = t.at[1] /\ Before(u, t)
    BY <1>2, <1>3 DEF Fits
  <2>. QED
    BY <1>3, <1>4, <2>1, <2>2 DEF UnlinkFirst
<1>9. StoreFirst'
  <2>1. \A t \in Todo(j)' : t.do \in Linking => \E u \in Todo(j)' : u.do = "store" /\ Same(u, t) /\ Leads(u, t)
    BY <1>2, <1>3 DEF Fits
  <2>. QED
    BY <1>3, <1>5, <1>7, <2>1 DEF StoreFirst
<1>10. Stored'
  <2>1. First(j) = {} /\ \A i \in Job \ {j} : First(i)' = First(i)
    BY <1>3 DEF First, Todo
  <2>2. job'[j].held.stage = "none"
    BY <1>3, <2>1 DEF Shape, HeldByStore
  <2>. SUFFICES ASSUME NEW i \in Job, NEW s \in First(i)', Storing(i, s, "finish")', s.kb # Nothing, Kept(s)'
                PROVE  /\ Chunks(s.kb, s.file)' # {}
                       /\ \A t \in Todo(i)' : t.do = "dropOld" /\ t.at[1] = s.at[1] =>
                             Chunks(s.kb, s.file)' \ job'[i].old # {}
    BY DEF Stored
  <2>3. i # j
    BY <2>2 DEF Storing
  <2>4. s \in First(i) /\ Storing(i, s, "finish") /\ Kept(s)
    BY <1>3, <1>5, <2>1, <2>3 DEF Storing
  <2>. QED
    BY <1>3, <1>7, <2>3, <2>4 DEF Stored
<1>11. NewFirst'
  <2>. SUFFICES ASSUME NEW i \in Job, NEW t \in Todo(i)', t.do = "dropOld"
                PROVE  /\ Announced(i, t)' \/ Renewing(i, t)' \/ Renewed(i, t)'
                       /\ \A u \in Todo(i)' : u.do = "dropOld" /\ Before(u, t) => Announced(i, t)'
    BY DEF NewFirst
  <2>1. i # j
    BY <1>2, <1>3 DEF Fits
  <2>2. job'[i] = job[i] /\ Todo(i)' = Todo(i)
    BY <1>3, <2>1
  <2>3. /\ Renewing(i, t) => Renewing(i, t)'
        /\ Renewed(i, t) => Renewed(i, t)'
        /\ Announced(i, t) => Announced(i, t)'
    BY <1>3, <1>5, <2>2, PhasesKept
  <2>. QED
    BY <2>2, <2>3 DEF NewFirst
<1>. QED
  BY <1>1, <1>6, <1>8, <1>9, <1>10, <1>11

\* SearchInv is kept by a crash: no calls are left to say anything of.
LEMMA SearchCrash == ASSUME SearchInv, Crash PROVE SearchInv'
<1>1. Shape' /\ Rivalry' /\ NoDuplicates'
  BY ShapeCrash, RivalryCrash DEF SearchInv
<1>2. /\ \A j \in Job : Todo(j)' = {} /\ First(j)' = {}
      /\ links' = links /\ vectors' = vectors /\ raced' = raced /\ wiped' = wiped /\ spilled' = spilled
  BY CrashEffect DEF SearchInv, Shape
<1>3. UnlinkFirst' /\ StoreFirst' /\ Stored' /\ NewFirst'
  BY <1>2 DEF UnlinkFirst, StoreFirst, Stored, NewFirst
<1>4. Searchable'
  BY <1>2 DEF SearchInv, Searchable, Alone, Chunks
<1>. QED
  BY <1>1, <1>3, <1>4 DEF SearchInv

\* SearchInv holds at the start.
LEMMA SearchInit == Init => SearchInv
<1>. SUFFICES ASSUME Init PROVE SearchInv
  OBVIOUS
<1>1. Shape
  BY ShapeInit
<1>2. (\A j \in Job : Todo(j) = {} /\ First(j) = {}) /\ vectors = {} /\ links = {}
  BY DEF Init, Idle, Todo, First
<1>. QED
  BY <1>1, <1>2 DEF SearchInv, Rivalry, NoDuplicates, UnlinkFirst, StoreFirst, Stored, NewFirst, Searchable

\* SearchInv is kept by calls, returning or raising.
LEMMA SearchStep == ASSUME SearchInv, NEW j \in Job, Step(j) \/ Fails(j) \/ Loses(j) PROVE SearchInv'
<1>1. PICK s \in First(j) : Act(j, s) \/ Raise(j, s)
  BY Acts
<1>. QED
  BY <1>1, ShapeStep, RivalryStep, NoDuplicatesStep, UnlinkFirstStep, StoreFirstStep, StoredStep, NewFirstStep,
     SearchableStep DEF SearchInv

\* SearchInv is inductive.
LEMMA SearchNext == SearchInv /\ [Next]_vars => SearchInv'
<1>. SUFFICES ASSUME SearchInv, [Next]_vars PROVE SearchInv'
  OBVIOUS
<1>1. CASE UNCHANGED vars
  <2>1. /\ job' = job /\ file' = file /\ own' = own /\ links' = links /\ vectors' = vectors /\ raced' = raced
        /\ wiped' = wiped /\ unfinished' = unfinished /\ spilled' = spilled /\ stranded' = stranded /\ faults' = faults
    BY <1>1 DEF vars, history
  <2>2. /\ \A j \in Job : Todo(j)' = Todo(j) /\ First(j)' = First(j)
        /\ \A k, f : Chunks(k, f)' = Chunks(k, f)
        /\ \A f : (Alone(f)' <=> Alone(f)) /\ (There(f)' <=> There(f))
        /\ \A t : (Kept(t)' <=> Kept(t)) /\ (IsLinked(t)' <=> IsLinked(t)) /\ (CallOK(t)' <=> CallOK(t))
        /\ \A j, t : Mine(j, t)' <=> Mine(j, t)
    BY <2>1 DEF Todo, First, Chunks, Alone, There, Kept, IsLinked, CallOK, Mine, Live
  <2>3. Typed'
    BY <2>1, <2>2 DEF SearchInv, Shape, Typed, HeldOK
  <2>4. Planned' /\ HeldByStore' /\ Single'
    BY <2>1, <2>2 DEF SearchInv, Shape, Planned, Plan, HeldByStore, Single
  <2>5. Overlap'
    BY <2>1, <2>2 DEF SearchInv, Shape, Overlap, Concerned
  <2>6. Rivalry' /\ NoDuplicates'
    BY <2>1, <2>2 DEF SearchInv, Rivalry, NoDuplicates, Rivals, Storing
  <2>7. UnlinkFirst' /\ StoreFirst'
    BY <2>1, <2>2 DEF SearchInv, UnlinkFirst, StoreFirst
  <2>8. Stored'
    BY <2>1, <2>2 DEF SearchInv, Stored, Storing
  <2>9. NewFirst'
    BY <2>1, <2>2 DEF SearchInv, NewFirst, Announced, Renewing, Renewed
  <2>10. Searchable'
    BY <2>1, <2>2 DEF SearchInv, Searchable
  <2>. QED
    BY <2>3, <2>4, <2>5, <2>6, <2>7, <2>8, <2>9, <2>10 DEF SearchInv, Shape
<1>. QED
  BY <1>1, SearchArrive, SearchCrash, SearchStep DEF Next

\* Searchable of KnowledgeFiles: whichever call raises or write is lost, and
\* whenever the process dies, a file linked to a base has a chunk there, but for
\* the links in wiped: their chunks were deleted to be stored anew, or although
\* the link could not be removed.
THEOREM LinkedFilesSearchable == Spec => []Searchable
<1>1. Spec => []SearchInv
  BY SearchInit, SearchNext, PTL DEF Spec
<1>2. SearchInv => Searchable
  BY DEF SearchInv
<1>. QED
  BY <1>1, <1>2, PTL

\* NoDuplicates of KnowledgeFiles: the search for the same hash before an
\* insertion (routers/retrieval.py, save_docs_to_vector_db) keeps a base free of
\* a second copy under another file.
THEOREM NoHashTwice == Spec => []NoDuplicates
<1>1. Spec => []SearchInv
  BY SearchInit, SearchNext, PTL DEF Spec
<1>2. SearchInv => NoDuplicates
  BY DEF SearchInv
<1>. QED
  BY <1>1, <1>2, PTL
-----------------------------------------------------------------------------
(* What a step leaves alone.                                               *)

\* Which call does what.
LEMMA Doings ==
    ASSUME NEW j \in Job, NEW s \in First(j), Act(j, s)
    PROVE  /\ s.do = "store" <=> Load(j, s) \/ Check(j, s) \/ Insert(j, s) \/ Finish(j, s)
           /\ (Link(j, s) => s.do \in Linking) /\ (s.do \in Linking => Link(j, s) \/ Lost(j, s))
           /\ (Unlink(j, s) => s.do = "unlink") /\ (s.do = "unlink" => Unlink(j, s) \/ Lost(j, s))
           /\ (UnlinkAll(j, s) => s.do = "unlinkAll") /\ (s.do = "unlinkAll" => UnlinkAll(j, s) \/ Lost(j, s))
           /\ (Hash(j, s) => s.do = "hash") /\ (s.do = "hash" => Hash(j, s) \/ Lost(j, s))
           /\ s.do = "dropRow" <=> DropRow(j, s)
           /\ s.do = "spread" <=> Spread(j, s)
           /\ s.do = "batch" <=> BatchInsert(j, s)
           /\ s.do = "drop" <=> Drop(j, s)
           /\ s.do = "dropHash" <=> DropHash(j, s)
           /\ s.do \in {"wipe", "wipeFile"} <=> Wipe(j, s)
           /\ s.do = "old" <=> Old(j, s)
           /\ s.do = "dropOld" <=> DropOld(j, s)
  BY DEF Act, Load, Check, Insert, Finish, Processing, Link, Unlink, UnlinkAll, Hash, DropRow, Linking,
         Spread, BatchInsert, Drop, DropHash, Wipe, DropOwn, Old, DropOld, Lost, Unwritten, Returns, Storing

\* What a write that is lost is blamed for.
LEMMA Losing ==
    ASSUME Typed, NEW j \in Job, NEW s \in First(j), Lost(j, s)
    PROVE  /\ s.do \in {"processing", "link", "attach", "unlink", "unlinkAll", "hash"}
           /\ links' = links /\ vectors' = vectors /\ own' = own /\ spilled' = spilled /\ stranded' = stranded
           /\ unfinished \subseteq unfinished' /\ faults' > 0
           /\ s.file # Nothing => <<s.kb, s.file>> \in unfinished'
           /\ s.file = Nothing => \A f \in File : <<s.kb, f>> \in unfinished'
           /\ s.do = "unlink" => wiped' \subseteq wiped \cup unfinished'
           /\ s.do # "unlink" => wiped' = wiped
           /\ s.do # "attach" => file' = file
<1>1. faults' > 0
  BY DEF Lost, Unwritten, Typed
<1>2. s.file # Nothing => <<s.kb, s.file>> \in unfinished'
  BY DEF Lost, Unwritten
<1>3. s.file = Nothing => \A f \in File : <<s.kb, f>> \in unfinished'
  BY DEF Lost, Unwritten
<1>4. s.do = "unlink" => s.file # Nothing
  BY Firsts DEF CallOK
<1>. QED
  BY <1>1, <1>2, <1>3, <1>4 DEF Lost, Unwritten

\* What a call that raises is blamed for.
LEMMA Raising ==
    ASSUME Typed, NEW j \in Job, NEW s \in First(j), Raise(j, s)
    PROVE  \/ s.do = "dropRow" /\ file' = file
           \/ /\ s.do = "store" /\ (job[j].held.stage # "finish" \/ faults' > 0)
              /\ \A t \in Todo(j) : t.do = "store" /\ (t = s \/ t.at[1] = s.skips) => <<t.kb, t.file>> \in unfinished'
           \/ /\ s.do \in {"drop", "dropHash", "wipe", "wipeFile", "dropOwn", "old", "dropOld", "batch"}
              /\ file' = file /\ faults' > 0 /\ wiped \subseteq unfinished'
              /\ \A t \in Todo(j) : <<t.kb, t.file>> \in unfinished'
              /\ s.file = Nothing => \A v \in vectors : v.kb = s.kb => <<v.kb, v.file>> \in unfinished'
<1>1. CASE VectorFails(j, s)
  <2>1. faults' > 0
    BY <1>1 DEF VectorFails, Typed
  <2>. QED
    BY <1>1, <2>1 DEF VectorFails, Todo
<1>2. CASE Missing(j, s) \/ Duplicate(j, s) \/ StoreFails(j, s)
  <2>1. s.do = "store" /\ (job[j].held.stage # "finish" \/ faults' > 0)
    BY <1>2 DEF Missing, Duplicate, StoreFails, Storing, Typed
  <2>2. unfinished' = unfinished \cup Skipped(j, s)
    BY <1>2 DEF Missing, Duplicate, StoreFails, StoreRaises, Raises
  <2>3. \A t \in Todo(j) : t.do = "store" /\ (t = s \/ t.at[1] = s.skips) => <<t.kb, t.file>> \in Skipped(j, s)
    BY DEF Skipped, Todo
  <2>. QED
    BY <2>1, <2>2, <2>3
<1>3. CASE Undeleted(j, s)
  BY <1>3 DEF Undeleted, Unwritten
<1>. QED
  BY <1>1, <1>2, <1>3 DEF Raise

\* A call changes no other file's row and collection.
LEMMA OtherFiles ==
    ASSUME Typed, NEW j \in Job, NEW s \in First(j), Act(j, s) \/ Raise(j, s), NEW f \in File, f # s.file
    PROVE  file'[f] = file[f] /\ own'[f] = own[f] /\ (There(f)' <=> There(f))
<1>1. DOMAIN file = File /\ DOMAIN own = File
  BY DEF Typed
<1>2. \/ file' = file
      \/ \E r : file' = [file EXCEPT ![s.file] = r]
      \/ \E r : file' = [file EXCEPT ![s.file].text = r]
      \/ \E r : file' = [file EXCEPT ![s.file].status = r]
  <2>1. CASE Act(j, s)
    BY <2>1, Changes DEF Check, Finish, Processing, Link, Hash, DropRow, Lost, Unwritten, Marked
  <2>2. CASE Raise(j, s)
    BY <2>2 DEF Raise, Missing, Duplicate, StoreFails, VectorFails, Undeleted, Unwritten, StoreRaises
  <2>. QED
    BY <2>1, <2>2
<1>3. file'[f] = file[f]
  BY <1>1, <1>2
<1>4. own' = own \/ \E r : own' = [own EXCEPT ![s.file] = r]
  <2>1. CASE Act(j, s)
    BY <2>1, Changes DEF Load, Insert, DropOwn
  <2>2. CASE Raise(j, s)
    BY <2>2, RaiseEffect
  <2>. QED
    BY <2>1, <2>2
<1>5. own'[f] = own[f]
  BY <1>1, <1>4
<1>. QED
  BY <1>3, <1>5 DEF There

\* Another request's file, when no other request has been about it.
LEMMA Elsewhere ==
    ASSUME Shape, NewFirst, NEW j \in Job, NEW s \in First(j), Act(j, s) \/ Raise(j, s),
           NEW i \in Job \ {j}, NEW t \in Todo(i), NEW f \in File, t.file \in {f, Nothing}, Alone(f)
    PROVE  /\ s.file \notin {f, Nothing}
           /\ file'[f] = file[f] /\ own'[f] = own[f] /\ (There(f)' <=> There(f))
           /\ \A k : <<k, f>> \in links' <=> <<k, f>> \in links
           /\ \A v : v.file = f /\ v \in vectors' => v \in vectors
           /\ job'[i] = job[i] /\ Todo(i)' = Todo(i) /\ First(i)' = First(i)
<1>1. f \in Concerned(Todo(i))
  BY NamedFiles DEF Shape
<1>2. s.file \notin {f, Nothing}
  BY <1>1, Apart
<1>. QED
  BY <1>2, Undisturbed, OtherFiles, Later DEF Shape

\* A request's calls that come after one of them.
LEMMA Remains ==
    ASSUME Shape, NEW j \in Job, NEW s \in First(j), Act(j, s) \/ Raise(j, s), ~Spread(j, s), ~BatchInsert(j, s)
    PROVE  /\ Todo(j)' \subseteq Todo(j)
           /\ \A t \in Todo(j), u \in Todo(j)' : t.at[1] = u.at[1] /\ t # s => t \in Todo(j)'
           /\ Act(j, s) => Todo(j) \ {s} \subseteq Todo(j)'
<1>1. CASE Act(j, s)
  BY <1>1, Progress DEF Shape
<1>2. CASE Raise(j, s)
  <2>1. ~Act(j, s) \/ Act(j, s)
    OBVIOUS
  <2>2. Todo(j)' = {t \in Todo(j) \ {s} : t.at[1] # s.skips}
    BY <1>2, RaiseEffect DEF Shape
  <2>3. Act(j, s) => Todo(j) \ {s} \subseteq Todo(j)'
    BY <1>1
  <2>. QED
    BY <2>2, <2>3
<1>. QED
  BY <1>1, <1>2

\* Blame is never taken back.
LEMMA Grows ==
    ASSUME Shape, NEW j \in Job, NEW s \in First(j), Act(j, s) \/ Raise(j, s)
    PROVE  unfinished \subseteq unfinished' /\ faults \in Nat /\ faults' \in Nat /\ faults' >= faults
<1>1. faults \in Nat
  BY DEF Shape, Typed
<1>. QED
  BY <1>1, Changes, RaiseEffect DEF Shape

-----------------------------------------------------------------------------
(* Calls that depend on later ones.                                        *)

\* A link is preceded by its store, a base's chunks of a file go in order to be
\* stored anew, and an unlinking drops them.
Paired == \A j \in Job : Pairs(Todo(j))

\* Paired is kept by calls.
LEMMA PairedStep ==
    ASSUME Shape, Paired, NEW j \in Job, NEW s \in First(j), Act(j, s) \/ Raise(j, s)
    PROVE  Paired'
<1>1. \A t \in Todo(j) : ~Before(t, s) /\ (t # s => Before(s, t))
  BY Firsts DEF Shape
<1>2. Pairs(Todo(j)) /\ Plan(Todo(j))
  BY DEF Paired, Shape, Planned
<1>3. Pairs(Todo(j)')
  <2>1. CASE Spread(j, s)
    <3>1. ASSUME NEW t \in Todo(j)' PROVE t.do \in {"old", "store", "dropOld"}
      <4>1. PICK i \in Nat \ {0}, k \in Linked(s.file) : t \in Propagation(i, k, s.file)
        BY <2>1, SpreadTodo DEF Shape
      <4>. QED
        BY <4>1 DEF Propagation, Do, Store, Call
    <3>. QED
      BY <3>1 DEF Pairs, Linking
  <2>2. CASE BatchInsert(j, s)
    <3>1. \A t \in Todo(j)' : t.do \in {"hash", "link"}
      BY <2>2, BatchTodo DEF Shape
    <3>. QED
      BY <3>1 DEF Pairs
  <2>3. CASE ~Spread(j, s) /\ ~BatchInsert(j, s)
    <3>1. /\ Todo(j)' \subseteq Todo(j)
          /\ \A t \in Todo(j), u \in Todo(j)' : t.at[1] = u.at[1] /\ t # s => t \in Todo(j)'
      BY <2>3, Remains
    <3>2. ASSUME NEW t \in Todo(j)', t.do \in Linking, NEW x \in Todo(j)', x.do = "store"
          PROVE  \E u \in Todo(j)' : u.do = "store" /\ Same(u, t) /\ Leads(u, t) /\ ~Before(u, x)
      <4>1. PICK u \in Todo(j) : u.do = "store" /\ Same(u, t) /\ Leads(u, t) /\ ~Before(u, x)
        BY <1>2, <3>1, <3>2 DEF Pairs
      <4>2. u = s => x = s
        BY <1>1, <3>1, <4>1
      <4>3. u \in Todo(j)'
        BY <3>1, <3>2, <4>1, <4>2 DEF Leads
      <4>. QED
        BY <4>1, <4>3
    <3>3. ASSUME NEW t \in Todo(j)', t.do = "wipeFile"
          PROVE  \E u \in Todo(j)' : u.do = "store" /\ Same(u, t) /\ Leads(t, u)
      <4>1. PICK u \in Todo(j) : u.do = "store" /\ Same(u, t) /\ Leads(t, u)
        BY <1>2, <3>1, <3>3 DEF Pairs
      <4>2. u # s
        BY <1>1, <3>1, <4>1 DEF Leads
      <4>. QED
        BY <3>1, <4>1, <4>2 DEF Leads
    <3>4. ASSUME NEW t \in Todo(j)', t.do = "unlink"
          PROVE  \E u \in Todo(j)' : u.do = "drop" /\ Same(u, t) /\ u.at[1] = t.at[1]
      <4>1. PICK u \in Todo(j) : u.do = "drop" /\ Same(u, t) /\ u.at[1] = t.at[1]
        BY <1>2, <3>1, <3>4 DEF Pairs
      <4>2. t \in Todo(j) /\ u # t
        BY <3>1, <3>4, <4>1
      <4>3. Before(t, u)
        BY <1>2, <3>4, <4>1, <4>2 DEF Plan
      <4>4. u # s
        BY <1>1, <4>2, <4>3
      <4>. QED
        BY <3>1, <4>1, <4>4
    <3>. QED
      BY <3>2, <3>3, <3>4 DEF Pairs
  <2>. QED
    BY <2>1, <2>2, <2>3
<1>4. \A i \in Job \ {j} : Todo(i)' = Todo(i)
  BY Later DEF Shape
<1>. QED
  BY <1>3, <1>4 DEF Paired, Pairs

-----------------------------------------------------------------------------
(* Texts.                                                                  *)

\* What a batch stores and links has not been deleted or edited.
ReadyCall(t) ==
    /\ t.do \in Linking /\ Alone(t.file) => There(t.file)
    /\ t.do = "batch" => \A f \in DOMAIN t.text : Alone(f) => There(f) /\ t.text[f] = file[f].text
    /\ t.do = "hash" /\ Alone(t.file) => There(t.file) /\ t.text = file[t.file].text
Ready == \A j \in Job : \A t \in Todo(j) : ReadyCall(t)

\* A file's own collection holds the text of its row.
OwnText == \A f \in File :
    /\ There(f) /\ Alone(f) => own[f] \in {Nothing, file[f].text}
    /\ file[f].status = "absent" => own[f] = Nothing

\* What a store holds is the text of the row, or is about to be.
HeldBy(j, s) ==
    LET held == job[j].held
        f == s.file
    IN  /\ There(f) /\ held.docs = held.text
        /\ s.kb # Nothing => held.text = file[f].text
        /\ s.kb = Nothing => /\ held.stage \in {"check", "insert"} => own[f] = Nothing
                             /\ held.stage \in {"insert", "finish"} => held.text = file[f].text
HeldText ==
    \A j \in Job : \A s \in First(j) :
        s.do = "store" /\ job[j].held.stage # "none" /\ Alone(s.file) => HeldBy(j, s)

Texts == Ready /\ OwnText /\ HeldText

\* A row's text changes when a file's new content is committed.
LEMMA TextKept ==
    ASSUME Shape, Ready, HeldText, NEW j \in Job, NEW s \in First(j), Act(j, s) \/ Raise(j, s),
           NEW f \in File, Alone(f), There(f)'
    PROVE  /\ There(f)
           /\ \/ file'[f].text = file[f].text
              \/ /\ s.file = f /\ s.kb = Nothing
                 /\ Check(j, s) \/ Duplicate(j, s)
                 /\ file'[f].text = job[j].held.text
<1>1. /\ There(f) /\ ~(DropRow(j, s) /\ s.file = f)
      /\ \/ file'[f].text = file[f].text
         \/ s.file = f /\ DropRow(j, s) /\ file'[f].text = Nothing
         \/ s.file = f /\ Hash(j, s) /\ file'[f].text = s.text
         \/ s.file = f /\ Storing(j, s, "check") /\ file'[f].text = Content(j, s)
  BY FileEffect DEF Shape
<1>2. s \in Todo(j) /\ CallOK(s)
  BY Firsts DEF Shape
<1>3. CASE s.file = f /\ Hash(j, s) /\ file'[f].text = s.text
  <2>1. s.do = "hash"
    BY <1>3 DEF Hash, Returns
  <2>. QED
    BY <1>1, <1>2, <1>3, <2>1 DEF Ready, ReadyCall
<1>4. CASE s.file = f /\ Storing(j, s, "check") /\ file'[f].text = Content(j, s) /\ file'[f].text # file[f].text
  <2>1. HeldBy(j, s) /\ s.do = "store" /\ job[j].held.stage = "check"
    BY <1>4 DEF HeldText, Storing
  <2>2. file'[f].text = job[j].held.text
    BY <1>1, <1>4 DEF Content
  <2>3. s.kb = Nothing
    BY <1>4, <2>1, <2>2 DEF HeldBy
  <2>4. Check(j, s) \/ Duplicate(j, s)
    <3>1. CASE Act(j, s)
      <4>1. Load(j, s) \/ Check(j, s) \/ Insert(j, s) \/ Finish(j, s)
        BY <2>1, <3>1, Doings
      <4>. QED
        BY <2>1, <4>1 DEF Load, Insert, Finish, Storing
    <3>2. CASE Raise(j, s)
      <4>1. ~StoreFails(j, s)
        BY <1>4 DEF Shape, Typed, StoreFails, StoreRaises
      <4>. QED
        BY <2>1, <3>2, <4>1 DEF Raise, Missing, VectorFails, Undeleted, Storing
    <3>. QED
      BY <3>1, <3>2
  <2>. QED
    BY <1>1, <1>4, <2>2, <2>3, <2>4
<1>. QED
  BY <1>1, <1>3, <1>4

\* The calls that a request has after one of its calls.
LEMMA NewCalls ==
    ASSUME Shape, NEW j \in Job, NEW s \in First(j), Act(j, s) \/ Raise(j, s), NEW t \in Todo(j)'
    PROVE  \/ t \in Todo(j) /\ ~Spread(j, s) /\ ~BatchInsert(j, s)
           \/ Spread(j, s) /\ t.do \in {"old", "store", "dropOld"} /\ t.file = s.file /\ s.file \in File /\ t.kb \in Linked(s.file)
           \/ BatchInsert(j, s) /\ t.do \in {"hash", "link"} /\ t.kb = s.kb /\ t.file \in DOMAIN s.text /\ t.file \in File
<1>1. CASE Spread(j, s)
  <2>1. PICK i \in Nat \ {0}, k \in Linked(s.file) : t \in Propagation(i, k, s.file) /\ s.file \in File
    BY <1>1, SpreadTodo DEF Shape
  <2>2. t.do \in {"old", "store", "dropOld"} /\ t.file = s.file /\ t.kb = k
    BY <2>1 DEF Propagation, Do, Store, Call
  <2>. QED
    BY <1>1, <2>1, <2>2
<1>2. CASE BatchInsert(j, s)
  BY <1>2, BatchTodo DEF Shape
<1>. QED
  BY <1>1, <1>2, Remains

\* Ready is kept by calls.
LEMMA ReadyStep ==
    ASSUME Shape, NewFirst, Texts, NEW j \in Job, NEW s \in First(j), Act(j, s) \/ Raise(j, s)
    PROVE  Ready'
<1>. USE DEF Texts
<1>. SUFFICES ASSUME NEW i \in Job, NEW t \in Todo(i)' PROVE ReadyCall(t)'
  BY DEF Ready
<1>1. \A f : Alone(f)' <=> Alone(f)
  BY Monotone DEF Alone
<1>2. s \in Todo(j) /\ CallOK(s)
  BY Firsts DEF Shape
<1>3. \A x \in Todo(i) : CallOK(x)
  BY DEF Shape, Typed
<1>4. ReadyCall(t)' <=>
        /\ t.do \in Linking /\ Alone(t.file) => There(t.file)'
        /\ t.do = "batch" => \A f \in DOMAIN t.text : Alone(f) => There(f)' /\ t.text[f] = file'[f].text
        /\ t.do = "hash" /\ Alone(t.file) => There(t.file)' /\ t.text = file'[t.file].text
  BY <1>1 DEF ReadyCall
<1>5. CASE i # j
  <2>1. t \in Todo(i) /\ ReadyCall(t) /\ CallOK(t)
    BY <1>3, <1>5, Later DEF Shape, Ready
  <2>2. ASSUME NEW f \in File, t.file \in {f, Nothing}, Alone(f)
        PROVE  file'[f] = file[f] /\ (There(f)' <=> There(f))
    BY <1>5, <2>1, <2>2, Elsewhere
  <2>3. t.do \in Linking \cup {"hash"} => t.file \in File
    BY <2>1 DEF CallOK, Linking
  <2>4. t.do = "batch" => t.file = Nothing /\ \A f \in DOMAIN t.text : f \in File
    BY <2>1 DEF CallOK
  <2>. QED
    BY <1>4, <2>1, <2>2, <2>3, <2>4 DEF ReadyCall
<1>6. CASE i = j /\ t \in Todo(j) /\ ~Spread(j, s) /\ ~BatchInsert(j, s)
  <2>1. ReadyCall(t) /\ CallOK(t)
    BY <1>3, <1>6 DEF Ready
  <2>2. ASSUME t.do \in Linking \cup {"batch", "hash"} PROVE ~DropRow(j, s)
    <3>1. s.do # "dropRow"
      BY <1>2, <1>6, <2>2, Kind DEF Kinds, Linking
    <3>. QED
      BY <3>1 DEF DropRow, Returns
  <2>3. ASSUME t.do \in {"batch", "hash"} PROVE s.do # "store"
    BY <1>2, <1>6, <2>3, Kind DEF Kinds
  <2>4. ASSUME t.do \in Linking \cup {"batch", "hash"}, NEW f \in File, There(f), Alone(f)
        PROVE  There(f)' /\ (t.do \in {"batch", "hash"} => file'[f].text = file[f].text)
    <3>1. There(f)'
      BY <2>2, <2>4, FileEffect DEF Shape
    <3>2. s.do # "store" => ~Check(j, s) /\ ~Duplicate(j, s)
      BY DEF Check, Duplicate, Storing
    <3>. QED
      BY <2>3, <2>4, <3>1, <3>2, TextKept
  <2>5. t.do \in Linking \cup {"hash"} => t.file \in File
    BY <2>1 DEF CallOK, Linking
  <2>6. t.do = "batch" => \A f \in DOMAIN t.text : f \in File
    BY <2>1 DEF CallOK
  <2>. QED
    BY <1>4, <2>1, <2>4, <2>5, <2>6 DEF ReadyCall
<1>7. CASE i = j /\ Spread(j, s)
  BY <1>4, <1>7, NewCalls DEF Linking, BatchInsert, Spread
<1>8. CASE i = j /\ BatchInsert(j, s)
  <2>1. /\ t.do \in {"hash", "link"} /\ t.file \in DOMAIN s.text /\ t.file \in File
        /\ t.do = "hash" => t.text = s.text[t.file]
    BY <1>8, BatchTodo DEF Shape
  <2>2. file' = file /\ s.do = "batch"
    BY <1>8 DEF BatchInsert
  <2>3. Alone(t.file) => There(t.file) /\ s.text[t.file] = file[t.file].text
    BY <1>2, <2>1, <2>2 DEF Ready, ReadyCall
  <2>. QED
    BY <1>4, <2>1, <2>2, <2>3 DEF There
<1>. QED
  BY <1>5, <1>6, <1>7, <1>8, NewCalls

\* OwnText is kept by calls.
LEMMA OwnTextStep ==
    ASSUME Shape, NewFirst, Texts, NEW j \in Job, NEW s \in First(j), Act(j, s) \/ Raise(j, s)
    PROVE  OwnText'
<1>. USE DEF Texts
<1>. SUFFICES ASSUME NEW f \in File
              PROVE  /\ There(f)' /\ Alone(f)' => own'[f] \in {Nothing, file'[f].text}
                     /\ file'[f].status = "absent" => own'[f] = Nothing
  BY DEF OwnText
<1>1. /\ There(f) /\ Alone(f) => own[f] \in {Nothing, file[f].text}
      /\ file[f].status = "absent" => own[f] = Nothing
  BY DEF OwnText
<1>2. s \in Todo(j) /\ CallOK(s)
  BY Firsts DEF Shape
<1>3. file'[f].status = "absent" => file[f].status = "absent" /\ s.file # f
  <2>1. s.file = f => file[f].status # "absent"
    BY <1>2, NothingAssumption DEF CallOK
  <2>2. file'[f].status = "absent" <=> file[f].status = "absent"
    BY FileEffect DEF Shape
  <2>. QED
    BY <2>1, <2>2
<1>4. CASE s.file # f
  BY <1>1, <1>3, <1>4, Monotone, OtherFiles DEF Shape, Alone
<1>5. CASE s.file = f
  <2>. SUFFICES ASSUME There(f)', Alone(f) PROVE own'[f] \in {Nothing, file'[f].text}
    BY <1>3, <1>5, Monotone DEF Alone
  <2>1. /\ There(f)
        /\ \/ file'[f].text = file[f].text
           \/ /\ s.file = f /\ s.kb = Nothing
              /\ Check(j, s) \/ Duplicate(j, s)
              /\ file'[f].text = job[j].held.text
    BY TextKept
  <2>2. \/ own' = own
        \/ own' = [own EXCEPT ![f] = Nothing]
        \/ Insert(j, s) /\ s.kb = Nothing /\ own' = [own EXCEPT ![f] = IF @ = Nothing THEN job[j].held.docs ELSE @]
    <3>1. CASE Act(j, s)
      BY <1>5, <3>1, Changes DEF Load, Insert, DropOwn
    <3>2. CASE Raise(j, s)
      BY <3>2, RaiseEffect DEF Shape
    <3>. QED
      BY <3>1, <3>2
  <2>3. DOMAIN own = File
    BY DEF Shape, Typed
  <2>4. CASE Check(j, s) \/ Duplicate(j, s)
    <3>1. own' = own /\ s.do = "store" /\ job[j].held.stage = "check"
      BY <2>4 DEF Check, Duplicate, Raises, Storing
    <3>2. s.kb = Nothing => own[f] = Nothing
      BY <1>5, <3>1 DEF HeldText, HeldBy
    <3>. QED
      BY <1>1, <2>1, <3>1, <3>2
  <2>5. CASE Insert(j, s) /\ s.kb = Nothing /\ own' = [own EXCEPT ![f] = IF @ = Nothing THEN job[j].held.docs ELSE @]
    <3>1. file' = file /\ s.do = "store" /\ job[j].held.stage = "insert"
      BY <2>5 DEF Insert, Storing
    <3>2. HeldBy(j, s)
      BY <1>5, <3>1 DEF HeldText
    <3>3. own[f] = Nothing /\ job[j].held.docs = file[f].text
      BY <1>5, <2>5, <3>1, <3>2 DEF HeldBy
    <3>. QED
      BY <2>3, <2>5, <3>1, <3>3
  <2>6. CASE ~Check(j, s) /\ ~Duplicate(j, s) /\ own' = own
    BY <1>1, <2>1, <2>6
  <2>7. CASE own' = [own EXCEPT ![f] = Nothing]
    BY <2>3, <2>7
  <2>. QED
    BY <2>2, <2>4, <2>5, <2>6, <2>7
<1>. QED
  BY <1>4, <1>5

\* A store moves to its next stage with what it holds.
LEMMA Advances ==
    ASSUME Typed, NEW j \in Job, NEW s \in First(j), Check(j, s) \/ Insert(j, s)
    PROVE  /\ job'[j].held.stage = IF Check(j, s) THEN "insert" ELSE "finish"
           /\ job'[j].held.text = job[j].held.text /\ job'[j].held.docs = job[j].held.docs
<1>1. job[j].held = [stage |-> job[j].held.stage, text |-> job[j].held.text, docs |-> job[j].held.docs]
  BY DEF Typed, HeldOK, Free, Check, Insert, Storing
<1>2. PICK stage : Hold(j, [job[j].held EXCEPT !.stage = stage]) /\ stage = IF Check(j, s) THEN "insert" ELSE "finish"
  BY DEF Check, Insert, Storing
<1>3. PICK held : held = [job[j].held EXCEPT !.stage = stage]
  OBVIOUS
<1>4. held.stage = stage /\ held.text = job[j].held.text /\ held.docs = job[j].held.docs
  BY <1>1, <1>3
<1>5. job'[j].held = held
  BY <1>2, <1>3, Holds
<1>. QED
  BY <1>2, <1>4, <1>5

\* What a store holds at first: the new content, or what is in the file's collection or row.
LEMMA Loads ==
    ASSUME Typed, NEW j \in Job, NEW s \in First(j), Load(j, s)
    PROVE  LET held == job'[j].held
               f == s.file
           IN  /\ f \in File /\ There(f) /\ file' = file /\ held.stage = "check"
               /\ s.kb = Nothing => held.docs = held.text /\ own'[f] = Nothing
               /\ s.kb # Nothing => /\ held.text = file[f].text /\ own' = own
                                    /\ held.docs = IF own[f] # Nothing THEN own[f] ELSE held.text
<1> DEFINE new == s.text
           text == IF new # Nothing THEN new ELSE file[s.file].text
           docs == IF new = Nothing /\ own[s.file] # Nothing THEN own[s.file] ELSE text
<1>1. s.do = "store" /\ There(s.file) /\ file' = file /\ Hold(j, [stage |-> "check", text |-> text, docs |-> docs])
      /\ own' = IF new # Nothing THEN [own EXCEPT ![s.file] = Nothing] ELSE own
  BY DEF Load, Storing
<1>2. s.file \in File /\ (IF s.kb = Nothing THEN new \in Text ELSE new = Nothing)
  BY <1>1, Firsts DEF CallOK
<1>3. job'[j].held = [stage |-> "check", text |-> text, docs |-> docs]
  BY <1>1, Holds
<1>4. job'[j].held.stage = "check" /\ job'[j].held.text = text /\ job'[j].held.docs = docs
  BY <1>3
<1>5. DOMAIN own = File
  BY DEF Typed
<1>. QED
  BY <1>1, <1>2, <1>4, <1>5, NothingAssumption

\* HeldText is kept by calls.
LEMMA HeldTextStep ==
    ASSUME Shape, NewFirst, Texts, NEW j \in Job, NEW s \in First(j), Act(j, s) \/ Raise(j, s)
    PROVE  HeldText'
<1>. USE DEF Texts
<1>. SUFFICES ASSUME NEW i \in Job, NEW t \in First(i)', t.do = "store", job'[i].held.stage # "none", Alone(t.file)'
              PROVE  HeldBy(i, t)'
  BY DEF HeldText
<1>1. Alone(t.file)
  BY Monotone DEF Alone
<1>2. CASE i # j
  <2>1. t \in First(i) /\ job'[i] = job[i]
    BY <1>2, Later DEF Shape
  <2>2. t \in Todo(i) /\ t.file \in File
    BY <2>1, Firsts DEF Shape, CallOK
  <2>3. file'[t.file] = file[t.file] /\ own'[t.file] = own[t.file] /\ (There(t.file)' <=> There(t.file))
    BY <1>1, <1>2, <2>2, Elsewhere
  <2>4. HeldBy(i, t)
    BY <1>1, <2>1 DEF HeldText
  <2>. QED
    BY <2>1, <2>3, <2>4 DEF HeldBy
<1>3. CASE i = j
  <2>1. job'[j].held # Free
    BY <1>3 DEF Free
  <2>2. /\ Load(j, s) \/ Check(j, s) \/ Insert(j, s)
        /\ First(j)' = First(j)
    BY <2>1, Later DEF Shape
  <2>3. s = t
    BY <1>3, <2>2, Unique DEF Shape
  <2>4. s.file \in File /\ s.do = "store"
    BY <1>3, <2>3, Firsts DEF Shape, CallOK
  <2>5. CASE Load(j, s)
    <3>1. There(s.file) => own[s.file] \in {Nothing, file[s.file].text}
      BY <1>1, <2>3, <2>4 DEF OwnText
    <3>2. /\ There(s.file)' /\ file' = file
          /\ job'[j].held.docs = job'[j].held.text
          /\ job'[j].held.stage = "check"
          /\ s.kb # Nothing => job'[j].held.text = file'[s.file].text
          /\ s.kb = Nothing => own'[s.file] = Nothing
      BY <2>5, <3>1, Loads DEF Shape, There
    <3>. QED
      BY <1>3, <2>3, <3>2 DEF HeldBy
  <2>6. CASE Check(j, s)
    <3>1. job[j].held.stage = "check" /\ own' = own
      BY <2>6 DEF Check, Storing
    <3>2. HeldBy(j, s)
      BY <1>1, <2>3, <2>4, <3>1 DEF HeldText
    <3>3. There(s.file)' /\ file'[s.file].text = job[j].held.text
      <4>1. There(s.file)
        BY <3>2 DEF HeldBy
      <4>2. ~DropRow(j, s)
        BY <2>4 DEF DropRow, Returns
      <4>3. There(s.file)'
        BY <2>4, <4>1, <4>2, FileEffect DEF Shape
      <4>4. file' = [file EXCEPT ![s.file].text = Content(j, s)] /\ Content(j, s) = job[j].held.text
        BY <2>6, <4>1 DEF Check, Content
      <4>5. DOMAIN file = File /\ file[s.file] = [status |-> file[s.file].status, text |-> file[s.file].text, hash |-> file[s.file].hash]
        BY <2>4 DEF Shape, Typed
      <4>6. file'[s.file].text = job[j].held.text
        BY <2>4, <4>4, <4>5
      <4>. QED
        BY <4>3, <4>6
    <3>4. job'[j].held.stage = "insert" /\ job'[j].held.text = job[j].held.text /\ job'[j].held.docs = job[j].held.docs
      BY <2>6, Advances DEF Shape
    <3>. QED
      BY <1>3, <2>3, <3>1, <3>2, <3>3, <3>4 DEF HeldBy
  <2>7. CASE Insert(j, s) /\ ~Check(j, s)
    <3>1. job[j].held.stage = "insert" /\ file' = file
      BY <2>7 DEF Insert, Storing
    <3>2. HeldBy(j, s)
      BY <1>1, <2>3, <2>4, <3>1 DEF HeldText
    <3>3. job'[j].held.stage = "finish" /\ job'[j].held.text = job[j].held.text /\ job'[j].held.docs = job[j].held.docs
      BY <2>7, Advances DEF Shape
    <3>. QED
      BY <1>3, <2>3, <3>1, <3>2, <3>3 DEF HeldBy, There
  <2>. QED
    BY <2>2, <2>5, <2>6, <2>7
<1>. QED
  BY <1>2, <1>3

-----------------------------------------------------------------------------
(* Nothing is found that is not linked.                                    *)

Done(j, u) == u \in First(j) /\ job[j].held.stage = "finish"

\* A failing call has left f in k as it was.
Blamed(k, f) == <<k, f>> \in unfinished /\ faults > 0

\* What is stored is linked, or will be.
HomedCall(j, t) ==
    IsLinked(t) \/ \E u \in Todo(j) : u.do \in Linking /\ Same(u, t) /\ Leads(t, u)
Homed ==
    \A j \in Job : \A t \in Todo(j) : t.do = "store" /\ t.kb # Nothing /\ Alone(t.file) => HomedCall(j, t)

\* Until then there is nothing.
Bare ==
    \A j \in Job : \A t \in Todo(j) : t.do \in Linking /\ Alone(t.file) /\ ~IsLinked(t) /\ ~Blamed(t.kb, t.file) =>
        \A u \in Todo(j) : u.do = "store" /\ Same(u, t) /\ Leads(u, t) /\ ~Done(j, u) => Chunks(t.kb, t.file) = {}

\* A base is emptied before its links go.
EmptiedCall(j, t) ==
    \/ \E w \in Todo(j) : w.do = "wipe" /\ Before(w, t)
    \/ \A v \in vectors : v.kb = t.kb /\ Alone(v.file) => Blamed(v.kb, v.file)
Emptied == \A j \in Job : \A t \in Todo(j) : t.do = "unlinkAll" => EmptiedCall(j, t)

\* A deletion unlinks a file from every base first.
LastLinksCall(j, t) ==
    \A k \in Linked(t.file) : Blamed(k, t.file) \/ \E u \in Todo(j) : u.do = "unlink" /\ u.kb = k /\ u.file = t.file
LastLinks == \A j \in Job : \A t \in Todo(j) : t.do = "dropRow" /\ t.kb = Nothing /\ Alone(t.file) => LastLinksCall(j, t)

\* A chunk whose file is not linked is about to be dropped or linked.
Pending(v) == \E j \in Job : \E t \in Todo(j) : t.do \in Linking \cup {"drop"} /\ Same(v, t)
Strays ==
    \A v \in vectors : Alone(v.file) /\ ~Blamed(v.kb, v.file) =>
        <<v.kb, v.file>> \in links \cup stranded \/ Pending(v)

\* Calls race nobody, and take no blame back.
LEMMA Lasting ==
    ASSUME Shape, NEW j \in Job, NEW s \in First(j), Act(j, s) \/ Raise(j, s)
    PROVE  /\ \A f : Alone(f)' <=> Alone(f)
           /\ \A k, f : Blamed(k, f) => Blamed(k, f)'
<1>1. faults \in Nat /\ faults' \in Nat /\ faults' >= faults /\ unfinished \subseteq unfinished'
  BY Grows
<1>2. \A f : Alone(f)' <=> Alone(f)
  BY Monotone DEF Alone
<1>3. ASSUME NEW k, NEW f, Blamed(k, f) PROVE Blamed(k, f)'
  BY <1>1, <1>3 DEF Blamed
<1>. QED
  BY <1>2, <1>3

\* Homed is kept by calls.
LEMMA HomedStep ==
    ASSUME Shape, NewFirst, Homed, NEW j \in Job, NEW s \in First(j), Act(j, s) \/ Raise(j, s)
    PROVE  Homed'
<1>. SUFFICES ASSUME NEW i \in Job, NEW t \in Todo(i)', t.do = "store", t.kb # Nothing, Alone(t.file)'
              PROVE  HomedCall(i, t)'
  BY DEF Homed
<1>1. Alone(t.file)
  BY Lasting
<1>2. s \in Todo(j) /\ \A x \in Todo(j) : CallOK(x) /\ ~Before(x, s)
  BY Firsts DEF Shape
<1>3. CASE i # j
  <2>1. t \in Todo(i) /\ Todo(i)' = Todo(i)
    BY <1>3, Later DEF Shape
  <2>2. t.file \in File
    BY <2>1 DEF Shape, Typed, CallOK
  <2>3. <<t.kb, t.file>> \in links' <=> <<t.kb, t.file>> \in links
    BY <1>1, <1>3, <2>1, <2>2, Elsewhere
  <2>4. HomedCall(i, t)
    BY <1>1, <2>1 DEF Homed
  <2>. QED
    BY <2>1, <2>3, <2>4 DEF HomedCall, IsLinked
<1>4. CASE i = j /\ Spread(j, s)
  <2>1. t.kb \in Linked(s.file) /\ t.file = s.file
    BY <1>4, NewCalls DEF BatchInsert, Spread
  <2>2. links' = links
    BY <1>4 DEF Spread
  <2>. QED
    BY <2>1, <2>2 DEF HomedCall, IsLinked, Linked
<1>5. CASE i = j /\ BatchInsert(j, s)
  BY <1>5, BatchTodo DEF Shape
<1>6. CASE i = j /\ ~Spread(j, s) /\ ~BatchInsert(j, s)
  <2>1. /\ t \in Todo(j) /\ Todo(j)' \subseteq Todo(j)
        /\ \A u \in Todo(j) : t.at[1] = u.at[1] /\ u # s => u \in Todo(j)'
    BY <1>6, Remains
  <2>2. CASE IsLinked(t)
    <3>1. s.do \notin {"unlink", "unlinkAll", "dropRow"}
      BY <1>2, <2>1, Kind DEF Kinds
    <3>2. links \subseteq links'
      <4>1. CASE Act(j, s)
        BY <3>1, <4>1, LinksEffect DEF Shape, Unlink, UnlinkAll, DropRow, Returns
      <4>2. CASE Raise(j, s)
        BY <4>2, RaiseEffect DEF Shape
      <4>. QED
        BY <4>1, <4>2
    <3>. QED
      BY <1>6, <2>2, <3>2 DEF HomedCall, IsLinked
  <2>3. CASE \E u \in Todo(j) : u.do \in Linking /\ Same(u, t) /\ Leads(t, u)
    <3>1. PICK u \in Todo(j) : u.do \in Linking /\ Same(u, t) /\ Leads(t, u)
      BY <2>3
    <3>2. u # s
      BY <1>2, <2>1, <3>1 DEF Leads
    <3>3. u \in Todo(j)'
      BY <2>1, <3>1, <3>2 DEF Leads
    <3>. QED
      BY <1>6, <3>1, <3>3 DEF HomedCall
  <2>4. HomedCall(j, t)
    BY <1>1, <2>1 DEF Homed
  <2>. QED
    BY <2>2, <2>3, <2>4 DEF HomedCall
<1>. QED
  BY <1>3, <1>4, <1>5, <1>6

\* Bare is kept by calls.
LEMMA BareStep ==
    ASSUME Shape, NewFirst, Bare, NEW j \in Job, NEW s \in First(j), Act(j, s) \/ Raise(j, s)
    PROVE  Bare'
<1>. SUFFICES ASSUME NEW i \in Job, NEW t \in Todo(i)', t.do \in Linking, Alone(t.file)', ~IsLinked(t)', ~Blamed(t.kb, t.file)',
                     NEW u \in Todo(i)', u.do = "store", Same(u, t), Leads(u, t), ~Done(i, u)'
              PROVE  \A v \in vectors' : v.kb = t.kb => v.file # t.file
  BY DEF Bare, Chunks
<1>1. Alone(t.file) /\ ~Blamed(t.kb, t.file) /\ <<t.kb, t.file>> \notin links'
  BY Lasting DEF IsLinked
<1>2. s \in Todo(j) /\ \A x \in Todo(j) : CallOK(x) /\ ~Before(x, s)
  BY Firsts DEF Shape
<1>3. t.kb \in Kb /\ t.file \in File
  <2>1. Typed'
    BY TypedStep DEF Shape, Step, Fails, Loses, Act, Raise, Lost, Undeleted
  <2>2. CallOK(t)'
    BY <2>1 DEF Typed
  <2>. QED
    BY <2>2 DEF CallOK, Linking
<1>4. ASSUME t \in Todo(i), u \in Todo(i), ~Done(i, u), <<t.kb, t.file>> \notin links
      PROVE  \A v \in vectors : v.kb = t.kb => v.file # t.file
  BY <1>1, <1>4 DEF Bare, Chunks, IsLinked
<1>5. CASE i # j
  <2>1. t \in Todo(i) /\ u \in Todo(i) /\ First(i)' = First(i) /\ job'[i] = job[i]
    BY <1>5, Later DEF Shape
  <2>2. ~Done(i, u)
    BY <2>1 DEF Done
  <2>3. /\ <<t.kb, t.file>> \notin links
        /\ \A v : v.file = t.file /\ v \in vectors' => v \in vectors
    BY <1>1, <1>3, <1>5, <2>1, Elsewhere
  <2>. QED
    BY <1>4, <2>1, <2>2, <2>3
<1>6. CASE i = j
  <2>1. ~Spread(j, s) /\ ~BatchInsert(j, s)
    BY <1>6, NewCalls DEF Linking, BatchInsert, Spread
  <2>2. t \in Todo(j) /\ u \in Todo(j)
    BY <1>6, <2>1, Remains
  <2>3. s.do \notin {"unlink", "unlinkAll", "dropRow", "spread"}
    BY <1>2, <2>2, Kind DEF Kinds, Linking
  <2>4. CASE Raise(j, s)
    <3>1. vectors' = vectors /\ links' = links /\ Todo(j)' \subseteq Todo(j) \ {s}
      BY <2>4, RaiseEffect DEF Shape
    <3>2. u # s
      BY <1>6, <3>1
    <3>3. ~Done(j, u)
      BY <3>2, Unique DEF Done, Shape
    <3>. QED
      BY <1>1, <1>4, <1>6, <2>2, <3>1, <3>3
  <2>5. CASE Act(j, s)
    <3>1. <<t.kb, t.file>> \notin links
      BY <1>1, <2>3, <2>5, LinksEffect DEF Shape, Unlink, UnlinkAll, DropRow, Returns
    <3>2. ~Done(j, u)
      <4>. SUFFICES ASSUME Done(j, u) PROVE FALSE
        OBVIOUS
      <4>1. u = s /\ job[j].held.stage = "finish"
        BY Unique DEF Done, Shape
      <4>2. Finish(j, s)
        BY <2>5, <4>1, Doings DEF Load, Check, Insert, Storing
      <4>3. Todo(j)' = Todo(j) \ {s}
        BY <2>5, <4>1, <4>2, Progress DEF Shape, Spread, BatchInsert
      <4>. QED
        BY <1>6, <4>1, <4>3
    <3>3. \A v \in vectors : v.kb = t.kb => v.file # t.file
      BY <1>4, <1>6, <2>2, <3>1, <3>2
    <3>4. ASSUME NEW v \in vectors', v \notin vectors, v.kb = t.kb, v.file = t.file PROVE FALSE
      <4>1. Insert(j, s) /\ s.kb = t.kb
        BY <2>1, <2>5, <3>4, ChunksEffect DEF Shape
      <4>2. s.do = "store" /\ ~Check(j, s)
        BY <4>1 DEF Insert, Check, Storing
      <4>3. u = s
        BY <1>2, <1>3, <2>2, <4>1, <4>2, NothingAssumption DEF Shape, Planned, Plan, Same
      <4>4. job'[j].held.stage = "finish"
        BY <4>1, <4>2, Advances DEF Shape
      <4>5. First(j)' = First(j)
        BY <4>4, Later DEF Shape, Free
      <4>. QED
        BY <1>6, <4>3, <4>4, <4>5 DEF Done
    <3>. QED
      BY <3>3, <3>4
  <2>. QED
    BY <2>4, <2>5
<1>. QED
  BY <1>5, <1>6

\* Emptied is kept by calls.
LEMMA EmptiedStep ==
    ASSUME Shape, NewFirst, Emptied, NEW j \in Job, NEW s \in First(j), Act(j, s) \/ Raise(j, s)
    PROVE  Emptied'
<1>. SUFFICES ASSUME NEW i \in Job, NEW t \in Todo(i)', t.do = "unlinkAll" PROVE EmptiedCall(i, t)'
  BY DEF Emptied
<1>1. s \in Todo(j) /\ \A x \in Todo(j) : CallOK(x) /\ ~Before(x, s)
  BY Firsts DEF Shape
<1>2. CASE i # j
  <2>1. t \in Todo(i) /\ Todo(i)' = Todo(i)
    BY <1>2, Later DEF Shape
  <2>2. t.file = Nothing
    BY <2>1 DEF Shape, Typed, CallOK
  <2>3. CASE \A v \in vectors : v.kb = t.kb /\ Alone(v.file) => Blamed(v.kb, v.file)
    <3>1. ASSUME NEW v \in vectors', v.kb = t.kb, Alone(v.file) PROVE Blamed(v.kb, v.file)'
      <4>1. v.file \in File
        BY TypedStep DEF Shape, Typed, Step, Fails, Loses, Act, Raise, Lost, Undeleted
      <4>2. v \in vectors
        BY <1>2, <2>1, <2>2, <3>1, <4>1, Elsewhere
      <4>. QED
        BY <2>3, <3>1, <4>2, Lasting
    <3>. QED
      BY <3>1, Lasting DEF EmptiedCall
  <2>4. EmptiedCall(i, t)
    BY <2>1 DEF Emptied
  <2>. QED
    BY <2>1, <2>3, <2>4 DEF EmptiedCall
<1>3. CASE i = j
  <2>1. ~Spread(j, s) /\ ~BatchInsert(j, s) /\ t \in Todo(j)
    BY <1>3, NewCalls
  <2>2. s.do \in {"wipe", "unlinkAll"}
    BY <1>1, <2>1, Kind DEF Kinds
  <2>3. s.do = "wipe" => s.file = Nothing /\ s.kb = t.kb
    BY <1>1, <2>1 DEF CallOK, Shape, Planned, Plan
  <2>4. CASE Raise(j, s)
    <3>1. /\ vectors' = vectors /\ s.do = "wipe"
      BY <2>2, <2>4, RaiseEffect, Raising DEF Shape
    <3>2. \A v \in vectors : v.kb = s.kb => Blamed(v.kb, v.file)'
      BY <2>3, <2>4, <3>1, Raising DEF Shape, Blamed
    <3>. QED
      BY <2>3, <3>1, <3>2 DEF EmptiedCall
  <2>5. CASE Act(j, s)
    <3>1. \A w \in Todo(j) : w # s => w \in Todo(j)'
      BY <2>1, <2>5, Remains
    <3>2. CASE \E w \in Todo(j) : w.do = "wipe" /\ Before(w, t) /\ w # s
      BY <1>3, <3>1, <3>2 DEF EmptiedCall
    <3>3. CASE s.do = "wipe"
      <4>1. Wipe(j, s)
        BY <2>5, <3>3, Doings
      <4>2. \A v \in vectors' : v.kb # t.kb
        BY <2>3, <2>5, <3>3, <4>1, ChunksEffect DEF Shape
      <4>. QED
        BY <4>2 DEF EmptiedCall
    <3>4. CASE s.do = "unlinkAll" /\ \A v \in vectors : v.kb = t.kb /\ Alone(v.file) => Blamed(v.kb, v.file)
      <4>1. vectors' = vectors
        BY <2>5, <3>4, Doings, Losing DEF UnlinkAll, Shape
      <4>. QED
        BY <3>4, <4>1, Lasting DEF EmptiedCall
    <3>. QED
      BY <2>1, <2>2, <3>2, <3>3, <3>4 DEF Emptied, EmptiedCall
  <2>. QED
    BY <2>4, <2>5
<1>. QED
  BY <1>2, <1>3

\* LastLinks is kept by calls.
LEMMA LastLinksStep ==
    ASSUME Shape, NewFirst, LastLinks, NEW j \in Job, NEW s \in First(j), Act(j, s) \/ Raise(j, s)
    PROVE  LastLinks'
<1>. SUFFICES ASSUME NEW i \in Job, NEW t \in Todo(i)', t.do = "dropRow", t.kb = Nothing, Alone(t.file)',
                     NEW k \in Kb, <<k, t.file>> \in links', ~Blamed(k, t.file)'
              PROVE  \E u \in Todo(i)' : u.do = "unlink" /\ u.kb = k /\ u.file = t.file
  BY DEF LastLinks, LastLinksCall, Linked
<1>1. Alone(t.file) /\ ~Blamed(k, t.file)
  BY Lasting
<1>2. s \in Todo(j) /\ \A x \in Todo(j) : CallOK(x) /\ ~Before(x, s)
  BY Firsts DEF Shape
<1>3. ASSUME t \in Todo(i), <<k, t.file>> \in links
      PROVE  \E u \in Todo(i) : u.do = "unlink" /\ u.kb = k /\ u.file = t.file
  BY <1>1, <1>3 DEF LastLinks, LastLinksCall, Linked
<1>4. CASE i # j
  <2>1. t \in Todo(i) /\ Todo(i)' = Todo(i)
    BY <1>4, Later DEF Shape
  <2>2. t.file \in File
    BY <2>1 DEF Shape, Typed, CallOK
  <2>3. <<k, t.file>> \in links
    BY <1>1, <1>4, <2>1, <2>2, Elsewhere
  <2>. QED
    BY <1>3, <2>1, <2>3
<1>5. CASE i = j
  <2>1. ~Spread(j, s) /\ ~BatchInsert(j, s) /\ t \in Todo(j)
    BY <1>5, NewCalls
  <2>2. s.do \notin Linking \cup {"store"}
    BY <1>2, <2>1, Kind DEF Kinds, Linking
  <2>3. <<k, t.file>> \in links
    <3>1. CASE Act(j, s)
      BY <2>2, <3>1, LinksEffect, Doings DEF Shape
    <3>2. CASE Raise(j, s)
      BY <3>2, RaiseEffect DEF Shape
    <3>. QED
      BY <3>1, <3>2
  <2>4. PICK u \in Todo(j) : u.do = "unlink" /\ u.kb = k /\ u.file = t.file
    BY <1>3, <1>5, <2>1, <2>3
  <2>5. CASE Act(j, s)
    <3>1. u # s
      <4>. SUFFICES ASSUME u = s PROVE FALSE
        OBVIOUS
      <4>1. ~Lost(j, s)
        BY <1>2, <2>4, NothingAssumption, Losing DEF Shape, CallOK, Blamed
      <4>2. Unlink(j, s)
        BY <2>4, <2>5, <4>1, Doings
      <4>. QED
        BY <2>4, <2>5, <4>2, LinksEffect DEF Shape
    <3>. QED
      BY <1>5, <2>1, <2>4, <2>5, <3>1, Remains
  <2>6. CASE Raise(j, s)
    <3>1. s.do # "unlink"
      BY <2>2, <2>6, Raising DEF Shape
    <3>2. u.at[1] # s.skips
      <4>. SUFFICES ASSUME u.at[1] = s.skips PROVE FALSE
        OBVIOUS
      <4>1. u.at[1] = s.at[1]
        BY <1>2, <2>4 DEF CallOK
      <4>2. Before(u, s)
        BY <1>2, <2>4, <3>1, <4>1 DEF Shape, Planned, Plan
      <4>. QED
        BY <1>2, <2>4, <4>2
    <3>3. u \in Todo(j)'
      BY <2>4, <2>6, <3>1, <3>2, RaiseEffect DEF Shape
    <3>. QED
      BY <1>5, <2>4, <3>3
  <2>. QED
    BY <2>5, <2>6
<1>. QED
  BY <1>4, <1>5

\* Strays is kept by calls.
LEMMA StraysStep ==
    ASSUME Shape, NewFirst, Paired, Ready, Homed, Bare, Emptied, LastLinks, Strays,
           NEW j \in Job, NEW s \in First(j), Act(j, s) \/ Raise(j, s)
    PROVE  Strays'
<1>. SUFFICES ASSUME NEW v \in vectors', Alone(v.file)', ~Blamed(v.kb, v.file)'
              PROVE  <<v.kb, v.file>> \in links' \cup stranded' \/ Pending(v)'
  BY DEF Strays
<1>1. Alone(v.file) /\ ~Blamed(v.kb, v.file)
  BY Lasting
<1>2. s \in Todo(j) /\ CallOK(s) /\ \A x \in Todo(j) : ~Before(x, s)
  BY Firsts DEF Shape
<1>3. ASSUME NEW t \in Todo(j)', t.do \in Linking \cup {"drop"}, Same(v, t) PROVE Pending(v)'
  BY <1>3 DEF Pending
<1>4. CASE v \notin vectors
  <2>1. Act(j, s)
    BY <1>4, RaiseEffect DEF Shape
  <2>2. CASE Insert(j, s)
    <3>1. s.do = "store" /\ s.kb \in Kb /\ v.kb = s.kb /\ v.file = s.file
      BY <1>4, <2>1, <2>2, ChunksEffect DEF Shape, BatchInsert, Insert, Storing
    <3>2. HomedCall(j, s)
      BY <1>1, <1>2, <3>1, NothingAssumption DEF Homed
    <3>3. links' = links /\ ~Spread(j, s) /\ ~BatchInsert(j, s)
      BY <2>2, <3>1 DEF Insert, Spread, BatchInsert
    <3>4. \A u \in Todo(j) : u # s => u \in Todo(j)'
      BY <2>1, <3>3, Remains
    <3>. QED
      BY <1>2, <1>3, <3>1, <3>2, <3>3, <3>4 DEF HomedCall, IsLinked, Leads, Same
  <2>3. CASE BatchInsert(j, s)
    <3>0. ~Insert(j, s)
      BY <2>3 DEF BatchInsert, Insert, Storing
    <3>1. v.kb = s.kb /\ v.file \in DOMAIN s.text
      BY <1>4, <2>1, <2>3, <3>0, ChunksEffect DEF Shape
    <3>2. \E t \in Todo(j)' : t.do = "link" /\ t.kb = s.kb /\ t.file = v.file
      BY <2>3, <3>1, Batched DEF Shape
    <3>. QED
      BY <1>3, <3>1, <3>2 DEF Linking, Same
  <2>. QED
    BY <1>4, <2>1, <2>2, <2>3, ChunksEffect DEF Shape
<1>5. CASE v \in vectors /\ <<v.kb, v.file>> \in stranded
  <2>1. stranded \subseteq stranded'
    BY Changes, RaiseEffect DEF Shape, DropRow
  <2>. QED
    BY <1>5, <2>1
<1>6. CASE v \in vectors /\ <<v.kb, v.file>> \in links /\ <<v.kb, v.file>> \notin links'
  <2>1. Act(j, s)
    BY <1>6, RaiseEffect DEF Shape
  <2>2. CASE Unlink(j, s) /\ <<v.kb, v.file>> = <<s.kb, s.file>>
    <3>1. s.do = "unlink"
      BY <2>2 DEF Unlink, Returns
    <3>2. PICK u \in Todo(j) : u.do = "drop" /\ Same(u, s)
      BY <1>2, <3>1 DEF Paired, Pairs
    <3>3. u \in Todo(j)'
      BY <2>1, <3>1, <3>2, Remains DEF Spread, BatchInsert
    <3>. QED
      BY <1>3, <2>2, <3>2, <3>3 DEF Same
  <2>3. CASE UnlinkAll(j, s) /\ v.kb = s.kb
    <3>1. s.do = "unlinkAll"
      BY <2>3 DEF UnlinkAll, Returns
    <3>2. EmptiedCall(j, s)
      BY <1>2, <3>1 DEF Emptied
    <3>. QED
      BY <1>1, <1>2, <1>6, <2>3, <3>2 DEF EmptiedCall
  <2>4. CASE DropRow(j, s) /\ v.file = s.file
    <3>1. s.do = "dropRow"
      BY <2>4 DEF DropRow, Returns
    <3>0. s.kb # Nothing => <<v.kb, v.file>> \in stranded'
      <4>1. stranded' = IF s.kb # Nothing THEN stranded \cup {l \in links : l[2] = s.file} ELSE stranded
        BY <2>4 DEF DropRow
      <4>. QED
        BY <1>6, <2>4, <4>1
    <3>2. CASE s.kb = Nothing
      <4>3. LastLinksCall(j, s)
        BY <1>1, <1>2, <2>4, <3>1, <3>2 DEF LastLinks
      <4>4. v.kb \in Linked(s.file)
        BY <1>6, <2>4 DEF Linked, Shape, Typed
      <4>5. PICK u \in Todo(j) : u.do = "unlink"
        BY <1>1, <2>4, <4>3, <4>4 DEF LastLinksCall
      <4>6. Before(u, s)
        BY <1>2, <3>1, <4>5 DEF Shape, Planned, Plan
      <4>. QED
        BY <1>2, <4>5, <4>6
    <3>. QED
      BY <3>0, <3>2
  <2>5. \/ Unlink(j, s) /\ <<v.kb, v.file>> = <<s.kb, s.file>>
        \/ UnlinkAll(j, s) /\ v.kb = s.kb
        \/ DropRow(j, s) /\ v.file = s.file
    <3>1. PICK l : l = <<v.kb, v.file>>
      OBVIOUS
    <3>2. /\ l \in links /\ l \notin links'
          /\ l[1] = v.kb /\ l[2] = v.file
      BY <1>6, <3>1
    <3>3. \/ Unlink(j, s) /\ l = <<s.kb, s.file>>
          \/ UnlinkAll(j, s) /\ l[1] = s.kb
          \/ DropRow(j, s) /\ l[2] = s.file
      BY <2>1, <3>2, LinksEffect DEF Shape
    <3>. QED
      BY <3>1, <3>2, <3>3
  <2>. QED
    BY <2>2, <2>3, <2>4, <2>5
<1>7. CASE v \in vectors /\ Pending(v)
  <2>0. PICK i \in Job : \E t \in Todo(i) : t.do \in Linking \cup {"drop"} /\ Same(v, t)
    BY <1>7 DEF Pending
  <2>1. PICK t \in Todo(i) : t.do \in Linking \cup {"drop"} /\ Same(v, t)
    BY <2>0
  <2>2. CASE t \in Todo(i)'
    BY <2>1, <2>2 DEF Pending
  <2>3. CASE t \notin Todo(i)'
    <3>1. i = j
      BY <2>1, <2>3, Later DEF Shape
    <3>2. s.do \notin {"spread", "batch"}
      BY <1>2, <2>1, <3>1, Kind DEF Kinds, Linking
    <3>3. CASE Act(j, s)
      <4>1. t = s
        BY <2>1, <2>3, <3>1, <3>2, <3>3, Remains DEF Spread, BatchInsert
      <4>2. CASE s.do \in Linking
        <5>0. ~Lost(j, s)
          BY <1>1, <1>2, <2>1, <4>1, <4>2, Losing DEF Shape, CallOK, Blamed, Same, Linking
        <5>1. Link(j, s)
          BY <3>3, <4>2, <5>0, Doings
        <5>2. There(s.file)
          BY <1>1, <1>2, <2>1, <4>1, <4>2 DEF Ready, ReadyCall, Same
        <5>. QED
          BY <2>1, <3>3, <4>1, <5>1, <5>2, LinksEffect DEF Shape, Same
      <4>3. CASE s.do = "drop"
        <5>1. Drop(j, s)
          BY <3>3, <4>3, Doings
        <5>2. Chunks(s.kb, s.file)' = {}
          BY <3>3, <5>1, ChunksEffect DEF Shape
        <5>. QED
          BY <2>1, <4>1, <5>2 DEF Chunks, Same
      <4>. QED
        BY <2>1, <4>1, <4>2, <4>3
    <3>4. CASE Raise(j, s)
      <4>1. CASE faults' > 0 /\ \A x \in Todo(j) : <<x.kb, x.file>> \in unfinished'
        BY <2>1, <3>1, <4>1 DEF Blamed, Same
      <4>2. CASE s.do = "store" /\ job[j].held.stage # "finish"
        <5>1. t.do \in Linking
          BY <1>2, <2>1, <3>1, <4>2, Kind DEF Kinds
        <5>2. PICK u \in Todo(j) : u.do = "store" /\ Same(u, t) /\ Leads(u, t)
          BY <1>2, <2>1, <3>1, <4>2, <5>1 DEF Paired, Pairs
        <5>3. ~Done(j, u)
          BY <4>2 DEF Done
        <5>4. IsLinked(t)
          BY <1>1, <1>7, <2>1, <3>1, <5>1, <5>2, <5>3 DEF Bare, Chunks, Same
        <5>. QED
          BY <2>1, <3>4, <5>4, RaiseEffect DEF Shape, IsLinked, Same
      <4>3. CASE s.do = "store" /\ job[j].held.stage = "finish"
        <5>1. t.do \in Linking
          BY <1>2, <2>1, <3>1, <4>3, Kind DEF Kinds
        <5>2. PICK u \in Todo(j) : u.do = "store" /\ Same(u, t) /\ Leads(u, t)
          BY <1>2, <2>1, <3>1, <4>3, <5>1 DEF Paired, Pairs
        <5>3. t.at[1] = s.skips
          BY <1>2, <2>1, <2>3, <3>1, <3>4, <4>3, <5>1, RaiseEffect DEF Shape, Linking
        <5>4. <<u.kb, u.file>> \in unfinished' /\ faults' > 0
          BY <3>4, <4>3, <5>2, <5>3, Raising DEF Shape, Leads
        <5>. QED
          BY <1>1, <2>1, <5>2, <5>4 DEF Blamed, Same
      <4>4. s.do # "dropRow"
        <5>. SUFFICES ASSUME s.do = "dropRow" PROVE FALSE
          OBVIOUS
        <5>1. t.do = "drop" /\ t # s
          BY <1>2, <2>1, <3>1, Kind DEF Kinds, Linking
        <5>. QED
          BY <1>2, <2>1, <3>1, <5>1 DEF Shape, Planned, Plan
      <4>. QED
        BY <3>4, <4>1, <4>2, <4>3, <4>4, Raising DEF Shape
    <3>. QED
      BY <3>3, <3>4
  <2>. QED
    BY <2>2, <2>3
<1>. QED
  BY <1>1, <1>4, <1>5, <1>6, <1>7 DEF Strays

-----------------------------------------------------------------------------
(* What is linked is found.                                                *)

Spared(k, f) == <<k, f>> \notin unfinished \cup spilled

\* A base is emptied for its links to go, or to be filled again.
RefillCall(j, w) ==
    \/ \E t \in Todo(j) : t.do = "unlinkAll" /\ t.kb = w.kb /\ Before(w, t)
    \/ \A f \in File : Alone(f) /\ <<w.kb, f>> \in links =>
          \E t \in Todo(j) : t.do = "store" /\ t.kb = w.kb /\ t.file = f /\ w.at[1] = t.at[1] /\ Before(w, t)
Refill == \A j \in Job : \A w \in Todo(j) : w.do = "wipe" => RefillCall(j, w)

\* A link whose chunks were deleted is about to go, or they to be stored anew.
Awaited(j, k, f) ==
    \E t \in Todo(j) : t.kb = k /\ (t.do = "unlinkAll" \/ (t.do = "store" /\ t.file = f /\ ~Done(j, t)))
Filled ==
    \A l \in links \cap wiped : Alone(l[2]) /\ Spared(l[1], l[2]) =>
        (\E v \in vectors : l = <<v.kb, v.file>>) \/ \E j \in Job : Awaited(j, l[1], l[2])

\* Refill is kept by calls.
LEMMA RefillStep ==
    ASSUME Shape, NewFirst, Refill, NEW j \in Job, NEW s \in First(j), Act(j, s) \/ Raise(j, s)
    PROVE  Refill'
<1>. SUFFICES ASSUME NEW i \in Job, NEW w \in Todo(i)', w.do = "wipe" PROVE RefillCall(i, w)'
  BY DEF Refill
<1>1. s \in Todo(j) /\ CallOK(s) /\ \A x \in Todo(j) : CallOK(x) /\ ~Before(x, s)
  BY Firsts DEF Shape
<1>2. \A f : Alone(f)' <=> Alone(f)
  BY Lasting
<1>3. CASE i # j
  <2>1. w \in Todo(i) /\ Todo(i)' = Todo(i)
    BY <1>3, Later DEF Shape
  <2>2. w.file = Nothing
    BY <2>1 DEF Shape, Typed, CallOK
  <2>3. \A f \in File : Alone(f) => (<<w.kb, f>> \in links' <=> <<w.kb, f>> \in links)
    BY <1>3, <2>1, <2>2, Elsewhere
  <2>4. RefillCall(i, w)
    BY <2>1 DEF Refill
  <2>. QED
    BY <1>2, <2>1, <2>3, <2>4 DEF RefillCall
<1>4. CASE i = j
  <2>1. ~Spread(j, s) /\ ~BatchInsert(j, s) /\ w \in Todo(j)
    BY <1>4, NewCalls
  <2>2. RefillCall(j, w)
    BY <2>1 DEF Refill
  <2>3. /\ \A t \in Todo(j) : t.at[1] = w.at[1] /\ t # s => t \in Todo(j)'
        /\ Act(j, s) => Todo(j) \ {s} \subseteq Todo(j)'
    BY <1>4, <2>1, Remains
  <2>4. CASE \E t \in Todo(j) : t.do = "unlinkAll" /\ t.kb = w.kb /\ Before(w, t)
    <3>1. PICK t \in Todo(j) : t.do = "unlinkAll" /\ t.kb = w.kb /\ Before(w, t)
      BY <2>4
    <3>2. t # s
      BY <1>1, <2>1, <3>1
    <3>3. t \in Todo(j)'
      <4>1. CASE Raise(j, s)
        <5>1. t.at[1] # s.at[1]
          BY <1>1, <3>1, <3>2 DEF Shape, Planned, Plan
        <5>2. t.at[1] # s.skips
          BY <1>1, <3>1, <5>1 DEF CallOK
        <5>. QED
          BY <3>1, <3>2, <4>1, <5>2, RaiseEffect DEF Shape
      <4>. QED
        BY <2>3, <3>1, <3>2, <4>1
    <3>. QED
      BY <1>4, <3>1, <3>3 DEF RefillCall
  <2>5. CASE \A f \in File : Alone(f) /\ <<w.kb, f>> \in links =>
                \E t \in Todo(j) : t.do = "store" /\ t.kb = w.kb /\ t.file = f /\ w.at[1] = t.at[1] /\ Before(w, t)
    <3>1. s.do \notin Linking
      BY <1>1, <2>1, Kind DEF Kinds, Linking
    <3>2. \A l : l \in links' => l \in links
      <4>1. CASE Raise(j, s)
        BY <4>1, RaiseEffect DEF Shape
      <4>2. CASE Act(j, s)
        <5>1. ~Link(j, s)
          BY <3>1, <4>2, Doings
        <5>. QED
          BY <4>2, <5>1, LinksEffect DEF Shape
      <4>. QED
        BY <4>1, <4>2
    <3>3. ASSUME NEW f \in File, Alone(f), <<w.kb, f>> \in links'
          PROVE  \E t \in Todo(j)' : t.do = "store" /\ t.kb = w.kb /\ t.file = f /\ w.at[1] = t.at[1] /\ Before(w, t)
      <4>1. PICK t \in Todo(j) : t.do = "store" /\ t.kb = w.kb /\ t.file = f /\ w.at[1] = t.at[1] /\ Before(w, t)
        BY <2>5, <3>2, <3>3
      <4>2. t # s
        BY <1>1, <2>1, <4>1
      <4>. QED
        BY <2>3, <4>1, <4>2
    <3>. QED
      BY <1>2, <1>4, <3>3 DEF RefillCall
  <2>. QED
    BY <2>2, <2>4, <2>5 DEF RefillCall
<1>. QED
  BY <1>3, <1>4

\* Filled is kept by calls.
LEMMA FilledStep ==
    ASSUME Shape, NewFirst, UnlinkFirst, StoreFirst, Searchable, Paired, Refill, Filled,
           NEW j \in Job, NEW s \in First(j), Act(j, s) \/ Raise(j, s)
    PROVE  Filled'
<1>. SUFFICES ASSUME NEW l \in links', l \in wiped', Alone(l[2])', Spared(l[1], l[2])',
                     ~\E v \in vectors' : l = <<v.kb, v.file>>
              PROVE  \E i \in Job : Awaited(i, l[1], l[2])'
  BY DEF Filled
<1>1. /\ Alone(l[2]) /\ Spared(l[1], l[2]) /\ l \notin spilled' /\ l \notin spilled
      /\ l = <<l[1], l[2]>> /\ l[1] \in Kb /\ l[2] \in File
  <2>1. Typed'
    BY TypedStep DEF Shape, Step, Fails, Loses, Act, Raise, Lost, Undeleted
  <2>2. l = <<l[1], l[2]>> /\ l[1] \in Kb /\ l[2] \in File
    BY <2>1 DEF Typed
  <2>3. Alone(l[2]) /\ unfinished \subseteq unfinished' /\ spilled \subseteq spilled'
    BY Lasting, Monotone, Grows
  <2>. QED
    BY <2>2, <2>3 DEF Spared
<1>2. s \in Todo(j) /\ CallOK(s) /\ \A x \in Todo(j) : CallOK(x) /\ ~Before(x, s)
  BY Firsts DEF Shape
<1>3. l \in links
  <2>. SUFFICES ASSUME l \notin links PROVE FALSE
    OBVIOUS
  <2>1. Act(j, s)
    BY RaiseEffect DEF Shape
  <2>2. Link(j, s) /\ l = <<s.kb, s.file>>
    BY <2>1, LinksEffect DEF Shape
  <2>3. s.do \in Linking /\ vectors' = vectors
    BY <2>2 DEF Link, Returns, Linking
  <2>4. Chunks(s.kb, s.file) # {}
    BY <1>1, <1>2, <2>2, <2>3 DEF StoreFirst, Kept, Leads
  <2>. QED
    BY <2>2, <2>3, <2>4 DEF Chunks
<1>4. (\E v \in vectors : l = <<v.kb, v.file>>) \/ \E i \in Job : Awaited(i, l[1], l[2])
  <2>1. CASE l \in wiped
    BY <1>1, <1>3, <2>1 DEF Filled
  <2>2. CASE l \notin wiped
    <3>1. PICK v \in vectors : v.kb = l[1] /\ v.file = l[2]
      BY <1>1, <1>3, <2>2 DEF Searchable, Chunks
    <3>. QED
      BY <1>1, <3>1
  <2>. QED
    BY <2>1, <2>2
<1>5. CASE \E v \in vectors : l = <<v.kb, v.file>>
  <2>1. PICK v \in vectors : l = <<v.kb, v.file>>
    BY <1>5
  <2>2. v \notin vectors' /\ Act(j, s) /\ v.kb = l[1] /\ v.file = l[2]
    BY <2>1, RaiseEffect DEF Shape
  <2>3. CASE DropOld(j, s)
    <3>1. s.do = "dropOld" /\ vectors' = vectors \ job[j].old
      BY <2>3 DEF DropOld, Returns
    <3>2. v.kb = s.kb /\ v.file = s.file
      BY <2>2, <3>1, Renewal
    <3>3. Chunks(s.kb, s.file) \ job[j].old # {}
      BY <1>1, <2>2, <3>1, <3>2, Renewal DEF Kept
    <3>. QED
      BY <2>1, <3>1, <3>2, <3>3 DEF Chunks
  <2>4. CASE s.do \in {"drop", "dropHash"} /\ v.kb = s.kb /\ v.file = s.file
    <3>1. IsLinked(s) /\ Alone(s.file) /\ <<s.kb, s.file>> \notin unfinished
      BY <1>1, <1>3, <2>1, <2>2, <2>4 DEF IsLinked, Spared
    <3>. QED
      BY <1>2, <2>4, <3>1 DEF UnlinkFirst
  <2>5. CASE Wipe(j, s) /\ v.kb = s.kb /\ (s.file = Nothing \/ v.file = s.file)
    <3>1. s.do \in {"wipe", "wipeFile"} /\ job'[j].held = Free /\ Todo(j) \ {s} \subseteq Todo(j)'
      <4>1. s.do \in {"wipe", "wipeFile"}
        BY <2>2, <2>5, Doings
      <4>. QED
        BY <2>2, <4>1, Progress DEF Shape, Spread, BatchInsert
    <3>2. \A t : ~Done(j, t)'
      BY <3>1 DEF Done, Free
    <3>3. CASE s.do = "wipeFile"
      <4>1. v.file = s.file
        BY <1>2, <2>2, <2>5, <3>3 DEF CallOK
      <4>2. PICK u \in Todo(j) : u.do = "store" /\ Same(u, s) /\ Leads(s, u)
        BY <1>2, <3>3 DEF Paired, Pairs
      <4>3. u \in Todo(j)'
        BY <3>1, <3>3, <4>2
      <4>. QED
        BY <2>2, <2>5, <3>2, <4>1, <4>2, <4>3 DEF Awaited, Same
    <3>4. CASE s.do = "wipe"
      <4>1. RefillCall(j, s)
        BY <1>2, <3>4 DEF Refill
      <4>2. <<s.kb, l[2]>> \in links
        BY <1>1, <1>3, <2>2, <2>5
      <4>3. PICK t \in Todo(j) : t.kb = s.kb /\ (t.do = "unlinkAll" \/ (t.do = "store" /\ t.file = l[2]))
        BY <1>1, <4>1, <4>2 DEF RefillCall
      <4>4. t \in Todo(j)'
        BY <3>1, <3>4, <4>3
      <4>. QED
        BY <2>2, <2>5, <3>2, <4>3, <4>4 DEF Awaited
    <3>. QED
      BY <3>1, <3>3, <3>4
  <2>6. \/ Drop(j, s) /\ v \in Chunks(s.kb, s.file)
        \/ DropHash(j, s) /\ v.kb = s.kb /\ v.file = s.file
        \/ Wipe(j, s) /\ v.kb = s.kb /\ (s.file = Nothing \/ v.file = s.file)
        \/ DropOld(j, s)
    BY <1>1, <2>1, <2>2, ChunksEffect DEF Shape
  <2>7. /\ Drop(j, s) => s.do = "drop"
        /\ DropHash(j, s) => s.do = "dropHash"
        /\ v \in Chunks(s.kb, s.file) => v.kb = s.kb /\ v.file = s.file
    BY DEF Drop, DropHash, Returns, Chunks
  <2>. QED
    BY <2>3, <2>4, <2>5, <2>6, <2>7
<1>6. CASE \E i \in Job : Awaited(i, l[1], l[2])
  <2>1. PICK i \in Job : Awaited(i, l[1], l[2])
    BY <1>6
  <2>2. PICK t \in Todo(i) : t.kb = l[1] /\ (t.do = "unlinkAll" \/ (t.do = "store" /\ t.file = l[2] /\ ~Done(i, t)))
    BY <2>1 DEF Awaited
  <2>3. CASE i # j
    <3>1. Todo(i)' = Todo(i) /\ First(i)' = First(i) /\ job'[i] = job[i]
      BY <2>3, Later DEF Shape
    <3>2. Done(i, t)' <=> Done(i, t)
      BY <3>1 DEF Done
    <3>. QED
      BY <2>2, <3>1, <3>2 DEF Awaited
  <2>4. CASE i = j
    <3>1. t \in Todo(j) /\ CallOK(t)
      BY <1>2, <2>2, <2>4
    <3>2. ~Spread(j, s) /\ ~BatchInsert(j, s)
      <4>1. s.do # "batch"
        BY <1>2, <2>2, <3>1, Kind DEF Kinds
      <4>2. s.do # "spread"
        <5>. SUFFICES ASSUME s.do = "spread" PROVE FALSE
          OBVIOUS
        <5>1. t # s
          BY <2>2
        <5>2. t.kb = s.kb /\ s.kb = Nothing
          BY <1>2, <3>1, <5>1 DEF Shape, Planned, Plan, CallOK
        <5>. QED
          BY <1>1, <2>2, <5>2, NothingAssumption
      <4>. QED
        BY <4>1, <4>2 DEF Spread, BatchInsert
    <3>3. ASSUME t \in Todo(j)', ~Done(j, t)' PROVE Awaited(j, l[1], l[2])'
      BY <2>2, <3>3 DEF Awaited
    <3>4. CASE Raise(j, s)
      <4>1. Todo(j)' = {x \in Todo(j) \ {s} : x.at[1] # s.skips} /\ job'[j].held = Free
        BY <3>4, RaiseEffect DEF Shape
      <4>2. ~Done(j, t)'
        BY <4>1 DEF Done, Free
      <4>0. s.do # "dropRow"
        BY <1>2, <2>2, <3>1, Kind DEF Kinds
      <4>3. CASE t.do = "unlinkAll"
        <5>1. t # s
          BY <3>4, <4>3, Raising DEF Shape
        <5>2. t.at[1] # s.at[1]
          BY <1>2, <3>1, <4>3, <5>1 DEF Shape, Planned, Plan
        <5>3. t.at[1] # s.skips
          BY <1>2, <3>1, <5>2 DEF CallOK
        <5>. QED
          BY <3>1, <3>3, <4>1, <4>2, <5>1, <5>3
      <4>4. CASE t.do = "store" /\ t.file = l[2]
        <5>1. <<t.kb, t.file>> \notin unfinished'
          BY <1>1, <2>2, <4>4 DEF Spared
        <5>2. t # s /\ t.at[1] # s.skips
          BY <3>1, <3>4, <4>0, <4>4, <5>1, Raising DEF Shape
        <5>. QED
          BY <3>1, <3>3, <4>1, <4>2, <5>2
      <4>. QED
        BY <2>2, <4>3, <4>4
    <3>5. CASE Act(j, s)
      <4>1. CASE t.do = "unlinkAll"
        <5>1. t # s
          <6>. SUFFICES ASSUME t = s PROVE FALSE
            OBVIOUS
          <6>0. ~Lost(j, s)
            <7>1. s.file = Nothing
              BY <3>1, <4>1 DEF CallOK
            <7>. QED
              BY <1>1, <2>2, <7>1, Losing DEF Shape, Spared
          <6>1. UnlinkAll(j, s)
            BY <3>5, <4>1, <6>0, Doings
          <6>2. <<s.kb, l[2]>> \notin links'
            BY <1>1, <3>5, <6>1, LinksEffect DEF Shape
          <6>. QED
            BY <1>1, <2>2, <6>2
        <5>2. t \in Todo(j)'
          BY <3>1, <3>2, <3>5, <5>1, Remains
        <5>. QED
          BY <2>2, <4>1, <5>2 DEF Awaited
      <4>2. CASE t.do = "store" /\ t.file = l[2] /\ ~Done(j, t)
        <5>1. t \in Todo(j)'
          <6>. SUFFICES ASSUME t \notin Todo(j)' PROVE FALSE
            OBVIOUS
          <6>1. t = s
            BY <3>1, <3>2, <3>5, Remains
          <6>2. Finish(j, s)
            BY <3>1, <3>2, <3>5, <4>2, <6>1, Progress DEF Shape
          <6>. QED
            BY <4>2, <6>1, <6>2 DEF Done, Finish, Storing
        <5>2. ~Done(j, t)'
          <6>. SUFFICES ASSUME t \in First(j)', job'[j].held.stage = "finish" PROVE FALSE
            BY DEF Done
          <6>1. /\ Load(j, s) \/ Check(j, s) \/ Insert(j, s)
                /\ First(j)' = First(j)
            BY Later DEF Shape, Free
          <6>2. t = s
            BY <6>1, Unique DEF Shape
          <6>3. ~Load(j, s)
            BY Loads DEF Shape
          <6>4. ~Check(j, s)
            BY Advances DEF Shape
          <6>5. Insert(j, s) /\ s.kb \in Kb
            BY <1>1, <2>2, <6>1, <6>2, <6>3, <6>4
          <6>6. \E v \in vectors' : v.kb = s.kb /\ v.file = s.file
            BY <3>5, <6>5, ChunksEffect DEF Shape
          <6>. QED
            BY <1>1, <2>2, <4>2, <6>2, <6>6
        <5>. QED
          BY <3>3, <5>1, <5>2
      <4>. QED
        BY <2>2, <2>4, <4>1, <4>2
    <3>. QED
      BY <2>4, <3>4, <3>5
  <2>. QED
    BY <2>3, <2>4
<1>. QED
  BY <1>4, <1>5, <1>6

-----------------------------------------------------------------------------
(* What is found is current.                                               *)

\* New content is spread once its store is done, unless no base holds the file.
Uploaded ==
    \A j \in Job : \A t \in Todo(j) : t.do = "store" /\ t.kb = Nothing /\ Alone(t.file) =>
        (\E u \in Todo(j) : u.do = "spread" /\ u.file = t.file) \/ \A v \in vectors : v.file # t.file

\* A chunk with an older text is about to be replaced.
Replaces(j, t, v) ==
    /\ t.file = v.file
    /\ t.do = "spread" \/ (t.do = "dropOld" /\ t.kb = v.kb /\ (Live(j, t) => v \in job[j].old))
UpToDate ==
    \A v \in vectors : Alone(v.file) /\ There(v.file) /\ Spared(v.kb, v.file) =>
        v.text = file[v.file].text \/ \E j \in Job : \E t \in Todo(j) : Replaces(j, t, v)

\* Uploaded is kept by calls.
LEMMA UploadedStep ==
    ASSUME Shape, NewFirst, Uploaded, NEW j \in Job, NEW s \in First(j), Act(j, s) \/ Raise(j, s)
    PROVE  Uploaded'
<1>. SUFFICES ASSUME NEW i \in Job, NEW t \in Todo(i)', t.do = "store", t.kb = Nothing, Alone(t.file)'
              PROVE  (\E u \in Todo(i)' : u.do = "spread" /\ u.file = t.file) \/ \A v \in vectors' : v.file # t.file
  BY DEF Uploaded
<1>1. Alone(t.file)
  BY Lasting
<1>2. s \in Todo(j) /\ \A x \in Todo(j) : ~Before(x, s)
  BY Firsts DEF Shape
<1>3. t \in Todo(i)
  BY Later, NewCalls, NothingAssumption DEF Shape, Linked
<1>4. (\E u \in Todo(i) : u.do = "spread" /\ u.file = t.file) \/ \A v \in vectors : v.file # t.file
  BY <1>1, <1>3 DEF Uploaded
<1>5. CASE i # j
  <2>1. Todo(i)' = Todo(i)
    BY <1>5, Later DEF Shape
  <2>2. t.file \in File
    BY <1>3 DEF Shape, Typed, CallOK
  <2>3. \A v : v.file = t.file /\ v \in vectors' => v \in vectors
    BY <1>1, <1>3, <1>5, <2>2, Elsewhere
  <2>. QED
    BY <1>4, <2>1, <2>3
<1>6. CASE i = j
  <2>1. t = s
    BY <1>2, <1>3, <1>6 DEF Shape, Planned, Plan
  <2>2. Act(j, s)
    BY <1>6, <2>1, RaiseEffect DEF Shape
  <2>3. Todo(j)' = Todo(j) /\ (Load(j, s) \/ Check(j, s) \/ Insert(j, s))
    BY <1>6, <2>1, <2>2, Progress DEF Shape, Spread, BatchInsert
  <2>4. vectors' = vectors
    BY <2>1, <2>3 DEF Load, Check, Insert
  <2>. QED
    BY <1>4, <1>6, <2>3, <2>4
<1>. QED
  BY <1>5, <1>6

\* A chunk that is added holds the text of its file's row.
LEMMA NewText ==
    ASSUME Shape, Texts, NEW j \in Job, NEW s \in First(j), Act(j, s) \/ Raise(j, s),
           NEW v \in vectors', v \notin vectors, Alone(v.file)
    PROVE  v.text = file'[v.file].text
<1>1. Act(j, s)
  BY RaiseEffect DEF Shape
<1>2. s \in Todo(j)
  BY Firsts DEF Shape
<1>3. CASE Insert(j, s) /\ s.kb \in Kb /\ v.file = s.file /\ v.text = job[j].held.docs
  <2>1. s.do = "store" /\ job[j].held.stage = "insert" /\ file' = file /\ s.kb # Nothing
    BY <1>3, NothingAssumption DEF Insert, Storing
  <2>2. HeldBy(j, s)
    BY <1>3, <2>1 DEF Texts, HeldText
  <2>. QED
    BY <1>3, <2>1, <2>2 DEF HeldBy
<1>4. CASE BatchInsert(j, s) /\ v.file \in DOMAIN s.text /\ v.text = s.text[v.file]
  <2>1. s.do = "batch" /\ file' = file
    BY <1>4 DEF BatchInsert
  <2>2. ReadyCall(s)
    BY <1>2 DEF Texts, Ready
  <2>. QED
    BY <1>4, <2>1, <2>2 DEF ReadyCall
<1>. QED
  BY <1>1, <1>3, <1>4, ChunksEffect DEF Shape

\* The text of a file's row changes with a spread to come.
LEMMA NewContent ==
    ASSUME Shape, Texts, Uploaded, NEW j \in Job, NEW s \in First(j), Act(j, s) \/ Raise(j, s),
           NEW v \in vectors, Alone(v.file), There(v.file)'
    PROVE  \/ file'[v.file].text = file[v.file].text
           \/ \E t \in Todo(j)' : t.do = "spread" /\ t.file = v.file
<1>1. v.kb \in Kb /\ v.file \in File
  BY DEF Shape, Typed
<1>. SUFFICES ASSUME file'[v.file].text # file[v.file].text
              PROVE  \E t \in Todo(j)' : t.do = "spread" /\ t.file = v.file
  OBVIOUS
<1>2. s.file = v.file /\ s.kb = Nothing /\ (Check(j, s) \/ Duplicate(j, s))
  BY <1>1, TextKept DEF Texts
<1>3. \A w \in vectors : w.kb # s.kb
  BY <1>2, NothingAssumption DEF Shape, Typed
<1>4. Check(j, s)
  BY <1>2, <1>3 DEF Duplicate, Rivals
<1>5. s \in Todo(j) /\ s.do = "store" /\ Todo(j)' = Todo(j)
  BY <1>4, Firsts, Holds DEF Shape, Check, Storing
<1>. QED
  BY <1>2, <1>5 DEF Uploaded

\* UpToDate is kept by calls.
LEMMA UpToDateStep ==
    ASSUME Shape, NewFirst, Texts, Strays, Uploaded, UpToDate,
           NEW j \in Job, NEW s \in First(j), Act(j, s) \/ Raise(j, s)
    PROVE  UpToDate'
<1>. SUFFICES ASSUME NEW v \in vectors', Alone(v.file)', There(v.file)', Spared(v.kb, v.file)',
                     v.text # file'[v.file].text
              PROVE  \E i \in Job : \E t \in Todo(i)' : Replaces(i, t, v)'
  BY DEF UpToDate
<1>1. Alone(v.file) /\ Spared(v.kb, v.file) /\ <<v.kb, v.file>> \notin unfinished'
  <2>1. Alone(v.file) /\ unfinished \subseteq unfinished' /\ spilled \subseteq spilled'
    BY Lasting, Monotone, Grows
  <2>. QED
    BY <2>1 DEF Spared
<1>2. v \in vectors
  BY <1>1, NewText
<1>3. v.kb \in Kb /\ v.file \in File /\ There(v.file)
  <2>1. v.kb \in Kb /\ v.file \in File
    BY <1>2 DEF Shape, Typed
  <2>. QED
    BY <1>1, <2>1, TextKept DEF Texts
<1>4. s \in Todo(j) /\ CallOK(s) /\ \A x \in Todo(j) : CallOK(x) /\ ~Before(x, s)
  BY Firsts DEF Shape
<1>5. CASE file'[v.file].text # file[v.file].text
  <2>1. PICK t \in Todo(j)' : t.do = "spread" /\ t.file = v.file
    BY <1>1, <1>2, <1>5, NewContent
  <2>. QED
    BY <2>1 DEF Replaces
<1>6. CASE file'[v.file].text = file[v.file].text
  <2>0. PICK i \in Job : \E t \in Todo(i) : Replaces(i, t, v)
    BY <1>1, <1>2, <1>3, <1>6 DEF UpToDate
  <2>1. PICK t \in Todo(i) : Replaces(i, t, v)
    BY <2>0
  <2>2. CASE i # j
    <3>1. Todo(i)' = Todo(i) /\ job'[i] = job[i]
      BY <2>2, Later DEF Shape
    <3>2. Live(i, t)' <=> Live(i, t)
      BY <3>1 DEF Live
    <3>3. Replaces(i, t, v)'
      BY <2>1, <3>1, <3>2 DEF Replaces
    <3>. QED
      BY <3>1, <3>3
  <2>3. CASE i = j /\ t.do = "spread" /\ t # s
    <3>1. t.at[1] # s.at[1] /\ s.do \notin {"spread", "batch"}
      <4>1. s.do # "batch"
        BY <1>4, <2>3, Kind DEF Kinds
      <4>. QED
        BY <1>4, <2>3, <4>1 DEF Shape, Planned, Plan
    <3>2. t.at[1] # s.skips
      BY <1>4, <2>3, <3>1 DEF CallOK
    <3>3. t \in Todo(j)'
      <4>1. CASE Act(j, s)
        BY <2>3, <3>1, <4>1, Remains DEF Spread, BatchInsert
      <4>2. CASE Raise(j, s)
        BY <2>3, <3>2, <4>2, RaiseEffect DEF Shape
      <4>. QED
        BY <4>1, <4>2
    <3>. QED
      BY <2>1, <2>3, <3>3 DEF Replaces
  <2>4. CASE i = j /\ t.do = "spread" /\ t = s
    <3>1. Spread(j, s) /\ s.file = v.file
      <4>1. ~Raise(j, s)
        BY <2>4, Raising DEF Shape
      <4>. QED
        BY <2>1, <2>4, <4>1, Doings DEF Replaces
    <3>2. <<v.kb, v.file>> \notin stranded
      BY <1>3 DEF Shape, Typed, There
    <3>3. ~Pending(v)
      <4>. SUFFICES ASSUME NEW n \in Job, NEW u \in Todo(n), u.do \in Linking \cup {"drop"}, Same(v, u) PROVE FALSE
        BY DEF Pending
      <4>1. CASE n = j
        BY <1>4, <2>4, <4>1, Kind DEF Kinds, Linking
      <4>2. CASE n # j
        <5>1. v.file \in Concerned(Todo(n))
          BY <1>3, NamedFiles DEF Shape, Same
        <5>. QED
          BY <1>1, <1>3, <3>1, <4>2, <5>1, Apart
      <4>. QED
        BY <4>1, <4>2
    <3>4. v.kb \in Linked(s.file)
      <4>1. ~Blamed(v.kb, v.file)
        BY <1>1 DEF Spared, Blamed
      <4>2. <<v.kb, v.file>> \in links
        BY <1>1, <1>2, <3>2, <3>3, <4>1 DEF Strays
      <4>. QED
        BY <1>3, <3>1, <4>2 DEF Linked
    <3>5. PICK n : n \in Nat \ {0} /\ Propagation(n, v.kb, s.file) \subseteq Todo(j)'
      <4> DEFINE kbs == SetToSeq(Linked(s.file))
      <4>1. Typed
        BY DEF Shape
      <4>2. /\ \A m \in DOMAIN kbs : m \in Nat \ {0}
            /\ \A m \in DOMAIN kbs : Propagation(m, kbs[m], s.file) \subseteq Todo(j)'
            /\ \A k \in Linked(s.file) : \E m \in DOMAIN kbs : kbs[m] = k
        BY <3>1, <4>1, Propagated
      <4>. HIDE DEF kbs
      <4>3. PICK m \in DOMAIN kbs : kbs[m] = v.kb
        BY <3>4, <4>2
      <4>. QED
        BY <4>2, <4>3
    <3> DEFINE w == Do(<<n, 1>>, "old", v.kb, s.file)
               u == Do(<<n, 3>>, "dropOld", v.kb, s.file)
    <3>6. w \in Todo(j)' /\ u \in Todo(j)'
      BY <3>5 DEF Propagation
    <3>7. w.do = "old" /\ w.at = <<n, 1>> /\ u.do = "dropOld" /\ u.at = <<n, 3>> /\ u.kb = v.kb /\ u.file = s.file
      BY DEF Do, Call
    <3>. HIDE DEF w, u
    <3>8. Before(w, u)
      BY <3>7 DEF Before
    <3>9. ~Live(j, u)'
      BY <3>6, <3>7, <3>8 DEF Live
    <3>. QED
      BY <3>1, <3>6, <3>7, <3>9 DEF Replaces
  <2>5. CASE i = j /\ t.do = "dropOld"
    <3>1. s.do \in {"old", "store", "dropOld"}
      BY <1>4, <2>5, Kind DEF Kinds
    <3>2. t.kb = v.kb /\ t.file = v.file /\ (Live(j, t) => v \in job[j].old) /\ t \in Todo(j) /\ CallOK(t)
      BY <1>4, <2>1, <2>5 DEF Replaces
    <3>3. ASSUME t \in Todo(j)', Live(j, t)' => v \in job'[j].old
          PROVE  \E x \in Todo(j)' : Replaces(j, x, v)'
      BY <2>5, <3>2, <3>3 DEF Replaces
    <3>4. Announced(j, t) \/ (Live(j, t) /\ (Renewing(j, t) \/ Renewed(j, t)))
      BY <2>5, <3>2 DEF NewFirst, Renewing, Renewed, Mine
    <3>5. CASE Act(j, s)
      <4>1. Todo(j) \ {s} \subseteq Todo(j)'
        BY <3>1, <3>5, Remains DEF Spread, BatchInsert
      <4>2. t # s
        <5>. SUFFICES ASSUME t = s PROVE FALSE
          OBVIOUS
        <5>1. Live(j, s)
          BY <1>4 DEF Live
        <5>2. DropOld(j, s)
          BY <2>5, <3>5, Doings
        <5>3. vectors' \cap job[j].old = {}
          BY <3>5, <5>2, ChunksEffect DEF Shape
        <5>. QED
          BY <3>2, <5>1, <5>3
      <4>3. job'[j].old = IF s.do = "old" THEN Chunks(s.kb, s.file) ELSE job[j].old
        BY <3>1, <3>5, Progress DEF Shape, Spread, BatchInsert
      <4>4. CASE s.do # "old"
        <5>1. Live(j, t)' => Live(j, t)
          BY <4>1, <4>4 DEF Live
        <5>. QED
          BY <2>5, <3>2, <3>3, <4>1, <4>2, <4>3, <4>4, <5>1
      <4>5. CASE s.do = "old"
        <5>1. Before(s, t)
          BY <3>2, <4>2, Firsts DEF Shape
        <5>2. Announced(j, t)
          BY <1>4, <3>4, <4>5, <5>1 DEF Live
        <5>3. PICK w \in Todo(j) : w.do = "old" /\ Same(w, t) /\ Leads(w, t)
          BY <5>2 DEF Announced
        <5>4. w # s => ~Live(j, t)'
          BY <4>1, <5>3 DEF Live, Leads
        <5>5. w = s => v \in job'[j].old
          BY <1>2, <3>2, <4>3, <4>5, <5>3 DEF Same, Chunks
        <5>. QED
          BY <2>5, <3>2, <3>3, <4>1, <4>2, <5>4, <5>5
      <4>. QED
        BY <4>4, <4>5
    <3>6. CASE Raise(j, s)
      <4>1. /\ Todo(j)' = {x \in Todo(j) \ {s} : x.at[1] # s.skips}
            /\ job'[j].old = job[j].old
        BY <3>6, RaiseEffect DEF Shape
      <4>2. s.do = "store" /\ \A x \in Todo(j) : x.do = "store" /\ x = s => <<x.kb, x.file>> \in unfinished'
        BY <1>1, <3>1, <3>2, <3>6, Raising DEF Shape
      <4>3. t.at[1] = s.at[1] => ~Announced(j, t) /\ ~Renewing(j, t)
        <5>. SUFFICES ASSUME t.at[1] = s.at[1], Announced(j, t) \/ Renewing(j, t) PROVE FALSE
          OBVIOUS
        <5>1. PICK u \in Todo(j) : u.do = "store" /\ Same(u, t) /\ Leads(u, t)
          BY DEF Announced, Renewing
        <5>2. u = s
          BY <1>4, <2>5, <3>2, <4>2, <5>1 DEF Shape, Single, Leads
        <5>. QED
          BY <1>1, <3>2, <4>2, <5>1, <5>2 DEF Same
      <4>4. t.at[1] = s.at[1] => ~Renewed(j, t)
        BY <1>4, <4>2 DEF Renewed
      <4>5. t.at[1] # s.at[1] /\ t.at[1] # s.skips
        BY <1>4, <3>2, <3>4, <4>3, <4>4 DEF CallOK
      <4>6. t \in Todo(j)'
        BY <2>5, <3>2, <4>1, <4>2, <4>5
      <4>7. Live(j, t)' => Live(j, t)
        <5>. SUFFICES ASSUME ~Live(j, t) PROVE ~Live(j, t)'
          OBVIOUS
        <5>1. PICK w \in Todo(j) : w.do = "old" /\ Same(w, t) /\ Leads(w, t)
          BY <3>4 DEF Announced
        <5>2. w \in Todo(j)'
          BY <4>1, <4>2, <4>5, <5>1 DEF Leads
        <5>. QED
          BY <5>1, <5>2 DEF Live, Leads
      <4>. QED
        BY <2>5, <3>2, <3>3, <4>1, <4>6, <4>7
    <3>. QED
      BY <2>5, <3>5, <3>6
  <2>. QED
    BY <2>1, <2>2, <2>3, <2>4, <2>5 DEF Replaces
<1>. QED
  BY <1>5, <1>6

-----------------------------------------------------------------------------
(* What a request arrives with, continued.                                 *)

SuitsCall(todo, t) ==
    /\ t.do # "hash"
    /\ t.do \in Linking => file[t.file].status # "deleted"
    /\ t.do = "batch" => \A f \in DOMAIN t.text : There(f) /\ t.text[f] = file[f].text
    /\ t.do = "store" /\ t.kb # Nothing =>
          <<t.kb, t.file>> \in links \/ \E u \in todo : u.do \in Linking /\ Same(u, t) /\ Leads(t, u)
    /\ t.do = "store" /\ t.kb = Nothing =>
          (\E u \in todo : u.do = "spread" /\ u.file = t.file) \/ file[t.file].status = "absent"
    /\ t.do = "unlinkAll" => \E w \in todo : w.do = "wipe" /\ Before(w, t)
    /\ t.do = "dropRow" /\ t.kb = Nothing =>
          \A k \in Linked(t.file) : \E u \in todo : u.do = "unlink" /\ u.kb = k /\ u.file = t.file
    /\ t.do = "wipe" =>
          \/ \E u \in todo : u.do = "unlinkAll" /\ u.kb = t.kb /\ Before(t, u)
          \/ \A f \in File : <<t.kb, f>> \in links =>
                \E u \in todo : u.do = "store" /\ u.kb = t.kb /\ u.file = f /\ t.at[1] = u.at[1] /\ Before(t, u)
Suits(todo) == \A t \in todo : SuitsCall(todo, t)

\* Upload arrives with calls that suit the databases as they are.
LEMMA UploadSuits ==
    ASSUME NEW j \in Job, NEW f \in File, file[f].status = "absent", NEW x \in Text, NEW c \in Collection
    PROVE  Suits(Uploading(j, f, x, c))
<1> DEFINE a == Store(<<1, 1>>, Nothing, f, x)
           b == Do(<<1, 2>>, "processing", c, f)
           d == Store(<<1, 3>>, c, f, Nothing)
           e == Do(<<1, 4>>, "attach", c, f)
           todo == Uploading(j, f, x, c)
<1>1. todo = IF c = Nothing THEN {a} ELSE {a, b, d, e}
  BY DEF Uploading
<1>2. /\ a.do = "store" /\ a.kb = Nothing /\ a.file = f /\ b.do = "processing"
      /\ d.do = "store" /\ d.kb = c /\ e.do = "attach" /\ e.file = f
  BY DEF Store, Do, Call
<1>3. Same(e, d) /\ Leads(d, e)
  BY DEF Store, Do, Call, Same, Leads, Before
<1>. HIDE DEF a, b, d, e, todo
<1>4. SuitsCall(todo, a) /\ SuitsCall(todo, b) /\ SuitsCall(todo, e)
  BY <1>2 DEF SuitsCall, Linking
<1>5. c # Nothing => SuitsCall(todo, d)
  BY <1>1, <1>2, <1>3 DEF SuitsCall, Linking
<1>. QED
  BY <1>1, <1>4, <1>5 DEF Suits, todo

\* So does AddFile.
LEMMA AddSuits == ASSUME NEW f \in File, There(f), NEW k \in Kb PROVE Suits(Adding(k, f))
<1> DEFINE a == Store(<<1, 1>>, k, f, Nothing)
           b == Do(<<1, 2>>, "link", k, f)
           todo == Adding(k, f)
<1>1. todo = {a, b}
  BY DEF Adding
<1>2. a.do = "store" /\ a.kb = k /\ b.do = "link" /\ b.file = f /\ Same(b, a) /\ Leads(a, b)
  BY DEF Store, Do, Call, Same, Leads, Before
<1>. HIDE DEF a, b, todo
<1>3. SuitsCall(todo, a) /\ SuitsCall(todo, b)
  BY <1>1, <1>2, NothingAssumption DEF SuitsCall, Linking, There
<1>. QED
  BY <1>1, <1>3 DEF Suits, todo

\* So does UpdateFile.
LEMMA UpdateSuits == ASSUME NEW f \in File, NEW k \in Linked(f) PROVE Suits(Updating(k, f))
<1> DEFINE a == Do(<<1, 1>>, "wipeFile", k, f)
           b == Store(<<1, 2>>, k, f, Nothing)
           todo == Updating(k, f)
<1>1. todo = {a, b}
  BY DEF Updating
<1>2. a.do = "wipeFile" /\ b.do = "store" /\ b.kb = k /\ b.file = f
  BY DEF Store, Do, Call
<1>3. <<k, f>> \in links /\ k # Nothing
  BY NothingAssumption DEF Linked
<1>. HIDE DEF a, b, todo
<1>4. SuitsCall(todo, a) /\ SuitsCall(todo, b)
  BY <1>2, <1>3 DEF SuitsCall, Linking
<1>. QED
  BY <1>1, <1>4 DEF Suits, todo

\* So does EditFile.
LEMMA EditSuits == ASSUME NEW f \in File, NEW x \in Text PROVE Suits(Editing(f, x))
<1> DEFINE a == Store(<<1, 1>>, Nothing, f, x)
           b == Do(<<2, 1>>, "spread", Nothing, f)
           todo == Editing(f, x)
<1>1. todo = {a, b}
  BY DEF Editing
<1>2. a.do = "store" /\ a.kb = Nothing /\ a.file = f /\ b.do = "spread" /\ b.file = f
  BY DEF Store, Do, Call
<1>. HIDE DEF a, b, todo
<1>3. SuitsCall(todo, a) /\ SuitsCall(todo, b)
  BY <1>1, <1>2 DEF SuitsCall, Linking
<1>. QED
  BY <1>1, <1>3 DEF Suits, todo

\* So does BatchAdd.
LEMMA BatchSuits ==
    ASSUME NEW k \in Kb, NEW F \in SUBSET File, \A f \in F : There(f)
    PROVE  Suits(Batching(k, [f \in {g \in F : k \notin Linked(g)} |-> file[f].text]))
<1> DEFINE texts == [f \in {g \in F : k \notin Linked(g)} |-> file[f].text]
           a == Call(<<1, 1>>, "batch", k, Nothing, texts)
           todo == Batching(k, texts)
<1>1. todo = {a}
  BY DEF Batching
<1>2. a.do = "batch" /\ a.text = texts
  BY DEF Call
<1>3. \A f \in DOMAIN texts : There(f) /\ texts[f] = file[f].text
  OBVIOUS
<1>. HIDE DEF a, texts, todo
<1>4. SuitsCall(todo, a)
  BY <1>2, <1>3 DEF SuitsCall, Linking
<1>5. Suits(todo)
  BY <1>1, <1>4 DEF Suits
<1>. QED
  BY <1>5 DEF todo, texts

\* So does Reset.
LEMMA ResetSuits == ASSUME NEW k \in Kb PROVE Suits(Resetting(k))
<1> DEFINE a == Do(<<1, 1>>, "wipe", k, Nothing)
           b == Do(<<2, 1>>, "unlinkAll", k, Nothing)
           todo == Resetting(k)
<1>1. todo = {a, b}
  BY DEF Resetting
<1>2. a.do = "wipe" /\ b.do = "unlinkAll" /\ a.kb = b.kb /\ Before(a, b)
  BY DEF Do, Call, Before
<1>. HIDE DEF a, b, todo
<1>3. SuitsCall(todo, a) /\ SuitsCall(todo, b)
  BY <1>1, <1>2 DEF SuitsCall, Linking
<1>. QED
  BY <1>1, <1>3 DEF Suits, todo

\* So does RemoveFile.
LEMMA RemoveSuits ==
    ASSUME NEW f \in File, NEW k \in Kb, file'[f].status # "absent",
           NEW more, more \in {{}, {Do(<<2, 1>>, "dropOwn", k, f), Do(<<3, 1>>, "dropRow", k, f)}}
    PROVE  Suits(Unlinking(1, k, f) \cup more)
<1>. SUFFICES ASSUME NEW t \in Unlinking(1, k, f) \cup more PROVE SuitsCall(Unlinking(1, k, f) \cup more, t)
  BY DEF Suits
<1>1. \/ t.do \in {"unlink", "drop", "dropHash", "dropOwn"}
      \/ t.do = "dropRow" /\ t.kb = k
  <2>1. CASE t \in Unlinking(1, k, f)
    BY <2>1 DEF Unlinking, Do, Call
  <2>2. CASE t \in more
    <3>1. t = Do(<<2, 1>>, "dropOwn", k, f) \/ t = Do(<<3, 1>>, "dropRow", k, f)
      BY <2>2
    <3>. QED
      BY <3>1 DEF Do, Call
  <2>. QED
    BY <2>1, <2>2
<1>. QED
  BY <1>1, NothingAssumption DEF SuitsCall, Linking

\* So does DeleteFile, which takes every link of the file before its row.
LEMMA DeleteSuits ==
    ASSUME NEW f \in File, file'[f].status # "absent"
    PROVE  Suits(Deleting(SetToSeq(Linked(f)), f))
<1>1. PICK kbs : kbs = SetToSeq(Linked(f))
  OBVIOUS
<1>2. IsFiniteSet(Linked(f)) /\ Linked(f) \subseteq Kb
  BY FiniteAssumption, FS_Subset DEF Linked
<1>3. /\ \A i \in DOMAIN kbs : i \in Nat \ {0} /\ kbs[i] \in Kb
      /\ \A k \in Linked(f) : \E i \in DOMAIN kbs : kbs[i] = k
  BY <1>1, <1>2, Listing
<1>4. ASSUME NEW i \in DOMAIN kbs, NEW t \in Unlinking(i, kbs[i], f) PROVE t.do \in {"unlink", "drop", "dropHash"}
  <2>1. \/ t = Do(<<i, 1>>, "unlink", kbs[i], f)
        \/ t = Do(<<i, 2>>, "drop", kbs[i], f)
        \/ t = Call(<<i, 3>>, "dropHash", kbs[i], f, file[f].hash)
    BY <1>4 DEF Unlinking
  <2>. QED
    BY <2>1, Fields DEF Do
<1>5. ASSUME NEW t \in Deleting(kbs, f) PROVE t.do \in {"unlink", "drop", "dropHash", "dropOwn", "dropRow"} /\ (t.do = "dropRow" => t.file = f)
  <2>1. CASE \E i \in DOMAIN kbs : t \in Unlinking(i, kbs[i], f)
    BY <1>4, <2>1
  <2>2. CASE t \in Dropping(Len(kbs) + 1, f)
    BY <2>2 DEF Dropping, Do, Call
  <2>. QED
    BY <1>5, <2>1, <2>2 DEF Deleting
<1>6. ASSUME NEW k \in Linked(f) PROVE \E u \in Deleting(kbs, f) : u.do = "unlink" /\ u.kb = k /\ u.file = f
  <2>1. PICK i \in DOMAIN kbs : kbs[i] = k
    BY <1>3
  <2>2. PICK u : u = Do(<<i, 1>>, "unlink", k, f)
    OBVIOUS
  <2>3. u.do = "unlink" /\ u.kb = k /\ u.file = f
    BY <2>2 DEF Do, Call
  <2>4. u \in Unlinking(i, kbs[i], f)
    BY <2>1, <2>2 DEF Unlinking
  <2>5. u \in Deleting(kbs, f)
    BY <2>3, <2>4 DEF Deleting
  <2>. QED
    BY <2>3, <2>5
<1>7. Suits(Deleting(kbs, f))
  BY <1>5, <1>6 DEF Suits, SuitsCall, Linking
<1>. QED
  BY <1>1, <1>7

\* So does Reindex, which stores every linked file again after it has emptied a base.
LEMMA ReindexSuits == Suits(Reindexing(SetToSeq(Kb)))
<1>1. PICK kbs : kbs = SetToSeq(Kb)
  OBVIOUS
<1>2. \A i \in DOMAIN kbs : i \in Nat \ {0} /\ kbs[i] \in Kb
  BY <1>1, FiniteAssumption, Listing
<1>. SUFFICES ASSUME NEW t \in Reindexing(kbs) PROVE SuitsCall(Reindexing(kbs), t)
  BY <1>1 DEF Suits
<1>. PICK i \in DOMAIN kbs : t \in {Do(<<i, 0>>, "wipe", kbs[i], Nothing)} \cup Restore(i, kbs[i])
  BY DEF Reindexing
<1>3. PICK k \in Kb : k = kbs[i]
  BY <1>2
<1>4. ASSUME NEW n \in DOMAIN Files(k)
      PROVE  \E u \in Restore(i, k) : u.at = <<i, n>> /\ u.do = "store" /\ u.kb = k /\ u.file = Files(k)[n]
  <2>1. PICK u : u = [Store(<<i, n>>, k, Files(k)[n], Nothing) EXCEPT !.skips = 0]
    OBVIOUS
  <2>2. u.at = <<i, n>> /\ u.do = "store" /\ u.kb = k /\ u.file = Files(k)[n]
    BY <2>1 DEF Store, Call
  <2>. QED
    BY <2>1, <2>2 DEF Restore
<1>5. CASE t = Do(<<i, 0>>, "wipe", kbs[i], Nothing)
  <2>1. t.at = <<i, 0>> /\ t.do = "wipe" /\ t.kb = k
    BY <1>3, <1>5 DEF Do, Call
  <2>2. ASSUME NEW f \in File, <<k, f>> \in links
        PROVE  \E u \in Reindexing(kbs) : u.do = "store" /\ u.kb = k /\ u.file = f /\ t.at[1] = u.at[1] /\ Before(t, u)
    <3>1. PICK n \in DOMAIN Files(k) : Files(k)[n] = f
      BY <2>2, Listed DEF Linked
    <3>2. n \in Nat \ {0}
      BY Listed
    <3>3. PICK u \in Restore(i, k) : u.at = <<i, n>> /\ u.do = "store" /\ u.kb = k /\ u.file = f
      BY <1>4, <3>1
    <3>4. u \in Reindexing(kbs)
      BY <1>3, <3>3 DEF Reindexing
    <3>5. t.at[1] = u.at[1] /\ Before(t, u)
      BY <2>1, <3>2, <3>3 DEF Before
    <3>. QED
      BY <3>3, <3>4, <3>5
  <2>. QED
    BY <2>1, <2>2 DEF SuitsCall, Linking
<1>6. CASE t \in Restore(i, kbs[i])
  <2>1. PICK n \in DOMAIN Files(k) : t = [Store(<<i, n>>, k, Files(k)[n], Nothing) EXCEPT !.skips = 0]
    BY <1>3, <1>6 DEF Restore
  <2>2. t.do = "store" /\ t.kb = k /\ t.file = Files(k)[n]
    BY <2>1 DEF Store, Call
  <2>3. <<t.kb, t.file>> \in links /\ t.kb # Nothing
    BY <2>2, Listed, NothingAssumption DEF Linked
  <2>. QED
    BY <2>2, <2>3 DEF SuitsCall, Linking
<1>. QED
  BY <1>5, <1>6

\* Whatever request arrives, its calls suit the databases.
LEMMA Arriving == ASSUME Typed, NEW j \in Job, Arrive(j) PROVE Suits(Todo(j)')
<1>1. \/ \E f \in File : Upload(j, f) \/ DeleteFile(j, f) \/ EditFile(j, f)
      \/ \E f \in File, k \in Kb : AddFile(j, k, f) \/ UpdateFile(j, k, f) \/ RemoveFile(j, k, f)
      \/ \E k \in Kb : Reset(j, k) \/ \E F \in SUBSET File : BatchAdd(j, k, F)
      \/ Reindex(j)
  BY DEF Arrive
<1>2. ASSUME NEW STATE todo, Request(j, todo), Suits(todo) PROVE Suits(Todo(j)')
  <2>1. Todo(j)' = todo
    BY <1>2, RequestEffect
  <2>. QED
    BY <1>2, <2>1
<1>3. ASSUME NEW f \in File, Upload(j, f) PROVE Suits(Todo(j)')
  <2>1. PICK t \in Text, c \in Collection : Request(j, Uploading(j, f, t, c))
    BY <1>3, UploadFits
  <2>2. file[f].status = "absent"
    BY <1>3 DEF Upload
  <2>3. Todo(j)' = Uploading(j, f, t, c)
    BY <2>1, RequestEffect
  <2>4. Suits(Uploading(j, f, t, c))
    BY <2>2, UploadSuits
  <2>. QED
    BY <2>3, <2>4
<1>4. ASSUME NEW f \in File, DeleteFile(j, f) PROVE Suits(Todo(j)')
  <2>1. file' = file /\ There(f)
    BY <1>4 DEF DeleteFile
  <2>2. file'[f].status # "absent"
    BY <2>1 DEF There
  <2>. QED
    BY <1>2, <1>4, <2>2, DeleteFits, DeleteSuits
<1>5. ASSUME NEW f \in File, EditFile(j, f) PROVE Suits(Todo(j)')
  <2>1. PICK t \in Text : Request(j, Editing(f, t))
    BY <1>5, EditFits
  <2>2. Todo(j)' = Editing(f, t)
    BY <2>1, RequestEffect
  <2>3. Suits(Editing(f, t))
    BY EditSuits
  <2>. QED
    BY <2>2, <2>3
<1>6. ASSUME NEW f \in File, NEW k \in Kb, AddFile(j, k, f) PROVE Suits(Todo(j)')
  <2>1. There(f)
    BY <1>6 DEF AddFile
  <2>. QED
    BY <1>2, <1>6, <2>1, AddFits, AddSuits
<1>7. ASSUME NEW f \in File, NEW k \in Kb, UpdateFile(j, k, f) PROVE Suits(Todo(j)')
  <2>1. k \in Linked(f)
    BY <1>7 DEF UpdateFile
  <2>. QED
    BY <1>2, <1>7, <2>1, UpdateFits, UpdateSuits
<1>8. ASSUME NEW f \in File, NEW k \in Kb, RemoveFile(j, k, f) PROVE Suits(Todo(j)')
  <2>1. file'[f].status # "absent"
    BY <1>8 DEF RemoveFile, There
  <2>2. PICK more : /\ more \in {{}, {Do(<<2, 1>>, "dropOwn", k, f), Do(<<3, 1>>, "dropRow", k, f)}}
                    /\ Request(j, Unlinking(1, k, f) \cup more)
    BY <1>8, RemoveFits
  <2>3. Todo(j)' = Unlinking(1, k, f) \cup more
    BY <2>2, RequestEffect
  <2>4. Suits(Unlinking(1, k, f) \cup more)
    BY <2>1, <2>2, RemoveSuits
  <2>. QED
    BY <2>3, <2>4
<1>9. ASSUME NEW k \in Kb, Reset(j, k) PROVE Suits(Todo(j)')
  BY <1>2, <1>9, ResetFits, ResetSuits
<1>10. ASSUME NEW k \in Kb, NEW F \in SUBSET File, BatchAdd(j, k, F) PROVE Suits(Todo(j)')
  <2>1. \A f \in F : There(f)
    BY <1>10 DEF BatchAdd
  <2>2. PICK texts : texts = [f \in {g \in F : k \notin Linked(g)} |-> file[f].text]
    OBVIOUS
  <2>3. Request(j, Batching(k, texts))
    BY <1>10, <2>2, BatchFits
  <2>4. Suits(Batching(k, texts))
    BY <2>1, <2>2, BatchSuits
  <2>5. Todo(j)' = Batching(k, texts)
    BY <2>3, RequestEffect
  <2>. QED
    BY <2>4, <2>5
<1>11. ASSUME Reindex(j) PROVE Suits(Todo(j)')
  BY <1>2, <1>11, ReindexFits, ReindexSuits
<1>. QED
  BY <1>1, <1>3, <1>4, <1>5, <1>6, <1>7, <1>8, <1>9, <1>10, <1>11

-----------------------------------------------------------------------------
(* The invariant of what is found.                                         *)

CurrentInv ==
    /\ SearchInv /\ Paired /\ Texts
    /\ Homed /\ Bare /\ Emptied /\ LastLinks /\ Strays
    /\ Refill /\ Filled /\ Uploaded /\ UpToDate

\* What an arrival leaves as it is.
LEMMA Arrived ==
    ASSUME Shape, NEW j \in Job, Arrive(j)
    PROVE  /\ Todo(j) = {} /\ First(j) = {} /\ job'[j].held.stage = "none"
           /\ Fits(Todo(j)') /\ Suits(Todo(j)') /\ \A t \in Todo(j)' : CallOK(t)'
           /\ \A i \in Job \ {j} : job'[i] = job[i] /\ Todo(i)' = Todo(i) /\ First(i)' = First(i)
           /\ links' = links /\ vectors' = vectors /\ own' = own /\ faults' = faults /\ wiped' = wiped
           /\ unfinished' = unfinished /\ spilled' = spilled /\ stranded' = stranded
           /\ \A f : Alone(f)' => Alone(f)
           /\ \A f \in File : file'[f] = file[f] \/ (file[f].status = "absent" /\ file'[f] = Fresh("pending"))
           /\ \A k, f : Chunks(k, f)' = Chunks(k, f) /\ Linked(f)' = Linked(f)
           /\ \A k, f : (Blamed(k, f)' <=> Blamed(k, f)) /\ (Spared(k, f)' <=> Spared(k, f))
           /\ \A t : IsLinked(t)' <=> IsLinked(t)
<1>1. PICK todo : Request(j, todo) /\ Fits(todo)
  BY Arrivals DEF Shape
<1>2. /\ Todo(j) = {} /\ Todo(j)' = todo /\ job'[j].held = job[j].held
      /\ \A i \in Job \ {j} : job'[i] = job[i] /\ Todo(i)' = Todo(i)
      /\ links' = links /\ vectors' = vectors /\ own' = own /\ faults' = faults /\ wiped' = wiped
      /\ unfinished' = unfinished /\ spilled' = spilled /\ stranded' = stranded
      /\ raced \subseteq raced'
  BY <1>1, RequestEffect DEF Shape
<1>3. First(j) = {} /\ \A i \in Job \ {j} : First(i)' = First(i)
  BY <1>2 DEF First, Todo
<1>4. job'[j].held.stage = "none"
  BY <1>2, <1>3 DEF Shape, HeldByStore
<1>5. Suits(Todo(j)') /\ Fits(Todo(j)')
  BY <1>1, <1>2, Arriving DEF Shape
<1>6. \A t \in Todo(j)' : CallOK(t)'
  BY ShapeArrive DEF Shape, Typed
<1>7. \A f : Alone(f)' => Alone(f)
  BY <1>2 DEF Alone
<1>8. \A f \in File : file'[f] = file[f] \/ (file[f].status = "absent" /\ file'[f] = Fresh("pending"))
  BY FileArrives DEF Shape
<1>9. /\ \A k, f : Chunks(k, f)' = Chunks(k, f) /\ Linked(f)' = Linked(f)
      /\ \A k, f : (Blamed(k, f)' <=> Blamed(k, f)) /\ (Spared(k, f)' <=> Spared(k, f))
      /\ \A t : IsLinked(t)' <=> IsLinked(t)
  BY <1>2 DEF Chunks, Linked, Blamed, Spared, IsLinked
<1>. QED
  BY <1>2, <1>3, <1>4, <1>5, <1>6, <1>7, <1>8, <1>9

\* Paired is kept by arrivals.
LEMMA PairedArrive == ASSUME CurrentInv, NEW j \in Job, Arrive(j) PROVE Paired'
<1>1. Shape
  BY DEF CurrentInv, SearchInv
<1>2. Pairs(Todo(j)') /\ \A i \in Job \ {j} : Todo(i)' = Todo(i)
  BY <1>1, Arrived DEF Fits
<1>3. \A i \in Job : Pairs(Todo(i)')
  BY <1>2 DEF CurrentInv, Paired
<1>. QED
  BY <1>3 DEF Paired, Pairs

\* Texts is kept by arrivals.
LEMMA TextsArrive == ASSUME CurrentInv, NEW j \in Job, Arrive(j) PROVE Texts'
<1>0. Shape
  BY DEF CurrentInv, SearchInv
<1>. USE <1>0
<1>. USE DEF CurrentInv, Texts
<1>1. /\ \A i \in Job \ {j} : job'[i] = job[i] /\ Todo(i)' = Todo(i) /\ First(i)' = First(i)
      /\ job'[j].held.stage = "none" /\ own' = own /\ \A f : Alone(f)' => Alone(f)
      /\ Suits(Todo(j)') /\ \A t \in Todo(j)' : CallOK(t)'
  BY Arrived
<1>2. \A f \in File : file'[f] = file[f] \/ (file[f].status = "absent" /\ file'[f] = Fresh("pending"))
  BY Arrived
<1>3. \A f \in File : There(f) => There(f)' /\ file'[f] = file[f]
  BY <1>2 DEF There
<1>4. Ready'
  <2>. SUFFICES ASSUME NEW i \in Job, NEW t \in Todo(i)' PROVE ReadyCall(t)'
    BY DEF Ready
  <2>1. ASSUME t.do = "batch", NEW f \in DOMAIN t.text PROVE f \in File
    <3>1. CASE i # j
      BY <1>1, <2>1, <3>1 DEF Shape, Typed, CallOK
    <3>2. CASE i = j
      BY <1>1, <2>1, <3>2 DEF CallOK
    <3>. QED
      BY <3>1, <3>2
  <2>2. ASSUME t.do \in Linking \cup {"hash"} PROVE t.file \in File
    <3>1. CASE i # j
      BY <1>1, <2>2, <3>1 DEF Shape, Typed, CallOK, Linking
    <3>2. CASE i = j
      BY <1>1, <2>2, <3>2 DEF CallOK, Linking
    <3>. QED
      BY <3>1, <3>2
  <2>3. CASE i # j
    <3>1. ReadyCall(t)
      BY <1>1, <2>3 DEF Ready
    <3>2. t.do \in Linking /\ Alone(t.file)' => There(t.file)'
      BY <1>1, <1>3, <2>2, <3>1 DEF ReadyCall
    <3>3. t.do = "batch" => \A f \in DOMAIN t.text : Alone(f)' => There(f)' /\ t.text[f] = file'[f].text
      BY <1>1, <1>3, <2>1, <3>1 DEF ReadyCall
    <3>4. t.do = "hash" /\ Alone(t.file)' => There(t.file)' /\ t.text = file'[t.file].text
      BY <1>1, <1>3, <2>2, <3>1 DEF ReadyCall
    <3>. QED
      BY <3>2, <3>3, <3>4 DEF ReadyCall
  <2>4. CASE i = j
    <3>1. SuitsCall(Todo(j)', t)
      BY <1>1, <2>4 DEF Suits
    <3>2. ASSUME t.do \in Linking PROVE There(t.file)'
      <4>1. t.file \in File /\ file[t.file].status # "deleted"
        BY <2>2, <3>1, <3>2 DEF SuitsCall
      <4>2. file'[t.file].status # "absent"
        BY <1>1, <2>4, <4>1, NothingAssumption DEF CallOK
      <4>. QED
        BY <1>2, <4>1, <4>2 DEF There, Fresh
    <3>3. t.do = "batch" => \A f \in DOMAIN t.text : There(f)' /\ t.text[f] = file'[f].text
      BY <1>3, <2>1, <3>1 DEF SuitsCall
    <3>4. t.do # "hash"
      BY <3>1 DEF SuitsCall
    <3>. QED
      BY <3>2, <3>3, <3>4 DEF ReadyCall
  <2>. QED
    BY <2>3, <2>4
<1>5. OwnText'
  <2>. SUFFICES ASSUME NEW f \in File
                PROVE  /\ There(f)' /\ Alone(f)' => own'[f] \in {Nothing, file'[f].text}
                       /\ file'[f].status = "absent" => own'[f] = Nothing
    BY DEF OwnText
  <2>1. /\ There(f) /\ Alone(f) => own[f] \in {Nothing, file[f].text}
        /\ file[f].status = "absent" => own[f] = Nothing
    BY DEF OwnText
  <2>2. CASE file'[f] = file[f]
    BY <1>1, <2>1, <2>2 DEF There
  <2>3. CASE file[f].status = "absent" /\ file'[f] = Fresh("pending")
    BY <1>1, <2>1, <2>3 DEF Fresh
  <2>. QED
    BY <1>2, <2>2, <2>3
<1>6. HeldText'
  <2>. SUFFICES ASSUME NEW i \in Job, NEW s \in First(i)', s.do = "store", job'[i].held.stage # "none", Alone(s.file)'
                PROVE  HeldBy(i, s)'
    BY DEF HeldText
  <2>1. i # j
    BY <1>1
  <2>2. s \in First(i) /\ job'[i] = job[i] /\ HeldBy(i, s)
    BY <1>1, <2>1 DEF HeldText
  <2>3. s.file \in File /\ There(s.file)
    BY <2>2, Firsts DEF Shape, CallOK, HeldBy
  <2>4. There(s.file)' /\ file'[s.file] = file[s.file] /\ own' = own
    BY <1>1, <1>3, <2>3
  <2>. QED
    BY <2>2, <2>4 DEF HeldBy
<1>. QED
  BY <1>4, <1>5, <1>6

\* Strays, with what it rests on, is kept by arrivals.
LEMMA StraysArrive ==
    ASSUME CurrentInv, NEW j \in Job, Arrive(j)
    PROVE  Homed' /\ Bare' /\ Emptied' /\ LastLinks' /\ Strays'
<1>0. Shape
  BY DEF CurrentInv, SearchInv
<1>. USE <1>0
<1>1. /\ Todo(j) = {} /\ First(j) = {} /\ job'[j].held.stage = "none"
      /\ Suits(Todo(j)') /\ \A t \in Todo(j)' : CallOK(t)'
      /\ \A i \in Job \ {j} : job'[i] = job[i] /\ Todo(i)' = Todo(i) /\ First(i)' = First(i)
      /\ links' = links /\ vectors' = vectors /\ stranded' = stranded
      /\ \A f : Alone(f)' => Alone(f)
      /\ \A k, f : Chunks(k, f)' = Chunks(k, f) /\ Linked(f)' = Linked(f)
      /\ \A k, f : Blamed(k, f)' <=> Blamed(k, f)
      /\ \A t : IsLinked(t)' <=> IsLinked(t)
  BY Arrived
<1>2. Homed'
  <2>. SUFFICES ASSUME NEW i \in Job, NEW t \in Todo(i)', t.do = "store", t.kb # Nothing, Alone(t.file)'
                PROVE  HomedCall(i, t)'
    BY DEF Homed
  <2>1. CASE i # j
    <3>1. HomedCall(i, t)
      BY <1>1, <2>1 DEF CurrentInv, Homed
    <3>. QED
      BY <1>1, <2>1, <3>1 DEF HomedCall
  <2>2. CASE i = j
    <3>1. SuitsCall(Todo(j)', t)
      BY <1>1, <2>2 DEF Suits
    <3>. QED
      BY <1>1, <2>2, <3>1 DEF HomedCall, SuitsCall, IsLinked
  <2>. QED
    BY <2>1, <2>2
<1>3. Strays'
  <2>. SUFFICES ASSUME NEW v \in vectors', Alone(v.file)', ~Blamed(v.kb, v.file)', <<v.kb, v.file>> \notin links' \cup stranded'
                PROVE  Pending(v)'
    BY DEF Strays
  <2>1. Pending(v)
    BY <1>1 DEF CurrentInv, Strays
  <2>2. PICK i \in Job : \E t \in Todo(i) : t.do \in Linking \cup {"drop"} /\ Same(v, t)
    BY <2>1 DEF Pending
  <2>3. i # j
    BY <1>1, <2>2
  <2>. QED
    BY <1>1, <2>2, <2>3 DEF Pending
<1>4. Bare'
  <2>. SUFFICES ASSUME NEW i \in Job, NEW t \in Todo(i)', t.do \in Linking, Alone(t.file)', ~IsLinked(t)', ~Blamed(t.kb, t.file)',
                       NEW u \in Todo(i)', u.do = "store", Same(u, t), Leads(u, t), ~Done(i, u)',
                       NEW v \in vectors', v.kb = t.kb, v.file = t.file
                PROVE  FALSE
    BY DEF Bare, Chunks
  <2>0. Alone(t.file) /\ ~IsLinked(t) /\ ~Blamed(t.kb, t.file) /\ v \in vectors
    BY <1>1
  <2>1. CASE i # j
    <3>1. ~Done(i, u) /\ t \in Todo(i) /\ u \in Todo(i)
      BY <1>1, <2>1 DEF Done
    <3>2. Chunks(t.kb, t.file) = {}
      BY <2>0, <3>1 DEF CurrentInv, Bare
    <3>. QED
      BY <2>0, <3>2 DEF Chunks
  <2>2. CASE i = j
    <3>1. <<v.kb, v.file>> \in stranded \/ Pending(v)
      BY <2>0 DEF CurrentInv, Strays, IsLinked
    <3>2. <<v.kb, v.file>> \notin stranded
      <4>1. file[t.file].status # "deleted"
        BY <1>1, <2>2 DEF Suits, SuitsCall
      <4>. QED
        BY <4>1 DEF Shape, Typed
    <3>3. PICK n \in Job : \E x \in Todo(n) : x.do \in Linking \cup {"drop"} /\ Same(v, x)
      BY <3>1, <3>2 DEF Pending
    <3>4. PICK x \in Todo(n) : Same(v, x)
      BY <3>3
    <3>5. n # j /\ v.file \in File
      BY <1>1, <2>0, <3>3 DEF Shape, Typed
    <3>6. v.file \in Concerned(Todo(n))'
      BY <1>1, <3>4, <3>5 DEF Concerned, Same
    <3>7. v.file \in Concerned(Todo(j))'
      BY <2>2, <3>5 DEF Concerned
    <3>8. Overlap'
      BY ShapeArrive DEF Shape
    <3>9. <<v.file, v.file>> \in raced'
      BY <3>5, <3>6, <3>7, <3>8 DEF Overlap
    <3>. QED
      BY <3>9 DEF Alone
  <2>. QED
    BY <2>1, <2>2
<1>5. Emptied'
  <2>. SUFFICES ASSUME NEW i \in Job, NEW t \in Todo(i)', t.do = "unlinkAll" PROVE EmptiedCall(i, t)'
    BY DEF Emptied
  <2>1. CASE i # j
    <3>1. EmptiedCall(i, t)
      BY <1>1, <2>1 DEF CurrentInv, Emptied
    <3>. QED
      BY <1>1, <2>1, <3>1 DEF EmptiedCall
  <2>2. CASE i = j
    <3>1. SuitsCall(Todo(j)', t)
      BY <1>1, <2>2 DEF Suits
    <3>. QED
      BY <2>2, <3>1 DEF EmptiedCall, SuitsCall
  <2>. QED
    BY <2>1, <2>2
<1>6. LastLinks'
  <2>. SUFFICES ASSUME NEW i \in Job, NEW t \in Todo(i)', t.do = "dropRow", t.kb = Nothing, Alone(t.file)'
                PROVE  LastLinksCall(i, t)'
    BY DEF LastLinks
  <2>1. CASE i # j
    <3>1. LastLinksCall(i, t)
      BY <1>1, <2>1 DEF CurrentInv, LastLinks
    <3>. QED
      BY <1>1, <2>1, <3>1 DEF LastLinksCall
  <2>2. CASE i = j
    <3>1. SuitsCall(Todo(j)', t)
      BY <1>1, <2>2 DEF Suits
    <3>. QED
      BY <1>1, <2>2, <3>1 DEF LastLinksCall, SuitsCall
  <2>. QED
    BY <2>1, <2>2
<1>. QED
  BY <1>2, <1>3, <1>4, <1>5, <1>6

\* Filled and UpToDate, with what they rest on, are kept by arrivals.
LEMMA FilledArrive ==
    ASSUME CurrentInv, NEW j \in Job, Arrive(j)
    PROVE  Refill' /\ Filled' /\ Uploaded' /\ UpToDate'
<1>0. Shape
  BY DEF CurrentInv, SearchInv
<1>. USE <1>0
<1>1. /\ Todo(j) = {} /\ Suits(Todo(j)')
      /\ \A i \in Job \ {j} : job'[i] = job[i] /\ Todo(i)' = Todo(i) /\ First(i)' = First(i)
      /\ links' = links /\ vectors' = vectors /\ wiped' = wiped
      /\ \A f : Alone(f)' => Alone(f)
      /\ \A k, f : Spared(k, f)' <=> Spared(k, f)
  BY Arrived
<1>2. Refill'
  <2>. SUFFICES ASSUME NEW i \in Job, NEW w \in Todo(i)', w.do = "wipe" PROVE RefillCall(i, w)'
    BY DEF Refill
  <2>1. CASE i # j
    <3>1. RefillCall(i, w)
      BY <1>1, <2>1 DEF CurrentInv, Refill
    <3>. QED
      BY <1>1, <2>1, <3>1 DEF RefillCall
  <2>2. CASE i = j
    <3>1. SuitsCall(Todo(j)', w)
      BY <1>1, <2>2 DEF Suits
    <3>. QED
      BY <1>1, <2>2, <3>1 DEF RefillCall, SuitsCall
  <2>. QED
    BY <2>1, <2>2
<1>3. Filled'
  <2>. SUFFICES ASSUME NEW l \in links', l \in wiped', Alone(l[2])', Spared(l[1], l[2])',
                       ~\E v \in vectors' : l = <<v.kb, v.file>>
                PROVE  \E i \in Job : Awaited(i, l[1], l[2])'
    BY DEF Filled
  <2>1. PICK i \in Job : Awaited(i, l[1], l[2])
    BY <1>1 DEF CurrentInv, Filled
  <2>2. i # j
    BY <1>1, <2>1 DEF Awaited
  <2>3. \A t : Done(i, t)' <=> Done(i, t)
    BY <1>1, <2>2 DEF Done
  <2>4. Awaited(i, l[1], l[2])'
    BY <1>1, <2>1, <2>2, <2>3 DEF Awaited
  <2>. QED
    BY <2>4
<1>4. Uploaded'
  <2>. SUFFICES ASSUME NEW i \in Job, NEW t \in Todo(i)', t.do = "store", t.kb = Nothing, Alone(t.file)'
                PROVE  (\E u \in Todo(i)' : u.do = "spread" /\ u.file = t.file) \/ \A v \in vectors' : v.file # t.file
    BY DEF Uploaded
  <2>1. CASE i # j
    BY <1>1, <2>1 DEF CurrentInv, Uploaded
  <2>2. CASE i = j
    <3>1. SuitsCall(Todo(j)', t)
      BY <1>1, <2>2 DEF Suits
    <3>. QED
      BY <1>1, <2>2, <3>1 DEF SuitsCall, Shape, Typed
  <2>. QED
    BY <2>1, <2>2
<1>5. UpToDate'
  <2>. SUFFICES ASSUME NEW v \in vectors', Alone(v.file)', There(v.file)', Spared(v.kb, v.file)',
                       v.text # file'[v.file].text
                PROVE  \E i \in Job : \E t \in Todo(i)' : Replaces(i, t, v)'
    BY DEF UpToDate
  <2>1. v \in vectors /\ v.file \in File /\ file[v.file].status # "absent"
    BY <1>1 DEF Shape, Typed
  <2>2. file'[v.file] = file[v.file]
    BY <2>1, Arrived
  <2>3. There(v.file)
    BY <2>2 DEF There
  <2>4. PICK i \in Job : \E t \in Todo(i) : Replaces(i, t, v)
    BY <1>1, <2>1, <2>2, <2>3 DEF CurrentInv, UpToDate
  <2>5. i # j
    BY <1>1, <2>4
  <2>6. \A t : Live(i, t)' <=> Live(i, t)
    BY <1>1, <2>5 DEF Live
  <2>. QED
    BY <1>1, <2>4, <2>5, <2>6 DEF Replaces
<1>. QED
  BY <1>2, <1>3, <1>4, <1>5

\* CurrentInv is kept by calls, returning or raising.
LEMMA CurrentStep == ASSUME CurrentInv, NEW j \in Job, Step(j) \/ Fails(j) \/ Loses(j) PROVE CurrentInv'
<1>1. PICK s \in First(j) : Act(j, s) \/ Raise(j, s)
  BY Acts
<1>2. /\ Shape /\ NewFirst /\ UnlinkFirst /\ StoreFirst /\ Searchable
      /\ SearchInv /\ Paired /\ Texts /\ Ready
      /\ Homed /\ Bare /\ Emptied /\ LastLinks /\ Strays
      /\ Refill /\ Filled /\ Uploaded /\ UpToDate
  BY DEF CurrentInv, SearchInv, Texts
<1>3. SearchInv'
  BY <1>2, SearchStep
<1>4. Paired'
  BY <1>1, <1>2, PairedStep
<1>5. Texts'
  BY <1>1, <1>2, ReadyStep, OwnTextStep, HeldTextStep DEF Texts
<1>6. Homed' /\ Bare' /\ Emptied' /\ LastLinks'
  BY <1>1, <1>2, HomedStep, BareStep, EmptiedStep, LastLinksStep
<1>7. Strays'
  BY <1>1, <1>2, StraysStep
<1>8. Refill' /\ Filled'
  BY <1>1, <1>2, RefillStep, FilledStep
<1>9. Uploaded' /\ UpToDate'
  BY <1>1, <1>2, UploadedStep, UpToDateStep
<1>. QED
  BY <1>3, <1>4, <1>5, <1>6, <1>7, <1>8, <1>9 DEF CurrentInv

\* CurrentInv is kept by arrivals.
LEMMA CurrentArrive == ASSUME CurrentInv, NEW j \in Job, Arrive(j) PROVE CurrentInv'
<1>1. SearchInv'
  BY SearchArrive DEF CurrentInv
<1>. QED
  BY <1>1, PairedArrive, TextsArrive, StraysArrive, FilledArrive DEF CurrentInv

\* The calls that are lost are blamed for what they leave.
LEMMA CurrentCrash == ASSUME CurrentInv, Crash PROVE CurrentInv'
<1>0. Shape
  BY DEF CurrentInv, SearchInv
<1>1. /\ \A j \in Job : Todo(j)' = {} /\ First(j)' = {} /\ job'[j].held = Free
      /\ file' = file /\ own' = own /\ links' = links /\ vectors' = vectors /\ raced' = raced
      /\ wiped' = wiped /\ spilled' = spilled /\ stranded' = stranded
      /\ unfinished' = unfinished \cup wiped \cup (Kb \X {s.file : s \in UNION {Todo(j) : j \in Job}})
      /\ faults' = faults + 1
  BY <1>0, CrashEffect DEF Shape
<1>2. /\ faults' > 0
      /\ \A v \in vectors : v.kb \in Kb
  BY <1>0, <1>1 DEF Shape, Typed
<1>3. SearchInv'
  BY SearchCrash DEF CurrentInv
<1>4. Paired' /\ Ready' /\ HeldText' /\ Homed' /\ Bare' /\ Emptied' /\ LastLinks' /\ Refill' /\ Uploaded'
  BY <1>1 DEF Paired, Pairs, Ready, HeldText, Homed, Bare, Emptied, LastLinks, Refill, Uploaded
<1>5. \A f : (Alone(f)' <=> Alone(f)) /\ (There(f)' <=> There(f))
  BY <1>1 DEF Alone, There
<1>6. OwnText'
  BY <1>1, <1>5 DEF CurrentInv, Texts, OwnText
<1>7. ASSUME NEW v \in vectors, NEW j \in Job, NEW t \in Todo(j), t.file = v.file
      PROVE  <<v.kb, v.file>> \in unfinished'
  <2>1. v.file \in {s.file : s \in UNION {Todo(i) : i \in Job}}
    BY <1>7
  <2>. QED
    BY <1>1, <1>2, <2>1
<1>8. Strays'
  <2>. SUFFICES ASSUME NEW v \in vectors, Alone(v.file), ~Blamed(v.kb, v.file)', <<v.kb, v.file>> \notin links \cup stranded
                PROVE  FALSE
    BY <1>1, <1>5 DEF Strays
  <2>1. <<v.kb, v.file>> \notin unfinished'
    BY <1>2 DEF Blamed
  <2>2. ~Blamed(v.kb, v.file)
    BY <1>1, <2>1 DEF Blamed
  <2>3. Pending(v)
    BY <2>2 DEF CurrentInv, Strays
  <2>. QED
    BY <1>7, <2>1, <2>3 DEF Pending, Same
<1>9. Filled'
  <2>1. \A l \in links : l = <<l[1], l[2]>>
    BY <1>0 DEF Shape, Typed
  <2>2. \A l \in links \cap wiped : ~Spared(l[1], l[2])'
    BY <1>1, <2>1 DEF Spared
  <2>. QED
    BY <1>1, <2>2 DEF Filled
<1>10. UpToDate'
  <2>. SUFFICES ASSUME NEW v \in vectors, Alone(v.file), There(v.file), Spared(v.kb, v.file)',
                       v.text # file[v.file].text
                PROVE  FALSE
    BY <1>1, <1>5 DEF UpToDate
  <2>1. Spared(v.kb, v.file) /\ <<v.kb, v.file>> \notin unfinished'
    BY <1>1 DEF Spared
  <2>2. \E j \in Job : \E t \in Todo(j) : Replaces(j, t, v)
    BY <2>1 DEF CurrentInv, UpToDate
  <2>. QED
    BY <1>7, <2>1, <2>2 DEF Replaces
<1>. QED
  BY <1>3, <1>4, <1>6, <1>8, <1>9, <1>10 DEF CurrentInv, Texts

\* CurrentInv holds at the start.
LEMMA CurrentInit == Init => CurrentInv
<1>. SUFFICES ASSUME Init PROVE CurrentInv
  OBVIOUS
<1>1. SearchInv
  BY SearchInit
<1>2. (\A j \in Job : Todo(j) = {} /\ First(j) = {}) /\ vectors = {} /\ links = {} /\ \A f \in File : own[f] = Nothing
  BY DEF Init, Idle, Todo, First
<1>3. Paired /\ Texts
  BY <1>2 DEF Paired, Pairs, Texts, Ready, OwnText, HeldText
<1>4. Homed /\ Bare /\ Emptied /\ LastLinks /\ Strays
  BY <1>2 DEF Homed, Bare, Emptied, LastLinks, Strays
<1>5. Refill /\ Filled /\ Uploaded /\ UpToDate
  BY <1>2 DEF Refill, Filled, Uploaded, UpToDate
<1>. QED
  BY <1>1, <1>3, <1>4, <1>5 DEF CurrentInv

\* CurrentInv is kept by stuttering.
LEMMA CurrentStutter == ASSUME CurrentInv, UNCHANGED vars PROVE CurrentInv'
<1>1. /\ job' = job /\ file' = file /\ own' = own /\ links' = links /\ vectors' = vectors /\ raced' = raced
      /\ wiped' = wiped /\ spilled' = spilled /\ stranded' = stranded /\ faults' = faults /\ unfinished' = unfinished
  BY DEF vars, history
<1>2. /\ \A j \in Job : Todo(j)' = Todo(j) /\ First(j)' = First(j)
      /\ \A k, f : Chunks(k, f)' = Chunks(k, f)
      /\ \A f : (Alone(f)' <=> Alone(f)) /\ (There(f)' <=> There(f)) /\ Linked(f)' = Linked(f)
      /\ \A t : IsLinked(t)' <=> IsLinked(t)
      /\ \A k, f : (Blamed(k, f)' <=> Blamed(k, f)) /\ (Spared(k, f)' <=> Spared(k, f))
  BY <1>1 DEF Todo, First, Chunks, Alone, There, Linked, IsLinked, Blamed, Spared
<1>3. \A j, t : (Live(j, t)' <=> Live(j, t)) /\ (Done(j, t)' <=> Done(j, t)) /\ (HeldBy(j, t)' <=> HeldBy(j, t))
  <2>. TAKE j, t
  <2>1. Todo(j)' = Todo(j) /\ First(j)' = First(j)
    BY <1>1 DEF Todo, First
  <2>. QED
    BY <1>1, <1>2, <2>1 DEF Live, Done, HeldBy
<1>4. SearchInv'
  BY SearchNext DEF CurrentInv
<1>5. Paired'
  BY <1>2 DEF CurrentInv, Paired, Pairs
<1>6. Ready'
  BY <1>1, <1>2 DEF CurrentInv, Texts, Ready, ReadyCall
<1>7. OwnText'
  BY <1>1, <1>2 DEF CurrentInv, Texts, OwnText
<1>8. HeldText'
  BY <1>1, <1>2, <1>3 DEF CurrentInv, Texts, HeldText
<1>9. Homed'
  BY <1>2 DEF CurrentInv, Homed, HomedCall
<1>10. Bare'
  BY <1>2, <1>3 DEF CurrentInv, Bare
<1>11. Emptied'
  BY <1>1, <1>2 DEF CurrentInv, Emptied, EmptiedCall
<1>12. LastLinks'
  BY <1>2 DEF CurrentInv, LastLinks, LastLinksCall
<1>13. Strays'
  BY <1>1, <1>2 DEF CurrentInv, Strays, Pending
<1>14. Refill'
  BY <1>1, <1>2 DEF CurrentInv, Refill, RefillCall
<1>15. Filled'
  BY <1>1, <1>2, <1>3 DEF CurrentInv, Filled, Awaited
<1>16. Uploaded'
  BY <1>1, <1>2 DEF CurrentInv, Uploaded
<1>17. UpToDate'
  BY <1>1, <1>2, <1>3 DEF CurrentInv, UpToDate, Replaces
<1>. QED
  BY <1>4, <1>5, <1>6, <1>7, <1>8, <1>9, <1>10, <1>11, <1>12, <1>13, <1>14, <1>15, <1>16, <1>17 DEF CurrentInv, Texts

\* CurrentInv is inductive.
LEMMA CurrentNext == CurrentInv /\ [Next]_vars => CurrentInv'
<1>. SUFFICES ASSUME CurrentInv, [Next]_vars PROVE CurrentInv'
  OBVIOUS
<1>. QED
  BY CurrentStutter, CurrentArrive, CurrentCrash, CurrentStep DEF Next

\* FoundIsCurrent of KnowledgeFiles: after requests whose calls succeeded, a base
\* finds each linked file with its current text and no other, and nothing that is
\* not linked, nor the same hash under two files.
THEOREM FoundIsExact == Spec => []FoundIsCurrent
<1>1. Spec => []CurrentInv
  BY CurrentInit, CurrentNext, PTL DEF Spec
<1>2. CurrentInv => FoundIsCurrent
  <2>. SUFFICES ASSUME CurrentInv PROVE FoundIsCurrent
    OBVIOUS
  <2>1. Shape /\ Searchable /\ NoDuplicates
    BY DEF CurrentInv, SearchInv
  <2>2. Quiet => \A j \in Job : Todo(j) = {}
    BY DEF Quiet, Active, Todo
  <2>3. ASSUME Quiet, NEW l \in links, l \notin unfinished \cup spilled, Alone(l[2])
        PROVE  /\ Chunks(l[1], l[2]) # {}
               /\ \A v \in Chunks(l[1], l[2]) : v.text = file[l[2]].text
    <3>1. There(l[2]) /\ l = <<l[1], l[2]>>
      BY <2>1, <2>3 DEF Shape, Typed
    <3>2. Spared(l[1], l[2])
      BY <2>3, <3>1 DEF Spared
    <3>3. Chunks(l[1], l[2]) # {}
      <4>1. CASE l \notin wiped
        BY <2>1, <2>3, <4>1 DEF Searchable
      <4>2. CASE l \in wiped
        <5>1. ~\E j \in Job : Awaited(j, l[1], l[2])
          BY <2>2, <2>3 DEF Awaited
        <5>2. PICK v \in vectors : l = <<v.kb, v.file>>
          BY <2>3, <3>2, <4>2, <5>1 DEF CurrentInv, Filled
        <5>. QED
          BY <5>2 DEF Chunks
      <4>. QED
        BY <4>1, <4>2
    <3>4. ASSUME NEW v \in Chunks(l[1], l[2]) PROVE v.text = file[l[2]].text
      <4>1. v \in vectors /\ v.kb = l[1] /\ v.file = l[2]
        BY DEF Chunks
      <4>2. v.text = file[v.file].text \/ \E j \in Job : \E t \in Todo(j) : Replaces(j, t, v)
        BY <2>3, <3>1, <3>2, <4>1 DEF CurrentInv, UpToDate
      <4>. QED
        BY <2>2, <2>3, <4>1, <4>2
    <3>. QED
      BY <3>3, <3>4
  <2>4. Current
    BY <2>3 DEF Current
  <2>5. NoStray
    <3>. SUFFICES ASSUME Quiet, faults = 0, NEW v \in vectors, Alone(v.file)
                  PROVE  <<v.kb, v.file>> \in links \cup stranded
      BY DEF NoStray
    <3>1. ~Blamed(v.kb, v.file)
      BY DEF Blamed
    <3>2. ~Pending(v)
      BY <2>2 DEF Pending
    <3>. QED
      BY <3>1, <3>2 DEF CurrentInv, Strays
  <2>. QED
    BY <2>1, <2>4, <2>5 DEF FoundIsCurrent
<1>. QED
  BY <1>1, <1>2, PTL
=============================================================================
