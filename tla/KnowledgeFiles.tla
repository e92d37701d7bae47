--------------------------- MODULE KnowledgeFiles ---------------------------
(***************************************************************************)
(* The files of knowledge bases: rows of files and links in the database,  *)
(* and chunks in the vector database, one collection per knowledge base    *)
(* and one per file (routers/knowledge.py, routers/files.py,               *)
(* routers/retrieval.py).  No transaction spans the two databases.  A file *)
(* is one chunk here, and the hash of a text is the text.                  *)
(***************************************************************************)
EXTENDS Naturals, FiniteSets, SequencesExt

CONSTANTS
    File, Kb, Text,
    Job,         \* requests in flight at once
    MaxRequests, \* bound
    MaxFaults,   \* bound on failing calls and crashes
    Nothing

ASSUME FiniteAssumption == IsFiniteSet(File) /\ IsFiniteSet(Kb)
ASSUME NothingAssumption == Nothing \notin File \cup Kb \cup Text

VARIABLES
    file,    \* file[f]: its row, with data.content, data.status and hash
    own,     \* own[f]: the text in collection file-{f}
    links,   \* knowledge_file
    vectors, \* the chunks of the knowledge bases' collections
    job,     \* job[j]: the request's remaining calls and what it holds
    requests, faults, \* spent bounds
    raced,   \* <<f, g>>: a request about f overlapped one about g
    crashed, \* the process died
    wiped,   \* <<k, f>>: a request deleted f's chunks in order to store them anew,
             \* or goes on to delete them although it failed to remove the link
    unfinished, \* <<k, f>>: a store, link or unlinking of f was refused, failed or
                \* lost, or a request that emptied k did not reach its end
    unsaved, \* f: the write of the status that ends f's processing was lost
    spilled, \* <<k, f>>: a deletion by hash took f's chunks for another file's
    stranded \* <<k, f>>: the link went with f's row, at a removal from another base

history == <<raced, crashed, wiped, unfinished, unsaved, spilled, stranded>>
vars == <<file, own, links, vectors, job, requests, faults, history>>

Collection == Kb \cup {Nothing}  \* Nothing: the file's own
Fresh(status) == [status |-> status, text |-> Nothing, hash |-> Nothing]
There(f) == file[f].status \notin {"absent", "deleted"}
Free == [stage |-> "none"]
Idle == [todo |-> {}, held |-> Free, old |-> {}]

TypeOK ==
    /\ file \in [File -> [status : {"absent", "deleted", "pending", "processing", "completed", "failed"},
                          text : Text \cup {Nothing}, hash : Text \cup {Nothing}]]
    /\ \A f \in File : ~There(f) => file[f].text = Nothing /\ file[f].hash = Nothing
    /\ own \in [File -> Text \cup {Nothing}]
    /\ links \subseteq Kb \X File
    /\ \A v \in vectors : v.kb \in Kb /\ v.file \in File /\ v.text \in Text /\ v.hash \in Text \cup {Nothing}
    /\ \A v, w \in vectors : v.id = w.id => v = w
    /\ requests \in 0..MaxRequests
    /\ faults \in 0..MaxFaults

Init ==
    /\ file = [f \in File |-> Fresh("absent")]
    /\ own = [f \in File |-> Nothing]
    /\ links = {}
    /\ vectors = {}
    /\ job = [j \in Job |-> Idle]
    /\ requests = 0
    /\ faults = 0
    /\ raced = {}
    /\ crashed = FALSE
    /\ wiped = {}
    /\ unfinished = {}
    /\ unsaved = {}
    /\ spilled = {}
    /\ stranded = {}

Linked(f) == {k \in Kb : <<k, f>> \in links}
Chunks(k, f) == {v \in vectors : v.kb = k /\ v.file = f}

-----------------------------------------------------------------------------
(* Requests: the calls of each handler, ordered by their places; the first   *)
(* number of a place is a try block or an iteration of a loop.  A call that *)
(* raises skips the later ones of its block.                                *)

Active(j) == job[j].todo # {}
Call(at, do, k, f, text) == [at |-> at, do |-> do, kb |-> k, file |-> f, text |-> text, skips |-> at[1]]
Do(at, do, k, f) == Call(at, do, k, f, Nothing)
Store(at, k, f, text) == Call(at, "store", k, f, text)

\* A call without a file concerns a whole base.
Concerned(todo) ==
    LET named == {s.file : s \in todo} IN IF Nothing \in named THEN File ELSE named

\* Requests are interchangeable: the first idle one is taken.
Request(j, todo) ==
    /\ ~Active(j)
    /\ j = CHOOSE i \in Job : ~Active(i)
    /\ requests < MaxRequests
    /\ requests' = requests + 1
    /\ job' = [job EXCEPT ![j].todo = todo]
    /\ raced' = raced \cup UNION {(F \X Concerned(todo)) \cup (Concerned(todo) \X F) :
                                    F \in {Concerned(job[i].todo) : i \in {k \in Job : Active(k)}}}
    /\ UNCHANGED <<links, vectors, own, faults, crashed, wiped, unfinished, unsaved, spilled, stranded>>

\* An upload, in the background, possibly into a knowledge base.
Upload(j, f) ==
    /\ file[f].status = "absent"
    /\ \E t \in Text, c \in Collection :
          /\ Request(j, {Store(<<1, 1>>, Nothing, f, t)}
                        \cup IF c = Nothing THEN {}
                             ELSE {Do(<<1, 2>>, "processing", c, f), Store(<<1, 3>>, c, f, Nothing),
                                   Do(<<1, 4>>, "attach", c, f)})
          /\ file' = [file EXCEPT ![f] = Fresh("pending")]

AddFile(j, k, f) ==
    /\ There(f) /\ file[f].text # Nothing
    /\ Request(j, {Store(<<1, 1>>, k, f, Nothing), Do(<<1, 2>>, "link", k, f)})
    /\ UNCHANGED file

UpdateFile(j, k, f) ==
    /\ There(f) /\ k \in Linked(f)
    /\ Request(j, {Do(<<1, 1>>, "wipeFile", k, f), Store(<<1, 2>>, k, f, Nothing)})
    /\ UNCHANGED file

\* The clean-up after an unlinking is one try: what fails is skipped.
Unlinking(i, k, f) ==
    {Do(<<i, 1>>, "unlink", k, f), Do(<<i, 2>>, "drop", k, f), Call(<<i, 3>>, "dropHash", k, f, file[f].hash)}

\* The other bases that hold the file are not cleaned.
RemoveFile(j, k, f) ==
    /\ There(f) /\ k \in Linked(f)
    /\ \E delete_file \in BOOLEAN :
          Request(j, Unlinking(1, k, f) \cup IF delete_file
                                            THEN {Do(<<2, 1>>, "dropOwn", k, f), Do(<<3, 1>>, "dropRow", k, f)}
                                            ELSE {})
    /\ UNCHANGED file

\* The row goes first; the file's collection in a try of its own.
Dropping(i, f) == {Do(<<i, 1>>, "dropRow", Nothing, f), Do(<<i, 2>>, "dropOwn", Nothing, f)}

\* mutant: the bases that hold the file are not cleaned.
DeleteFile_KeepChunks(j, f) ==
    /\ There(f)
    /\ Request(j, Dropping(1, f))
    /\ UNCHANGED file

DeleteFile(j, f) ==
    /\ There(f)
    /\ LET kbs == SetToSeq(Linked(f))
           needed(s) == s.do = "dropHash" => s.text # Nothing
       IN  Request(j, {s \in UNION {Unlinking(i, kbs[i], f) : i \in DOMAIN kbs} : needed(s)}
                      \cup Dropping(Len(kbs) + 1, f))
    /\ UNCHANGED file

\* New content, which "spread" then takes to the bases that hold the file.
EditFile(j, f) ==
    /\ There(f)
    /\ \E t \in Text : Request(j, {Store(<<1, 1>>, Nothing, f, t), Do(<<2, 1>>, "spread", Nothing, f)})
    /\ UNCHANGED file

BatchAdd(j, k, F) ==
    /\ F # {} /\ \A f \in F : There(f) /\ file[f].text # Nothing
    /\ LET files == {f \in F : k \notin Linked(f)}
       IN  /\ files # {}
           /\ Request(j, {Call(<<1, 1>>, "batch", k, Nothing, [f \in files |-> file[f].text])})
    /\ UNCHANGED file

Reset(j, k) ==
    /\ Request(j, {Do(<<1, 1>>, "wipe", k, Nothing), Do(<<2, 1>>, "unlinkAll", k, Nothing)})
    /\ UNCHANGED file

\* The files are listed before the collections are deleted; a failing deletion
\* skips the base, a failing file only itself.
Reindex(j) ==
    /\ LET kbs == SetToSeq(Kb)
           files(k) == SetToSeq({f \in File : k \in Linked(f)})
           stores(i) == {[Store(<<i, n>>, kbs[i], files(kbs[i])[n], Nothing) EXCEPT !.skips = 0] :
                            n \in DOMAIN files(kbs[i])}
       IN  Request(j, UNION {{Do(<<i, 0>>, "wipe", kbs[i], Nothing)} \cup stores(i) : i \in DOMAIN kbs})
    /\ UNCHANGED file

-----------------------------------------------------------------------------
(* process_file                                                            *)

Before(s, t) == s.at[1] < t.at[1] \/ (s.at[1] = t.at[1] /\ s.at[2] < t.at[2])

\* The call that a request is in.
First(j) == {s \in job[j].todo : \A t \in job[j].todo \ {s} : Before(s, t)}

Rest(j, s) == job[j].todo \ {s}
Storing(j, s, stage) == s.do = "store" /\ job[j].held.stage = stage
Aborted(j, s) == {t \in Rest(j, s) : t.at[1] # s.skips}
Skipped(j, s) ==
    {<<t.kb, t.file>> : t \in {u \in job[j].todo : u.do = "store" /\ (u = s \/ u.at[1] = s.skips)}}
Turn(j, todo) == job' = [job EXCEPT ![j] = [todo |-> todo, held |-> Free, old |-> @.old]]
Hold(j, held) == job' = [job EXCEPT ![j].held = held]
Unused == (1..(Cardinality(vectors) + Cardinality(File))) \ {v.id : v \in vectors}

\* The i-th new chunk's uuid.
NewId(i) == SetToSeq(Unused)[i]

\* The exception that process_file raises.
Raises(j, s) ==
    /\ Turn(j, Aborted(j, s))
    /\ unfinished' = unfinished \cup Skipped(j, s)
    /\ UNCHANGED <<own, links, vectors, requests, raced, crashed, wiped, unsaved, spilled, stranded>>

\* mutant: an exception is only logged.
StoreRaises_Silent(j, s) == Raises(j, s) /\ UNCHANGED file

\* An exception marks the file failed and clears its hash.
StoreRaises(j, s) ==
    /\ Raises(j, s)
    /\ file' = [file EXCEPT ![s.file] =
                  IF There(s.file) THEN [status |-> "failed", text |-> @.text, hash |-> Nothing] ELSE @]

Missing(j, s) == Storing(j, s, "none") /\ ~There(s.file) /\ Raises(j, s) /\ UNCHANGED <<file, faults>>

\* New content drops the file's collection; a base gets what that collection
\* holds, or else the content of the row.
Load(j, s) ==
    LET f == s.file
        new == s.text
        text == IF new # Nothing THEN new ELSE file[f].text
    IN  /\ Storing(j, s, "none") /\ There(f)
        /\ own' = IF new # Nothing THEN [own EXCEPT ![f] = Nothing] ELSE own
        /\ Hold(j, [stage |-> "check", text |-> text, docs |-> IF new = Nothing /\ own[f] # Nothing THEN own[f] ELSE text])
        /\ UNCHANGED <<file, links, vectors, requests, faults, history>>

\* mutant: only the file's own chunks are looked at.
Rivals_Own(j, s) == {v \in vectors : v.kb = s.kb /\ v.hash = job[j].held.text /\ v.file = s.file}

Rivals(j, s) == {v \in vectors : v.kb = s.kb /\ v.hash = job[j].held.text}

\* What is committed to the row, whatever the search for duplicates finds.
Content(j, s) == IF There(s.file) THEN job[j].held.text ELSE Nothing

\* The row's content is committed, and the base searched for the same hash:
\* the first chunk found decides.
Check(j, s) ==
    /\ Storing(j, s, "check")
    /\ Rivals(j, s) = {} \/ \E v \in Rivals(j, s) : v.file = s.file
    /\ file' = [file EXCEPT ![s.file].text = Content(j, s)]
    /\ Hold(j, [job[j].held EXCEPT !.stage = "insert"])
    /\ UNCHANGED <<own, links, vectors, requests, faults, history>>

Duplicate(j, s) ==
    /\ Storing(j, s, "check")
    /\ \E v \in Rivals(j, s) : v.file # s.file
    /\ file' = [file EXCEPT ![s.file] = IF There(s.file)
                                       THEN [status |-> "failed", text |-> Content(j, s), hash |-> Nothing] ELSE @]
    /\ Raises(j, s)
    /\ UNCHANGED faults

\* The embeddings arrive and are inserted; a file's own collection that exists
\* is left as it is.
Insert(j, s) ==
    /\ Storing(j, s, "insert")
    /\ LET f == s.file
           k == s.kb
           held == job[j].held
       IN  /\ IF k = Nothing
              THEN /\ own' = [own EXCEPT ![f] = IF @ = Nothing THEN held.docs ELSE @]
                   /\ UNCHANGED <<vectors, wiped>>
              ELSE /\ vectors' = vectors \cup {[id |-> NewId(1), kb |-> k, file |-> f, text |-> held.docs, hash |-> held.text]}
                   /\ wiped' = wiped \ {<<k, f>>}
                   /\ UNCHANGED own
           /\ Hold(j, [held EXCEPT !.stage = "finish"])
    /\ UNCHANGED <<file, links, requests, faults, raced, crashed, unfinished, unsaved, spilled, stranded>>

\* The embedding call fails or times out, or another call at any stage raises.
StoreFails(j, s) ==
    /\ s.do = "store"
    /\ faults < MaxFaults
    /\ faults' = faults + 1
    /\ StoreRaises(j, s)

\* The writes of status and hash may be lost: what they raise is swallowed.
Finish(j, s) ==
    /\ Storing(j, s, "finish")
    /\ \/ /\ file' = [file EXCEPT ![s.file] =
                        IF There(s.file) THEN [status |-> "completed", text |-> @.text, hash |-> job[j].held.text] ELSE @]
          /\ UNCHANGED <<faults, unsaved>>
       \/ /\ faults < MaxFaults /\ faults' = faults + 1
          /\ unsaved' = unsaved \cup {s.file}
          /\ UNCHANGED file
    /\ Turn(j, Rest(j, s))
    /\ UNCHANGED <<own, links, vectors, requests, raced, crashed, wiped, unfinished, spilled, stranded>>

-----------------------------------------------------------------------------
(* The database                                                            *)

\* A call that succeeds.
Returns(j, s, do) == s.do = do /\ Turn(j, Rest(j, s)) /\ UNCHANGED <<requests, faults, raced, crashed, unfinished, unsaved>>

Marked(f, status) == [file EXCEPT ![f].status = IF There(f) THEN status ELSE @]

Processing(j, s) ==
    /\ Returns(j, s, "processing")
    /\ file' = Marked(s.file, "processing")
    /\ UNCHANGED <<own, links, vectors, wiped, spilled, stranded>>

\* None is returned when the link exists or the file is gone: an upload fails.
Link(j, s) ==
    LET fit == There(s.file) /\ s.kb \notin Linked(s.file)
    IN  /\ \/ Returns(j, s, "link") /\ UNCHANGED file
           \/ Returns(j, s, "attach") /\ file' = IF fit THEN file ELSE Marked(s.file, "failed")
        /\ links' = IF fit THEN links \cup {<<s.kb, s.file>>} ELSE links
        /\ UNCHANGED <<own, vectors, wiped, spilled, stranded>>

Unlink(j, s) ==
    /\ Returns(j, s, "unlink")
    /\ links' = links \ {<<s.kb, s.file>>}
    /\ UNCHANGED <<file, own, vectors, wiped, spilled, stranded>>

Hash(j, s) ==
    /\ Returns(j, s, "hash")
    /\ file' = [file EXCEPT ![s.file] = IF There(s.file) THEN [status |-> @.status, text |-> s.text, hash |-> s.text]
                                       ELSE @]
    /\ UNCHANGED <<own, links, vectors, wiped, spilled, stranded>>

\* The links go with the row.
DropRow(j, s) ==
    LET held == {l \in links : l[2] = s.file}
    IN  /\ Returns(j, s, "dropRow")
        /\ file' = [file EXCEPT ![s.file] = Fresh("deleted")]
        /\ links' = links \ held
        /\ stranded' = IF s.kb # Nothing THEN stranded \cup held ELSE stranded
        /\ UNCHANGED <<own, vectors, wiped, spilled>>

UnlinkAll(j, s) ==
    /\ Returns(j, s, "unlinkAll")
    /\ links' = links \ ({s.kb} \X File)
    /\ UNCHANGED <<file, own, vectors, wiped, spilled, stranded>>

\* A write fails, and the models swallow what it raises: the callers go on, to
\* delete the chunks of a file that is still linked too.  Only an upload that is
\* not linked fails, and a file whose row stays keeps its collection.
Unwritten(j, s) ==
    /\ s.do \in {"processing", "link", "attach", "unlink", "unlinkAll", "hash", "dropRow"}
    /\ faults < MaxFaults
    /\ faults' = faults + 1
    /\ Turn(j, IF s.do = "dropRow" THEN Aborted(j, s) ELSE Rest(j, s))
    /\ file' = IF s.do = "attach" THEN Marked(s.file, "failed") ELSE file
    /\ wiped' = IF s.do = "unlink" THEN wiped \cup {<<s.kb, s.file>>} ELSE wiped
    /\ unfinished' = unfinished \cup ({s.kb} \X IF s.file = Nothing THEN File ELSE {s.file})
    /\ UNCHANGED <<own, links, vectors, requests, raced, crashed, unsaved, spilled, stranded>>

\* mutant: the old chunks stay.
Propagation_KeepOld(i, k, f) == {Store(<<i, 1>>, k, f, Nothing)}

\* mutant: the old chunks go first.
Propagation_DropFirst(i, k, f) ==
    {Do(<<i, 1>>, "old", k, f), Do(<<i, 2>>, "dropOld", k, f), Store(<<i, 3>>, k, f, Nothing)}

\* The edited content goes to every base that holds the file: the new chunks
\* are added before the old ones are removed.
Propagation(i, k, f) ==
    {Do(<<i, 1>>, "old", k, f), Store(<<i, 2>>, k, f, Nothing), Do(<<i, 3>>, "dropOld", k, f)}

Spread(j, s) ==
    /\ s.do = "spread"
    /\ LET kbs == SetToSeq(Linked(s.file))
       IN  Turn(j, UNION {Propagation(i, kbs[i], s.file) : i \in DOMAIN kbs})
    /\ UNCHANGED <<file, own, links, vectors, requests, faults, history>>

-----------------------------------------------------------------------------
(* The vector database                                                     *)

\* save_docs_to_vector_db for a batch: no hash, hence no duplicate check.
BatchInsert(j, s) ==
    /\ s.do = "batch"
    /\ LET k == s.kb
           fs == SetToSeq(DOMAIN s.text)
           chunk(i) == [id |-> NewId(i), kb |-> k, file |-> fs[i], text |-> s.text[fs[i]], hash |-> Nothing]
       IN  /\ vectors' = vectors \cup {chunk(i) : i \in DOMAIN fs}
           /\ Turn(j, UNION {{Call(<<1, i>>, "hash", k, fs[i], s.text[fs[i]]), Do(<<2, i>>, "link", k, fs[i])} :
                                i \in DOMAIN fs})
    /\ UNCHANGED <<file, own, links, requests, faults, history>>

\* What a deletion by hash matches.  A null filter matches nothing or every
\* chunk without a hash, depending on the backend.
Hashed(k, hash) ==
    LET inKb == {v \in vectors : v.kb = k}
    IN  IF hash # Nothing THEN {{v \in inKb : v.hash = hash}}
        ELSE {{}, {v \in inKb : v.hash = Nothing}}

Drop(j, s) ==
    /\ Returns(j, s, "drop")
    /\ vectors' = vectors \ Chunks(s.kb, s.file)
    /\ UNCHANGED <<file, own, links, wiped, spilled, stranded>>

DropHash(j, s) ==
    /\ Returns(j, s, "dropHash")
    /\ \E taken \in Hashed(s.kb, s.text) :
          /\ vectors' = vectors \ taken
          /\ spilled' = spilled \cup {<<s.kb, v.file>> : v \in {w \in taken : w.file # s.file}}
    /\ UNCHANGED <<file, own, links, wiped, stranded>>

\* Of a base, or of one file in it.
Wipe(j, s) ==
    LET all == IF s.file = Nothing THEN {v \in vectors : v.kb = s.kb} ELSE Chunks(s.kb, s.file)
    IN  /\ Returns(j, s, "wipe") \/ Returns(j, s, "wipeFile")
        /\ vectors' = vectors \ all
        /\ wiped' = wiped \cup {<<s.kb, v.file>> : v \in all}
        /\ UNCHANGED <<file, own, links, spilled, stranded>>

DropOwn(j, s) ==
    /\ Returns(j, s, "dropOwn")
    /\ own' = [own EXCEPT ![s.file] = Nothing]
    /\ UNCHANGED <<file, links, vectors, wiped, spilled, stranded>>

Old(j, s) ==
    /\ s.do = "old"
    /\ job' = [job EXCEPT ![j] = [todo |-> Rest(j, s), held |-> Free, old |-> Chunks(s.kb, s.file)]]
    /\ UNCHANGED <<file, own, links, vectors, requests, faults, history>>

DropOld(j, s) ==
    /\ Returns(j, s, "dropOld")
    /\ vectors' = vectors \ job[j].old
    /\ UNCHANGED <<file, own, links, wiped, spilled, stranded>>

\* A call of the vector database or of a batch's embedding raises.
VectorFails(j, s) ==
    /\ s.do \in {"drop", "dropHash", "wipe", "wipeFile", "dropOwn", "old", "dropOld", "batch"}
    /\ faults < MaxFaults
    /\ faults' = faults + 1
    /\ Turn(j, Aborted(j, s))
    /\ unfinished' = unfinished \cup wiped \cup {<<t.kb, t.file>> : t \in job[j].todo}
                        \cup {<<v.kb, v.file>> : v \in {w \in vectors : w.kb = s.kb /\ s.file = Nothing}}
    /\ UNCHANGED <<file, own, links, vectors, requests, raced, crashed, wiped, unsaved, spilled, stranded>>

\* The process dies with its requests and background tasks.
Crash ==
    /\ faults < MaxFaults
    /\ \E j \in Job : Active(j)
    /\ faults' = faults + 1
    /\ crashed' = TRUE
    /\ job' = [j \in Job |-> Idle]
    /\ unfinished' = unfinished \cup wiped \cup (Kb \X {s.file : s \in UNION {job[j].todo : j \in Job}})
    /\ UNCHANGED <<file, own, links, vectors, requests, raced, wiped, unsaved, spilled, stranded>>

-----------------------------------------------------------------------------

Arrive(j) ==
    \/ \E f \in File : Upload(j, f) \/ DeleteFile(j, f) \/ EditFile(j, f)
    \/ \E f \in File, k \in Kb : AddFile(j, k, f) \/ UpdateFile(j, k, f) \/ RemoveFile(j, k, f)
    \/ \E k \in Kb : Reset(j, k) \/ \E F \in SUBSET File : BatchAdd(j, k, F)
    \/ Reindex(j)

Step(j) ==
    \E s \in First(j) :
        \/ Missing(j, s) \/ Load(j, s) \/ Check(j, s) \/ Duplicate(j, s) \/ Insert(j, s) \/ Finish(j, s)
        \/ Processing(j, s) \/ Link(j, s) \/ Unlink(j, s) \/ UnlinkAll(j, s) \/ Hash(j, s) \/ DropRow(j, s)
        \/ Spread(j, s) \/ BatchInsert(j, s) \/ Drop(j, s) \/ DropHash(j, s) \/ Wipe(j, s)
        \/ DropOwn(j, s) \/ Old(j, s) \/ DropOld(j, s)

Fails(j) == \E s \in First(j) : StoreFails(j, s) \/ VectorFails(j, s)

Loses(j) == \E s \in First(j) : Unwritten(j, s)

Next == Crash \/ \E j \in Job : Arrive(j) \/ Step(j) \/ Fails(j) \/ Loses(j)

\* Calls return or raise, and coroutines are resumed.
Fairness == \A j \in Job : WF_vars(Step(j))

Spec == Init /\ [][Next]_vars /\ Fairness

-----------------------------------------------------------------------------

Alone(f) == <<f, f>> \notin raced
Quiet == \A j \in Job : ~Active(j)

\* At every moment of a request, and whichever of its calls fails or whenever
\* the process dies, a file linked to a base can be found in it: chunks come
\* before the link and go after it, and new chunks come before the old ones go.
\* Not so for the handlers that empty a collection to fill it anew, nor where
\* the link could not be removed but its chunks go (wiped: models/knowledge.py
\* returns False, routers/knowledge.py and routers/files.py do not look), nor
\* after a deletion by hash, nor when requests about the file overlapped.
Searchable ==
    \A l \in links \ (wiped \cup spilled) : Alone(l[2]) => Chunks(l[1], l[2]) # {}

\* After requests whose calls succeeded, a linked file is found with its
\* current text and no other.
Current ==
    Quiet =>
        \A l \in links \ (unfinished \cup spilled) : Alone(l[2]) =>
            /\ Chunks(l[1], l[2]) # {}
            /\ \A v \in Chunks(l[1], l[2]) : v.text = file[l[2]].text

\* Without failures nothing is found that is not linked, but for files whose row
\* was deleted with the removal from another base.
NoStray ==
    Quiet /\ faults = 0 => \A v \in vectors : Alone(v.file) => <<v.kb, v.file>> \in links \cup stranded

\* Of the texts stored with a hash, a base holds no second copy under another
\* file, unless the requests that brought the two overlapped.
NoDuplicates ==
    \A v, w \in vectors :
        v.kb = w.kb /\ v.hash = w.hash /\ v.hash # Nothing /\ <<v.file, w.file>> \notin raced => v.file = w.file

\* What a search in a base finds is exactly its linked files' current texts,
\* each once.
FoundIsCurrent == Current /\ NoStray /\ NoDuplicates

\* "Deleting files now properly removes associated knowledge base embeddings"
\* (CHANGELOG.md:1782).
DeletedIsGone == Quiet /\ faults = 0 => \A v \in vectors : Alone(v.file) => There(v.file)

\* An upload does not stay pending, unless the process dies or the write of the
\* status that ends it is lost.
UploadResolves ==
    \A f \in File :
        file[f].status \in {"pending", "processing"} ~> crashed \/ f \in unsaved \/ file[f].status \notin {"pending", "processing"}
=============================================================================
